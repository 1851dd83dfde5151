------------------------- MODULE FirewallPolicyProofs -------------------------
(***************************************************************************)
(* What FirewallPolicy promises, for any rules, transactions and packets.  *)
(***************************************************************************)
EXTENDS FirewallPolicy, FiniteSetTheorems, SequenceTheorems, WellFoundedInduction, TLAPS

(***************************************************************************)
(* Addresses.                                                              *)
(***************************************************************************)
\* The two families share no address.
LEMMA Members ==
  /\ 0 \in V4 /\ 1 \in V4 /\ 2 \in V4 /\ 3 \in V4 /\ 4 \in V6 /\ 5 \in V6
  /\ 0 \notin V6 /\ 4 \notin V4 /\ 5 \notin V4
  /\ \A x \in 0..5 : x \in V4 \/ x \in V6
  /\ \A x \in V4 : x \notin V6
  /\ \A x \in V6 : x \notin V4
  /\ V4 \union V6 = 0..5 /\ Loopback4 \in V4 /\ Loopback6 \in V6
BY DEF V4, V6, Loopback4, Loopback6

\* The widths of blocks.
LEMMA Widths ==
  /\ Width(0) = 4 /\ Width(1) = 2 /\ Width(2) = 1
  /\ 0 \div 1 # 2 \div 1 /\ 0 \div 2 # 2 \div 2
  /\ \A a \in V4 : a \div 4 = 0 /\ a \div 1 = a
  /\ ~ 0 > 0 /\ \A n \in 0..2 : n = 0 \/ n = 1 \/ n = 2
BY DEF Width, V4

\* An address specification is its three fields.
LEMMA AddrIs ==
  ASSUME NEW s \in AddrSpec
  PROVE  /\ s.k \in {"", "any", "junk", "ip", "cidr"} /\ s.base \in 0..5 /\ s.len \in 0..2
         /\ s.k \in {"", "any", "junk"} => s.base = 0 /\ s.len = 0
         /\ s.k = "ip" => s.len = 0
         /\ s.base \notin V4 => s.len <= 1
         /\ s = [k |-> s.k, base |-> s.base, len |-> s.len]
<1>1. CASE s \in [k : {"", "any", "junk"}, base : {0}, len : {0}]
  <2>1. s.k \in {"", "any", "junk"} /\ s.base = 0 /\ s.len = 0
    BY <1>1
  <2>2. s = [k |-> s.k, base |-> s.base, len |-> s.len]
    BY <1>1
  <2>3. 0 \in 0..5 /\ 0 \in 0..2 /\ 0 \in V4
    BY DEF V4
  <2>4. QED
    BY <2>1, <2>2, <2>3
<1>2. CASE s \in [k : {"ip"}, base : V4 \union V6, len : {0}]
  <2>1. s.k = "ip" /\ s.base \in 0..5 /\ s.len = 0
    BY <1>2 DEF V4, V6
  <2>2. s = [k |-> s.k, base |-> s.base, len |-> s.len]
    BY <1>2
  <2>3. QED
    BY <2>1, <2>2
<1>3. CASE s \in [k : {"cidr"}, base : V4, len : 0..2]
  <2>1. s.k = "cidr" /\ s.base \in 0..3 /\ s.len \in 0..2
    BY <1>3 DEF V4
  <2>2. s = [k |-> s.k, base |-> s.base, len |-> s.len]
    BY <1>3
  <2>3. QED
    BY <2>1, <2>2 DEF V4
<1>4. CASE s \in [k : {"cidr"}, base : V6, len : 0..1]
  <2>1. s.k = "cidr" /\ s.base \in 4..5 /\ s.len \in 0..1
    BY <1>4 DEF V6
  <2>2. s = [k |-> s.k, base |-> s.base, len |-> s.len]
    BY <1>4
  <2>3. QED
    BY <2>1, <2>2 DEF V4
<1>5. QED
  BY <1>1, <1>2, <1>3, <1>4 DEF AddrSpec

\* The numbers of an address specification.
LEMMA AddrNumbers ==
  ASSUME NEW s \in AddrSpec
  PROVE  s.base \in 0..5 /\ s.len \in {0, 1, 2} /\ (s.base \notin V4 => s.base \in V6 /\ s.len \in {0, 1})
<1>1. s.base \in 0..5 /\ s.len \in 0..2 /\ (s.base \notin V4 => s.len <= 1)
  BY AddrIs
<1>2. QED
  BY <1>1, Members

\* Where the fields agree the specifications do.
LEMMA AddrSame ==
  ASSUME NEW s \in AddrSpec, NEW t \in AddrSpec, s.k = t.k, s.base = t.base, s.len = t.len
  PROVE  s = t
<1>1. s = [k |-> s.k, base |-> s.base, len |-> s.len] /\ t = [k |-> t.k, base |-> t.base, len |-> t.len]
  BY AddrIs
<1>2. QED
  BY <1>1

\* The specifications of a block.
LEMMA AddrMade ==
  /\ NoAddr \in AddrSpec /\ NoAddr.k = ""
  /\ \A b \in 0..5 : [k |-> "ip", base |-> b, len |-> 0] \in AddrSpec
  /\ \A b \in V4, n \in 0..2 : [k |-> "cidr", base |-> b, len |-> n] \in AddrSpec
  /\ \A b \in V6, n \in 0..1 : [k |-> "cidr", base |-> b, len |-> n] \in AddrSpec
BY DEF AddrSpec, NoAddr, V4, V6

\* The first address of a block is in it, and the block of the first address is
\* the same block.
LEMMA FirstIs ==
  ASSUME NEW s \in AddrSpec, s.k = "cidr", s.len > 0
  PROVE  /\ First(s) \in 0..5 /\ (First(s) \in V4 <=> s.base \in V4)
         /\ Block(First(s), s.len) = Block(s.base, s.len)
         /\ First([k |-> "cidr", base |-> First(s), len |-> s.len]) = First(s)
<1>1. s.base \in 0..5 /\ s.len \in 0..2
  BY AddrIs
<1>2. CASE s.base \in V4
  <2>1. CASE s.len = 1
    <3>1. First(s) = 2 * (s.base \div 2) /\ Width(s.len) = 2
      BY <1>2, <2>1 DEF First, Width
    <3>2. First(s) \in V4 /\ First(s) \div 2 = s.base \div 2
      BY <1>2, <3>1 DEF V4
    <3>3. Block(First(s), s.len) = Block(s.base, s.len)
      BY <1>2, <3>1, <3>2 DEF Block
    <3>4. First([k |-> "cidr", base |-> First(s), len |-> s.len]) = 2 * (First(s) \div 2)
      BY <3>1, <3>2 DEF First
    <3>5. 2 * (First(s) \div 2) = First(s)
      BY <3>1, <3>2
    <3>6. QED
      BY <1>2, <3>2, <3>3, <3>4, <3>5 DEF V4
  <2>2. CASE s.len = 2
    <3>1. First(s) = s.base /\ Width(s.len) = 1
      BY <1>2, <2>2 DEF First, Width, V4
    <3>2. QED
      BY <1>2, <3>1 DEF First, V4
  <2>3. QED
    BY <1>1, <2>1, <2>2
<1>3. CASE s.base \notin V4
  BY <1>1, <1>3 DEF First
<1>4. QED
  BY <1>2, <1>3

\* The hosts of an address.
LEMMA HostsAre ==
  ASSUME NEW s \in AddrSpec
  PROVE  /\ s.k = "junk" => Hosts(s) = {}
         /\ s.k \in {"", "any"} => Hosts(s) = 0..5
         /\ s.k = "ip" => Hosts(s) = {s.base}
         /\ s.k = "cidr" => Hosts(s) = Block(s.base, s.len)
         /\ s.k \in {"ip", "cidr"} => s.base \in Hosts(s) /\ Hosts(s) \subseteq IF s.base \in V4 THEN V4 ELSE V6
<1>1. s.k \in {"", "any", "junk", "ip", "cidr"} /\ s.base \in 0..5 /\ s.len \in 0..2
  BY AddrIs
<1>2. s.base \in V4 \/ s.base \in V6
  BY <1>1, Members
<1>3. V4 \union V6 = 0..5
  BY Members
<1>4. s.base \in Block(s.base, s.len) /\ Block(s.base, s.len) \subseteq IF s.base \in V4 THEN V4 ELSE V6
  BY <1>1, <1>2 DEF Block
<1>5. QED
  BY <1>1, <1>2, <1>3, <1>4 DEF Hosts

\* What a listed address is.
LEMMA LineAddrIs ==
  ASSUME NEW e \in LineAddr
  PROVE  /\ e \in AddrSpec /\ e.k \in {"", "ip", "cidr"}
         /\ e.k = "cidr" => e.len > 0 /\ First(e) = e.base
         /\ e.k = "" => e = NoAddr
         /\ NormAddr(e) = e
<1>1. e \in AddrSpec /\ e.k \in {"", "ip", "cidr"} /\ (e.k = "cidr" => e.len > 0 /\ First(e) = e.base)
  BY DEF LineAddr
<1>2. e.k = "" => e = NoAddr
  BY <1>1, AddrIs, AddrSame, AddrMade DEF NoAddr
<1>3. e.k = "cidr" => e.len # 0
  BY <1>1, Widths
<1>4. QED
  BY <1>1, <1>2, <1>3 DEF NormAddr

\* A block of a single address.
LEMMA FullBlock ==
  ASSUME NEW b \in 0..5
  PROVE  /\ Full(b) \in {1, 2} /\ (b \notin V4 => Full(b) = 1) /\ Block(b, Full(b)) = {b}
         /\ First([k |-> "cidr", base |-> b, len |-> Full(b)]) = b
<1>1. CASE b \in V4
  <2>1. Full(b) = 2 /\ Width(2) = 1 /\ b \notin V6
    BY <1>1 DEF Full, Width, V4, V6
  <2>2. \A a \in V4 : a \div 1 = a
    BY DEF V4
  <2>3. Block(b, 2) = {b}
    BY <1>1, <2>1, <2>2 DEF Block
  <2>4. First([k |-> "cidr", base |-> b, len |-> Full(b)]) = b
    BY <1>1, <2>1 DEF First, V4
  <2>5. Block(b, Full(b)) = {b}
    BY <2>1, <2>3
  <2>6. QED
    BY <1>1, <2>1, <2>4, <2>5
<1>2. CASE b \notin V4
  BY <1>2 DEF Full, Block, First
<1>3. QED
  BY <1>1, <1>2

\* A block that starts with its first address may be listed.
LEMMA BlockIs ==
  ASSUME NEW b \in 0..5, NEW n \in {1, 2}, b \notin V4 => n = 1, NEW c, c = [k |-> "cidr", base |-> b, len |-> n],
         First(c) = b
  PROVE  c \in LineAddr /\ Hosts(c) = Block(b, n) /\ c.k = "cidr"
<1>1. n \in 0..2 /\ 1 \in 0..1 /\ n > 0 /\ (b \notin V4 => b \in V6)
  BY Members
<1>2. c \in AddrSpec
  BY <1>1, AddrMade
<1>3. c.k = "cidr" /\ c.base = b /\ c.len = n
  OBVIOUS
<1>4. QED
  BY <1>1, <1>2, <1>3, HostsAre DEF LineAddr

\* What iptables-save makes of an address.
LEMMA SavedIs ==
  ASSUME NEW s \in AddrSpec, s.k # "junk"
  PROVE  /\ Saved(s) \in LineAddr
         /\ s.k = "ip" \/ (s.k = "cidr" /\ s.len # 0) => Saved(s).k = "cidr" /\ Hosts(Saved(s)) = Hosts(s)
         /\ s.k \in {"", "any"} \/ (s.k = "cidr" /\ s.len = 0) => Saved(s) = NoAddr
<1>1. s.k \in {"", "any", "ip", "cidr"}
  BY AddrIs
<1>2. s.base \in 0..5 /\ s.len \in {0, 1, 2} /\ (s.base \notin V4 => s.len \in {0, 1})
  BY AddrNumbers
<1>3. s.len # 0 => s.len > 0 /\ s.len \in {1, 2}
  BY <1>2
<1>4. CASE s.k = "ip"
  <2> DEFINE c == [k |-> "cidr", base |-> s.base, len |-> Full(s.base)]
  <2>1. Saved(s) = c
    BY <1>4 DEF Saved
  <2>2. Full(s.base) \in {1, 2} /\ (s.base \notin V4 => Full(s.base) = 1) /\ First(c) = s.base
    BY <1>2, FullBlock
  <2>3. c \in LineAddr /\ Hosts(c) = Block(s.base, Full(s.base)) /\ c.k = "cidr"
    BY <1>2, <2>2, BlockIs
  <2>4. Hosts(s) = {s.base}
    BY <1>4, HostsAre
  <2>5. QED
    BY <1>2, <1>4, <2>1, <2>3, <2>4, FullBlock
<1>5. CASE s.k = "cidr" /\ s.len # 0
  <2> DEFINE c == [k |-> "cidr", base |-> First(s), len |-> s.len]
  <2>1. Saved(s) = c
    BY <1>3, <1>5 DEF Saved
  <2>2. /\ First(s) \in 0..5 /\ (First(s) \in V4 <=> s.base \in V4) /\ First(c) = First(s)
        /\ Block(First(s), s.len) = Block(s.base, s.len)
    BY <1>3, <1>5, FirstIs
  <2>3. s.len \in {1, 2} /\ (First(s) \notin V4 => s.len = 1)
    BY <1>2, <1>5, <2>2
  <2>4. c \in LineAddr /\ Hosts(c) = Block(First(s), s.len) /\ c.k = "cidr"
    BY <2>2, <2>3, BlockIs
  <2>5. Hosts(s) = Block(s.base, s.len)
    BY <1>5, HostsAre
  <2>6. QED
    BY <1>5, <2>1, <2>2, <2>4, <2>5
<1>6. CASE s.k \in {"", "any"} \/ (s.k = "cidr" /\ s.len = 0)
  <2>1. Saved(s) = NoAddr
    BY <1>6, Widths DEF Saved
  <2>2. QED
    BY <1>6, <2>1, AddrMade DEF LineAddr
<1>7. QED
  BY <1>1, <1>4, <1>5, <1>6

\* What ufw makes of an address.
LEMMA NormalIs ==
  ASSUME NEW s \in AddrSpec, s.k \notin {"any", "junk"}
  PROVE  Normal(s) \in LineAddr
<1>1. s.k \in {"", "ip", "cidr"}
  BY AddrIs
<1>6. s.base \in 0..5
  BY AddrNumbers
<1>2. CASE s.k # "cidr"
  BY <1>1, <1>2 DEF Normal, LineAddr
<1>3. CASE s.k = "cidr" /\ s.len = Full(s.base)
  <2> DEFINE c == [k |-> "ip", base |-> s.base, len |-> 0]
  <2>1. Normal(s) = c
    BY <1>3 DEF Normal
  <2>2. c \in AddrSpec
    BY <1>6, AddrMade
  <2>3. c.k = "ip"
    OBVIOUS
  <2>4. QED
    BY <2>1, <2>2, <2>3 DEF LineAddr
<1>4. CASE s.k = "cidr" /\ s.len # Full(s.base)
  BY <1>4, SavedIs DEF Normal
<1>5. QED
  BY <1>2, <1>3, <1>4

\* The addresses of a family.
World(f) == CASE f = "ipv4" -> V4 [] f = "ipv6" -> V6 [] OTHER -> V4 \union V6

\* A family has all of its addresses.
LEMMA Worlds ==
  ASSUME NEW f \in {"ipv4", "ipv6", "both"}
  PROVE  /\ World(f) \in {V4, V6, V4 \union V6}
         /\ \A x \in 0..5 : x \in V4 \/ x \in V6
         /\ \A x \in V4 : x \in World(f) => V4 \subseteq World(f)
         /\ \A x \in V6 : x \in World(f) => V6 \subseteq World(f)
         /\ V4 \union V6 = 0..5 /\ \A x \in V4 : x \notin V6
BY Members DEF World

\* No single address is a whole family.
LEMMA OneTwo == \A b : ~ V4 \subseteq {b} /\ ~ V6 \subseteq {b}
<1>1. 0 # 1 /\ 4 # 5
  OBVIOUS
<1>2. QED
  BY <1>1, Members

\* No listed address but the one that is left out stands for a whole family.
LEMMA NeverWhole ==
  ASSUME NEW e \in LineAddr, e.k # ""
  PROVE  ~ V4 \subseteq Hosts(e) /\ ~ V6 \subseteq Hosts(e)
<1>0. e \in AddrSpec /\ e.k \in {"ip", "cidr"} /\ (e.k = "cidr" => e.len > 0)
  BY LineAddrIs
<1>1. e.base \in 0..5 /\ e.len \in {0, 1, 2} /\ (e.base \notin V4 => e.base \in V6 /\ e.len \in {0, 1})
  BY <1>0, AddrNumbers
<1>2. e.k = "cidr" => e.len # 0
  BY <1>0, <1>1
<1>3. CASE e.k = "ip" \/ (e.k = "cidr" /\ e.base \notin V4)
  <2>1. Hosts(e) = {e.base}
    BY <1>0, <1>1, <1>2, <1>3, HostsAre DEF Block
  <2>2. QED
    BY <2>1, Members, OneTwo
<1>4. CASE e.k = "cidr" /\ e.base \in V4
  <2>1. Hosts(e) = {a \in V4 : a \div Width(e.len) = e.base \div Width(e.len)}
    BY <1>0, <1>4, HostsAre DEF Block
  <2>2. Width(e.len) \in {1, 2}
    BY <1>1, <1>2, <1>4, Widths
  <2>3. 0 \div Width(e.len) # 2 \div Width(e.len)
    BY <2>2, Widths
  <2>4. QED
    BY <2>1, <2>3, Members
<1>5. QED
  BY <1>0, <1>3, <1>4

\* Where an address has all its hosts of a family in a listed one, the analysis
\* finds it inside of that.
LEMMA InsideReported ==
  ASSUME NEW s \in AddrSpec, NEW e \in LineAddr, NEW f \in {"ipv4", "ipv6", "both"},
         Hosts(s) \intersect World(f) # {}, Hosts(s) \intersect World(f) \subseteq Hosts(e)
  PROVE  AddrSubset(s, e)
<1>1. e \in AddrSpec /\ e.k \in {"", "ip", "cidr"} /\ NormAddr(e) = e
  BY LineAddrIs
<1>2. s.k \in {"", "any", "ip", "cidr"}
  BY AddrIs, HostsAre
<1>9. s.base \in V4 \/ s.base \in V6
  BY AddrNumbers, Members
<1>3. CASE e.k = ""
  BY <1>1, <1>3 DEF AddrSubset
<1>4. CASE e.k # "" /\ Hosts(s) \in {V4, V6, 0..5}
  <2>1. PICK x : x \in Hosts(s) \intersect World(f)
    OBVIOUS
  <2>2. V4 \subseteq Hosts(e) \/ V6 \subseteq Hosts(e)
    BY <1>4, <2>1, Worlds
  <2>3. QED
    BY <1>4, <2>2, NeverWhole
<1>5. ASSUME s.k \in {"", "any"} \/ (s.k = "cidr" /\ s.len = 0)
      PROVE  Hosts(s) \in {V4, V6, 0..5}
  <2>1. CASE s.k \in {"", "any"}
    BY <2>1, HostsAre
  <2>2. CASE s.k = "cidr" /\ s.len = 0
    <3>1. Hosts(s) = Block(s.base, 0)
      BY <2>2, HostsAre
    <3>2. QED
      BY <3>1, Widths DEF Block
  <2>3. QED
    BY <1>5, <2>1, <2>2
<1>6. CASE e.k # "" /\ s.k = "ip"
  <2>1. NormAddr(s) = s /\ Hosts(s) = {s.base} /\ s.base \in Hosts(e)
    BY <1>6, HostsAre DEF NormAddr
  <2>2. CASE e.k = "ip"
    <3>1. s.base = e.base /\ s.len = e.len /\ s.k = e.k
      BY <1>1, <1>6, <2>1, <2>2, HostsAre, AddrIs
    <3>2. QED
      BY <1>1, <2>1, <3>1, AddrSame DEF AddrSubset
  <2>3. CASE e.k = "cidr"
    BY <1>1, <1>6, <2>1, <2>3 DEF AddrSubset
  <2>4. QED
    BY <1>1, <1>6, <2>2, <2>3
<1>7. CASE e.k # "" /\ s.k = "cidr" /\ s.len # 0
  <2>1. NormAddr(s) = s
    BY <1>7 DEF NormAddr
  <2>2. s.base \in Hosts(s) /\ Hosts(s) \subseteq World(f)
    BY <1>7, <1>9, HostsAre, Worlds
  <2>3. CASE e.k = "ip"
    <3>1. Hosts(e) = {e.base} /\ e.base \in Hosts(s)
      BY <1>1, <2>2, <2>3, HostsAre
    <3>2. QED
      BY <1>1, <1>7, <2>1, <2>3, <3>1 DEF AddrSubset
  <2>4. CASE e.k = "cidr"
    BY <1>1, <1>7, <2>1, <2>2, <2>4 DEF AddrSubset
  <2>5. QED
    BY <1>1, <1>7, <2>3, <2>4
<1>8. QED
  BY <1>2, <1>3, <1>4, <1>5, <1>6, <1>7

\* What is found inside a listed address, and is no block, is inside of it.
LEMMA ReportedInside ==
  ASSUME NEW s \in AddrSpec, s.k # "cidr", NEW e \in LineAddr, AddrSubset(s, e)
  PROVE  Hosts(s) \subseteq Hosts(e)
<1>1. e \in AddrSpec /\ e.k \in {"", "ip", "cidr"} /\ NormAddr(e) = e
  BY LineAddrIs
<1>2. NormAddr(s) = IF s.k = "any" THEN NoAddr ELSE s
  BY DEF NormAddr
<1>3. Hosts(s) \subseteq 0..5
  BY HostsAre, AddrIs, Worlds
<1>4. CASE e.k = ""
  BY <1>1, <1>3, <1>4, HostsAre
<1>5. CASE NormAddr(s) = e /\ e.k # ""
  BY <1>2, <1>5, AddrMade
<1>6. CASE e.k = "cidr" /\ NormAddr(s).k = "ip" /\ NormAddr(s).base \in Hosts(e)
  BY <1>2, <1>6, AddrMade, HostsAre
<1>7. QED
  <2>1. NormAddr(s).k # "cidr"
    BY <1>2, AddrMade
  <2>2. QED
    BY <1>1, <1>4, <1>5, <1>6, <2>1 DEF AddrSubset

\* A listed address is one of a line, or one that was misread.
ListedAddr == LineAddr \union {JunkAddr}

\* A misread address stands for no host.
LEMMA MisreadIs ==
  JunkAddr \in AddrSpec /\ JunkAddr.k = "junk" /\ Hosts(JunkAddr) = {} /\ NormAddr(JunkAddr) = JunkAddr
<1>1. JunkAddr \in AddrSpec /\ JunkAddr.k = "junk"
  BY DEF JunkAddr, AddrSpec
<1>2. QED
  BY <1>1, HostsAre DEF NormAddr

\* InsideReported and ReportedInside, of listed addresses.
LEMMA ListedInside ==
  ASSUME NEW s \in AddrSpec, NEW e \in ListedAddr
  PROVE  /\ \A f \in {"ipv4", "ipv6", "both"} :
              (Hosts(s) \intersect World(f) # {} /\ Hosts(s) \intersect World(f) \subseteq Hosts(e)) => AddrSubset(s, e)
         /\ (s.k # "cidr" /\ AddrSubset(s, e)) => Hosts(s) \subseteq Hosts(e)
<1>1. CASE e \in LineAddr
  BY <1>1, InsideReported, ReportedInside
<1>2. CASE e = JunkAddr
  <2>1. Hosts(e) = {} /\ NormAddr(e) = e /\ e.k = "junk"
    BY <1>2, MisreadIs
  <2>2. (s.k # "cidr" /\ AddrSubset(s, e)) => NormAddr(s) = e
    BY <2>1 DEF AddrSubset
  <2>3. ASSUME s.k # "cidr", NormAddr(s) = e
        PROVE  Hosts(s) = {}
    <3>1. NormAddr(s) \in {NoAddr, s} /\ NoAddr.k = ""
      BY AddrMade DEF NormAddr
    <3>2. s = e
      BY <2>1, <2>3, <3>1
    <3>3. QED
      BY <2>1, <3>2
  <2>4. QED
    BY <2>1, <2>2, <2>3
<1>3. QED
  BY <1>1, <1>2 DEF ListedAddr

(***************************************************************************)
(* Sequences.                                                              *)
(***************************************************************************)
\* A nonempty set of positions has a first.
LEMMA Least ==
  ASSUME NEW I \in SUBSET Nat, I # {}
  PROVE  Min(I) \in I /\ \A j \in I : Min(I) <= j
<1> DEFINE R == OpToRel(<, Nat)
<1>1. IsWellFoundedOn(R, Nat)
  BY NatLessThanWellFounded
<1>2. \A x, y \in Nat : y < x => <<y, x>> \in R
  BY DEF OpToRel
<1>3. PICK x \in I : \A y \in I : <<y, x>> \notin R
  <2> HIDE DEF R
  <2>1. QED
    BY <1>1, WFMin
<1>4. ASSUME NEW y \in I PROVE x <= y
  <2>1. x \in Nat /\ y \in Nat /\ ~ (y < x)
    BY <1>2, <1>3
  <2>2. QED
    BY <2>1
<1>5. QED
  BY <1>4 DEF Min

\* A sequence with an element put in: its length and its elements.
LEMMA PutIn ==
  ASSUME NEW S, NEW s \in Seq(S), NEW i \in 1..(Len(s) + 1), NEW x \in S, NEW t, t = InsertAt(s, i, x)
  PROVE  /\ t \in Seq(S) /\ Len(t) = Len(s) + 1
         /\ \A j \in 1..(i - 1) : t[j] = s[j]
         /\ t[i] = x
         /\ \A j \in i..Len(s) : t[j + 1] = s[j]
<1>1. Len(s) \in Nat
  OBVIOUS
<1>2. SubSeq(s, 1, i - 1) \in Seq(S) /\ Len(SubSeq(s, 1, i - 1)) = i - 1
      /\ \A j \in 1..(i - 1) : SubSeq(s, 1, i - 1)[j] = s[j]
  BY <1>1
<1>3. SubSeq(s, i, Len(s)) \in Seq(S) /\ Len(SubSeq(s, i, Len(s))) = Len(s) - i + 1
      /\ \A j \in 1..(Len(s) - i + 1) : SubSeq(s, i, Len(s))[j] = s[i + j - 1]
  BY <1>1
<1> DEFINE a == SubSeq(s, 1, i - 1)
           b == SubSeq(s, i, Len(s))
<1>4. t = (a \o <<x>>) \o b
  BY DEF InsertAt
<1> HIDE DEF a, b
<1>5. a \in Seq(S) /\ Len(a) = i - 1 /\ (\A j \in 1..(i - 1) : a[j] = s[j]) /\ b \in Seq(S) /\ Len(b) = Len(s) - i + 1
      /\ \A j \in 1..(Len(s) - i + 1) : b[j] = s[i + j - 1]
  BY <1>2, <1>3 DEF a, b
<1> DEFINE e == <<x>>
           c == a \o e
<1>6. e \in Seq(S) /\ Len(e) = 1 /\ e[1] = x
  OBVIOUS
<1>7. c \in Seq(S) /\ Len(c) = i /\ (\A j \in 1..(i - 1) : c[j] = s[j]) /\ c[i] = x /\ t = c \o b
  <2>1. t = c \o b
    BY <1>4
  <2> HIDE DEF e
  <2>2. /\ a \o e \in Seq(S) /\ Len(a \o e) = Len(a) + Len(e)
        /\ \A k \in 1 .. Len(a) + Len(e) : (a \o e)[k] = IF k <= Len(a) THEN a[k] ELSE e[k - Len(a)]
    BY <1>5, <1>6, ConcatProperties
  <2> HIDE DEF c
  <2>3. Len(c) = i /\ c \in Seq(S) /\ \A k \in 1..i : c[k] = IF k <= i - 1 THEN a[k] ELSE e[k - (i - 1)]
    BY <1>5, <1>6, <2>2 DEF c
  <2>4. i \in 1..i /\ ~ (i <= i - 1) /\ i - (i - 1) = 1
    OBVIOUS
  <2>5. \A j \in 1..(i - 1) : c[j] = s[j]
    BY <1>5, <2>3
  <2>6. c[i] = x
    BY <1>6, <2>3, <2>4
  <2>7. QED
    BY <2>1, <2>3, <2>5, <2>6
<1> HIDE DEF c
<1>8. /\ t \in Seq(S) /\ Len(t) = i + (Len(s) - i + 1)
      /\ \A k \in 1..(i + (Len(s) - i + 1)) : t[k] = IF k <= i THEN c[k] ELSE b[k - i]
  <2>1. /\ c \o b \in Seq(S) /\ Len(c \o b) = Len(c) + Len(b)
        /\ \A k \in 1 .. Len(c) + Len(b) : (c \o b)[k] = IF k <= Len(c) THEN c[k] ELSE b[k - Len(c)]
    BY <1>5, <1>7, ConcatProperties
  <2>2. Len(c) = i /\ Len(b) = Len(s) - i + 1 /\ t = c \o b
    BY <1>5, <1>7
  <2>3. QED
    BY <2>1, <2>2
<1>9. \A j \in i..Len(s) : t[j + 1] = s[j]
  <2>1. TAKE j \in i..Len(s)
  <2>2. j + 1 \in 1..(i + (Len(s) - i + 1)) /\ ~ (j + 1 <= i) /\ j + 1 - i \in 1..(Len(s) - i + 1)
    BY <1>1
  <2>3. t[j + 1] = b[j + 1 - i]
    BY <1>8, <2>2
  <2>4. b[j + 1 - i] = s[i + (j + 1 - i) - 1]
    BY <1>5, <2>2
  <2>5. i + (j + 1 - i) - 1 = j
    BY <1>1
  <2>6. QED
    BY <2>3, <2>4, <2>5
<1>10. QED
  BY <1>1, <1>7, <1>8, <1>9

\* A sequence with an element taken out.
LEMMA TakenOut ==
  ASSUME NEW S, NEW s \in Seq(S), NEW i \in 1..Len(s), NEW t, t = RemoveAt(s, i)
  PROVE  /\ t \in Seq(S) /\ Len(t) = Len(s) - 1
         /\ \A j \in 1..(i - 1) : t[j] = s[j]
         /\ \A j \in (i + 1)..Len(s) : t[j - 1] = s[j]
<1>1. Len(s) \in Nat
  OBVIOUS
<1> DEFINE a == SubSeq(s, 1, i - 1)
           b == SubSeq(s, i + 1, Len(s))
<1>2. a \in Seq(S) /\ Len(a) = i - 1 /\ \A j \in 1..(i - 1) : a[j] = s[j]
  BY <1>1
<1>3. b \in Seq(S) /\ Len(b) = Len(s) - i /\ \A j \in 1..(Len(s) - i) : b[j] = s[i + j]
  BY <1>1
<1>4. t = a \o b
  BY DEF RemoveAt
<1> HIDE DEF a, b
<1>5. /\ t \in Seq(S) /\ Len(t) = (i - 1) + (Len(s) - i)
      /\ \A k \in 1..((i - 1) + (Len(s) - i)) : t[k] = IF k <= i - 1 THEN a[k] ELSE b[k - (i - 1)]
  <2>1. /\ a \o b \in Seq(S) /\ Len(a \o b) = Len(a) + Len(b)
        /\ \A k \in 1 .. Len(a) + Len(b) : (a \o b)[k] = IF k <= Len(a) THEN a[k] ELSE b[k - Len(a)]
    BY <1>2, <1>3, ConcatProperties
  <2>2. Len(a) = i - 1 /\ Len(b) = Len(s) - i
    BY <1>2, <1>3
  <2>3. QED
    BY <1>4, <2>1, <2>2
<1>6. \A j \in (i + 1)..Len(s) : t[j - 1] = s[j]
  <2>1. TAKE j \in (i + 1)..Len(s)
  <2>2. j - 1 \in 1..((i - 1) + (Len(s) - i)) /\ ~ (j - 1 <= i - 1) /\ j - i \in 1..(Len(s) - i) /\ j - 1 - (i - 1) = j - i
    BY <1>1
  <2>3. t[j - 1] = b[j - 1 - (i - 1)]
    BY <1>5, <2>2
  <2>4. b[j - i] = s[i + (j - i)] /\ i + (j - i) = j
    BY <1>1, <1>3, <2>2
  <2>5. QED
    BY <2>2, <2>3, <2>4
<1>7. QED
  BY <1>1, <1>2, <1>5, <1>6

\* The first of the elements that equal one taken out.
LEMMA FirstTakenOut ==
  ASSUME NEW S, NEW s \in Seq(S), NEW x
  PROVE  RemoveFirst(s, x) \in Seq(S)
<1>1. CASE \E i \in 1..Len(s) : s[i] = x
  <2> DEFINE I == {i \in 1..Len(s) : s[i] = x}
  <2>1. RemoveFirst(s, x) = RemoveAt(s, Min(I))
    BY <1>1 DEF RemoveFirst, SelectInSeq
  <2>2. I \in SUBSET Nat /\ I # {}
    BY <1>1
  <2>3. Min(I) \in 1..Len(s)
    BY <2>2, Least
  <2>4. QED
    BY <2>1, <2>3, TakenOut
<1>2. CASE ~ \E i \in 1..Len(s) : s[i] = x
  BY <1>2 DEF RemoveFirst
<1>3. QED
  BY <1>1, <1>2

\* The lines of one family are no more than all.
LEMMA PlaceIs ==
  ASSUME NEW S, NEW s \in Seq(S), NEW P \in SUBSET DOMAIN s
  PROVE  Cardinality(P) + 1 \in 1..(Len(s) + 1)
<1>1. DOMAIN s = 1..Len(s) /\ Len(s) \in Nat
  OBVIOUS
<1>2. IsFiniteSet(1..Len(s)) /\ Cardinality(1..Len(s)) = Len(s)
  <2>1. 1 \in Int /\ Len(s) \in Int /\ (IF 1 > Len(s) THEN 0 ELSE Len(s) - 1 + 1) = Len(s)
    BY <1>1
  <2>2. QED
    BY <2>1, FS_Interval
<1>3. Cardinality(P) \in Nat /\ Cardinality(P) <= Len(s)
  BY <1>1, <1>2, FS_Subset, FS_CardinalityType
<1>4. QED
  BY <1>1, <1>3

(***************************************************************************)
(* Rules, command lines and lines.                                         *)
(***************************************************************************)
\* The fields of a rule.
LEMMA RuleIs ==
  ASSUME NEW r \in Rule
  PROVE  /\ r.id \in Int /\ r.chain \in {"base", "user"} /\ r.state \in {"", "est"} /\ r.fam \in {"ipv4", "ipv6", "both"} /\ r.dir \in {"in", "out", "forward"}
         /\ r.act \in {"allow", "deny", "reject", "drop", "log"}
         /\ r.proto \in {"", "any", "tcp", "udp", "icmp", "custom"}
         /\ r.src \in AddrSpec /\ r.sport \in PortSpec /\ r.dst \in AddrSpec /\ r.dport \in PortSpec
         /\ r.ifin \in {"", "eth0"} /\ r.ifout \in {"", "eth0"}
         /\ r.enabled \in BOOLEAN /\ r.prio \in Nat
BY DEF Rule

\* Whatever has the fields of a rule is one.
LEMMA RuleMade ==
  ASSUME NEW x,
         x = [id |-> x.id, chain |-> x.chain, fam |-> x.fam, dir |-> x.dir, act |-> x.act, proto |-> x.proto, src |-> x.src,
              sport |-> x.sport, dst |-> x.dst, dport |-> x.dport, ifin |-> x.ifin, ifout |-> x.ifout,
              state |-> x.state, enabled |-> x.enabled, prio |-> x.prio],
         x.id \in Int, x.chain \in {"base", "user"}, x.state \in {"", "est"}, x.fam \in {"ipv4", "ipv6", "both"}, x.dir \in {"in", "out", "forward"},
         x.act \in {"allow", "deny", "reject", "drop", "log"},
         x.proto \in {"", "any", "tcp", "udp", "icmp", "custom"},
         x.src \in AddrSpec, x.sport \in PortSpec, x.dst \in AddrSpec, x.dport \in PortSpec,
         x.ifin \in {"", "eth0"}, x.ifout \in {"", "eth0"}, x.enabled \in BOOLEAN, x.prio \in Nat
  PROVE  x \in Rule
BY Zenon DEF Rule

\* What a command of ufw is told.
LEMMA ToUFWArgsIs ==
  ASSUME NEW r \in Rule, NEW q, q = ToUFWArgs(r)
  PROVE  /\ q \in Rule
         /\ q.dir = (IF r.dir = "in" /\ r.ifout # "" THEN "out" ELSE r.dir) /\ q.act = UFWVerb(r)
         /\ q.proto = (IF r.proto = "any" THEN "" ELSE r.proto)
         /\ q.src = Plain(r.src) /\ q.dst = Plain(r.dst)
         /\ q.sport = (IF Named(r.src) THEN r.sport ELSE NoPort) /\ q.dport = r.dport
         /\ q.ifin = r.ifin /\ q.ifout = r.ifout /\ q.state = ""
         /\ q.fam = (IF Named(r.src) THEN Family(r.src.base)
                     ELSE IF Named(r.dst) THEN Family(r.dst.base) ELSE "both")
<1>1. UFWVerb(r) \in {"allow", "deny", "reject", "drop", "log"}
  BY RuleIs DEF UFWVerb
<1>2. NoPort \in PortSpec
  BY DEF NoPort, PortSpec
<1>3. Plain(r.src) \in AddrSpec /\ Plain(r.dst) \in AddrSpec
  BY RuleIs, AddrMade DEF Plain
<1>4. \A x : Family(x) \in {"ipv4", "ipv6", "both"}
  BY DEF Family
<1> DEFINE act   == UFWVerb(r)
           proto == IF r.proto = "any" THEN "" ELSE r.proto
           src   == Plain(r.src)
           sport == IF Named(r.src) THEN r.sport ELSE NoPort
           dst   == Plain(r.dst)
           fam   == IF Named(r.src) THEN Family(r.src.base)
                    ELSE IF Named(r.dst) THEN Family(r.dst.base) ELSE "both"
           dir   == IF r.dir = "in" /\ r.ifout # "" THEN "out" ELSE r.dir
<1>5. q = [r EXCEPT !.id = 0, !.prio = 0, !.enabled = TRUE, !.act = act, !.proto = proto, !.src = src,
                    !.sport = sport, !.dst = dst, !.fam = fam, !.dir = dir, !.state = ""]
  BY DEF ToUFWArgs
<1>6. /\ act \in {"allow", "deny", "reject", "drop", "log"}
      /\ proto \in {"", "any", "tcp", "udp", "icmp", "custom"}
      /\ src \in AddrSpec /\ dst \in AddrSpec /\ sport \in PortSpec
      /\ fam \in {"ipv4", "ipv6", "both"} /\ dir \in {"in", "out", "forward"}
  BY <1>1, <1>2, <1>3, <1>4, RuleIs
<1>7. /\ q.dir = dir /\ q.act = act /\ q.proto = proto /\ q.src = src /\ q.dst = dst /\ q.sport = sport
      /\ q.dport = r.dport /\ q.ifin = r.ifin /\ q.ifout = r.ifout /\ q.fam = fam
      /\ q.chain = r.chain /\ q.state = ""
  <2> HIDE DEF act, proto, src, sport, dst, fam, dir
  <2>1. QED
    BY <1>5 DEF Rule
<1>8. q \in Rule
  <2> HIDE DEF act, proto, src, sport, dst, fam, dir
  <2>1. 0 \in Int /\ 0 \in Nat
    OBVIOUS
  <2>2. q = [id |-> q.id, chain |-> q.chain, fam |-> q.fam, dir |-> q.dir, act |-> q.act, proto |-> q.proto,
             src |-> q.src, sport |-> q.sport, dst |-> q.dst, dport |-> q.dport, ifin |-> q.ifin, ifout |-> q.ifout,
             state |-> q.state, enabled |-> q.enabled, prio |-> q.prio]
    BY <1>5 DEF Rule
  <2>3. q.id = 0 /\ q.prio = 0
    BY <1>5 DEF Rule
  <2>4. q.id \in Int /\ q.prio \in Nat
    BY <2>1, <2>3
  <2>5. q.enabled = TRUE
    BY <1>5 DEF Rule
  <2>6. q.enabled \in BOOLEAN
    BY <2>5
  <2>7. /\ r.dport \in PortSpec /\ r.ifin \in {"", "eth0"} /\ r.ifout \in {"", "eth0"}
        /\ r.chain \in {"base", "user"} /\ "" \in {"", "est"}
    BY RuleIs
  <2>8. QED
    BY <1>6, <1>7, <2>2, <2>4, <2>6, <2>7, RuleMade, Zenon
<1>9. QED
  BY <1>7, <1>8

\* A range is the same written with a dash or a colon.
LEMMA WrittenIs ==
  ASSUME NEW s \in PortSpec, NEW d \in {Dashed(s), Coloned(s)}
  PROVE  /\ d \in PortSpec /\ (PortValid(s) => PortValid(d)) /\ (s.k = "list" => d.k = "list")
         /\ Ports(d) = Ports(s) /\ (d.k = "" <=> s.k = "")
<1>1. CASE d = s
  BY <1>1
<1>2. CASE d # s
  <2>1. s.k \in {"range", "colon"}
    BY <1>2 DEF Dashed, Coloned
  <2>2. s \in [k : {"range", "colon", "list"}, lo : 0..9, hi : 0..9]
    BY <2>1 DEF PortSpec
  <2>3. PICK w \in {"range", "colon"} : d = [s EXCEPT !.k = w]
    BY <1>2, <2>1 DEF Dashed, Coloned
  <2>4. d.k = w /\ d.lo = s.lo /\ d.hi = s.hi
    BY <2>2, <2>3
  <2>5. d \in PortSpec
    BY <2>2, <2>3 DEF PortSpec
  <2>6. QED
    BY <2>1, <2>4, <2>5 DEF PortValid, Ports
<1>3. QED
  BY <1>1, <1>2

\* What a command of iptables is told.
LEMMA RuleToArgsIs ==
  ASSUME NEW r \in Rule, NEW q, q = RuleToArgs(r)
  PROVE  /\ q.fam = "ipv4" /\ q.dir = r.dir /\ q.act = (IF r.act = "deny" THEN "drop" ELSE r.act)
         /\ q.proto = (IF r.proto = "any" THEN "" ELSE r.proto)
         /\ q.src = Saved(r.src) /\ q.dst = Saved(r.dst)
         /\ q.sport = Coloned(r.sport) /\ q.dport = Coloned(r.dport)
         /\ q.ifin = r.ifin /\ q.ifout = r.ifout /\ q.state = r.state
         /\ Saved(r.src) \in AddrSpec /\ Saved(r.dst) \in AddrSpec => q \in Rule
<1> DEFINE act   == IF r.act = "deny" THEN "drop" ELSE r.act
           proto == IF r.proto = "any" THEN "" ELSE r.proto
           src   == Saved(r.src)
           dst   == Saved(r.dst)
           sport == Coloned(r.sport)
           dport == Coloned(r.dport)
<1>1. /\ sport \in PortSpec /\ dport \in PortSpec /\ act \in {"allow", "deny", "reject", "drop", "log"}
      /\ proto \in {"", "any", "tcp", "udp", "icmp", "custom"}
  BY RuleIs, WrittenIs
<1>2. q = [r EXCEPT !.prio = 0, !.enabled = TRUE, !.chain = "base", !.act = act, !.fam = "ipv4", !.proto = proto,
                    !.src = src, !.dst = dst, !.sport = sport, !.dport = dport]
  BY DEF RuleToArgs
<1> HIDE DEF act, proto, src, dst, sport, dport
<1>3. /\ q.fam = "ipv4" /\ q.dir = r.dir /\ q.act = act /\ q.proto = proto /\ q.src = src /\ q.dst = dst
      /\ q.sport = sport /\ q.dport = dport /\ q.ifin = r.ifin /\ q.ifout = r.ifout /\ q.state = r.state
      /\ q.chain = "base" /\ q.id = r.id /\ q.prio = 0 /\ q.enabled = TRUE
  BY <1>2 DEF Rule
<1>4. ASSUME src \in AddrSpec, dst \in AddrSpec
      PROVE  q \in Rule
  <2>1. q = [id |-> q.id, chain |-> q.chain, fam |-> q.fam, dir |-> q.dir, act |-> q.act, proto |-> q.proto,
             src |-> q.src, sport |-> q.sport, dst |-> q.dst, dport |-> q.dport, ifin |-> q.ifin, ifout |-> q.ifout,
             state |-> q.state, enabled |-> q.enabled, prio |-> q.prio]
    BY <1>2 DEF Rule
  <2>2. /\ r.dir \in {"in", "out", "forward"} /\ r.ifin \in {"", "eth0"} /\ r.ifout \in {"", "eth0"}
        /\ r.state \in {"", "est"} /\ r.id \in Int /\ "base" \in {"base", "user"}
        /\ "ipv4" \in {"ipv4", "ipv6", "both"}
    BY RuleIs
  <2>3. 0 \in Nat /\ TRUE \in BOOLEAN
    OBVIOUS
  <2>4. q.prio \in Nat /\ q.enabled \in BOOLEAN
    BY <1>3, <2>3
  <2>5. QED
    BY <1>1, <1>3, <1>4, <2>1, <2>2, <2>4, RuleMade, Zenon
<1>5. QED
  BY <1>3, <1>4 DEF act, proto, src, dst, sport, dport

\* A line of ufw.
LEMMA UFWLineIs ==
  ASSUME NEW q \in Rule, NEW f \in {"ipv4", "ipv6"}, Normal(q.src) \in AddrSpec, Normal(q.dst) \in AddrSpec,
         NEW x, x = UFWLine(q, f)
  PROVE  /\ x \in Rule /\ x.fam = f /\ x.src = Normal(q.src) /\ x.dst = Normal(q.dst)
         /\ x.dir = q.dir /\ x.act = q.act /\ x.proto = q.proto /\ x.sport = q.sport /\ x.dport = q.dport
         /\ x.ifin = q.ifin /\ x.ifout = q.ifout /\ x.state = q.state
BY DEF UFWLine, Rule

\* A line of ufw as it is parsed.
LEMMA StatusIs ==
  ASSUME NEW r \in Rule, NEW x, x = ParseStatusNumbered(r)
  PROVE  /\ x \in Rule /\ x.id = r.id
         /\ x.src \in {r.src, JunkAddr} /\ x.dst = NoAddr /\ x.dir = r.dir /\ x.act = r.act
         /\ x.sport = x.dport /\ x.dport \in {r.dport, Junk}
<1>1. Junk \in PortSpec /\ JunkAddr \in AddrSpec
  BY MisreadIs DEF Junk, PortSpec
<1> DEFINE to    == IF r.dst.k = "" THEN r.dport ELSE Junk
           fam   == IF r.fam = "ipv6" /\ r.src.k = "" THEN "ipv6" ELSE "ipv4"
           src   == IF FromBare(r) THEN r.src ELSE JunkAddr
           proto == CASE r.dst.k = "cidr" -> "custom"
                      [] ToProto(r) /\ r.proto # "" /\ r.dst.k # "cidr" -> r.proto
                      [] OTHER -> "any"
<1>2. x = [r EXCEPT !.fam = fam, !.proto = proto, !.src = src, !.dst = NoAddr, !.sport = to, !.dport = to,
                    !.ifin = "", !.ifout = "", !.state = ""]
  BY DEF ParseStatusNumbered
<1>4. /\ to \in PortSpec /\ to \in {r.dport, Junk} /\ fam \in {"ipv4", "ipv6", "both"}
      /\ src \in AddrSpec /\ src \in {r.src, JunkAddr}
      /\ proto \in {"", "any", "tcp", "udp", "icmp", "custom"}
  BY <1>1, RuleIs
<1>5. /\ x.id = r.id /\ x.src = src /\ x.dst = NoAddr /\ x.dir = r.dir /\ x.act = r.act
      /\ x.sport = to /\ x.dport = to /\ x.proto = proto /\ x.fam = fam /\ x.ifin = "" /\ x.ifout = ""
      /\ x.state = "" /\ x.chain = r.chain /\ x.enabled = r.enabled /\ x.prio = r.prio
  <2> HIDE DEF to, fam, src, proto
  <2>1. QED
    BY <1>2 DEF Rule
<1>6. x \in Rule
  <2> HIDE DEF to, fam, src, proto
  <2>1. x = [id |-> x.id, chain |-> x.chain, fam |-> x.fam, dir |-> x.dir, act |-> x.act, proto |-> x.proto,
             src |-> x.src, sport |-> x.sport, dst |-> x.dst, dport |-> x.dport, ifin |-> x.ifin, ifout |-> x.ifout,
             state |-> x.state, enabled |-> x.enabled, prio |-> x.prio]
    BY <1>2 DEF Rule
  <2>2. /\ r.dir \in {"in", "out", "forward"} /\ r.act \in {"allow", "deny", "reject", "drop", "log"}
        /\ r.id \in Int /\ r.prio \in Nat /\ r.enabled \in BOOLEAN /\ r.chain \in {"base", "user"}
        /\ NoAddr \in AddrSpec /\ "" \in {"", "eth0"} /\ "" \in {"", "est"}
    BY RuleIs, AddrMade
  <2>3. QED
    BY <1>4, <1>5, <2>1, <2>2, RuleMade, Zenon
<1> HIDE DEF to, fam, src, proto
<1>7. QED
  BY <1>4, <1>5, <1>6

\* A line of iptables-save, read: its ports may be written otherwise.
LEMMA SaveIs ==
  ASSUME NEW r \in Rule, NEW x, x = ParseSave(r)
  PROVE  /\ x \in Rule /\ x.id = r.id /\ x.src = r.src /\ x.dst = r.dst /\ x.dir = r.dir /\ x.act = r.act
         /\ x.sport = Dashed(r.sport) /\ x.dport = Dashed(r.dport)
<1> DEFINE sport == Dashed(r.sport)
           dport == Dashed(r.dport)
<1>1. sport \in PortSpec /\ dport \in PortSpec
  BY RuleIs, WrittenIs
<1>2. x = [r EXCEPT !.sport = sport, !.dport = dport]
  BY DEF ParseSave
<1> HIDE DEF sport, dport
<1>3. /\ x.id = r.id /\ x.src = r.src /\ x.dst = r.dst /\ x.dir = r.dir /\ x.act = r.act
      /\ x.sport = sport /\ x.dport = dport
  BY <1>2 DEF Rule
<1>4. x \in Rule
  BY <1>1, <1>2 DEF Rule
<1>5. QED
  BY <1>3, <1>4 DEF sport, dport

\* A rule of the host under its number and in its place.
LEMMA FreshIs ==
  ASSUME NEW rules \in Seq(Rule), NEW i \in DOMAIN rules, NEW x, x = Fresh(rules, i)
  PROVE  /\ x \in Rule /\ x.id = FreshId(i) /\ x.dir = rules[i].dir /\ x.act = rules[i].act
         /\ x.src = rules[i].src /\ x.dst = rules[i].dst /\ x.sport = rules[i].sport /\ x.dport = rules[i].dport
<1>1. i \in Nat \ {0} /\ rules[i] \in Rule
  OBVIOUS
<1> DEFINE m == -i
           n == Place(rules, i)
           r == rules[i]
<1>2. n \in Nat
  <2>1. IsFiniteSet(1..(i - 1))
    BY <1>1, FS_Interval
  <2> DEFINE J == {j \in 1..(i - 1) : Shown(rules[j]) /\ (backend = "ufw" \/ rules[j].fam = rules[i].fam)}
  <2>2. J \subseteq 1..(i - 1)
    OBVIOUS
  <2>3. n = Cardinality(J)
    BY DEF Place
  <2> HIDE DEF J, n
  <2>4. QED
    BY <2>1, <2>2, <2>3, FS_Subset, FS_CardinalityType
<1>3. m \in Int
  BY <1>1
<1>4. x = [r EXCEPT !.id = m, !.prio = n, !.enabled = TRUE] /\ r \in Rule
  BY <1>1 DEF Fresh, FreshId
<1>5. /\ x \in Rule /\ x.id = m /\ x.dir = r.dir /\ x.act = r.act
      /\ x.src = r.src /\ x.dst = r.dst /\ x.sport = r.sport /\ x.dport = r.dport
  <2> HIDE DEF m, n, r
  <2>1. QED
    BY <1>2, <1>3, <1>4 DEF Rule
<1>6. QED
  BY <1>5 DEF FreshId

(***************************************************************************)
(* The rules of the host.                                                  *)
(***************************************************************************)
\* The addresses of a valid rule, as a command of ufw names them.
LEMMA PlainIs ==
  ASSUME NEW s \in AddrSpec, NEW f, AddrValid(s, f)
  PROVE  /\ s.k \in {"", "any", "ip", "cidr"} /\ Plain(s) \in AddrSpec /\ Plain(s).k \notin {"any", "junk"}
         /\ Hosts(Plain(s)) = Hosts(s)
         /\ Normal(Plain(s)) \in LineAddr
<1>1. s.k \in {"", "any", "ip", "cidr"}
  BY DEF AddrValid
<1>2. Plain(s) \in AddrSpec /\ Plain(s).k \notin {"any", "junk"}
  BY <1>1, AddrMade DEF Plain, Named
<1>3. Hosts(Plain(s)) = Hosts(s)
  BY <1>1, AddrMade, HostsAre DEF Plain, Named
<1>4. QED
  BY <1>1, <1>2, <1>3, NormalIs

\* What a command of ufw makes of a valid rule may stand on a host.
LEMMA UFWLines ==
  ASSUME NEW r \in Rule, ValidRule(r), NEW f \in {"ipv4", "ipv6"}
  PROVE  UFWLine(ToUFWArgs(r), f) \in Line
<1> DEFINE q == ToUFWArgs(r)
           x == UFWLine(q, f)
<1>1. /\ q \in Rule /\ q.src = Plain(r.src) /\ q.dst = Plain(r.dst) /\ q.dport = r.dport
      /\ q.sport = IF Named(r.src) THEN r.sport ELSE NoPort
  BY ToUFWArgsIs
<1>2. PortValid(r.sport) /\ PortValid(r.dport) /\ PortValid(NoPort)
  BY DEF ValidRule, PortValid, NoPort
<1>3. Normal(q.src) \in LineAddr /\ Normal(q.dst) \in LineAddr
  BY <1>1, RuleIs, PlainIs DEF ValidRule
<1>4. Normal(q.src) \in AddrSpec /\ Normal(q.dst) \in AddrSpec
  BY <1>3, LineAddrIs
<1>5. /\ x \in Rule /\ x.fam = f /\ x.src = Normal(q.src) /\ x.dst = Normal(q.dst)
      /\ x.sport = q.sport /\ x.dport = q.dport
  <2> HIDE DEF q
  <2>1. QED
    BY <1>1, <1>4, UFWLineIs
<1>6. PortValid(x.sport) /\ PortValid(x.dport)
  <2> HIDE DEF x, q
  <2>1. QED
    BY <1>1, <1>2, <1>5
<1>7. QED
  <2> HIDE DEF x, q
  <2>1. x \in Line
    BY <1>3, <1>5, <1>6 DEF Line
  <2>2. QED
    BY <2>1 DEF x, q

\* What a command of iptables makes of one.
LEMMA IptablesLines ==
  ASSUME NEW r \in Rule, ValidRule(r)
  PROVE  RuleToArgs(r) \in Line
<1> DEFINE x == RuleToArgs(r)
<1>1. r.src \in AddrSpec /\ r.dst \in AddrSpec /\ r.src.k # "junk" /\ r.dst.k # "junk"
  BY RuleIs, PlainIs DEF ValidRule
<1>2. Saved(r.src) \in LineAddr /\ Saved(r.dst) \in LineAddr
  BY <1>1, SavedIs
<1>3. Saved(r.src) \in AddrSpec /\ Saved(r.dst) \in AddrSpec
  BY <1>2, LineAddrIs
<1>4. /\ x \in Rule /\ x.fam = "ipv4" /\ x.src = Saved(r.src) /\ x.dst = Saved(r.dst)
      /\ x.sport = Coloned(r.sport) /\ x.dport = Coloned(r.dport)
  BY <1>3, RuleToArgsIs
<1>5. PortValid(Coloned(r.sport)) /\ PortValid(Coloned(r.dport))
  BY RuleIs, WrittenIs DEF ValidRule
<1>6. QED
  <2> HIDE DEF x
  <2>1. x \in Line
    BY <1>2, <1>4, <1>5 DEF Line
  <2>2. QED
    BY <2>1 DEF x

\* A rule put among the lines of ufw leaves lines.
LEMMA PutLines ==
  ASSUME NEW rules \in Seq(Line), NEW q, NEW f \in {"ipv4", "ipv6"}, UFWLine(q, f) \in Line
  PROVE  UFWPut(rules, q, f) \in Seq(Line)
<1> DEFINE new     == UFWLine(q, f)
           Same(x) == [x EXCEPT !.act = new.act] = new
           ipv4    == {i \in DOMAIN rules : rules[i].fam = "ipv4"}
           Set     == [i \in DOMAIN rules |-> IF Same(rules[i]) THEN new ELSE rules[i]]
           place   == (IF f = "ipv4" THEN Cardinality(ipv4) ELSE Len(rules)) + 1
<1>1. UFWPut(rules, q, f) \in {rules, Set, InsertAt(rules, place, new)}
  BY DEF UFWPut
<1>2. Set \in Seq(Line)
  <2> HIDE DEF new, Same
  <2>1. new \in Line
    BY DEF new
  <2>2. DOMAIN rules = 1..Len(rules) /\ Len(rules) \in Nat /\ \A i \in 1..Len(rules) : rules[i] \in Line
    OBVIOUS
  <2>3. QED
    BY <2>1, <2>2, IsASeq
<1>3. InsertAt(rules, place, new) \in Seq(Line)
  <2>1. Len(rules) \in Nat
    OBVIOUS
  <2>2. Cardinality(ipv4) + 1 \in 1..(Len(rules) + 1)
    BY PlaceIs
  <2>3. place \in 1..(Len(rules) + 1)
    BY <2>1, <2>2
  <2> HIDE DEF place, new
  <2>4. new \in Line
    BY DEF new
  <2>5. QED
    BY <2>3, <2>4, PutIn
<1>4. QED
  BY <1>1, <1>2, <1>3

\* So does a rule added.
LEMMA AddLines ==
  ASSUME NEW rules \in Seq(Line), NEW r \in Rule, ValidRule(r)
  PROVE  UFWAdd(rules, ToUFWArgs(r)) \in Seq(Line)
BY UFWLines, PutLines DEF UFWAdd

\* The command that does what an action says leaves lines on the host.
LEMMA ApplyLines ==
  ASSUME NEW rules \in Seq(Line), NEW a \in Action, a.rule # NoRule => ValidRule(a.rule), Can(rules, a)
  PROVE  Apply(rules, a) \in Seq(Line)
<1>1. a.rule # NoRule => a.rule \in Rule
  BY DEF Action
<1>2. CASE backend = "ufw"
  <2>1. UFWCan(rules, a)
    BY <1>2 DEF Can
  <2>2. CASE a.op = "add"
    <3>1. a.rule # NoRule
      BY <2>1, <2>2 DEF UFWCan
    <3>2. QED
      BY <1>1, <1>2, <2>2, <3>1, AddLines DEF Apply, UFWApply
  <2>3. CASE a.op = "update"
    <3>1. a.rule # NoRule /\ a.num \in DOMAIN rules
      BY <2>1, <2>3 DEF UFWCan
    <3>2. RemoveAt(rules, a.num) \in Seq(Line)
      BY <3>1, TakenOut
    <3>3. QED
      BY <1>1, <1>2, <2>3, <3>1, <3>2, AddLines DEF Apply, UFWApply
  <2>4. CASE a.op = "delete" /\ a.num # 0
    <3>1. a.num \in DOMAIN rules
      BY <2>1, <2>4 DEF UFWCan
    <3>2. RemoveAt(rules, a.num) \in Seq(Line)
      BY <3>1, TakenOut
    <3>3. QED
      BY <1>2, <2>4, <3>2 DEF Apply, UFWApply
  <2>5. CASE a.op = "delete" /\ ~ a.num # 0
    BY <1>2, <2>5, FirstTakenOut DEF Apply, UFWApply
  <2>6. QED
    BY <2>1, <2>2, <2>3, <2>4, <2>5 DEF UFWCan
<1>3. CASE backend # "ufw"
  <2>1. IptablesCan(rules, a)
    BY <1>3 DEF Can
  <2>2. RuleToArgs(a.rule) \in Line
    BY <1>1, <2>1, IptablesLines DEF IptablesCan
  <2>3. CASE a.op = "add"
    <3>1. 1 \in 1..(Len(rules) + 1)
      OBVIOUS
    <3>2. InsertAt(rules, 1, RuleToArgs(a.rule)) \in Seq(Line)
      BY <2>2, <3>1, PutIn
    <3>3. QED
      BY <1>3, <2>3, <3>2 DEF Apply, IptablesApply
  <2>4. CASE a.op # "add"
    BY <1>3, <2>4, FirstTakenOut DEF Apply, IptablesApply
  <2>5. QED
    BY <2>3, <2>4
<1>4. QED
  BY <1>2, <1>3

\* The rules of a host that are listed are listed as rules, each under a number
\* of its own, and as the host has them but for what was misread.
LEMMA ListedIs ==
  ASSUME NEW rules \in Seq(Line), NEW i \in DOMAIN Listed(rules), NEW x, x = Listed(rules)[i]
  PROVE  /\ i \in DOMAIN rules /\ rules[i] \in Line /\ rules[i] \in Rule /\ i \in Nat \ {0}
         /\ x \in Rule /\ x.id = FreshId(i) /\ x.dir = rules[i].dir /\ x.act = rules[i].act
         /\ x.src \in {rules[i].src, JunkAddr} /\ x.dst \in {rules[i].dst, NoAddr}
         /\ x.sport \in {rules[i].sport, rules[i].dport, Dashed(rules[i].sport), Junk}
         /\ x.dport \in {rules[i].dport, Dashed(rules[i].dport), Junk}
<1>1. /\ i \in DOMAIN rules
      /\ x = IF backend = "ufw" THEN ParseStatusNumbered(Fresh(rules, i)) ELSE ParseSave(Fresh(rules, i))
  BY DEF Listed
<1>2. rules \in Seq(Rule) /\ rules[i] \in Line /\ rules[i] \in Rule /\ i \in Nat \ {0}
  <2>1. Line \subseteq Rule
    BY DEF Line
  <2>2. DOMAIN rules = 1..Len(rules) /\ Len(rules) \in Nat /\ \A j \in 1..Len(rules) : rules[j] \in Line
    OBVIOUS
  <2>3. \A j \in 1..Len(rules) : rules[j] \in Rule
    BY <2>1, <2>2
  <2>4. rules = [j \in 1..Len(rules) |-> rules[j]]
    BY <2>2
  <2>5. rules \in Seq(Rule)
    BY <2>2, <2>3, <2>4, IsASeq
  <2>6. QED
    BY <1>1, <2>1, <2>2, <2>5
<1> DEFINE y == Fresh(rules, i)
<1>3. /\ y \in Rule /\ y.id = FreshId(i) /\ y.dir = rules[i].dir /\ y.act = rules[i].act
      /\ y.src = rules[i].src /\ y.dst = rules[i].dst /\ y.sport = rules[i].sport /\ y.dport = rules[i].dport
  BY <1>1, <1>2, FreshIs
<1>4. x = IF backend = "ufw" THEN ParseStatusNumbered(y) ELSE ParseSave(y)
  BY <1>1
<1> HIDE DEF y
<1>5. CASE backend = "ufw"
  <2>1. x = ParseStatusNumbered(y)
    BY <1>4, <1>5
  <2>2. /\ x \in Rule /\ x.id = y.id /\ x.src \in {y.src, JunkAddr} /\ x.dst = NoAddr /\ x.dir = y.dir
        /\ x.act = y.act /\ x.sport = x.dport /\ x.dport \in {y.dport, Junk}
    BY <1>3, <2>1, StatusIs
  <2>3. QED
    BY <1>1, <1>2, <1>3, <2>2
<1>6. CASE backend # "ufw"
  <2>1. x = ParseSave(y)
    BY <1>4, <1>6
  <2>2. /\ x \in Rule /\ x.id = y.id /\ x.src = y.src /\ x.dst = y.dst /\ x.dir = y.dir /\ x.act = y.act
        /\ x.sport = Dashed(y.sport) /\ x.dport = Dashed(y.dport)
    BY <1>3, <2>1, SaveIs
  <2>3. QED
    BY <1>1, <1>2, <1>3, <2>2
<1>7. QED
  BY <1>5, <1>6

(***************************************************************************)
(* The inductive invariant: what is on the host can be there, what is      *)
(* being applied was judged against the rules it started from, and the one *)
(* command of a transaction of one leaves the way in that was there.       *)
(***************************************************************************)
TypeInv ==
  /\ env \in Signals /\ (env.ufw => env.hasUfw)
  /\ backend \in {"none", "ufw", "iptables"} /\ writes \in BOOLEAN
  /\ host \in Seq(Line)
  /\ asked \in 0..MaxTransactions
  /\ last.tx \in Transactions \union {<<>>} /\ last.before \in Seq(Line)
  /\ last.outcome \in {"none", "rejected", "applying", "rolled_back", "applied"}
  /\ last = [tx |-> last.tx, before |-> last.before, done |-> last.done, outcome |-> last.outcome]
  /\ backend = "none" => last.outcome = "none"

DoneInv == last.done \in 0..Len(last.tx)

\* The transaction that runs, or has run, passed the validation.
JudgedInv == last.outcome \in {"applying", "applied"} => ValidateTx(last.tx, Listed(last.before))

\* It runs from the rules that it was judged by, to its last command.
FrameInv ==
  /\ (last.outcome = "applying" /\ last.done = 0) => host = last.before
  /\ last.outcome = "applied" => last.done = Len(last.tx)

\* One action has been carried out and the way in that was there is still open.
KeepsPath(r, rules, listed, out, rest) ==
  \A i \in (DOMAIN rules) \ {out} :
    (/\ i \in DOMAIN listed /\ listed[i].dport.k \notin {"junk", "list"}
     /\ rules[i].dir = "in" /\ rules[i].act = "allow" /\ NoAddr \in {NormAddr(r.src), listed[i].src}) =>
      \A p \in Packets : Decides(rules, i, p) => \E j \in DOMAIN rest : Decides(rest, j, p) /\ rest[j].act = "allow"
PathInv ==
  (last.outcome \in {"applying", "applied"} /\ Len(last.tx) = 1 /\ last.done = 1) =>
    \A r \in Added : (r.dir = "in" /\ Blocks(r)) => KeepsPath(r, last.before, Before, Replaced, host)

IndInv == TypeInv /\ DoneInv /\ JudgedInv /\ FrameInv /\ PathInv

(***************************************************************************)
(* The way in.                                                             *)
(***************************************************************************)
\* A rule that does not speak of a packet, put in anywhere, leaves it to be let in.
LEMMA InsertKeeps ==
  ASSUME NEW rules \in Seq(Line), NEW n \in 1..(Len(rules) + 1), NEW new \in Line, NEW p, ~ Matches(new, p),
         NEW i, Decides(rules, i, p), rules[i].act = "allow", NEW t, t = InsertAt(rules, n, new)
  PROVE  \E j \in DOMAIN t : Decides(t, j, p) /\ t[j].act = "allow"
<1>1. /\ t \in Seq(Line) /\ Len(t) = Len(rules) + 1 /\ t[n] = new
      /\ \A j \in 1..(n - 1) : t[j] = rules[j]
      /\ \A j \in n..Len(rules) : t[j + 1] = rules[j]
  BY PutIn
<1>2. DOMAIN t = 1..Len(t) /\ DOMAIN rules = 1..Len(rules) /\ Len(rules) \in Nat /\ Len(t) \in Nat
  BY <1>1
<1>3. i \in 1..Len(rules) /\ Hits(rules[i], p) /\ \A j \in 1..(i - 1) : ~ Hits(rules[j], p)
  BY <1>2 DEF Decides
<1>4. ~ Hits(new, p)
  BY DEF Hits
<1>5. CASE i < n
  <2>1. i \in 1..Len(t) /\ t[i] = rules[i]
    BY <1>1, <1>2, <1>3, <1>5
  <2>2. \A j \in 1..(i - 1) : ~ Hits(t[j], p)
    <3>1. TAKE j \in 1..(i - 1)
    <3>2. j \in 1..(n - 1)
      BY <1>3, <1>5
    <3>3. QED
      BY <1>1, <1>3, <3>2
  <2>3. QED
    BY <1>2, <1>3, <2>1, <2>2 DEF Decides
<1>6. CASE ~ i < n
  <2>1. i + 1 \in 1..Len(t) /\ t[i + 1] = rules[i]
    BY <1>1, <1>2, <1>3, <1>6
  <2>2. \A j \in 1..((i + 1) - 1) : ~ Hits(t[j], p)
    <3>1. TAKE j \in 1..((i + 1) - 1)
    <3>2. CASE j < n
      <4>1. j \in 1..(n - 1) /\ j \in 1..(i - 1)
        BY <1>3, <1>6, <3>2
      <4>2. QED
        BY <1>1, <1>3, <4>1
    <3>3. CASE j = n
      BY <1>1, <1>4, <3>3
    <3>4. CASE j > n
      <4>1. j - 1 \in n..Len(rules) /\ j - 1 \in 1..(i - 1) /\ (j - 1) + 1 = j
        BY <1>2, <1>3, <3>4
      <4>2. t[j] = rules[j - 1]
        BY <1>1, <4>1
      <4>3. QED
        BY <1>3, <4>1, <4>2
    <3>5. QED
      BY <3>2, <3>3, <3>4
  <2>3. Decides(t, i + 1, p)
    BY <1>2, <1>3, <2>1, <2>2 DEF Decides
  <2>4. QED
    BY <1>2, <2>1, <2>3
<1>7. QED
  BY <1>5, <1>6

\* So does another rule taken out.
LEMMA RemoveKeeps ==
  ASSUME NEW rules \in Seq(Line), NEW n \in 1..Len(rules), NEW p,
         NEW i, i # n, Decides(rules, i, p), rules[i].act = "allow", NEW t, t = RemoveAt(rules, n)
  PROVE  \E j \in DOMAIN t : Decides(t, j, p) /\ t[j].act = "allow"
<1>1. /\ t \in Seq(Line) /\ Len(t) = Len(rules) - 1
      /\ \A j \in 1..(n - 1) : t[j] = rules[j]
      /\ \A j \in (n + 1)..Len(rules) : t[j - 1] = rules[j]
  BY TakenOut
<1>2. DOMAIN t = 1..Len(t) /\ DOMAIN rules = 1..Len(rules) /\ Len(rules) \in Nat /\ Len(t) \in Nat
  BY <1>1
<1>3. i \in 1..Len(rules) /\ Hits(rules[i], p) /\ \A j \in 1..(i - 1) : ~ Hits(rules[j], p)
  BY <1>2 DEF Decides
<1>4. CASE i < n
  <2>1. i \in 1..Len(t) /\ t[i] = rules[i]
    BY <1>1, <1>2, <1>3, <1>4
  <2>2. \A j \in 1..(i - 1) : ~ Hits(t[j], p)
    <3>1. TAKE j \in 1..(i - 1)
    <3>2. j \in 1..(n - 1)
      BY <1>3, <1>4
    <3>3. QED
      BY <1>1, <1>3, <3>2
  <2>3. QED
    BY <1>2, <1>3, <2>1, <2>2 DEF Decides
<1>5. CASE ~ i < n
  <2>1. i - 1 \in 1..Len(t) /\ i \in (n + 1)..Len(rules)
    BY <1>1, <1>2, <1>3, <1>5
  <2>2. t[i - 1] = rules[i]
    BY <1>1, <2>1
  <2>3. \A j \in 1..((i - 1) - 1) : ~ Hits(t[j], p)
    <3>1. TAKE j \in 1..((i - 1) - 1)
    <3>2. CASE j < n
      <4>1. j \in 1..(n - 1) /\ j \in 1..(i - 1)
        BY <1>3, <1>5, <3>2
      <4>2. QED
        BY <1>1, <1>3, <4>1
    <3>3. CASE ~ j < n
      <4>1. j + 1 \in (n + 1)..Len(rules) /\ j + 1 \in 1..(i - 1) /\ (j + 1) - 1 = j
        BY <1>2, <1>3, <3>3
      <4>2. t[j] = rules[j + 1]
        BY <1>1, <4>1
      <4>3. QED
        BY <1>3, <4>1, <4>2
    <3>4. QED
      BY <3>2, <3>3
  <2>4. Decides(t, i - 1, p)
    BY <1>2, <1>3, <2>1, <2>2, <2>3 DEF Decides
  <2>5. QED
    BY <1>2, <2>1, <2>2, <2>4
<1>6. QED
  BY <1>4, <1>5

\* Rules that differ in their action speak of the same packets.
LEMMA SameMatches ==
  ASSUME NEW x \in Rule, NEW new \in Rule, [x EXCEPT !.act = new.act] = new, NEW p, Matches(x, p)
  PROVE  Matches(new, p)
<1> DEFINE y == [x EXCEPT !.act = new.act]
<1>1. /\ y.fam = x.fam /\ y.dir = x.dir /\ y.proto = x.proto /\ y.src = x.src /\ y.sport = x.sport
      /\ y.dst = x.dst /\ y.dport = x.dport /\ y.ifin = x.ifin /\ y.ifout = x.ifout /\ y.state = x.state
  BY DEF Rule
<1>2. y = new
  OBVIOUS
<1> HIDE DEF y
<1>3. QED
  BY <1>1, <1>2 DEF Matches

\* Or put among the lines of ufw.
LEMMA PutKeeps ==
  ASSUME NEW rules \in Seq(Line), NEW q, NEW f \in {"ipv4", "ipv6"}, UFWLine(q, f) \in Line,
         NEW p, ~ Matches(UFWLine(q, f), p),
         NEW i, Decides(rules, i, p), rules[i].act = "allow", NEW t, t = UFWPut(rules, q, f)
  PROVE  \E j \in DOMAIN t : Decides(t, j, p) /\ t[j].act = "allow"
<1> DEFINE new     == UFWLine(q, f)
           Same(x) == [x EXCEPT !.act = new.act] = new
           ipv4    == {k \in DOMAIN rules : rules[k].fam = "ipv4"}
           Set     == [k \in DOMAIN rules |-> IF Same(rules[k]) THEN new ELSE rules[k]]
           place   == (IF f = "ipv4" THEN Cardinality(ipv4) ELSE Len(rules)) + 1
<1>1. t \in {rules, Set, InsertAt(rules, place, new)}
  BY DEF UFWPut
<1>2. DOMAIN rules = 1..Len(rules) /\ Len(rules) \in Nat /\ \A k \in DOMAIN rules : rules[k] \in Line
  OBVIOUS
<1>3. i \in DOMAIN rules /\ Hits(rules[i], p) /\ \A j \in 1..(i - 1) : ~ Hits(rules[j], p)
  BY DEF Decides
<1>4. CASE t = rules
  BY <1>3, <1>4
<1>5. CASE t = Set
  <2>1. DOMAIN t = DOMAIN rules /\ \A k \in DOMAIN rules : t[k] = IF Same(rules[k]) THEN new ELSE rules[k]
    BY <1>5
  <2>2. ~ Same(rules[i])
    <3>1. rules[i] \in Rule /\ new \in Rule /\ Matches(rules[i], p) /\ ~ Matches(new, p)
      BY <1>2, <1>3 DEF Line, Hits
    <3> HIDE DEF new
    <3>2. QED
      BY <3>1, SameMatches
  <2>3. ~ Hits(new, p)
    BY DEF Hits
  <2> HIDE DEF new, Same, Set
  <2>4. \A j \in 1..(i - 1) : ~ Hits(t[j], p)
    <3>1. TAKE j \in 1..(i - 1)
    <3>2. j \in DOMAIN rules
      BY <1>2, <1>3
    <3>3. QED
      BY <1>3, <2>1, <2>3, <3>2
  <2>5. QED
    BY <1>3, <2>1, <2>2, <2>4 DEF Decides
<1>6. CASE t = InsertAt(rules, place, new)
  <2>1. Cardinality(ipv4) + 1 \in 1..(Len(rules) + 1)
    BY PlaceIs
  <2>2. place \in 1..(Len(rules) + 1)
    BY <1>2, <2>1
  <2>3. new \in Line /\ ~ Matches(new, p)
    OBVIOUS
  <2> HIDE DEF place, new
  <2>4. QED
    BY <1>6, <2>2, <2>3, InsertKeeps
<1>7. QED
  BY <1>1, <1>4, <1>5, <1>6

\* A rule added to ufw that speaks of none of a packet's traffic.
LEMMA AddKeeps ==
  ASSUME NEW rules \in Seq(Line), NEW q,
         \A f \in {"ipv4", "ipv6"} : UFWLine(q, f) \in Line,
         NEW p, \A f \in {"ipv4", "ipv6"} : ~ Matches(UFWLine(q, f), p),
         NEW i, Decides(rules, i, p), rules[i].act = "allow", NEW t, t = UFWAdd(rules, q)
  PROVE  \E j \in DOMAIN t : Decides(t, j, p) /\ t[j].act = "allow"
<1> DEFINE s == UFWPut(rules, q, "ipv4")
<1>1. s \in Seq(Line)
  BY PutLines
<1>2. PICK k \in DOMAIN s : Decides(s, k, p) /\ s[k].act = "allow"
  BY PutKeeps
<1>3. t = UFWPut(s, q, "ipv6")
  BY DEF UFWAdd
<1> HIDE DEF s
<1>4. QED
  BY <1>1, <1>2, <1>3, PutKeeps

\* The ports of a port specification that is valid.
LEMMA PortIs ==
  ASSUME NEW s \in PortSpec, PortValid(s)
  PROVE  /\ s.k = "" \/ Ranged(s)
         /\ s.k # "" => s.lo \in 1..8 /\ s.hi \in 1..8 /\ s.lo <= s.hi /\ Ports(s) = s.lo..s.hi /\ Lo(s) = s.lo /\ Hi(s) = s.hi
<1>1. s.k = "" \/ s.k \in {"range", "colon"}
  BY DEF PortValid
<1>2. ASSUME s.k \in {"range", "colon"}
      PROVE  s.lo \in 0..9 /\ s.hi \in 0..9 /\ 1 <= s.lo /\ s.lo <= s.hi /\ s.hi <= MaxPort /\ Ports(s) = s.lo..s.hi
  <2>1. s.k # "" /\ s.k # "junk"
    BY <1>2
  <2>2. s \in [k : {"range", "colon", "list"}, lo : 0..9, hi : 0..9]
    BY <2>1 DEF PortSpec
  <2>3. 1 <= s.lo /\ s.lo <= s.hi /\ s.hi <= MaxPort
    BY <2>1 DEF PortValid
  <2>4. Ports(s) = s.lo..s.hi
    BY <1>2 DEF Ports
  <2>5. s.lo \in 0..9 /\ s.hi \in 0..9
    BY <2>2
  <2>6. QED
    BY <2>3, <2>4, <2>5
<1>3. \A lo, hi \in 0..9 : 1 <= lo /\ lo <= hi /\ hi <= MaxPort => lo \in 1..8 /\ hi \in 1..8
  BY DEF MaxPort
<1>4. QED
  BY <1>1, <1>2, <1>3 DEF Ranged, Lo, Hi

\* The analysis reports all that the lockout checks report.
LEMMA LockoutsCount ==
  ASSUME NEW existing, NEW c
  PROVE  LockoutChecks(existing, c) \subseteq AnalyzeConflicts(existing, c)
<1> DEFINE Earlier(a, b) == a.prio < b.prio \/ (a.prio = b.prio /\ b = c)
           active == {r \in existing \union {c} : r.enabled}
           pairs  == {q \in active \X active : q[1] # q[2] /\ Earlier(q[1], q[2])}
           found  == UNION {Pairwise(q[1], q[2]) : q \in pairs}
<1>1. AnalyzeConflicts(existing, c) = found \union LockoutChecks(existing, c)
  BY DEF AnalyzeConflicts
<1> HIDE DEF found
<1>2. QED
  BY <1>1

\* A transaction that passes has valid rules that cut nobody off.
LEMMA PassedIs ==
  ASSUME NEW tx \in Seq(Action), NEW rules \in Seq(Line), ValidateTx(tx, Listed(rules)), NEW k \in DOMAIN tx
  PROVE  /\ tx[k] \in Action
         /\ tx[k].rule # NoRule => tx[k].rule \in Rule /\ tx[k].rule.id \in Nat /\ ValidRule(tx[k].rule)
         /\ (tx[k].rule # NoRule /\ tx[k].op \in {"add", "update"}) =>
              \A c \in LockoutChecks({Listed(rules)[i] : i \in DOMAIN Listed(rules)}, tx[k].rule) : c.code \notin Critical
<1> DEFINE a  == tx[k]
           ls == {Listed(rules)[i] : i \in DOMAIN Listed(rules)}
<1>1. a \in Action
  OBVIOUS
<1>2. a.rule # NoRule => a.rule \in Rule /\ a.rule.id \in Nat
  <2>1. a.rule \in {r \in Rule : r.id >= 0} \union {NoRule}
    BY <1>1 DEF Action
  <2>2. \A r \in Rule : r.id \in Int
    BY RuleIs
  <2>3. QED
    BY <2>1, <2>2
<1>3. a.rule # NoRule => ValidRule(a.rule)
  BY DEF ValidateTx
<1>5. \A c \in Conflicts(ls, a) : c.code \notin Critical
  BY DEF ValidateTx
<1>6. ASSUME a.rule # NoRule, a.op \in {"add", "update"}
      PROVE  LockoutChecks(ls, a.rule) \subseteq Conflicts(ls, a)
  <2>1. CASE a.op = "add"
    <3>1. Conflicts(ls, a) = AnalyzeConflicts(ls, a.rule)
      BY <1>6, <2>1 DEF Conflicts
    <3> HIDE DEF ls, a
    <3>2. QED
      BY <3>1, LockoutsCount
  <2>2. CASE a.op = "update"
    <3>1. \A r \in ls : r.id \notin {a.num, a.rule.id}
      <4>1. \A i \in DOMAIN Listed(rules) : Listed(rules)[i].id = -i /\ i \in Nat \ {0}
        BY ListedIs DEF FreshId
      <4>2. a.num \in Nat /\ a.rule.id \in Nat
        BY <1>1, <1>2, <1>6 DEF Action
      <4>3. \A i \in Nat \ {0}, n \in Nat : -i # n
        OBVIOUS
      <4>4. QED
        BY <4>1, <4>2, <4>3
    <3>2. {r \in ls : r.id \notin {a.num, a.rule.id}} = ls
      BY <3>1
    <3>3. Conflicts(ls, a) = AnalyzeConflicts({r \in ls : r.id \notin {a.num, a.rule.id}}, a.rule)
      BY <1>6, <2>2 DEF Conflicts
    <3>4. Conflicts(ls, a) = AnalyzeConflicts(ls, a.rule)
      BY <3>2, <3>3
    <3> HIDE DEF ls, a
    <3>5. QED
      BY <3>4, LockoutsCount
  <2>3. QED
    BY <1>6, <2>1, <2>2
<1>7. QED
  BY <1>1, <1>2, <1>3, <1>5, <1>6

\* A rule that blocks what comes in, and passes, has none of the ports of an
\* existing rule that lets the same sources in.
LEMMA PortsApart ==
  ASSUME NEW rules \in Seq(Line), NEW r \in Rule, ValidRule(r), r.dir = "in", Blocks(r),
         \A c \in LockoutChecks({Listed(rules)[k] : k \in DOMAIN Listed(rules)}, r) : c.code \notin Critical,
         NEW i \in DOMAIN Listed(rules), rules[i].dir = "in", rules[i].act = "allow",
         Listed(rules)[i].dport.k \notin {"junk", "list"},
         NoAddr \in {NormAddr(r.src), Listed(rules)[i].src}, NEW p \in Packets, Matches(rules[i], p)
  PROVE  r.dport.k # "" /\ p.dport \notin Ports(r.dport)
<1> DEFINE e == rules[i]
           x == Listed(rules)[i]
           d == x.dport
<1>1. e \in Line /\ e \in Rule /\ e.dport \in PortSpec
  BY ListedIs, RuleIs
<1>2. x.dir = "in" /\ x.act = "allow" /\ d \in {e.dport, Dashed(e.dport)}
  <2>1. x.dir = "in" /\ x.act = "allow" /\ d \in {e.dport, Dashed(e.dport), Junk}
    BY ListedIs
  <2>2. QED
    BY <2>1 DEF Junk
<1>3. NormAddr(NoAddr) = NoAddr
  BY AddrMade DEF NormAddr
<1>4. AddrOverlap(r.src, x.src)
  <2> HIDE DEF x
  <2>1. NormAddr(r.src) = NoAddr \/ NormAddr(x.src) = NoAddr
    BY <1>3 DEF x
  <2>2. QED
    BY <2>1 DEF AddrOverlap
<1>5. ~ PortIntersects(r.dport, d)
  <2>1. SUFFICES ASSUME PortIntersects(r.dport, d) PROVE FALSE
    OBVIOUS
  <2>2. x \in {l \in {Listed(rules)[k] : k \in DOMAIN Listed(rules)} :
                 /\ l.act = "allow" /\ l.dir = "in" /\ PortIntersects(r.dport, l.dport) /\ AddrOverlap(r.src, l.src)}
    BY <1>2, <1>4, <2>1
  <2>3. [code |-> "SSH_LOCKOUT_RISK", rules |-> {r.id, x.id}] \in LockoutChecks({Listed(rules)[k] : k \in DOMAIN Listed(rules)}, r)
    <3> HIDE DEF x
    <3>1. QED
      BY <2>2 DEF LockoutChecks
  <2>4. QED
    BY <2>3 DEF Critical
<1>6. /\ PortValid(r.dport) /\ PortValid(d) /\ r.dport \in PortSpec /\ d \in PortSpec
      /\ Ports(d) = Ports(e.dport) /\ (d.k = "" <=> e.dport.k = "")
  <2>1. PortValid(r.dport) /\ r.dport \in PortSpec
    BY RuleIs DEF ValidRule
  <2>2. e.dport.k = "list" \/ PortValid(e.dport)
    BY <1>1 DEF Line
  <2> HIDE DEF d, e
  <2>3. PortValid(e.dport) /\ d \in PortSpec
    BY <1>1, <1>2, <2>2, WrittenIs DEF d
  <2>4. QED
    BY <1>1, <1>2, <2>1, <2>3, WrittenIs
<1>7. r.dport.k # "" /\ d.k # "" /\ ~ (r.dport.lo <= d.hi /\ d.lo <= r.dport.hi)
  BY <1>5, <1>6, PortIs DEF PortIntersects
<1>8. p.dport \in Ports(d)
  BY <1>6, <1>7 DEF Matches
<1>10. /\ r.dport.lo \in 1..8 /\ r.dport.hi \in 1..8 /\ Ports(r.dport) = r.dport.lo..r.dport.hi
       /\ d.lo \in 1..8 /\ d.hi \in 1..8 /\ Ports(d) = d.lo..d.hi
  BY <1>6, <1>7, PortIs
<1> DEFINE rl == r.dport.lo
           rh == r.dport.hi
           el == d.lo
           eh == d.hi
           n  == p.dport
<1>11. n \in el..eh /\ ~ (rl <= eh /\ el <= rh) /\ rl \in 1..8 /\ rh \in 1..8 /\ el \in 1..8 /\ eh \in 1..8
  BY <1>7, <1>8, <1>10
<1>12. n \notin rl..rh
  <2> HIDE DEF rl, rh, el, eh, n
  <2>1. QED
    BY <1>11
<1>13. QED
  BY <1>7, <1>10, <1>12

\* A command keeps the way in that the rule it installs was judged by.
LEMMA CommandKeeps ==
  ASSUME NEW rules \in Seq(Line), NEW a \in Action, NEW r, r = a.rule, r # NoRule, a.op \in {"add", "update"},
         r \in Rule, ValidRule(r), r.dir = "in", Blocks(r), Can(rules, a),
         \A c \in LockoutChecks({Listed(rules)[k] : k \in DOMAIN Listed(rules)}, r) : c.code \notin Critical
  PROVE  KeepsPath(r, rules, Listed(rules), IF a.op = "update" THEN a.num ELSE 0, Apply(rules, a))
<1> DEFINE out == IF a.op = "update" THEN a.num ELSE 0
           new == Apply(rules, a)
<1>1. SUFFICES ASSUME NEW i \in (DOMAIN rules) \ {out}, rules[i].dir = "in", rules[i].act = "allow",
                      i \in DOMAIN Listed(rules), Listed(rules)[i].dport.k \notin {"junk", "list"},
                      NoAddr \in {NormAddr(r.src), Listed(rules)[i].src}, NEW p \in Packets, Decides(rules, i, p)
               PROVE  \E j \in DOMAIN new : Decides(new, j, p) /\ new[j].act = "allow"
  BY DEF KeepsPath
<1>2. Matches(rules[i], p)
  BY <1>1 DEF Decides, Hits
<1>3. r.dport.k # "" /\ p.dport \notin Ports(r.dport)
  BY <1>1, <1>2, PortsApart
<1>4. \A x : Ports(x.dport) = Ports(r.dport) /\ x.dport.k # "" => ~ Matches(x, p)
  BY <1>3 DEF Matches
<1>5. CASE backend = "ufw"
  <2> DEFINE q == ToUFWArgs(r)
  <2>1. UFWCan(rules, a) /\ new = UFWApply(rules, a)
    BY <1>5 DEF Can, Apply
  <2>2. \A f \in {"ipv4", "ipv6"} : UFWLine(q, f) \in Line
    BY UFWLines
  <2>3. \A f \in {"ipv4", "ipv6"} : ~ Matches(UFWLine(q, f), p)
    <3>1. TAKE f \in {"ipv4", "ipv6"}
    <3>2. q.dport = r.dport /\ q \in Rule
      BY ToUFWArgsIs
    <3>3. UFWLine(q, f).dport = q.dport
      <4> HIDE DEF q
      <4>1. QED
        BY <3>2 DEF UFWLine, Rule
    <3>4. QED
      BY <1>3, <1>4, <3>2, <3>3
  <2> HIDE DEF q, new
  <2>4. CASE a.op = "add"
    <3>1. new = UFWAdd(rules, q)
      BY <2>1, <2>4 DEF UFWApply, q
    <3>2. QED
      BY <1>1, <2>2, <2>3, <3>1, AddKeeps
  <2>5. CASE a.op = "update"
    <3> DEFINE s == RemoveAt(rules, a.num)
    <3>1. a.num \in DOMAIN rules /\ i # a.num
      BY <1>1, <2>1, <2>5 DEF UFWCan
    <3>2. new = UFWAdd(s, q)
      BY <2>1, <2>5 DEF UFWApply, q
    <3>3. s \in Seq(Line) /\ a.num \in 1..Len(rules)
      BY <3>1, TakenOut
    <3>4. PICK j \in DOMAIN s : Decides(s, j, p) /\ s[j].act = "allow"
      BY <1>1, <3>1, <3>3, RemoveKeeps
    <3> HIDE DEF s
    <3>5. QED
      BY <2>2, <2>3, <3>2, <3>3, <3>4, AddKeeps
  <2>6. QED
    BY <2>4, <2>5
<1>6. CASE backend # "ufw"
  <2> DEFINE x == RuleToArgs(r)
  <2>1. IptablesCan(rules, a) /\ new = IptablesApply(rules, a)
    BY <1>6 DEF Can, Apply
  <2>2. a.op = "add"
    BY <2>1 DEF IptablesCan
  <2>3. new = InsertAt(rules, 1, x)
    BY <2>1, <2>2 DEF IptablesApply
  <2>4. x \in Line
    BY IptablesLines
  <2>5. ~ Matches(x, p)
    <3>1. r.dport \in PortSpec
      BY RuleIs
    <3>2. x.dport = Coloned(r.dport)
      BY RuleToArgsIs
    <3> HIDE DEF x
    <3>3. Ports(x.dport) = Ports(r.dport) /\ x.dport.k # ""
      BY <1>3, <3>1, <3>2, WrittenIs
    <3>4. QED
      BY <1>4, <3>3
  <2>6. 1 \in 1..(Len(rules) + 1)
    OBVIOUS
  <2> HIDE DEF x, new
  <2>7. QED
    BY <1>1, <2>3, <2>4, <2>5, <2>6, InsertKeeps
<1>7. QED
  BY <1>5, <1>6

\* The rules that a transaction adds.
LEMMA AddedIs ==
  ASSUME TypeInv
  PROVE  /\ last.tx \in Seq(Action)
         /\ \A r \in Added : \E k \in DOMAIN last.tx :
              r = last.tx[k].rule /\ r # NoRule /\ last.tx[k].op \in {"add", "update"} /\ r \in Rule /\ r.id \in Nat
<1>1. last.tx \in Seq(Action)
  <2>1. Transactions \subseteq Seq(Action) /\ <<>> \in Seq(Action)
    BY PolicyAssumption
  <2>2. last.tx \in Transactions \union {<<>>}
    BY DEF TypeInv
  <2>3. QED
    BY <2>1, <2>2
<1>2. \A k \in DOMAIN last.tx : last.tx[k] \in Action
  BY <1>1
<1>3. \A r \in Rule : r.id \in Int
  BY RuleIs
<1>4. ASSUME NEW r \in Added
      PROVE  \E k \in DOMAIN last.tx :
               r = last.tx[k].rule /\ r # NoRule /\ last.tx[k].op \in {"add", "update"} /\ r \in Rule /\ r.id \in Nat
  <2>1. PICK k \in DOMAIN last.tx : r = last.tx[k].rule /\ r # NoRule /\ last.tx[k].op \in {"add", "update"}
    BY <1>4 DEF Added
  <2>2. r \in {x \in Rule : x.id >= 0}
    <3>1. last.tx[k] \in Action
      BY <1>2, <2>1
    <3> DEFINE a == last.tx[k]
    <3> HIDE DEF a
    <3>2. a.rule \in {x \in Rule : x.id >= 0} \union {NoRule}
      BY <3>1 DEF Action, a
    <3>3. QED
      BY <2>1, <3>2 DEF a
  <2>3. r \in Rule /\ r.id \in Nat
    BY <1>3, <2>2
  <2>4. QED
    BY <2>1, <2>3
<1>5. QED
  BY <1>1, <1>4

\* What a transaction that has passed adds is valid and cuts nobody off.
LEMMA AddedPassed ==
  ASSUME TypeInv, ValidateTx(last.tx, Listed(last.before)), NEW r \in Added
  PROVE  /\ r \in Rule /\ ValidRule(r)
         /\ \A c \in LockoutChecks({Listed(last.before)[i] : i \in DOMAIN Listed(last.before)}, r) : c.code \notin Critical
<1>1. last.tx \in Seq(Action) /\ last.before \in Seq(Line)
  BY AddedIs DEF TypeInv
<1>2. PICK k \in DOMAIN last.tx : r = last.tx[k].rule /\ r # NoRule /\ last.tx[k].op \in {"add", "update"} /\ r \in Rule
  BY AddedIs
<1>3. QED
  BY <1>1, <1>2, PassedIs

(***************************************************************************)
(* The invariant holds of every state.                                     *)
(***************************************************************************)
\* It holds when the agent starts.
LEMMA Initially == Init => IndInv
<1> SUFFICES ASSUME Init PROVE IndInv
  OBVIOUS
<1>1. TypeInv
  <2>1. env \in Signals /\ (env.ufw => env.hasUfw) /\ backend = "none" /\ writes \in BOOLEAN /\ host \in Seq(Line)
    BY PolicyAssumption DEF Init
  <2>2. asked \in 0..MaxTransactions
    BY PolicyAssumption DEF Init
  <2>3. <<>> \in Seq(Line)
    OBVIOUS
  <2>4. /\ last.tx = <<>> /\ last.before = <<>> /\ last.outcome = "none"
        /\ last = [tx |-> last.tx, before |-> last.before, done |-> last.done, outcome |-> last.outcome]
    BY DEF Init, Nothing
  <2>5. QED
    BY <2>1, <2>2, <2>3, <2>4 DEF TypeInv
<1>2. DoneInv
  BY DEF Init, Nothing, DoneInv
<1>3. last.outcome = "none"
  BY DEF Init, Nothing
<1>4. QED
  BY <1>1, <1>2, <1>3 DEF IndInv, JudgedInv, FrameInv, PathInv

\* The agent's start touches neither the host nor a transaction.
LEMMA StartKeeps == IndInv /\ Start => IndInv'
<1> SUFFICES ASSUME IndInv, Start PROVE IndInv'
  OBVIOUS
<1>1. /\ backend = "none" /\ backend' = Chosen(env) /\ writes' = WritesAllowed(env) /\ env' = NoEnv
      /\ host' = host /\ asked' = asked /\ last' = last
  BY DEF Start
<1>2. Chosen(env) \in {"none", "ufw", "iptables"} /\ WritesAllowed(env) \in BOOLEAN
  BY DEF Chosen, WritesAllowed
<1>3. NoEnv \in Signals /\ ~ NoEnv.ufw
  BY DEF NoEnv, Signals
<1>4. last.outcome = "none"
  BY <1>1 DEF IndInv, TypeInv
<1>5. TypeInv'
  <2>1. env' \in Signals /\ (env'.ufw => env'.hasUfw) /\ backend' \in {"none", "ufw", "iptables"} /\ writes' \in BOOLEAN
    BY <1>1, <1>2, <1>3
  <2>2. QED
    BY <1>1, <1>4, <2>1 DEF IndInv, TypeInv
<1>6. DoneInv'
  BY <1>1 DEF IndInv, DoneInv
<1>7. QED
  BY <1>1, <1>4, <1>5, <1>6 DEF IndInv, JudgedInv, FrameInv, PathInv

\* A transaction that starts has been judged by the rules that it starts from.
LEMMA TransactKeeps == \A tx \in Transactions : IndInv /\ Transact(tx) => IndInv'
<1> SUFFICES ASSUME NEW tx \in Transactions, IndInv, Transact(tx) PROVE IndInv'
  OBVIOUS
<1> DEFINE new == [tx |-> tx, before |-> host, done |-> 0, outcome |-> IF Validate(tx) THEN "applying" ELSE "rejected"]
<1>1. /\ last' = new /\ asked < MaxTransactions /\ asked' = asked + 1 /\ backend # "none"
      /\ env' = env /\ backend' = backend /\ writes' = writes /\ host' = host
  BY DEF Transact
<1>2. TypeInv /\ DoneInv
  BY DEF IndInv
<1>3. /\ last'.tx = tx /\ last'.before = host /\ last'.done = 0 /\ last'.outcome \in {"applying", "rejected"}
      /\ (last'.outcome = "applying" => Validate(tx))
      /\ last' = [tx |-> last'.tx, before |-> last'.before, done |-> last'.done, outcome |-> last'.outcome]
  BY <1>1
<1>4. asked' \in 0..MaxTransactions
  BY <1>1, <1>2, PolicyAssumption DEF TypeInv
<1> HIDE DEF new
<1>5. TypeInv'
  BY <1>1, <1>2, <1>3, <1>4 DEF TypeInv
<1>6. DoneInv'
  <2>1. tx \in Seq(Action)
    BY PolicyAssumption
  <2>2. 0 \in 0..Len(tx)
    BY <2>1
  <2>3. QED
    BY <1>3, <2>2 DEF DoneInv
<1>7. JudgedInv'
  <2>1. Listed(last.before)' = Listed(host)
    BY <1>1, <1>3 DEF Listed, Shown, Place, Fresh
  <2>2. Validate(tx) => ValidateTx(tx, Listed(host))
    BY DEF Validate
  <2>3. last'.outcome \in {"applying", "applied"} => ValidateTx(last'.tx, Listed(last.before)')
    BY <1>3, <2>1, <2>2
  <2>4. QED
    BY <2>3 DEF JudgedInv
<1>8. FrameInv'
  BY <1>1, <1>3 DEF FrameInv
<1>9. PathInv'
  <2>1. last'.done # 1
    BY <1>3
  <2>2. QED
    BY <2>1 DEF PathInv
<1>10. QED
  BY <1>5, <1>6, <1>7, <1>8, <1>9 DEF IndInv

\* A step of a transaction changes neither the transaction nor its rules.
LEMMA JudgedStays ==
  ASSUME backend' = backend, last'.tx = last.tx, last'.before = last.before, JudgedInv,
         last'.outcome \in {"applying", "applied"} => last.outcome \in {"applying", "applied"}
  PROVE  JudgedInv' /\ Before' = Before
<1>1. Listed(last.before)' = Listed(last.before)
  BY DEF Listed, Shown, Place, Fresh
<1>2. last'.outcome \in {"applying", "applied"} => ValidateTx(last'.tx, Listed(last.before)')
  BY <1>1 DEF JudgedInv
<1>3. QED
  BY <1>1, <1>2 DEF JudgedInv, Before

\* Each command leaves lines, and the first one the way in.
LEMMA CommandStep == IndInv /\ Command => IndInv'
<1> SUFFICES ASSUME IndInv, Command PROVE IndInv'
  OBVIOUS
<1> DEFINE a == last.tx[last.done + 1]
<1>1. /\ last.outcome = "applying" /\ last.done < Len(last.tx) /\ Can(host, a) /\ host' = Apply(host, a)
      /\ last' = [last EXCEPT !.done = @ + 1]
      /\ env' = env /\ backend' = backend /\ writes' = writes /\ asked' = asked
  BY DEF Command
<1>2. TypeInv /\ DoneInv /\ JudgedInv /\ FrameInv /\ PathInv
  BY DEF IndInv
<1>3. /\ last'.tx = last.tx /\ last'.before = last.before /\ last'.outcome = last.outcome /\ last'.done = last.done + 1
      /\ last' = [tx |-> last'.tx, before |-> last'.before, done |-> last'.done, outcome |-> last'.outcome]
  BY <1>1, <1>2 DEF TypeInv
<1>4. last.tx \in Seq(Action)
  BY <1>2, AddedIs
<1>5. last.done + 1 \in DOMAIN last.tx /\ Len(last.tx) \in Nat /\ DOMAIN last.tx = 1..Len(last.tx)
  BY <1>1, <1>2, <1>4 DEF DoneInv
<1>6. ValidateTx(last.tx, Listed(last.before)) /\ last.before \in Seq(Line) /\ host \in Seq(Line)
  BY <1>1, <1>2 DEF JudgedInv, TypeInv
<1>7. a \in Action /\ (a.rule # NoRule => ValidRule(a.rule))
  BY <1>4, <1>5, <1>6, PassedIs
<1>8. host' \in Seq(Line)
  <2> HIDE DEF a
  <2>1. QED
    BY <1>1, <1>6, <1>7, ApplyLines
<1>9. TypeInv'
  BY <1>1, <1>2, <1>3, <1>8 DEF TypeInv
<1>10. DoneInv'
  BY <1>1, <1>2, <1>3, <1>5 DEF DoneInv
<1>11. JudgedInv'
  BY <1>1, <1>2, <1>3, JudgedStays
<1>12. FrameInv'
  <2>1. last'.done # 0
    BY <1>2, <1>3, <1>5 DEF DoneInv
  <2>2. QED
    BY <1>1, <1>3, <2>1 DEF FrameInv
<1>13. PathInv'
  <2>1. SUFFICES ASSUME Len(last.tx) = 1, last.done + 1 = 1, NEW r \in Added, r.dir = "in", Blocks(r)
                 PROVE  KeepsPath(r, last.before, Before, Replaced, host')
    <3>1. Added' = Added /\ Replaced' = Replaced /\ Before' = Before
      BY <1>1, <1>2, <1>3, JudgedStays DEF Added, Replaced
    <3>2. QED
      BY <1>3, <3>1 DEF PathInv
  <2>2. last.done = 0 /\ last.done + 1 = 1
    BY <1>2, <1>5, <2>1 DEF DoneInv
  <2>3. host = last.before
    BY <1>1, <1>2, <2>2 DEF FrameInv
  <2>4. a = last.tx[1] /\ \A k \in DOMAIN last.tx : k = 1
    BY <1>5, <2>1, <2>2
  <2>5. r = a.rule /\ r # NoRule /\ a.op \in {"add", "update"}
    BY <1>2, <2>1, <2>4, AddedIs
  <2>6. /\ r \in Rule /\ ValidRule(r)
        /\ \A c \in LockoutChecks({Listed(last.before)[i] : i \in DOMAIN Listed(last.before)}, r) : c.code \notin Critical
    BY <1>2, <1>6, <2>1, AddedPassed
  <2>7. Replaced = IF a.op = "update" THEN a.num ELSE 0
    BY <2>4 DEF Replaced
  <2> HIDE DEF a
  <2>8. QED
    BY <1>1, <1>6, <1>7, <2>1, <2>3, <2>5, <2>6, <2>7, CommandKeeps DEF Before
<1>14. QED
  BY <1>9, <1>10, <1>11, <1>12, <1>13 DEF IndInv

\* A rollback puts the lines back.
LEMMA RollbackStep == IndInv /\ Rollback => IndInv'
<1> SUFFICES ASSUME IndInv, Rollback PROVE IndInv'
  OBVIOUS
<1>1. /\ host' = last.before /\ last' = [last EXCEPT !.outcome = "rolled_back"] /\ last.outcome = "applying"
      /\ env' = env /\ backend' = backend /\ writes' = writes /\ asked' = asked
  BY DEF Rollback
<1>2. TypeInv /\ DoneInv
  BY DEF IndInv
<1>3. /\ last'.tx = last.tx /\ last'.before = last.before /\ last'.outcome = "rolled_back" /\ last'.done = last.done
      /\ last' = [tx |-> last'.tx, before |-> last'.before, done |-> last'.done, outcome |-> last'.outcome]
  BY <1>1, <1>2 DEF TypeInv
<1>4. TypeInv'
  BY <1>1, <1>2, <1>3 DEF TypeInv
<1>5. DoneInv'
  BY <1>2, <1>3 DEF DoneInv
<1>6. QED
  BY <1>3, <1>4, <1>5 DEF IndInv, JudgedInv, FrameInv, PathInv

\* A commit leaves all as it is.
LEMMA CommitStep == IndInv /\ Commit => IndInv'
<1> SUFFICES ASSUME IndInv, Commit PROVE IndInv'
  OBVIOUS
<1>1. /\ host' = host /\ last' = [last EXCEPT !.outcome = "applied"] /\ last.outcome = "applying"
      /\ env' = env /\ backend' = backend /\ writes' = writes /\ asked' = asked /\ last.done = Len(last.tx)
  BY DEF Commit
<1>2. TypeInv /\ DoneInv /\ JudgedInv /\ PathInv
  BY DEF IndInv
<1>3. /\ last'.tx = last.tx /\ last'.before = last.before /\ last'.outcome = "applied" /\ last'.done = last.done
      /\ last' = [tx |-> last'.tx, before |-> last'.before, done |-> last'.done, outcome |-> last'.outcome]
  BY <1>1, <1>2 DEF TypeInv
<1>4. TypeInv'
  BY <1>1, <1>2, <1>3 DEF TypeInv
<1>5. DoneInv'
  BY <1>2, <1>3 DEF DoneInv
<1>6. JudgedInv'
  BY <1>1, <1>2, <1>3, JudgedStays
<1>7. FrameInv'
  BY <1>1, <1>3 DEF FrameInv
<1>8. PathInv'
  <2>1. Added' = Added /\ Replaced' = Replaced /\ Before' = Before
    BY <1>1, <1>2, <1>3, JudgedStays DEF Added, Replaced
  <2>2. QED
    BY <1>1, <1>2, <1>3, <2>1 DEF PathInv
<1>9. QED
  BY <1>4, <1>5, <1>6, <1>7, <1>8 DEF IndInv

\* It holds of every state that the agent and the host reach.
THEOREM Invariance == Spec => []IndInv
<1>1. IndInv /\ [Next]_vars => IndInv'
  <2> SUFFICES ASSUME IndInv, [Next]_vars PROVE IndInv'
    OBVIOUS
  <2>1. CASE UNCHANGED vars
    <3>1. env' = env /\ backend' = backend /\ writes' = writes /\ host' = host /\ asked' = asked /\ last' = last
      BY <2>1 DEF vars
    <3>2. Added' = Added /\ Replaced' = Replaced /\ Before' = Before
      BY <3>1, JudgedStays DEF IndInv, Added, Replaced
    <3>3. TypeInv' /\ DoneInv' /\ FrameInv'
      BY <3>1 DEF IndInv, TypeInv, DoneInv, FrameInv
    <3>4. JudgedInv'
      BY <3>1, JudgedStays DEF IndInv
    <3>5. PathInv'
      BY <3>1, <3>2 DEF IndInv, PathInv
    <3>6. QED
      BY <3>3, <3>4, <3>5 DEF IndInv
  <2>2. QED
    BY <2>1, StartKeeps, TransactKeeps, CommandStep, RollbackStep, CommitStep DEF Next
<1>2. QED
  BY <1>1, Initially, PTL DEF Spec

(***************************************************************************)
(* Nobody is locked out.                                                   *)
(***************************************************************************)
\* Rules stay rules, on the host and as they are listed.
LEMMA Typed == IndInv => TypeOK
<1> SUFFICES ASSUME IndInv PROVE TypeOK
  OBVIOUS
<1>1. TypeInv
  BY DEF IndInv
<1>2. host \in Seq(Line)
  BY <1>1 DEF TypeInv
<1>3. \A i \in DOMAIN host : host[i] \in Rule
  BY <1>2 DEF Line
<1>5. \A i \in DOMAIN Listed(host) : Listed(host)[i] \in Rule
  BY <1>2, ListedIs
<1>4. QED
  BY <1>1, <1>3, <1>5 DEF TypeInv, TypeOK

\* An address that covers a host has been checked for it.
LEMMA CoversHosts ==
  ASSUME NEW s \in AddrSpec, NEW x \in Hosts(s)
  PROVE  AddrCovers(s, x)
BY AddrIs, HostsAre DEF AddrCovers

\* What has been accepted has passed.
LEMMA AcceptedPassed ==
  ASSUME IndInv, NEW r \in Accepted
  PROVE  /\ r \in Added /\ last.outcome = "applied" /\ r \in Rule /\ ValidRule(r)
         /\ \A c \in LockoutChecks({Listed(last.before)[i] : i \in DOMAIN Listed(last.before)}, r) : c.code \notin Critical
<1>1. last.outcome = "applied" /\ r \in Added
  BY DEF Accepted
<1>2. QED
  BY <1>1, AddedPassed DEF IndInv, JudgedInv

\* conflicts.go:244: a rule that blocks what comes in and passes does not speak
\* of traffic from 127.0.0.1.
LEMMA LoopbackKept == IndInv => LoopbackSafe
<1> SUFFICES ASSUME IndInv, NEW r \in Accepted, r.dir = "in", Blocks(r), NEW p \in Packets,
                    p.src = Loopback4, Matches(r, p)
             PROVE  FALSE
  BY DEF LoopbackSafe
<1>1. /\ r \in Rule
      /\ \A c \in LockoutChecks({Listed(last.before)[i] : i \in DOMAIN Listed(last.before)}, r) : c.code \notin Critical
  BY AcceptedPassed
<1>2. AddrCovers(r.src, Loopback4)
  BY <1>1, RuleIs, CoversHosts DEF Matches
<1>3. [code |-> "MANAGEMENT_PORT_LOCKOUT", rules |-> {r.id}] \in
        LockoutChecks({Listed(last.before)[i] : i \in DOMAIN Listed(last.before)}, r)
  BY <1>2 DEF LockoutChecks
<1>4. QED
  BY <1>1, <1>3 DEF Critical

\* conflicts.go:254: the way in that was there is still open.
LEMMA PathKept == IndInv => ManagementPathKept
<1> SUFFICES ASSUME IndInv, NEW r \in Accepted, Len(last.tx) = 1, r.dir = "in", Blocks(r),
                    NEW i \in (DOMAIN last.before) \ {Replaced}, i \in DOMAIN Before,
                    Before[i].dport.k \notin {"junk", "list"},
                    last.before[i].dir = "in", last.before[i].act = "allow",
                    NoAddr \in {NormAddr(r.src), Before[i].src},
                    NEW p \in Packets, Decides(last.before, i, p)
             PROVE  \E j \in DOMAIN host : Decides(host, j, p) /\ host[j].act = "allow"
  BY DEF ManagementPathKept, ReadAs
<1>1. last.outcome = "applied" /\ r \in Added
  BY AcceptedPassed
<1>2. last.done = 1
  BY <1>1 DEF IndInv, FrameInv
<1>3. KeepsPath(r, last.before, Before, Replaced, host)
  BY <1>1, <1>2 DEF IndInv, PathInv
<1>4. QED
  BY <1>3 DEF KeepsPath

\* conflicts.go:244 and 254: no transaction that passes the analysis locks the
\* administrator out, whatever rules the host has and whatever is asked for.
THEOREM LetIn == Spec => []NoLockout
<1>1. IndInv => NoLockout
  BY Typed, LoopbackKept, PathKept DEF NoLockout
<1>2. QED
  BY <1>1, Invariance, PTL

(***************************************************************************)
(* Ownership.                                                              *)
(***************************************************************************)
\* There are three managers to ask for.
LEMMA Managers == IsFiniteSet({"ufw", "firewalld", "nft"})
<1>1. IsFiniteSet({} \union {"ufw"})
  BY FS_EmptySet, FS_AddElement
<1>2. IsFiniteSet(({} \union {"ufw"}) \union {"firewalld"})
  BY <1>1, FS_AddElement
<1>3. IsFiniteSet((({} \union {"ufw"}) \union {"firewalld"}) \union {"nft"})
  BY <1>2, FS_AddElement
<1>4. (({} \union {"ufw"}) \union {"firewalld"}) \union {"nft"} = {"ufw", "firewalld", "nft"}
  OBVIOUS
<1>5. QED
  BY <1>3, <1>4

\* One active manager, if it is ufw, is the only one.
LEMMA OneManager ==
  ASSUME NEW e \in Signals, ActiveManagers(e) = 1, e.ufw
  PROVE  ~ e.firewalld /\ ~ e.nft
<1> DEFINE M == {m \in {"ufw", "firewalld", "nft"} : e[m]}
<1>1. M \subseteq {"ufw", "firewalld", "nft"}
  OBVIOUS
<1>2. IsFiniteSet(M)
  BY <1>1, Managers, FS_Subset
<1>3. \E x : M = {x}
  BY <1>2, FS_Singleton DEF ActiveManagers
<1>4. "ufw" \in M /\ (e.firewalld => "firewalld" \in M) /\ (e.nft => "nft" \in M)
  OBVIOUS
<1> HIDE DEF M
<1>5. QED
  BY <1>3, <1>4

\* ownership.go, app.go: an agent that may write, and nobody has acknowledged a
\* conflict, writes where ufw is the one active manager.
THEOREM OwnerWrites == Spec => WritesFollowOwner
<1> DEFINE Follows == (writes' /\ ~ writes /\ ~ env.ack) =>
                        /\ env.ufw /\ ~ env.firewalld /\ ~ env.nft
                        /\ env.setting = "auto" => backend' = "ufw"
<1>1. IndInv /\ [Next]_vars => [Follows]_vars
  <2> SUFFICES ASSUME IndInv, Next, writes', ~ writes, ~ env.ack
               PROVE  env.ufw /\ ~ env.firewalld /\ ~ env.nft /\ (env.setting = "auto" => backend' = "ufw")
    OBVIOUS
  <2>1. Start
    BY DEF Next, Transact, Command, Rollback, Commit
  <2>2. WritesAllowed(env) /\ backend' = Chosen(env)
    BY <2>1 DEF Start
  <2>3. env \in Signals /\ (env.ufw => env.hasUfw)
    BY DEF IndInv, TypeInv
  <2>4. Owner(env) = "UFW"
    BY <2>2 DEF WritesAllowed
  <2>5. ActiveManagers(env) \in Nat
    <3>1. IsFiniteSet({m \in {"ufw", "firewalld", "nft"} : env[m]})
      BY Managers, FS_Subset
    <3>2. QED
      BY <3>1, FS_CardinalityType DEF ActiveManagers
  <2>6. ActiveManagers(env) = 1 /\ env.ufw
    BY <2>4, <2>5 DEF Owner
  <2>7. ~ env.firewalld /\ ~ env.nft
    BY <2>3, <2>6, OneManager
  <2>8. env.setting = "auto" => Chosen(env) = "ufw"
    BY <2>3, <2>4, <2>6 DEF Chosen
  <2>9. QED
    BY <2>2, <2>6, <2>7, <2>8
<1>2. QED
  BY <1>1, Invariance, PTL DEF Spec, WritesFollowOwner

(***************************************************************************)
(* What is asked for is what is installed.                                 *)
(***************************************************************************)
\* The fields of a packet.
LEMMA PacketIs ==
  ASSUME NEW p \in Packet
  PROVE  /\ p.src \in 0..5 /\ p.dst \in 0..5 /\ Family(p.src) = Family(p.dst)
         /\ p.proto \in {"tcp", "udp", "icmp"} /\ p.dir \in {"in", "out", "forward"}
         /\ p.sport \in 0..8 /\ p.dport \in 0..8
         /\ p.ifin \in {"", "eth0"} /\ p.ifout \in {"", "eth0"} /\ p.state \in {"new", "est"}
<1>1. p.src \in V4 \union V6 /\ p.dst \in V4 \union V6 /\ Family(p.src) = Family(p.dst)
  BY DEF Packet
<1>2. p.proto \in {"tcp", "udp", "icmp"} /\ p.dir \in {"in", "out", "forward"}
      /\ p.ifin \in {"", "eth0"} /\ p.ifout \in {"", "eth0"} /\ p.state \in {"new", "est"}
  BY DEF Packet
<1>3. p.sport \in 0..8 /\ p.dport \in 0..8
  BY DEF Packet, MaxPort
<1>4. QED
  BY <1>1, <1>2, <1>3, Members

\* Two hosts of one block, or of one address, are of one family.
LEMMA NamedFamily ==
  ASSUME NEW s \in AddrSpec, s.k \in {"ip", "cidr"}, NEW x \in Hosts(s)
  PROVE  Family(x) = Family(s.base) /\ Family(x) \in {"ipv4", "ipv6"}
<1>1. x \in (IF s.base \in V4 THEN V4 ELSE V6)
  BY HostsAre
<1>2. QED
  BY <1>1, Members DEF Family

\* What iptables is told of an IPv4 rule speaks of the same packets.
LEMMA IptablesEffect ==
  ASSUME NEW r \in Rule, ValidRule(r), r.fam = "ipv4", NEW p \in Packet
  PROVE  Matches(RuleToArgs(r), p) <=> Matches(r, p)
<1> DEFINE x == RuleToArgs(r)
<1>1. /\ x.fam = "ipv4" /\ x.dir = r.dir /\ x.proto = (IF r.proto = "any" THEN "" ELSE r.proto)
      /\ x.src = Saved(r.src) /\ x.dst = Saved(r.dst) /\ x.sport = Coloned(r.sport) /\ x.dport = Coloned(r.dport)
      /\ x.ifin = r.ifin /\ x.ifout = r.ifout /\ x.state = r.state
  BY RuleToArgsIs
<1>2. AddrValid(r.src, "ipv4") /\ AddrValid(r.dst, "ipv4") /\ r.src \in AddrSpec /\ r.dst \in AddrSpec
  BY RuleIs DEF ValidRule
<1>3. ASSUME NEW s \in AddrSpec, AddrValid(s, "ipv4"), NEW h \in V4
      PROVE  h \in Hosts(Saved(s)) <=> h \in Hosts(s)
  <2>1. s.k \in {"", "any", "ip", "cidr"} /\ (s.k \in {"ip", "cidr"} => s.base \in V4)
    BY <1>3 DEF AddrValid, Family
  <2>2. h \in 0..5
    BY Members
  <2>3. CASE s.k \in {"", "any"}
    <3>1. Saved(s) = NoAddr /\ s.k # "junk"
      BY <2>3, SavedIs
    <3>2. QED
      BY <2>2, <2>3, <3>1, HostsAre, AddrMade
  <2>4. CASE s.k = "cidr" /\ s.len = 0
    <3>1. Saved(s) = NoAddr
      BY <2>4, SavedIs
    <3>2. Hosts(s) = Block(s.base, 0)
      BY <2>4, HostsAre
    <3>3. Block(s.base, 0) = V4
      <4>1. s.base \in V4
        BY <2>1, <2>4
      <4>2. QED
        BY <4>1, Widths DEF Block
    <3>4. QED
      BY <2>2, <3>1, <3>2, <3>3, HostsAre, AddrMade
  <2>5. CASE s.k = "ip" \/ (s.k = "cidr" /\ s.len # 0)
    BY <2>5, SavedIs
  <2>6. QED
    BY <2>1, <2>3, <2>4, <2>5
<1>4. Family(p.src) = "ipv4" => p.src \in V4 /\ p.dst \in V4
  BY PacketIs DEF Family
<1>5. p.proto \in {"tcp", "udp", "icmp"}
  BY PacketIs
<1>6. r.proto \in {"", "any", p.proto} <=> x.proto \in {"", "any", p.proto}
  BY <1>1, <1>5
<1> HIDE DEF x
<1>7. Family(p.src) = "ipv4" => ((p.src \in Hosts(x.src) <=> p.src \in Hosts(r.src))
                                 /\ (p.dst \in Hosts(x.dst) <=> p.dst \in Hosts(r.dst)))
  BY <1>1, <1>2, <1>3, <1>4
<1>10. /\ Ports(x.sport) = Ports(r.sport) /\ (x.sport.k = "" <=> r.sport.k = "")
       /\ Ports(x.dport) = Ports(r.dport) /\ (x.dport.k = "" <=> r.dport.k = "")
  <2>1. r.sport \in PortSpec /\ r.dport \in PortSpec
    BY RuleIs
  <2>2. \A s \in PortSpec : Ports(Coloned(s)) = Ports(s) /\ (Coloned(s).k = "" <=> s.k = "")
    BY WrittenIs
  <2>3. QED
    BY <1>1, <2>1, <2>2
<1>8. Matches(x, p) <=> Matches(r, p)
  BY <1>1, <1>6, <1>7, <1>10 DEF Matches
<1>9. QED
  BY <1>8 DEF x

\* What ufw is told of a rule that names its family, or none, speaks of the same
\* packets.
LEMMA UFWEffect ==
  ASSUME NEW r \in Rule, ValidRule(r), NEW p \in Packet,
         Named(r.src) \/ r.sport.k = "", r.dir = "in" => r.ifout = "",
         r.fam = "both" \/ Named(r.src) \/ Named(r.dst), r.state = ""
  PROVE  Matches(ToUFWArgs(r), p) <=> Matches(r, p)
<1> DEFINE x == ToUFWArgs(r)
<1>1. /\ x.dir = (IF r.dir = "in" /\ r.ifout # "" THEN "out" ELSE r.dir)
      /\ x.proto = (IF r.proto = "any" THEN "" ELSE r.proto)
      /\ x.src = Plain(r.src) /\ x.dst = Plain(r.dst) /\ x.dport = r.dport
      /\ x.sport = (IF Named(r.src) THEN r.sport ELSE NoPort)
      /\ x.ifin = r.ifin /\ x.ifout = r.ifout /\ x.state = r.state
      /\ x.fam = (IF Named(r.src) THEN Family(r.src.base)
                  ELSE IF Named(r.dst) THEN Family(r.dst.base) ELSE "both")
  BY ToUFWArgsIs
<1>2. AddrValid(r.src, r.fam) /\ AddrValid(r.dst, r.fam) /\ r.src \in AddrSpec /\ r.dst \in AddrSpec
  BY RuleIs DEF ValidRule
<1>3. Hosts(x.src) = Hosts(r.src) /\ Hosts(x.dst) = Hosts(r.dst)
  BY <1>1, <1>2, PlainIs
<1>4. ASSUME NEW s \in AddrSpec, AddrValid(s, r.fam), Named(s)
      PROVE  s.k \in {"ip", "cidr"} /\ r.fam \in {"both", Family(s.base)}
  BY <1>4 DEF AddrValid, Named
<1>5. p.proto \in {"tcp", "udp", "icmp"} /\ Family(p.src) = Family(p.dst)
  BY PacketIs
<1>6. r.proto \in {"", "any", p.proto} <=> x.proto \in {"", "any", p.proto}
  BY <1>1, <1>5
<1>7. x.dir = r.dir
  BY <1>1
<1>8. x.sport = r.sport \/ (x.sport.k = "" /\ r.sport.k = "")
  <2>1. NoPort.k = ""
    BY DEF NoPort
  <2>2. x.sport = IF Named(r.src) THEN r.sport ELSE NoPort
    BY <1>1
  <2> HIDE DEF x
  <2>3. CASE Named(r.src)
    BY <2>2, <2>3
  <2>4. CASE ~ Named(r.src)
    <3>1. x.sport = NoPort /\ r.sport.k = ""
      BY <2>2, <2>4
    <3>2. QED
      BY <2>1, <3>1
  <2>5. QED
    BY <2>3, <2>4
<1> HIDE DEF x
<1>9. (p.src \in Hosts(r.src) /\ p.dst \in Hosts(r.dst)) => (x.fam \in {"both", Family(p.src)} <=> r.fam \in {"both", Family(p.src)})
  <2> SUFFICES ASSUME p.src \in Hosts(r.src), p.dst \in Hosts(r.dst)
               PROVE  x.fam \in {"both", Family(p.src)} <=> r.fam \in {"both", Family(p.src)}
    OBVIOUS
  <2>1. CASE Named(r.src)
    <3>1. r.src.k \in {"ip", "cidr"} /\ r.fam \in {"both", Family(r.src.base)}
      BY <1>2, <1>4, <2>1
    <3>2. Family(p.src) = Family(r.src.base)
      BY <1>2, <3>1, NamedFamily
    <3>3. QED
      BY <1>1, <2>1, <3>1, <3>2
  <2>2. CASE ~ Named(r.src) /\ Named(r.dst)
    <3>1. r.dst.k \in {"ip", "cidr"} /\ r.fam \in {"both", Family(r.dst.base)}
      BY <1>2, <1>4, <2>2
    <3>2. Family(p.dst) = Family(r.dst.base)
      BY <1>2, <3>1, NamedFamily
    <3>3. QED
      BY <1>1, <1>5, <2>2, <3>1, <3>2
  <2>3. CASE ~ Named(r.src) /\ ~ Named(r.dst)
    BY <1>1, <2>3
  <2>4. QED
    BY <2>1, <2>2, <2>3
<1>10. Matches(x, p) <=> Matches(r, p)
  BY <1>1, <1>3, <1>6, <1>7, <1>8, <1>9 DEF Matches
<1>11. QED
  BY <1>10 DEF x

\* ufw.go:188, iptables.go:239: a rule that the command line of its backend can
\* say is installed for the packets it names and decides them as asked, whatever
\* rule it is.
THEOREM InstalledAsAsked == Spec => []EffectAsAsked
<1>1. IndInv => EffectAsAsked
  <2> SUFFICES ASSUME IndInv, NEW r \in Accepted, Expressible(r)
               PROVE  Traffic(Installed(r)) = Traffic(r) /\ Polarity(Installed(r).act) = Polarity(r.act)
    BY DEF EffectAsAsked
  <2>1. r \in Rule /\ ValidRule(r)
    BY AcceptedPassed
  <2>2. Packets \subseteq Packet
    BY PolicyAssumption
  <2>3. CASE backend = "iptables"
    <3>1. Installed(r) = RuleToArgs(r) /\ r.fam = "ipv4"
      BY <2>3 DEF Installed, Expressible
    <3>2. \A p \in Packets : Matches(RuleToArgs(r), p) <=> Matches(r, p)
      BY <2>1, <2>2, <3>1, IptablesEffect
    <3>3. RuleToArgs(r).act = (IF r.act = "deny" THEN "drop" ELSE r.act)
      BY <2>1, RuleToArgsIs
    <3>4. QED
      BY <3>1, <3>2, <3>3 DEF Traffic, Polarity
  <2>4. CASE backend # "iptables"
    <3>1. backend = "ufw"
      BY <2>4, AcceptedPassed DEF IndInv, TypeInv
    <3>2. /\ r.act \in {"allow", "deny", "drop"} \/ (r.act = "reject" /\ r.dir = "in")
          /\ Named(r.src) \/ r.sport.k = ""
          /\ r.dir = "in" => r.ifout = ""
          /\ r.fam = "both" \/ Named(r.src) \/ Named(r.dst)
          /\ r.state = ""
          /\ Installed(r) = ToUFWArgs(r)
      BY <2>4, <3>1 DEF Expressible, Installed
    <3>3. \A p \in Packets : Matches(ToUFWArgs(r), p) <=> Matches(r, p)
      BY <2>1, <2>2, <3>2, UFWEffect
    <3>4. ToUFWArgs(r).act = UFWVerb(r)
      BY <2>1, ToUFWArgsIs
    <3>5. Polarity(UFWVerb(r)) = Polarity(r.act)
      BY <3>2 DEF UFWVerb, Polarity
    <3>6. Traffic(ToUFWArgs(r)) = Traffic(r)
      BY <3>3 DEF Traffic
    <3>7. QED
      BY <3>2, <3>4, <3>5, <3>6
  <2>5. QED
    BY <2>3, <2>4
<1>2. QED
  BY <1>1, Invariance, PTL

(***************************************************************************)
(* The reports of shadows.                                                 *)
(***************************************************************************)
\* Whatever has the fields of a packet, and one family, is one.
LEMMA PacketMade ==
  ASSUME NEW q,
         q = [dir |-> q.dir, src |-> q.src, dst |-> q.dst, proto |-> q.proto, sport |-> q.sport, dport |-> q.dport,
              ifin |-> q.ifin, ifout |-> q.ifout, state |-> q.state],
         q.state \in {"new", "est"}, q.dir \in {"in", "out", "forward"}, q.src \in V4 \union V6, q.dst \in V4 \union V6,
         q.proto \in {"tcp", "udp", "icmp"}, q.sport \in 0..MaxPort, q.dport \in 0..MaxPort,
         q.ifin \in {"", "eth0"}, q.ifout \in {"", "eth0"}, Family(q.src) = Family(q.dst)
  PROVE  q \in Packet
BY Zenon DEF Packet

\* A packet with one of its fields changed is a packet.
LEMMA Changed ==
  ASSUME NEW p \in Packet, NEW q,
         \/ \E x \in 0..5 : Family(x) = Family(p.src) /\ q = [p EXCEPT !.src = x]
         \/ \E x \in 0..5 : Family(x) = Family(p.dst) /\ q = [p EXCEPT !.dst = x]
         \/ \E x \in {"tcp", "udp", "icmp"} : q = [p EXCEPT !.proto = x]
         \/ \E x \in 0..8 : q = [p EXCEPT !.sport = x]
         \/ \E x \in 0..8 : q = [p EXCEPT !.dport = x]
         \/ \E x \in {"", "eth0"} : q = [p EXCEPT !.ifin = x]
         \/ \E x \in {"", "eth0"} : q = [p EXCEPT !.ifout = x]
  PROVE  q \in Packet
<1>1. /\ p.dir \in {"in", "out", "forward"} /\ p.src \in V4 \union V6 /\ p.dst \in V4 \union V6
      /\ p.proto \in {"tcp", "udp", "icmp"} /\ p.sport \in 0..MaxPort /\ p.dport \in 0..MaxPort
      /\ p.ifin \in {"", "eth0"} /\ p.ifout \in {"", "eth0"} /\ Family(p.src) = Family(p.dst)
  BY DEF Packet
<1>7. p.state \in {"new", "est"} /\ q.state = p.state
  BY DEF Packet
<1>2. 0..5 = V4 \union V6 /\ 0..8 = 0..MaxPort
  BY Members DEF MaxPort
<1>3. q = [dir |-> q.dir, src |-> q.src, dst |-> q.dst, proto |-> q.proto, sport |-> q.sport, dport |-> q.dport,
           ifin |-> q.ifin, ifout |-> q.ifout, state |-> q.state]
  BY DEF Packet
<1>4. /\ q.dir = p.dir
      /\ q.src = p.src \/ (q.src \in 0..5 /\ Family(q.src) = Family(p.src))
      /\ q.dst = p.dst \/ (q.dst \in 0..5 /\ Family(q.dst) = Family(p.dst))
      /\ q.proto = p.proto \/ q.proto \in {"tcp", "udp", "icmp"}
      /\ q.sport = p.sport \/ q.sport \in 0..8
      /\ q.dport = p.dport \/ q.dport \in 0..8
      /\ q.ifin = p.ifin \/ q.ifin \in {"", "eth0"}
      /\ q.ifout = p.ifout \/ q.ifout \in {"", "eth0"}
  BY DEF Packet
<1>5. /\ q.dir \in {"in", "out", "forward"} /\ q.src \in V4 \union V6 /\ q.dst \in V4 \union V6
      /\ q.proto \in {"tcp", "udp", "icmp"} /\ q.sport \in 0..MaxPort /\ q.dport \in 0..MaxPort
      /\ q.ifin \in {"", "eth0"} /\ q.ifout \in {"", "eth0"} /\ Family(q.src) = Family(q.dst)
  BY <1>1, <1>2, <1>4, Zenon
<1>6. QED
  BY <1>3, <1>5, <1>7, PacketMade, Zenon

\* A rule speaks of a packet as long as each field is one of its own.
LEMMA StillMatches ==
  ASSUME NEW r, NEW p, NEW q, Matches(r, p), q.dir = p.dir, Family(q.src) = Family(p.src),
         q.proto = p.proto \/ (q.proto # "icmp" /\ r.proto \in {"", "any", q.proto}),
         q.src = p.src \/ q.src \in Hosts(r.src), q.dst = p.dst \/ q.dst \in Hosts(r.dst),
         q.sport = p.sport \/ (r.sport.k # "" => q.sport \in Ports(r.sport)),
         q.dport = p.dport \/ (r.dport.k # "" => q.dport \in Ports(r.dport)),
         q.ifin = p.ifin \/ r.ifin = "", q.ifout = p.ifout \/ r.ifout = "", q.state = p.state
  PROVE  Matches(r, q)
BY DEF Matches

\* Ranges of ports.
LEMMA Ranges ==
  /\ 0 \in 0..8
  /\ \A lo, hi \in 1..8 : 0 \notin lo..hi /\ \A m \in lo..hi : m \in 0..8
  /\ \A lo, hi, a, b \in 1..8 : (lo <= hi /\ \A m \in lo..hi : m \in a..b) => lo >= a /\ hi <= b
<1>1. 0 \in 0..8 /\ \A lo, hi \in 1..8 : 0 \notin lo..hi /\ \A m \in lo..hi : m \in 0..8
  OBVIOUS
<1>2. ASSUME NEW lo \in 1..8, NEW hi \in 1..8, NEW a \in 1..8, NEW b \in 1..8, lo <= hi,
             \A m \in lo..hi : m \in a..b
      PROVE  lo >= a /\ hi <= b
  <2>1. lo \in lo..hi /\ hi \in lo..hi
    BY <1>2
  <2>2. lo \in a..b /\ hi \in a..b
    BY <1>2, <2>1
  <2>3. QED
    BY <2>2
<1>3. QED
  BY <1>1, <1>2

\* One range holds all the ports of another that the packets of a rule can have.
LEMMA PortsReported ==
  ASSUME NEW s \in PortSpec, PortValid(s), NEW t \in PortSpec, PortValid(t) \/ t.k = "junk",
         NEW n \in 0..8, s.k # "" => n \in Ports(s),
         \A m \in 0..8 : (s.k # "" => m \in Ports(s)) => (t.k # "" => m \in Ports(t))
  PROVE  PortSubset(s, t)
<1>1. CASE t.k = ""
  BY <1>1 DEF PortSubset
<1>2. CASE t.k = "junk"
  <2>1. Ports(t) = {} /\ t.k # ""
    BY <1>2 DEF Ports
  <2>2. QED
    BY <2>1
<1>3. CASE t.k # "" /\ PortValid(t)
  <2> DEFINE tl == t.lo
             th == t.hi
             sl == s.lo
             sh == s.hi
  <2>1. Ranged(t) /\ tl \in 1..8 /\ th \in 1..8 /\ Ports(t) = tl..th
    BY <1>3, PortIs
  <2>2. s.k = "" => FALSE
    <3>1. SUFFICES ASSUME s.k = "" PROVE FALSE
      OBVIOUS
    <3>2. 0 \in tl..th
      BY <1>3, <2>1, <3>1, Ranges
    <3> HIDE DEF tl, th
    <3>3. QED
      BY <2>1, <3>2, Ranges
  <2>3. s.k # "" /\ Ranged(s) /\ sl \in 1..8 /\ sh \in 1..8 /\ sl <= sh /\ Ports(s) = sl..sh
    BY <2>2, PortIs
  <2>4. \A m \in sl..sh : m \in tl..th
    <3>1. TAKE m \in sl..sh
    <3>2. m \in 0..8
      <4> HIDE DEF sl, sh
      <4>1. QED
        BY <2>3, Ranges
    <3>3. QED
      BY <1>3, <2>1, <2>3, <3>2
  <2>5. sl >= tl /\ sh <= th
    <3> HIDE DEF sl, sh, tl, th
    <3>1. QED
      BY <2>1, <2>3, <2>4, Ranges
  <2>6. QED
    BY <2>1, <2>3, <2>5 DEF PortSubset
<1>4. QED
  BY <1>1, <1>2, <1>3

\* A rule all of whose packets an earlier one decides is found inside of it.
LEMMA AllReported ==
  ASSUME NEW r \in Rule, ValidRule(r), NEW e \in Rule, e.src \in ListedAddr, e.dst \in ListedAddr,
         PortValid(e.sport) \/ e.sport.k = "junk", PortValid(e.dport) \/ e.dport.k = "junk",
         e.fam = r.fam, e.proto # "", r.proto # "",
         NEW p \in Packet, Matches(r, p), \A q \in Packet : Matches(r, q) => Matches(e, q)
  PROVE  MatchSubset(r, e)
<1>1. /\ p.src \in 0..5 /\ p.dst \in 0..5 /\ Family(p.src) = Family(p.dst)
      /\ p.proto \in {"tcp", "udp", "icmp"} /\ p.sport \in 0..8 /\ p.dport \in 0..8
      /\ p.ifin \in {"", "eth0"} /\ p.ifout \in {"", "eth0"}
  BY PacketIs
<1>2. /\ r.src \in AddrSpec /\ r.dst \in AddrSpec /\ r.sport \in PortSpec /\ r.dport \in PortSpec
      /\ e.sport \in PortSpec /\ e.dport \in PortSpec /\ PortValid(r.sport) /\ PortValid(r.dport)
  BY RuleIs DEF ValidRule
<1>3. /\ r.dir = p.dir /\ r.proto \in {"any", p.proto} /\ p.src \in Hosts(r.src) /\ p.dst \in Hosts(r.dst)
      /\ (r.sport.k # "" => p.sport \in Ports(r.sport)) /\ (r.dport.k # "" => p.dport \in Ports(r.dport))
      /\ r.ifin \in {"", p.ifin} /\ r.ifout \in {"", p.ifout}
  BY DEF Matches
<1>4. e.dir = p.dir /\ e.proto \in {"any", p.proto}
  BY DEF Matches
<1>5. e.proto \in {r.proto, "any"}
  <2>1. ASSUME r.proto = "any", NEW x \in {"tcp", "udp"}
        PROVE  e.proto \in {"any", x}
    <3> DEFINE q == [p EXCEPT !.proto = x]
    <3>1. q \in Packet
      BY Changed
    <3>2. /\ q.dir = p.dir /\ q.src = p.src /\ q.dst = p.dst /\ q.proto = x /\ q.sport = p.sport
          /\ q.dport = p.dport /\ q.ifin = p.ifin /\ q.ifout = p.ifout /\ q.state = p.state
      BY DEF Packet
    <3> HIDE DEF q
    <3>3. Matches(r, q)
      BY <2>1, <3>2, StillMatches
    <3>4. Matches(e, q)
      BY <3>1, <3>3
    <3>5. QED
      BY <3>2, <3>4 DEF Matches
  <2>2. CASE r.proto = "any"
    BY <2>1, <2>2
  <2>3. CASE r.proto # "any"
    BY <1>3, <1>4, <2>3
  <2>4. QED
    BY <2>2, <2>3
<1> DEFINE f == Family(p.src)
<1>6. f \in {"ipv4", "ipv6", "both"} /\ \A x \in 0..5 : x \in World(f) <=> Family(x) = f
  BY Members DEF Family, World
<1>7. AddrSubset(r.src, e.src)
  <2>1. p.src \in Hosts(r.src) \intersect World(f)
    BY <1>1, <1>3, <1>6
  <2>2. ASSUME NEW x \in Hosts(r.src) \intersect World(f)
        PROVE  x \in Hosts(e.src)
    <3> DEFINE q == [p EXCEPT !.src = x]
    <3>1. x \in 0..5 /\ Family(x) = Family(p.src)
      <4>1. x \in 0..5
        BY <1>6, Worlds
      <4>2. QED
        BY <1>6, <4>1
    <3>2. q \in Packet
      BY <3>1, Changed
    <3>3. /\ q.dir = p.dir /\ q.src = x /\ q.dst = p.dst /\ q.proto = p.proto /\ q.sport = p.sport
          /\ q.dport = p.dport /\ q.ifin = p.ifin /\ q.ifout = p.ifout /\ q.state = p.state
      BY DEF Packet
    <3> HIDE DEF q
    <3>4. Matches(r, q)
      BY <3>1, <3>3, StillMatches
    <3>5. Matches(e, q)
      BY <3>2, <3>4
    <3>6. QED
      BY <3>3, <3>5 DEF Matches
  <2> HIDE DEF f
  <2>3. Hosts(r.src) \intersect World(f) # {} /\ Hosts(r.src) \intersect World(f) \subseteq Hosts(e.src)
    BY <2>1, <2>2
  <2>4. QED
    BY <1>2, <1>6, <2>3, ListedInside
<1>8. AddrSubset(r.dst, e.dst)
  <2>1. p.dst \in Hosts(r.dst) \intersect World(f)
    BY <1>1, <1>3, <1>6
  <2>2. ASSUME NEW x \in Hosts(r.dst) \intersect World(f)
        PROVE  x \in Hosts(e.dst)
    <3> DEFINE q == [p EXCEPT !.dst = x]
    <3>1. x \in 0..5 /\ Family(x) = Family(p.dst)
      <4>1. x \in 0..5
        BY <1>6, Worlds
      <4>2. QED
        BY <1>1, <1>6, <4>1
    <3>2. q \in Packet
      BY <3>1, Changed
    <3>3. /\ q.dir = p.dir /\ q.src = p.src /\ q.dst = x /\ q.proto = p.proto /\ q.sport = p.sport
          /\ q.dport = p.dport /\ q.ifin = p.ifin /\ q.ifout = p.ifout /\ q.state = p.state
      BY DEF Packet
    <3> HIDE DEF q
    <3>4. Matches(r, q)
      BY <3>1, <3>3, StillMatches
    <3>5. Matches(e, q)
      BY <3>2, <3>4
    <3>6. QED
      BY <3>3, <3>5 DEF Matches
  <2> HIDE DEF f
  <2>3. Hosts(r.dst) \intersect World(f) # {} /\ Hosts(r.dst) \intersect World(f) \subseteq Hosts(e.dst)
    BY <2>1, <2>2
  <2>4. QED
    BY <1>2, <1>6, <2>3, ListedInside
<1>9. PortSubset(r.sport, e.sport)
  <2>1. ASSUME NEW m \in 0..8, r.sport.k # "" => m \in Ports(r.sport)
        PROVE  e.sport.k # "" => m \in Ports(e.sport)
    <3> DEFINE q == [p EXCEPT !.sport = m]
    <3>1. q \in Packet
      BY Changed
    <3>2. /\ q.dir = p.dir /\ q.src = p.src /\ q.dst = p.dst /\ q.proto = p.proto /\ q.sport = m
          /\ q.dport = p.dport /\ q.ifin = p.ifin /\ q.ifout = p.ifout /\ q.state = p.state
      BY DEF Packet
    <3> HIDE DEF q
    <3>3. Matches(r, q)
      BY <2>1, <3>2, StillMatches
    <3>4. Matches(e, q)
      BY <3>1, <3>3
    <3>5. QED
      BY <3>2, <3>4 DEF Matches
  <2>2. QED
    BY <1>1, <1>2, <1>3, <2>1, PortsReported
<1>10. PortSubset(r.dport, e.dport)
  <2>1. ASSUME NEW m \in 0..8, r.dport.k # "" => m \in Ports(r.dport)
        PROVE  e.dport.k # "" => m \in Ports(e.dport)
    <3> DEFINE q == [p EXCEPT !.dport = m]
    <3>1. q \in Packet
      BY Changed
    <3>2. /\ q.dir = p.dir /\ q.src = p.src /\ q.dst = p.dst /\ q.proto = p.proto /\ q.sport = p.sport
          /\ q.dport = m /\ q.ifin = p.ifin /\ q.ifout = p.ifout /\ q.state = p.state
      BY DEF Packet
    <3> HIDE DEF q
    <3>3. Matches(r, q)
      BY <2>1, <3>2, StillMatches
    <3>4. Matches(e, q)
      BY <3>1, <3>3
    <3>5. QED
      BY <3>2, <3>4 DEF Matches
  <2>2. QED
    BY <1>1, <1>2, <1>3, <2>1, PortsReported
<1>11. e.ifin \in {"", r.ifin}
  <2> DEFINE q == [p EXCEPT !.ifin = r.ifin]
  <2>1. q \in Packet
    BY RuleIs, Changed
  <2>2. /\ q.dir = p.dir /\ q.src = p.src /\ q.dst = p.dst /\ q.proto = p.proto /\ q.sport = p.sport
        /\ q.dport = p.dport /\ q.ifin = r.ifin /\ q.ifout = p.ifout /\ q.state = p.state
    BY DEF Packet
  <2> HIDE DEF q
  <2>3. Matches(r, q)
    BY <1>3, <2>2, StillMatches
  <2>4. Matches(e, q)
    BY <2>1, <2>3
  <2>5. QED
    BY <2>2, <2>4 DEF Matches
<1>12. e.ifout \in {"", r.ifout}
  <2> DEFINE q == [p EXCEPT !.ifout = r.ifout]
  <2>1. q \in Packet
    BY RuleIs, Changed
  <2>2. /\ q.dir = p.dir /\ q.src = p.src /\ q.dst = p.dst /\ q.proto = p.proto /\ q.sport = p.sport
        /\ q.dport = p.dport /\ q.ifin = p.ifin /\ q.ifout = r.ifout /\ q.state = p.state
    BY DEF Packet
  <2> HIDE DEF q
  <2>3. Matches(r, q)
    BY <1>3, <2>2, StillMatches
  <2>4. Matches(e, q)
    BY <2>1, <2>3
  <2>5. QED
    BY <2>2, <2>4 DEF Matches
<1>13. QED
  BY <1>3, <1>4, <1>5, <1>7, <1>8, <1>9, <1>10, <1>11, <1>12 DEF MatchSubset

\* A listed rule is as the host's line is, but for what is misread.
LEMMA BeforeIs ==
  ASSUME IndInv, NEW i \in DOMAIN Before
  PROVE  /\ Before[i] \in Rule /\ Before[i].id = FreshId(i) /\ i \in Nat \ {0}
         /\ Before[i].src \in ListedAddr /\ Before[i].dst \in ListedAddr
         /\ \A s \in {Before[i].sport, Before[i].dport} : PortValid(s) \/ s.k \in {"junk", "list"}
<1> DEFINE rules == last.before
           e     == Before[i]
           l     == rules[i]
<1>1. rules \in Seq(Line)
  BY DEF IndInv, TypeInv
<1>2. i \in DOMAIN Listed(rules) /\ e = Listed(rules)[i]
  BY DEF Before
<1>3. /\ l \in Line /\ i \in Nat \ {0} /\ e \in Rule /\ e.id = FreshId(i)
      /\ e.src \in {l.src, JunkAddr} /\ e.dst \in {l.dst, NoAddr}
      /\ e.sport \in {l.sport, l.dport, Dashed(l.sport), Junk} /\ e.dport \in {l.dport, Dashed(l.dport), Junk}
      /\ l.sport \in PortSpec /\ l.dport \in PortSpec
  <2>1. /\ l \in Rule /\ l \in Line /\ i \in Nat \ {0} /\ e \in Rule /\ e.id = FreshId(i)
        /\ e.src \in {l.src, JunkAddr} /\ e.dst \in {l.dst, NoAddr}
        /\ e.sport \in {l.sport, l.dport, Dashed(l.sport), Junk} /\ e.dport \in {l.dport, Dashed(l.dport), Junk}
    BY <1>1, <1>2, ListedIs
  <2> HIDE DEF l, e
  <2>2. l.sport \in PortSpec /\ l.dport \in PortSpec
    BY <2>1, RuleIs
  <2>3. QED
    BY <2>1, <2>2
<1> HIDE DEF l, e
<1>4. l.src \in LineAddr /\ l.dst \in LineAddr /\ \A s \in {l.sport, l.dport} : s.k = "list" \/ PortValid(s)
  BY <1>3 DEF Line
<1>7. \A s \in {l.sport, l.dport} : LET d == Dashed(s) IN d.k = "list" \/ PortValid(d)
  BY <1>3, <1>4, WrittenIs
<1>5. NoAddr \in LineAddr /\ Junk.k = "junk"
  BY AddrMade DEF LineAddr, Junk
<1>6. QED
  BY <1>3, <1>4, <1>5, <1>7 DEF e, ListedAddr

\* The numbers of the listed rules are no rule's that anyone asks for.
LEMMA OtherNumber == \A i \in Nat \ {0}, n \in Nat : FreshId(i) # n
BY DEF FreshId

\* conflicts.go:102: where an earlier rule decides all the packets of a later one,
\* the analysis reports it, as far as all packets are looked at.
LEMMA Reported == Packets = Packet /\ IndInv => ShadowsReported
<1> SUFFICES ASSUME Packets = Packet, IndInv, NEW r \in Added, NEW i \in DOMAIN Before,
                    Comparable(Before[i], r), Before[i].act # "log", Traffic(r) # {},
                    Traffic(r) \subseteq Traffic(Before[i]), ValidRule(r)
             PROVE  Pairwise(Before[i], r) # {}
  BY DEF ShadowsReported
<1> DEFINE e == Before[i]
<1>1. /\ e \in Rule /\ e.id = FreshId(i) /\ i \in Nat \ {0} /\ e.src \in ListedAddr /\ e.dst \in ListedAddr
      /\ PortValid(e.sport) \/ e.sport.k = "junk"
      /\ PortValid(e.dport) \/ e.dport.k = "junk"
  BY BeforeIs DEF Comparable
<1>2. r \in Rule /\ r.id \in Nat
  BY AddedIs DEF IndInv
<1>3. e.id # r.id
  BY <1>1, <1>2, OtherNumber
<1> HIDE DEF e
<1>4. e.fam = r.fam /\ e.proto # "" /\ r.proto # "" /\ e.act # "log"
  BY DEF Comparable, e
<1>5. PICK p \in Packet : Matches(r, p)
  BY DEF Traffic
<1>6. \A q \in Packet : Matches(r, q) => Matches(e, q)
  BY DEF Traffic, e
<1>7. MatchSubset(r, e)
  BY <1>1, <1>2, <1>4, <1>5, <1>6, AllReported
<1>8. Pairwise(e, r) # {}
  BY <1>3, <1>4, <1>7 DEF Pairwise
<1>9. QED
  BY <1>8 DEF e

\* A number of an interval is one of every interval around it.
LEMMA Within ==
  ASSUME NEW a \in 0..9, NEW b \in 0..9, NEW c \in 0..9, NEW d \in 0..9, a >= c, b <= d, NEW n \in a..b
  PROVE  n \in c..d
  OBVIOUS

\* The ports of a rule that is found inside of another are the other's.
LEMMA PortsInside ==
  ASSUME NEW s \in PortSpec, NEW t \in PortSpec, PortSubset(s, t), t.k # "", NEW n \in 0..8, s.k # "" => n \in Ports(s)
  PROVE  s.k # "" /\ n \in Ports(t)
<1>1. s.k # "" /\ (s = t \/ (Ranged(s) /\ Ranged(t) /\ s.lo >= t.lo /\ s.hi <= t.hi))
  BY DEF PortSubset
<1>2. CASE s = t
  BY <1>1, <1>2
<1>3. CASE s # t
  <2> DEFINE tl == t.lo
             th == t.hi
             sl == s.lo
             sh == s.hi
  <2>1. Ranged(s) /\ Ranged(t)
    BY <1>1, <1>3
  <2>7. sl >= tl /\ sh <= th
    BY <1>1, <1>3
  <2>2. Ports(s) = sl..sh /\ Ports(t) = tl..th
    BY <2>1 DEF Ports, Ranged
  <2>3. sl \in 0..9 /\ sh \in 0..9 /\ tl \in 0..9 /\ th \in 0..9
    <3> DEFINE Numbers == [k : {"range", "colon", "list"}, lo : 0..9, hi : 0..9]
    <3>1. s \in Numbers /\ t \in Numbers
      BY <2>1 DEF PortSpec, Ranged
    <3>2. QED
      BY <3>1
  <2>4. n \in sl..sh
    BY <1>1, <2>2
  <2>5. n \in tl..th
    BY <2>3, <2>4, <2>7, Within
  <2>6. QED
    BY <1>1, <2>2, <2>5
<1>4. QED
  BY <1>2, <1>3

\* conflicts.go:102: a rule reported as shadowed, of single addresses and any
\* interface, has no packet left to it.
LEMMA ReportedIsReal == IndInv => ShadowsAreReal
<1> SUFFICES ASSUME IndInv, NEW r \in Added, NEW i \in DOMAIN Before,
                    \A s \in {r.src, r.dst} : s.k # "cidr", r.ifin = "", r.ifout = "", Before[i].state \in {"", r.state},
                    [code |-> "RULE_SHADOWED", rules |-> {Before[i].id, r.id}] \in Pairwise(Before[i], r),
                    NEW p \in Packets, Matches(r, p)
             PROVE  Matches(Before[i], p)
  BY DEF ShadowsAreReal, ReportedShadow, Traffic
<1> DEFINE e == Before[i]
<1>1. e \in Rule /\ e.src \in ListedAddr /\ e.dst \in ListedAddr
  BY BeforeIs
<1>2. r \in Rule
  BY AddedIs DEF IndInv
<1> HIDE DEF e
<1>3. MatchSubset(r, e)
  <2>1. [code |-> "RULE_SHADOWED", rules |-> {e.id, r.id}] \in Pairwise(e, r)
    BY DEF e
  <2>2. QED
    BY <2>1 DEF Pairwise
<1>4. p \in Packet
  BY PolicyAssumption
<1>5. /\ r.dir = p.dir /\ r.fam \in {"both", Family(p.src)} /\ r.proto \in {"", "any", p.proto}
      /\ p.src \in Hosts(r.src) /\ p.dst \in Hosts(r.dst)
      /\ (r.sport.k # "" => p.proto # "icmp" /\ p.sport \in Ports(r.sport))
      /\ (r.dport.k # "" => p.proto # "icmp" /\ p.dport \in Ports(r.dport))
      /\ e.state \in {"", p.state}
  BY DEF Matches, e
<1>6. /\ r.dir = e.dir /\ e.fam \in {r.fam, "both"} /\ e.proto \in {r.proto, "any"}
      /\ AddrSubset(r.src, e.src) /\ AddrSubset(r.dst, e.dst)
      /\ PortSubset(r.sport, e.sport) /\ PortSubset(r.dport, e.dport)
      /\ e.ifin = "" /\ e.ifout = ""
  BY <1>3 DEF MatchSubset
<1>7. p.src \in Hosts(e.src) /\ p.dst \in Hosts(e.dst)
  BY <1>1, <1>2, <1>5, <1>6, RuleIs, ListedInside
<1>8. /\ r.sport \in PortSpec /\ r.dport \in PortSpec /\ e.sport \in PortSpec /\ e.dport \in PortSpec
      /\ p.sport \in 0..8 /\ p.dport \in 0..8
  BY <1>1, <1>2, <1>4, RuleIs, PacketIs
<1>9. e.sport.k # "" => p.proto # "icmp" /\ p.sport \in Ports(e.sport)
  BY <1>5, <1>6, <1>8, PortsInside
<1>10. e.dport.k # "" => p.proto # "icmp" /\ p.dport \in Ports(e.dport)
  BY <1>5, <1>6, <1>8, PortsInside
<1>11. Matches(e, p)
  BY <1>5, <1>6, <1>7, <1>9, <1>10 DEF Matches
<1>12. QED
  BY <1>11 DEF e

\* conflicts.go:102: the reports of shadows are those that the packets bear out,
\* where all packets there are are looked at.
THEOREM ShadowsBorneOut ==
  ASSUME Packets = Packet
  PROVE  Spec => []ShadowsExact
<1>1. IndInv => ShadowsExact
  BY Reported, ReportedIsReal DEF ShadowsExact
<1>2. QED
  BY <1>1, Invariance, PTL
===============================================================================
