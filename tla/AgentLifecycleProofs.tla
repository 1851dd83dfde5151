------------------------- MODULE AgentLifecycleProofs -------------------------
(***************************************************************************)
(* What AgentLifecycle promises, for any number of tokens and of           *)
(* certificates, and of requests that are lost, statements and writes that *)
(* fail and crashes of the agent.                                          *)
(***************************************************************************)
EXTENDS AgentLifecycle, FiniteSetTheorems, SequenceTheorems, TLAPS

\* All numbers are of certificates that have been made.
Made(id) == id.cred <= certs /\ id.cert <= certs
NumberInv ==
  /\ certs <= MaxWork
  /\ row.cred <= certs /\ \A i \in DOMAIN row.certs : row.certs[i] \in 1..certs
  /\ Made(mem) /\ Made(disk)
  /\ \A k \in Conns : Made(req[k].id)
  /\ missed \subseteq 1..certs

\* What a request is, from how far its handler is.
Asks(k) ==
  /\ At(k, "enroll") => req[k].kind = "enroll" /\ req[k].tok \in DOMAIN token /\ req[k].id = Nobody
  /\ At(k, "certify") => req[k].kind = "enroll" /\ req[k].id.cred # 0 /\ req[k].id.rev = 0
  /\ req[k].stage \in {"auth", "match", "retire"} => req[k].kind \in {"poll", "rotate"}
  /\ req[k].stage \in {"report", "update", "notify"} => req[k].kind = "poll"
  /\ req[k].stage \in {"rotate", "store"} => req[k].kind = "rotate"
  /\ At(k, "retire") => req[k].id.cert # 0
  /\ At(k, "store") => req[k].hadCert < req[k].id.cert
  /\ At(k, "done") => k = conn
  /\ At(k, "done") /\ req[k].kind = "enroll" /\ req[k].ok =>
       req[k].id.cred # 0 /\ req[k].id.cert = req[k].id.cred /\ req[k].id.rev = 0
RequestInv == \A k \in Conns : Asks(k)

\* The agent has its identity from the file while it runs.
AgentInv ==
  /\ conn # NoConn => /\ pc \in {"enrolling", "rotating", "polling"}
                      /\ req[conn].kind = "enroll" <=> pc = "enrolling"
                      /\ req[conn].kind = "rotate" <=> pc = "rotating"
  /\ ~ Running => mem = Nobody
  /\ pc \in {"enrolling", "stopped"} => disk.cred = 0
  /\ Running => mem.cred # 0 /\ mem.cred = disk.cred
  /\ Running /\ "unsaved" \notin trouble => mem.cert = disk.cert

\* A credential is in nobody's hands before its certificate is stored.
FreshInv ==
  \A k \in Conns : At(k, "certify") =>
    /\ mem.cred # req[k].id.cred /\ disk.cred # req[k].id.cred
    /\ \A j \in Conns : j # k => req[j].id.cred # req[k].id.cred

\* A revoked agent has no credential.
BanInv ==
  /\ banned => row.cred = 0
  /\ row.state = "REVOKED" => banned
  /\ \A k \in Conns : ~ req[k].after

TokenInv ==
  \A t \in 1..MaxTokens :
    /\ admitted[t] <= 1
    /\ t \notin DOMAIN token \/ token[t] = "open" => admitted[t] = 0

\* The identity that the agent has or is being given.
Certifying == pc = "enrolling" /\ conn # NoConn /\ At(conn, "certify")
Granted    == pc = "enrolling" /\ conn # NoConn /\ At(conn, "done") /\ req[conn].ok
Holder     == IF Running THEN mem ELSE IF Certifying \/ Granted THEN req[conn].id ELSE disk
Latest     == IF Certifying THEN Holder.cred ELSE Holder.cert

\* The certificates that are stored are the last of the agent's and those that
\* followed it.
Follow(c) ==
  /\ \A x \in missed : c < x
  /\ missed = {} => row.certs # <<>> /\ Newest = c
  /\ missed # {} => /\ Len(row.certs) = 2 /\ row.certs[1] < row.certs[2]
                    /\ row.certs[2] \in missed /\ row.certs[1] \in missed \union {c}
                    /\ \A x \in missed \union {c} : x <= row.certs[1] \/ x = row.certs[2]
Clean == ~ banned /\ trouble \intersect {"overwrite", "unsaved"} = {}
Begun(k) == req[k].stage \in {"auth", "match", "retire"}
Waiting  == conn # NoConn /\ At(conn, "done") /\ req[conn].kind = "rotate" /\ req[conn].ok
LockInv ==
  Clean /\ Holder.cred # 0 =>
    /\ \A k \in Conns : Begun(k) => req[k].id.cert <= Latest
    /\ ~ Certifying => /\ row.cred = Holder.cred /\ Follow(Holder.cert)
                       /\ Waiting => req[conn].id.cert \in missed

IndInv ==
  /\ TypeOK /\ NumberInv /\ RequestInv /\ AgentInv /\ FreshInv /\ BanInv /\ TokenInv /\ LockInv

(***************************************************************************)
(* Rows and requests.                                                      *)
(***************************************************************************)
Row == [state : {"NONE", "ONLINE", "REVOKED"}, cred : Number, certs : Seq(Number), hash : Hashes,
        rev : 0..MaxRev]

\* Sets of numbers that the bound gives.
LEMMA Numbers ==
  /\ MaxWork \in Nat /\ MaxRev \in Nat /\ MaxTokens \in Nat /\ MaxFaults \in Nat /\ NoHash \in Hashes
  /\ 0 \in Number /\ Number \subseteq Nat /\ NoConn \notin Conns
BY LifecycleAssumption DEF Hashes, NoHash, Number

\* The identity of nobody.
LEMMA NobodyIs == Nobody \in Identity /\ Nobody.cred = 0 /\ Nobody.cert = 0 /\ Nobody.rev = 0
BY Numbers DEF Nobody, Identity

\* The identity that a certificate is added to.
LEMMA IdentityIs ==
  ASSUME NEW i \in Identity
  PROVE  i.cred \in Number /\ i.cert \in Number /\ i.rev \in 0..MaxRev
BY DEF Identity

\* The fields of a row.
LEMMA RowIs ==
  ASSUME NEW q \in Row
  PROVE  /\ q.state \in {"NONE", "ONLINE", "REVOKED"} /\ q.cred \in Number /\ q.hash \in Hashes
         /\ q.rev \in 0..MaxRev /\ q.certs \in Seq(Number)
<1>1. q.state \in {"NONE", "ONLINE", "REVOKED"} /\ q.cred \in Number
  BY DEF Row
<1>2. q.hash \in Hashes /\ q.rev \in 0..MaxRev
  BY DEF Row
<1>3. q.certs \in Seq(Number)
  BY DEF Row
<1>4. QED
  BY <1>1, <1>2, <1>3

\* The fields of a request.
LEMMA RequestIs ==
  ASSUME NEW q \in Request
  PROVE  /\ q.kind \in {"free", "enroll", "poll", "rotate"} /\ q.stage \in Stages /\ q.tok \in 0..MaxTokens
         /\ q.id \in Identity /\ q.age \in {"latest", "behind", "stale", "foreign"}
         /\ q.hadHash \in Hashes /\ q.hadRev \in 0..MaxRev /\ q.hadCert \in Number
         /\ q.ok \in BOOLEAN /\ q.after \in BOOLEAN
<1>1. q.kind \in {"free", "enroll", "poll", "rotate"} /\ q.stage \in Stages /\ q.tok \in 0..MaxTokens
  BY DEF Request
<1>2. q.id \in Identity /\ q.age \in {"latest", "behind", "stale", "foreign"}
  BY DEF Request
<1>3. q.hadHash \in Hashes /\ q.hadRev \in 0..MaxRev /\ q.hadCert \in Number
  BY DEF Request
<1>4. q.ok \in BOOLEAN /\ q.after \in BOOLEAN
  BY DEF Request
<1>5. QED
  BY <1>1, <1>2, <1>3, <1>4

\* The free request.
LEMMA FreeIs ==
  /\ Free \in Request /\ Free.kind = "free" /\ Free.stage = "free" /\ Free.tok = 0 /\ Free.id = Nobody
  /\ Free.age = "latest" /\ Free.hadHash = NoHash /\ Free.hadRev = 0 /\ Free.hadCert = 0
  /\ ~ Free.ok /\ ~ Free.after
<1>1. Free.kind = "free" /\ Free.stage = "free" /\ Free.tok = 0 /\ Free.id = Nobody
  BY DEF Free
<1>2. Free.age = "latest" /\ Free.hadHash = NoHash /\ Free.hadRev = 0 /\ Free.hadCert = 0
  BY DEF Free
<1>3. ~ Free.ok /\ ~ Free.after
  BY DEF Free
<1>4. Free \in Request
  BY Numbers, NobodyIs DEF Free, Request, Stages, Hashes, NoHash
<1>5. QED
  BY <1>1, <1>2, <1>3, <1>4

\* A row is revoked,
LEMMA RevokedIs ==
  ASSUME NEW q \in Row, NEW r, r = Revoked(q)
  PROVE  /\ r \in Row /\ r.state = "REVOKED" /\ r.cred = 0 /\ r.certs = <<>> /\ r.hash = q.hash
         /\ r.rev = q.rev
<1> DEFINE S == Seq(Number)
<1>1. q \in [state : {"NONE", "ONLINE", "REVOKED"}, cred : Number, certs : S, hash : Hashes, rev : 0..MaxRev]
  BY DEF Row
<1>2. <<>> \in S
  BY DEF S
<1> HIDE DEF S
<1>3. r \in [state : {"NONE", "ONLINE", "REVOKED"}, cred : Number, certs : S, hash : Hashes, rev : 0..MaxRev]
  BY <1>1, <1>2, Numbers DEF Revoked
<1>4. r.state = "REVOKED" /\ r.cred = 0 /\ r.certs = <<>> /\ r.hash = q.hash
  BY <1>1 DEF Revoked
<1>5. r.rev = q.rev
  BY <1>1 DEF Revoked
<1>6. QED
  BY <1>3, <1>4, <1>5 DEF S, Row

\* ... enrolled,
EnrolledRow(q, c) == [q EXCEPT !.state = "ONLINE", !.cred = c, !.hash = NoHash]
\* The row of an agent that has just enrolled.
LEMMA EnrolledRowIs ==
  ASSUME NEW q \in Row, NEW c \in Number, NEW r, r = EnrolledRow(q, c)
  PROVE  /\ r \in Row /\ r.state = "ONLINE" /\ r.cred = c /\ r.certs = q.certs /\ r.hash = NoHash
         /\ r.rev = q.rev
<1> DEFINE S == Seq(Number)
<1>1. q \in [state : {"NONE", "ONLINE", "REVOKED"}, cred : Number, certs : S, hash : Hashes, rev : 0..MaxRev]
  BY DEF Row
<1>2. NoHash \in Hashes
  BY Numbers
<1> HIDE DEF S
<1>3. r \in [state : {"NONE", "ONLINE", "REVOKED"}, cred : Number, certs : S, hash : Hashes, rev : 0..MaxRev]
  BY <1>1, <1>2, Numbers DEF EnrolledRow
<1>4. r.state = "ONLINE" /\ r.cred = c /\ r.certs = q.certs /\ r.hash = NoHash
  BY <1>1 DEF EnrolledRow
<1>5. r.rev = q.rev
  BY <1>1 DEF EnrolledRow
<1>6. QED
  BY <1>3, <1>4, <1>5 DEF S, Row

\* ... gets certificates,
CertifiedRow(q, l) == [q EXCEPT !.certs = l]
\* A row with other certificates.
LEMMA CertifiedRowIs ==
  ASSUME NEW q \in Row, NEW l \in Seq(Number), NEW r, r = CertifiedRow(q, l)
  PROVE  /\ r \in Row /\ r.state = q.state /\ r.cred = q.cred /\ r.certs = l /\ r.hash = q.hash
         /\ r.rev = q.rev
<1> DEFINE S == Seq(Number)
<1>1. q \in [state : {"NONE", "ONLINE", "REVOKED"}, cred : Number, certs : S, hash : Hashes, rev : 0..MaxRev]
  BY DEF Row
<1>2. l \in S
  BY DEF S
<1> HIDE DEF S
<1>3. r \in [state : {"NONE", "ONLINE", "REVOKED"}, cred : Number, certs : S, hash : Hashes, rev : 0..MaxRev]
  BY <1>1, <1>2, Numbers DEF CertifiedRow
<1>4. r.state = q.state /\ r.cred = q.cred /\ r.certs = l /\ r.hash = q.hash
  BY <1>1 DEF CertifiedRow
<1>5. r.rev = q.rev
  BY <1>1 DEF CertifiedRow
<1>6. QED
  BY <1>3, <1>4, <1>5 DEF S, Row

\* ... or a state.
ReportedRow(q, h, v) == [q EXCEPT !.state = "ONLINE", !.hash = h, !.rev = v]
\* A row with another report.
LEMMA ReportedRowIs ==
  ASSUME NEW q \in Row, NEW h \in Hashes, NEW v \in 0..MaxRev, NEW r, r = ReportedRow(q, h, v)
  PROVE  /\ r \in Row /\ r.state = "ONLINE" /\ r.cred = q.cred /\ r.certs = q.certs /\ r.hash = h
         /\ r.rev = v
<1> DEFINE S == Seq(Number)
<1>1. q \in [state : {"NONE", "ONLINE", "REVOKED"}, cred : Number, certs : S, hash : Hashes, rev : 0..MaxRev]
  BY DEF Row
<1>2. h \in Hashes
  BY Numbers DEF Hashes, NoHash
<1> HIDE DEF S
<1>3. r \in [state : {"NONE", "ONLINE", "REVOKED"}, cred : Number, certs : S, hash : Hashes, rev : 0..MaxRev]
  BY <1>1, <1>2, Numbers DEF ReportedRow
<1>4. r.state = "ONLINE" /\ r.cred = q.cred /\ r.certs = q.certs /\ r.hash = h
  BY <1>1 DEF ReportedRow
<1>5. r.rev = v
  BY <1>1 DEF ReportedRow
<1>6. QED
  BY <1>3, <1>4, <1>5 DEF S, Row

\* A handler goes on,
GoesOn(q, at) == [q EXCEPT !.stage = at]
\* A request whose handler goes on.
LEMMA GoesOnIs ==
  ASSUME NEW q \in Request, NEW at \in Stages, NEW r, r = GoesOn(q, at)
  PROVE  /\ r \in Request /\ r.kind = q.kind /\ r.stage = at /\ r.tok = q.tok /\ r.id = q.id
         /\ r.age = q.age /\ r.hadHash = q.hadHash /\ r.hadRev = q.hadRev
         /\ r.hadCert = q.hadCert /\ r.ok = q.ok /\ r.after = q.after
<1>1. r \in Request
  BY Numbers DEF Request, Stages, GoesOn
<1>2. r.kind = q.kind /\ r.stage = at /\ r.tok = q.tok /\ r.id = q.id
  BY DEF Request, GoesOn
<1>3. r.age = q.age /\ r.hadHash = q.hadHash /\ r.hadRev = q.hadRev
  BY DEF Request, GoesOn
<1>4. r.hadCert = q.hadCert /\ r.ok = q.ok /\ r.after = q.after
  BY DEF Request, GoesOn
<1>5. QED
  BY <1>1, <1>2, <1>3, <1>4

\* ... its report grows old,
Aged(q, a) == [q EXCEPT !.age = a]
\* A request whose report is older than it was.
LEMMA AgedIs ==
  ASSUME NEW q \in Request, NEW a \in {"latest", "behind", "stale", "foreign"}, NEW r, r = Aged(q, a)
  PROVE  /\ r \in Request /\ r.kind = q.kind /\ r.stage = q.stage /\ r.tok = q.tok /\ r.id = q.id
         /\ r.age = a /\ r.hadHash = q.hadHash /\ r.hadRev = q.hadRev
         /\ r.hadCert = q.hadCert /\ r.ok = q.ok /\ r.after = q.after
<1>1. r \in Request
  BY Numbers DEF Request, Stages, Aged
<1>2. r.kind = q.kind /\ r.stage = q.stage /\ r.tok = q.tok /\ r.id = q.id
  BY DEF Request, Aged
<1>3. r.age = a /\ r.hadHash = q.hadHash /\ r.hadRev = q.hadRev
  BY DEF Request, Aged
<1>4. r.hadCert = q.hadCert /\ r.ok = q.ok /\ r.after = q.after
  BY DEF Request, Aged
<1>5. QED
  BY <1>1, <1>2, <1>3, <1>4

\* ... the credential is right,
Passed(q, b) == [q EXCEPT !.stage = "match", !.after = b]
\* A request whose credential was accepted.
LEMMA PassedIs ==
  ASSUME NEW q \in Request, NEW b \in BOOLEAN, NEW r, r = Passed(q, b)
  PROVE  /\ r \in Request /\ r.kind = q.kind /\ r.stage = "match" /\ r.tok = q.tok /\ r.id = q.id
         /\ r.age = q.age /\ r.hadHash = q.hadHash /\ r.hadRev = q.hadRev
         /\ r.hadCert = q.hadCert /\ r.ok = q.ok /\ r.after = b
<1>1. r \in Request
  BY Numbers DEF Request, Stages, Passed
<1>2. r.kind = q.kind /\ r.stage = "match" /\ r.tok = q.tok /\ r.id = q.id
  BY DEF Request, Passed
<1>3. r.age = q.age /\ r.hadHash = q.hadHash /\ r.hadRev = q.hadRev
  BY DEF Request, Passed
<1>4. r.hadCert = q.hadCert /\ r.ok = q.ok /\ r.after = b
  BY DEF Request, Passed
<1>5. QED
  BY <1>1, <1>2, <1>3, <1>4

\* ... the certificate is known or the overlap retired,
Holding(q, at, c) == [q EXCEPT !.stage = at, !.hadCert = c]
\* A request whose handler has read the certificate that it replaces.
LEMMA HoldingIs ==
  ASSUME NEW q \in Request, NEW at \in Stages, NEW c \in Number, NEW r, r = Holding(q, at, c)
  PROVE  /\ r \in Request /\ r.kind = q.kind /\ r.stage = at /\ r.tok = q.tok /\ r.id = q.id
         /\ r.age = q.age /\ r.hadHash = q.hadHash /\ r.hadRev = q.hadRev /\ r.hadCert = c
         /\ r.ok = q.ok /\ r.after = q.after
<1>1. r \in Request
  BY Numbers DEF Request, Stages, Holding
<1>2. r.kind = q.kind /\ r.stage = at /\ r.tok = q.tok /\ r.id = q.id
  BY DEF Request, Holding
<1>3. r.age = q.age /\ r.hadHash = q.hadHash /\ r.hadRev = q.hadRev
  BY DEF Request, Holding
<1>4. r.hadCert = c /\ r.ok = q.ok /\ r.after = q.after
  BY DEF Request, Holding
<1>5. QED
  BY <1>1, <1>2, <1>3, <1>4

\* ... the previous state is read,
Having(q, h, v) == [q EXCEPT !.stage = "update", !.hadHash = h, !.hadRev = v]
\* A request whose handler has read the report before its own.
LEMMA HavingIs ==
  ASSUME NEW q \in Request, NEW h \in Hashes, NEW v \in 0..MaxRev, NEW r, r = Having(q, h, v)
  PROVE  /\ r \in Request /\ r.kind = q.kind /\ r.stage = "update" /\ r.tok = q.tok /\ r.id = q.id
         /\ r.age = q.age /\ r.hadHash = h /\ r.hadRev = v /\ r.hadCert = q.hadCert
         /\ r.ok = q.ok /\ r.after = q.after
<1>1. r \in Request
  BY Numbers DEF Request, Stages, Having
<1>2. r.kind = q.kind /\ r.stage = "update" /\ r.tok = q.tok /\ r.id = q.id
  BY DEF Request, Having
<1>3. r.age = q.age /\ r.hadHash = h /\ r.hadRev = v
  BY DEF Request, Having
<1>4. r.hadCert = q.hadCert /\ r.ok = q.ok /\ r.after = q.after
  BY DEF Request, Having
<1>5. QED
  BY <1>1, <1>2, <1>3, <1>4

\* ... a credential is made,
Credited(q, c) == [q EXCEPT !.stage = "certify", !.id.cred = c]
\* An enrollment whose credential has been made.
LEMMA CreditedIs ==
  ASSUME NEW q \in Request, NEW c \in Number, NEW r, r = Credited(q, c)
  PROVE  /\ r \in Request /\ r.kind = q.kind /\ r.stage = "certify" /\ r.tok = q.tok /\ r.id.cred = c
         /\ r.id.cert = q.id.cert /\ r.id.rev = q.id.rev /\ r.age = q.age
         /\ r.hadHash = q.hadHash /\ r.hadRev = q.hadRev /\ r.hadCert = q.hadCert /\ r.ok = q.ok
         /\ r.after = q.after
<1> DEFINE i == [q.id EXCEPT !.cred = c]
<1>1. q.id \in Identity
  BY RequestIs
<1>2. i \in Identity /\ i.cred = c /\ i.cert = q.id.cert /\ i.rev = q.id.rev
  BY <1>1 DEF Identity
<1>3. r = [q EXCEPT !.stage = "certify", !.id = i]
  BY DEF Request, Credited
<1> HIDE DEF i
<1>4. r \in Request
  BY <1>2, <1>3 DEF Request, Stages
<1>5. r.id = i
  BY <1>3 DEF Request
<1>6. r.kind = q.kind /\ r.stage = "certify" /\ r.tok = q.tok
  BY <1>3 DEF Request
<1>7. r.age = q.age /\ r.hadHash = q.hadHash /\ r.hadRev = q.hadRev /\ r.hadCert = q.hadCert
  BY <1>3 DEF Request
<1>8. r.ok = q.ok /\ r.after = q.after
  BY <1>3 DEF Request
<1>9. QED
  BY <1>2, <1>3, <1>4, <1>5, <1>6, <1>7, <1>8

\* ... or a certificate.
Issued(q, c, d) == [q EXCEPT !.stage = "store", !.id.cert = c, !.hadCert = d]
\* A rotation whose certificate has been made.
LEMMA IssuedIs ==
  ASSUME NEW q \in Request, NEW c \in Number, NEW d \in Number, NEW r, r = Issued(q, c, d)
  PROVE  /\ r \in Request /\ r.kind = q.kind /\ r.stage = "store" /\ r.tok = q.tok /\ r.id.cred = q.id.cred
         /\ r.id.cert = c /\ r.id.rev = q.id.rev /\ r.age = q.age /\ r.hadHash = q.hadHash
         /\ r.hadRev = q.hadRev /\ r.hadCert = d /\ r.ok = q.ok /\ r.after = q.after
<1> DEFINE i == [q.id EXCEPT !.cert = c]
<1>1. q.id \in Identity
  BY RequestIs
<1>2. i \in Identity /\ i.cred = q.id.cred /\ i.cert = c /\ i.rev = q.id.rev
  BY <1>1 DEF Identity
<1>3. r = [q EXCEPT !.stage = "store", !.id = i, !.hadCert = d]
  BY DEF Request, Issued
<1> HIDE DEF i
<1>4. r \in Request
  BY <1>2, <1>3 DEF Request, Stages
<1>5. r.id = i
  BY <1>3 DEF Request
<1>6. r.kind = q.kind /\ r.stage = "store" /\ r.tok = q.tok
  BY <1>3 DEF Request
<1>7. r.age = q.age /\ r.hadHash = q.hadHash /\ r.hadRev = q.hadRev /\ r.hadCert = d
  BY <1>3 DEF Request
<1>8. r.ok = q.ok /\ r.after = q.after
  BY <1>3 DEF Request
<1>9. QED
  BY <1>2, <1>3, <1>4, <1>5, <1>6, <1>7, <1>8

(***************************************************************************)
(* The shapes of a step: what it does to the request of its handler.       *)
(***************************************************************************)

\* The others' requests stay as they are, but may grow old.
Resembles(r, q) ==
  /\ r.kind = q.kind /\ r.stage = q.stage /\ r.tok = q.tok /\ r.id = q.id
  /\ r.hadHash = q.hadHash /\ r.hadRev = q.hadRev /\ r.hadCert = q.hadCert /\ r.ok = q.ok /\ r.after = q.after
  /\ q.age = "foreign" => r.age = "foreign"
Turns(k) == req' \in [Conns -> Request] /\ \A j \in Conns : j # k => Resembles(req'[j], req[j])

SameAsk(k) == /\ req'[k].kind = req[k].kind /\ req'[k].tok = req[k].tok /\ req'[k].id = req[k].id
              /\ req'[k].age = req[k].age /\ req'[k].ok = req[k].ok
SameHad(k) == req'[k].hadHash = req[k].hadHash /\ req'[k].hadRev = req[k].hadRev
SameWay(k) == req'[k].after = req[k].after

Goes(k, at)      == /\ Turns(k) /\ SameAsk(k) /\ SameHad(k) /\ SameWay(k) /\ req'[k].stage = at
                    /\ req'[k].hadCert = req[k].hadCert
Passes(k)        == Turns(k) /\ SameAsk(k) /\ SameHad(k) /\ req'[k].stage = "match" /\ req'[k].after = banned
Turned(k, at, c) == /\ Turns(k) /\ SameAsk(k) /\ SameHad(k) /\ SameWay(k) /\ req'[k].stage = at
                    /\ req'[k].hadCert = c
Reads(k)         == /\ Turns(k) /\ SameAsk(k) /\ SameWay(k) /\ req'[k].stage = "update"
                    /\ req'[k].hadHash = row.hash /\ req'[k].hadRev = row.rev
Issues(k)        == /\ Turns(k) /\ SameHad(k) /\ SameWay(k) /\ req'[k].stage = "store" /\ req'[k].kind = req[k].kind
                    /\ req'[k].id.cred = req[k].id.cred /\ req'[k].id.rev = req[k].id.rev
                    /\ req'[k].id.cert = certs + 1 /\ req'[k].hadCert = Newest
Enrolls(k)       == /\ Turns(k) /\ SameHad(k) /\ SameWay(k) /\ req'[k].stage = "certify" /\ req'[k].kind = req[k].kind
                    /\ req'[k].id.cred = certs + 1 /\ req'[k].id.rev = req[k].id.rev
                    /\ req'[k].id.cert = req[k].id.cert
                    /\ \A j \in Conns : j # k /\ req[j].kind = "poll" => req'[j].age = "foreign"

\* The handler's answer, which is read if its agent still waits.
Ends(k, ok, i) ==
  /\ Turns(k)
  /\ k # conn => req'[k] = Free
  /\ k = conn => /\ req'[k].kind = req[k].kind /\ req'[k].stage = "done" /\ req'[k].ok = ok /\ req'[k].id = i
                 /\ req'[k].hadRev = 0 /\ ~ req'[k].after
Notifies(k) == /\ Turns(k) /\ req'[k].kind = "poll" /\ req'[k].stage = "notify" /\ req'[k].id = Nobody
               /\ req'[k].hadRev = 0 /\ ~ req'[k].after
Deserts == /\ req' \in [Conns -> Request]
           /\ \A j \in Conns : \/ j = conn /\ At(j, "done") /\ req'[j] = Free
                               \/ ~ (j = conn /\ At(j, "done")) /\ req'[j] = req[j]

\* The variables that are records.
LEMMA Typed ==
  ASSUME TypeOK
  PROVE  /\ row \in Row /\ req \in [Conns -> Request] /\ certs \in Number
         /\ mem \in Identity /\ disk \in Identity /\ banned \in BOOLEAN
BY DEF TypeOK, Row

\* The request of one handler is replaced.
LEMMA OneTurns ==
  ASSUME TypeOK, NEW k \in Conns, NEW r \in Request, req' = [req EXCEPT ![k] = r]
  PROVE  Turns(k) /\ req'[k] = r
BY Typed DEF Turns, Resembles

\* An answer.
LEMMA AnswerEnds ==
  ASSUME TypeOK, NEW k \in Conns, NEW ok \in BOOLEAN, NEW r \in Request, r.kind = req[k].kind,
         req' = [req EXCEPT ![k] = Answered(k, ok, r)]
  PROVE  Ends(k, ok, IF ok /\ r.kind # "poll" THEN r.id ELSE Nobody)
<1> DEFINE i == IF ok /\ r.kind # "poll" THEN r.id ELSE Nobody
           a == [Free EXCEPT !.kind = r.kind, !.stage = "done", !.ok = ok, !.id = i]
<1>1. i \in Identity /\ r.kind \in {"free", "enroll", "poll", "rotate"}
  BY RequestIs, NobodyIs
<1>2. Answered(k, ok, r) = IF k # conn THEN Free ELSE a
  BY DEF Answered
<1> HIDE DEF i
<1>3. a \in Request
  BY <1>1, FreeIs DEF Request, Stages
<1>4. a.kind = r.kind /\ a.stage = "done"
  BY FreeIs DEF Request
<1>5. a.ok = ok /\ a.id = i
  BY FreeIs DEF Request
<1>6. a.hadRev = 0 /\ ~ a.after
  BY FreeIs DEF Request
<1> HIDE DEF a
<1>7. CASE k # conn
  BY <1>2, <1>7, FreeIs, OneTurns DEF Ends
<1>8. CASE k = conn
  BY <1>2, <1>3, <1>4, <1>5, <1>6, <1>8, OneTurns DEF Ends, i
<1>9. QED
  BY <1>7, <1>8

\* A report that grows old resembles itself.
LEMMA AgedLike ==
  ASSUME NEW q \in Request, NEW a \in {"latest", "behind", "stale", "foreign"}, q.age # "foreign" \/ a = "foreign"
  PROVE  Aged(q, a) \in Request /\ Resembles(Aged(q, a), q) /\ Aged(q, a).age = a
BY AgedIs DEF Resembles

\* Every request resembles itself.
LEMMA SelfLike == \A q : Resembles(q, q)
BY DEF Resembles

\* A new request of the agent.
LEMMA SendTurns ==
  ASSUME TypeOK, NEW k \in Conns, NEW r \in Request, Send(k, r)
  PROVE  Turns(k) /\ req'[k] = r
<1>1. req'[k] = r
  BY DEF Send
<1>2. ASSUME NEW j \in Conns, j # k PROVE req'[j] \in Request /\ Resembles(req'[j], req[j])
  <2>1. req[j] \in Request
    BY Typed
  <2>2. CASE r.kind = "poll" /\ req[j].kind = "poll" /\ req[j].age = "latest"
    <3>1. req'[j] = Aged(req[j], "behind")
      BY <1>2, <2>2 DEF Send, Aged
    <3>2. QED
      BY <2>1, <2>2, <3>1, AgedLike
  <2>3. CASE ~ (r.kind = "poll" /\ req[j].kind = "poll" /\ req[j].age = "latest")
    <3>1. req'[j] = req[j]
      BY <1>2, <2>3 DEF Send
    <3>2. QED
      BY <2>1, <3>1, SelfLike
  <2>4. QED
    BY <2>2, <2>3
<1>3. req' = [j \in Conns |-> req'[j]]
  BY DEF Send
<1>4. QED
  BY <1>1, <1>2, <1>3 DEF Turns

\* The agent has read an answer.
LEMMA HangTurns ==
  ASSUME TypeOK, NEW k \in Conns, Hang(k)
  PROVE  Turns(k) /\ req'[k] = Free /\ conn' = NoConn
BY OneTurns, FreeIs DEF Hang

\* The agent waits no longer.
LEMMA DesertedIs ==
  ASSUME TypeOK, req' = Deserted
  PROVE  Deserts
<1>1. req \in [Conns -> Request] /\ req' = [k \in Conns |-> IF k = conn /\ At(k, "done") THEN Free ELSE req[k]]
  BY Typed DEF Deserted
<1>2. req' \in [Conns -> Request]
  BY <1>1, FreeIs
<1>3. QED
  BY <1>1, <1>2 DEF Deserts

\* The kinds of a request say where its handler begins.
LEMMA BodyIs == \A k \in {"free", "enroll", "poll", "rotate"} : Body(k) \in Stages /\ Body(k) \in {"report", "rotate"}
BY DEF Body, Stages

\* What each handler does to its request.
LEMMA EnrollMoves ==
  ASSUME TypeOK, NEW k \in Conns, Enroll(k)
  PROVE  \/ Redeemable(req[k].tok) /\ Budget /\ Enrolls(k)
         \/ ~ (Redeemable(req[k].tok) /\ Budget) /\ Ends(k, FALSE, Nobody)
<1>1. req[k] \in Request /\ \A j \in Conns : req[j] \in Request
  BY Typed
<1>2. CASE Redeemable(req[k].tok) /\ Budget
  <2>1. certs' = certs + 1 /\ certs' \in Number
    BY <1>2, Typed, Numbers DEF Enroll, Budget, Number
  <2>2. req' = [j \in Conns |->
           IF j = k THEN [req[k] EXCEPT !.stage = "certify", !.id.cred = certs']
           ELSE IF req[j].kind = "poll" THEN [req[j] EXCEPT !.age = "foreign"] ELSE req[j]]
    BY <1>2 DEF Enroll
  <2>3. req'[k] = Credited(req[k], certs')
    BY <2>2 DEF Credited
  <2>4. /\ req'[k] \in Request /\ req'[k].stage = "certify" /\ req'[k].id.cred = certs'
        /\ req'[k].id.cert = req[k].id.cert /\ req'[k].id.rev = req[k].id.rev /\ req'[k].kind = req[k].kind
        /\ req'[k].hadHash = req[k].hadHash /\ req'[k].hadRev = req[k].hadRev /\ req'[k].after = req[k].after
    BY <1>1, <2>1, <2>3, CreditedIs
  <2>5. ASSUME NEW j \in Conns, j # k
        PROVE  /\ req'[j] \in Request /\ Resembles(req'[j], req[j])
               /\ req[j].kind = "poll" => req'[j].age = "foreign"
    <3>1. CASE req[j].kind = "poll"
      <4>1. req'[j] = Aged(req[j], "foreign")
        BY <2>2, <2>5, <3>1 DEF Aged
      <4>2. QED
        BY <1>1, <4>1, AgedLike
    <3>2. CASE req[j].kind # "poll"
      <4>1. req'[j] = req[j]
        BY <2>2, <2>5, <3>2
      <4>2. QED
        BY <1>1, <3>2, <4>1, SelfLike
    <3>3. QED
      BY <3>1, <3>2
  <2>6. req' = [j \in Conns |-> req'[j]]
    BY <2>2
  <2>7. Turns(k)
    BY <2>3, <2>4, <2>5, <2>6 DEF Turns
  <2>8. Enrolls(k)
    BY <2>1, <2>3, <2>4, <2>5, <2>7 DEF Enrolls, SameHad, SameWay
  <2>9. QED
    BY <1>2, <2>8
<1>3. CASE ~ (Redeemable(req[k].tok) /\ Budget)
  <2>1. req' = [req EXCEPT ![k] = Answered(k, FALSE, req[k])]
    BY <1>3 DEF Enroll, Answer
  <2>2. QED
    BY <1>1, <1>3, <2>1, AnswerEnds
<1>4. QED
  BY <1>2, <1>3

\* Storing the first certificate answers the enrollment.
LEMMA CertifyMoves ==
  ASSUME TypeOK, NEW k \in Conns, Certify(k), req[k].kind = "enroll"
  PROVE  \E i \in Identity : /\ Ends(k, TRUE, i)
                             /\ i.cred = req[k].id.cred /\ i.cert = req[k].id.cred /\ i.rev = req[k].id.rev
<1> DEFINE i == [req[k].id EXCEPT !.cert = req[k].id.cred]
           r == [req[k] EXCEPT !.id = i]
<1>1. req[k] \in Request /\ req[k].id \in Identity
  BY Typed, RequestIs
<1>2. i \in Identity /\ i.cred = req[k].id.cred /\ i.cert = req[k].id.cred /\ i.rev = req[k].id.rev
  BY <1>1 DEF Identity
<1>3. r = [req[k] EXCEPT !.id.cert = req[k].id.cred]
  BY <1>1 DEF Request
<1> HIDE DEF i
<1>4. r \in Request
  BY <1>1, <1>2 DEF Request
<1>5. r.kind = "enroll" /\ r.id = i
  BY <1>1 DEF Request
<1>6. req' = [req EXCEPT ![k] = Answered(k, TRUE, r)]
  BY <1>3 DEF Certify, Answer
<1> HIDE DEF r
<1>7. QED
  BY <1>2, <1>4, <1>5, <1>6, AnswerEnds

\* A request passes with the row's credential and is refused with any other.
LEMMA AuthenticateMoves ==
  ASSUME TypeOK, NEW k \in Conns, Authenticate(k)
  PROVE  \/ row.cred # 0 /\ row.cred = req[k].id.cred /\ Passes(k)
         \/ Ends(k, FALSE, Nobody)
<1>1. req[k] \in Request /\ banned \in BOOLEAN
  BY Typed
<1>2. CASE row.cred # 0 /\ row.cred = req[k].id.cred
  <2>1. req' = [req EXCEPT ![k].stage = "match", ![k].after = banned]
    BY <1>2 DEF Authenticate
  <2> DEFINE r == Passed(req[k], banned)
  <2>2. req' = [req EXCEPT ![k] = r]
    BY <2>1, Typed DEF Passed
  <2> HIDE DEF r
  <2>3. r = Passed(req[k], banned)
    BY DEF r
  <2>4. r \in Request
    BY <1>1, <2>3, PassedIs
  <2>5. Turns(k) /\ req'[k] = r
    BY <2>2, <2>4, OneTurns
  <2>6. r.after = banned /\ r.stage = "match"
    BY <1>1, <2>3, PassedIs
  <2>7. SameAsk(k) /\ SameHad(k)
    BY <1>1, <2>3, <2>5, PassedIs DEF SameAsk, SameHad
  <2>8. QED
    BY <1>2, <2>5, <2>6, <2>7 DEF Passes
<1>3. CASE ~ (row.cred # 0 /\ row.cred = req[k].id.cred)
  <2>1. req' = [req EXCEPT ![k] = Answered(k, FALSE, req[k])]
    BY <1>3 DEF Authenticate, Answer
  <2>2. QED
    BY <1>1, <2>1, AnswerEnds
<1>4. QED
  BY <1>2, <1>3

\* A certificate that is remembered or forgotten.
LEMMA HoldsTurned ==
  ASSUME TypeOK, NEW k \in Conns, NEW at \in Stages, NEW c \in Number,
         req' = [req EXCEPT ![k] = Holding(req[k], at, c)]
  PROVE  Turned(k, at, c)
<1> DEFINE r == Holding(req[k], at, c)
<1>1. req[k] \in Request
  BY Typed
<1>2. r = Holding(req[k], at, c) /\ req' = [req EXCEPT ![k] = r]
  OBVIOUS
<1> HIDE DEF r
<1>3. r \in Request
  BY <1>1, <1>2, HoldingIs
<1>4. Turns(k) /\ req'[k] = r
  BY <1>2, <1>3, OneTurns
<1>5. QED
  BY <1>1, <1>2, <1>4, HoldingIs DEF Turned, SameAsk, SameHad, SameWay

\* A known certificate lets the handler go on, to the end of the overlap or to its body.
LEMMA MatchMoves ==
  ASSUME TypeOK, NEW k \in Conns, CertificateMatches(k)
  PROVE  \/ /\ Known(req[k].id.cert)
            /\ \E c \in Number : \/ Turned(k, "retire", c)
                                 \/ Turned(k, Body(req[k].kind), c)
         \/ Ends(k, FALSE, Nobody)
<1>1. req[k] \in Request
  BY Typed
<1>2. CASE Known(req[k].id.cert)
  <2> DEFINE at == IF Retires(req[k].id.cert) THEN "retire" ELSE Body(req[k].kind)
             c  == IF Retires(req[k].id.cert) THEN row.certs[1] ELSE 0
  <2>1. at \in Stages
    BY <1>1, RequestIs, BodyIs DEF Stages
  <2>2. c \in Number
    <3>1. row.certs \in Seq(Number)
      BY Typed, RowIs
    <3>2. Retires(req[k].id.cert) => row.certs[1] \in Number
      BY <3>1 DEF Retires
    <3>3. QED
      BY <3>2, Numbers
  <2>3. req' = [req EXCEPT ![k].stage = at, ![k].hadCert = c]
    BY <1>2 DEF CertificateMatches
  <2>4. at \in {"retire", Body(req[k].kind)}
    OBVIOUS
  <2> HIDE DEF at, c
  <2>5. req' = [req EXCEPT ![k] = Holding(req[k], at, c)]
    BY <2>3, Typed DEF Holding
  <2>6. Turned(k, at, c)
    BY <2>1, <2>2, <2>5, HoldsTurned
  <2>7. QED
    BY <1>2, <2>2, <2>4, <2>6
<1>3. CASE ~ Known(req[k].id.cert)
  <2>1. req' = [req EXCEPT ![k] = Answered(k, FALSE, req[k])]
    BY <1>3 DEF CertificateMatches, Answer
  <2>2. QED
    BY <1>1, <2>1, AnswerEnds
<1>4. QED
  BY <1>2, <1>3

\* The end of the overlap lets the handler go on to its body.
LEMMA RetireMoves ==
  ASSUME TypeOK, NEW k \in Conns, Retire(k)
  PROVE  Turned(k, Body(req[k].kind), 0)
<1>1. req[k] \in Request /\ Body(req[k].kind) \in Stages
  BY Typed, RequestIs, BodyIs
<1>2. req' = [req EXCEPT ![k] = Holding(req[k], Body(req[k].kind), 0)]
  BY Typed DEF Retire, Holding
<1>3. QED
  BY <1>1, <1>2, Numbers, HoldsTurned

\* A step to another statement.
LEMMA GotoMoves ==
  ASSUME TypeOK, NEW k \in Conns, NEW at \in Stages, Goto(k, at)
  PROVE  Goes(k, at)
<1>1. req[k] \in Request
  BY Typed
<1> DEFINE r == GoesOn(req[k], at)
<1>2. req' = [req EXCEPT ![k] = r] /\ r = GoesOn(req[k], at)
  BY Typed DEF Goto, GoesOn
<1> HIDE DEF r
<1>3. r \in Request
  BY <1>1, <1>2, GoesOnIs
<1>4. Turns(k) /\ req'[k] = r
  BY <1>2, <1>3, OneTurns
<1>5. QED
  BY <1>1, <1>2, <1>4, GoesOnIs DEF Goes, SameAsk, SameHad, SameWay

\* A report goes on with what the row says, or with what it had where the read fails.
LEMMA ReadMoves ==
  ASSUME TypeOK, NEW k \in Conns, ReadPrevious(k)
  PROVE  Reads(k) \/ Goes(k, "update")
<1>1. req[k] \in Request
  BY Typed
<1>2. CASE Goto(k, "update")
  BY <1>2, GotoMoves DEF Stages
<1>3. CASE req' = [req EXCEPT ![k].stage = "update", ![k].hadHash = row.hash, ![k].hadRev = row.rev]
  <2> DEFINE r == Having(req[k], row.hash, row.rev)
  <2>1. req' = [req EXCEPT ![k] = r] /\ r = Having(req[k], row.hash, row.rev)
    BY <1>3, Typed DEF Having
  <2> HIDE DEF r
  <2>2. row.hash \in Hashes /\ row.rev \in 0..MaxRev
    BY Typed, RowIs DEF Hashes, NoHash
  <2>3. r \in Request
    BY <1>1, <2>1, <2>2, HavingIs
  <2>4. Turns(k) /\ req'[k] = r
    BY <2>1, <2>3, OneTurns
  <2>5. QED
    BY <1>1, <2>1, <2>2, <2>4, HavingIs DEF Reads, SameAsk, SameWay
<1>4. QED
  BY <1>2, <1>3 DEF ReadPrevious

\* A report that is not stale is written and ends, or goes on to the notification; others become stale.
LEMMA UpdateMoves ==
  ASSUME TypeOK, NEW k \in Conns, UpdateState(k), req[k].kind = "poll"
  PROVE  \/ ~ Current(req[k]) /\ Ends(k, FALSE, Nobody)
         \/ /\ Current(req[k]) /\ (Notifies(k) \/ Ends(k, TRUE, Nobody))
            /\ \E h \in Hashes : row' = ReportedRow(row, h, req[k].id.rev)
<1>1. req[k] \in Request /\ \A j \in Conns : req[j] \in Request
  BY Typed
<1>2. CASE ~ Current(req[k])
  <2>1. req' = [req EXCEPT ![k] = Answered(k, FALSE, req[k])]
    BY <1>2 DEF UpdateState, Answer
  <2>2. QED
    BY <1>1, <1>2, <2>1, AnswerEnds
<1>3. CASE Current(req[k])
  <2> DEFINE n == [Free EXCEPT !.kind = "poll", !.stage = "notify"]
             b(h) == IF Drift(req[k], h) THEN n ELSE Answered(k, TRUE, req[k])
  <2>0. PICK h \in Hashes :
          /\ row' = ReportedRow(row, h, req[k].id.rev)
          /\ req' = [j \in Conns |->
               IF j = k THEN b(h)
               ELSE IF req[k].age = "latest" /\ req[j].age = "behind" THEN [req[j] EXCEPT !.age = "stale"] ELSE req[j]]
    BY <1>3 DEF UpdateState, ReportedRow
  <2> DEFINE a == b(h)
  <2>1. req' = [j \in Conns |->
           IF j = k THEN a
           ELSE IF req[k].age = "latest" /\ req[j].age = "behind" THEN [req[j] EXCEPT !.age = "stale"] ELSE req[j]]
    BY <2>0
  <2>2. ASSUME NEW j \in Conns, j # k PROVE req'[j] \in Request /\ Resembles(req'[j], req[j])
    <3> HIDE DEF a
    <3>1. CASE req[k].age = "latest" /\ req[j].age = "behind"
      <4>1. req'[j] = Aged(req[j], "stale")
        BY <2>1, <2>2, <3>1 DEF Aged
      <4>2. QED
        BY <1>1, <3>1, <4>1, AgedLike
    <3>2. CASE ~ (req[k].age = "latest" /\ req[j].age = "behind")
      <4>1. req'[j] = req[j]
        BY <2>1, <2>2, <3>2
      <4>2. QED
        BY <1>1, <4>1, SelfLike
    <3>3. QED
      BY <3>1, <3>2
  <2>3. n \in Request /\ n.kind = "poll" /\ n.stage = "notify" /\ n.id = Nobody /\ n.hadRev = 0 /\ ~ n.after
    <3>1. n \in Request
      BY FreeIs DEF Request, Stages
    <3>2. n.kind = "poll" /\ n.stage = "notify"
      BY FreeIs DEF Request
    <3>3. n.id = Nobody /\ n.hadRev = 0 /\ ~ n.after
      BY FreeIs DEF Request
    <3>4. QED
      BY <3>1, <3>2, <3>3
  <2>4. PICK q : q = [req EXCEPT ![k] = Answered(k, TRUE, req[k])]
    OBVIOUS
  <2> DEFINE d == Answered(k, TRUE, req[k])
             e == [Free EXCEPT !.kind = req[k].kind, !.stage = "done", !.ok = TRUE, !.id = Nobody]
  <2>5. d = IF k # conn THEN Free ELSE e
    BY DEF Answered
  <2>6. e \in Request
    BY FreeIs, NobodyIs DEF Request, Stages
  <2>7. e.kind = "poll" /\ e.stage = "done" /\ e.ok = TRUE
    BY FreeIs DEF Request
  <2>8. e.id = Nobody /\ e.hadRev = 0 /\ ~ e.after
    BY FreeIs DEF Request
  <2>9. req'[k] = a /\ req' = [j \in Conns |-> req'[j]]
    BY <2>1
  <2>10. a = n \/ a = d
    OBVIOUS
  <2> HIDE DEF n, a, d, e
  <2>11. req'[k] \in Request
    BY <2>3, <2>5, <2>6, <2>9, <2>10, FreeIs
  <2>12. Turns(k)
    BY <2>2, <2>9, <2>11 DEF Turns
  <2>13. CASE a = n
    BY <1>3, <2>0, <2>3, <2>9, <2>12, <2>13 DEF Notifies
  <2>14. CASE a = d
    BY <1>3, <2>0, <2>5, <2>7, <2>8, <2>9, <2>12, <2>14 DEF Ends
  <2>15. QED
    BY <2>10, <2>13, <2>14
<1>4. QED
  BY <1>2, <1>3

\* The notification ends a report.
LEMMA NotifyMoves ==
  ASSUME TypeOK, NEW k \in Conns, Notify(k), req[k].kind = "poll"
  PROVE  Ends(k, TRUE, Nobody)
<1>1. req[k] \in Request /\ req' = [req EXCEPT ![k] = Answered(k, TRUE, req[k])]
  BY Typed DEF Notify, Answer
<1>2. QED
  BY <1>1, AnswerEnds

\* A rotation goes on with a certificate of its own, if one can be made.
LEMMA ReadCurrentMoves ==
  ASSUME TypeOK, NEW k \in Conns, ReadCurrent(k)
  PROVE  \/ Budget /\ certs' = certs + 1 /\ Issues(k)
         \/ ~ Budget /\ UNCHANGED certs /\ Ends(k, FALSE, Nobody)
<1>1. req[k] \in Request
  BY Typed
<1>2. CASE Budget
  <2>1. certs' = certs + 1 /\ certs' \in Number
    BY <1>2, Typed, Numbers DEF ReadCurrent, Budget, Number
  <2>2. Newest \in Number
    <3>1. row.certs \in Seq(Number)
      BY Typed, RowIs
    <3>2. QED
      BY <3>1, Numbers DEF Newest
  <2> DEFINE r == Issued(req[k], certs', Newest)
  <2>3. req' = [req EXCEPT ![k] = r] /\ r = Issued(req[k], certs', Newest)
    BY <1>2, Typed DEF ReadCurrent, Issued
  <2> HIDE DEF r
  <2>4. r \in Request
    BY <1>1, <2>1, <2>2, <2>3, IssuedIs
  <2>5. Turns(k) /\ req'[k] = r
    BY <2>3, <2>4, OneTurns
  <2>6. QED
    BY <1>1, <1>2, <2>1, <2>2, <2>3, <2>5, IssuedIs DEF Issues, SameHad, SameWay
<1>3. CASE ~ Budget
  <2>1. req' = [req EXCEPT ![k] = Answered(k, FALSE, req[k])] /\ UNCHANGED certs
    BY <1>3 DEF ReadCurrent, Answer
  <2>2. QED
    BY <1>1, <1>3, <2>1, AnswerEnds
<1>4. QED
  BY <1>2, <1>3

\* Storing the rotated certificate answers the rotation.
LEMMA StoreMoves ==
  ASSUME TypeOK, NEW k \in Conns, RotateAgentCertificate(k), req[k].kind = "rotate"
  PROVE  Ends(k, TRUE, req[k].id)
<1>1. req[k] \in Request /\ req' = [req EXCEPT ![k] = Answered(k, TRUE, req[k])]
  BY Typed DEF RotateAgentCertificate, Answer
<1>2. QED
  BY <1>1, AnswerEnds

\* A failing statement answers the request.
LEMMA FailMoves ==
  ASSUME TypeOK, NEW k \in Conns, HandlerFails(k)
  PROVE  Ends(k, FALSE, Nobody)
<1>1. req[k] \in Request /\ req' = [req EXCEPT ![k] = Answered(k, FALSE, req[k])]
  BY Typed DEF HandlerFails, Answer
<1>2. QED
  BY <1>1, AnswerEnds

\* ... and is passed over where the overlap ends.
LEMMA RetireFailsMoves ==
  ASSUME TypeOK, NEW k \in Conns, RetireFails(k)
  PROVE  Goes(k, Body(req[k].kind))
<1>1. req[k] \in Request /\ Body(req[k].kind) \in Stages
  BY Typed, RequestIs, BodyIs
<1>2. QED
  BY <1>1, GotoMoves DEF RetireFails

\* The agent sends its token.
LEMMA EnrollingMoves ==
  ASSUME TypeOK, NEW k \in Conns, NEW t \in 0..MaxTokens, Enrolling(k, t)
  PROVE  /\ Turns(k) /\ conn' = k
         /\ req'[k].kind = "enroll" /\ req'[k].stage = "enroll" /\ req'[k].tok = t /\ req'[k].id = Nobody
            /\ req'[k].ok = FALSE /\ req'[k].after = FALSE /\ req'[k].hadRev = 0
<1> DEFINE r == [Free EXCEPT !.kind = "enroll", !.stage = "enroll", !.tok = t]
<1>1. r \in Request
  BY FreeIs, NobodyIs, Typed, Numbers DEF Request, Stages
<1>2. r.kind = "enroll"
  BY FreeIs DEF Request
<1>3. r.stage = "enroll"
  BY FreeIs DEF Request
<1>4. r.tok = t
  BY FreeIs DEF Request
<1>5. r.id = Nobody
  BY FreeIs DEF Request
<1>6. r.ok = FALSE
  BY FreeIs DEF Request
<1>7. r.after = FALSE
  BY FreeIs DEF Request
<1>8. r.hadRev = 0
  BY FreeIs DEF Request
<1>9. Send(k, r) /\ conn' = k
  BY DEF Enrolling
<1> HIDE DEF r
<1>10. QED
  BY <1>1, <1>2, <1>3, <1>4, <1>5, <1>6, <1>7, <1>8, <1>9, SendTurns

\* The agent asks for another certificate with the one it has.
LEMMA RotateMoves ==
  ASSUME TypeOK, NEW k \in Conns, Rotate(k)
  PROVE  /\ Turns(k) /\ conn' = k
         /\ req'[k].kind = "rotate" /\ req'[k].stage = "auth" /\ req'[k].id = mem /\ req'[k].ok = FALSE /\
            req'[k].after = FALSE /\ req'[k].hadRev = 0
<1> DEFINE r == [Free EXCEPT !.kind = "rotate", !.stage = "auth", !.id = mem]
<1>1. r \in Request
  BY FreeIs, NobodyIs, Typed, Numbers DEF Request, Stages
<1>2. r.kind = "rotate"
  BY FreeIs DEF Request
<1>3. r.stage = "auth"
  BY FreeIs DEF Request
<1>4. r.id = mem
  BY FreeIs DEF Request
<1>5. r.ok = FALSE
  BY FreeIs DEF Request
<1>6. r.after = FALSE
  BY FreeIs DEF Request
<1>7. r.hadRev = 0
  BY FreeIs DEF Request
<1>8. Send(k, r) /\ conn' = k
  BY DEF Rotate
<1> HIDE DEF r
<1>9. QED
  BY <1>1, <1>2, <1>3, <1>4, <1>5, <1>6, <1>7, <1>8, SendTurns

\* The agent reports the state of its firewall.
LEMMA PollMoves ==
  ASSUME TypeOK, NEW k \in Conns, Poll(k)
  PROVE  /\ Turns(k) /\ conn' = k
         /\ req'[k].kind = "poll" /\ req'[k].stage = "auth" /\ req'[k].id = mem /\
            req'[k].hadHash = NoHash /\ req'[k].ok = FALSE /\ req'[k].after = FALSE /\ req'[k].hadRev = 0
<1> DEFINE r == [Free EXCEPT !.kind = "poll", !.stage = "auth", !.id = mem]
<1>1. r \in Request
  BY FreeIs, NobodyIs, Typed, Numbers DEF Request, Stages
<1>2. r.kind = "poll"
  BY FreeIs DEF Request
<1>3. r.stage = "auth"
  BY FreeIs DEF Request
<1>4. r.id = mem
  BY FreeIs DEF Request
<1>6. r.hadHash = NoHash
  BY FreeIs DEF Request
<1>7. r.ok = FALSE
  BY FreeIs DEF Request
<1>8. r.after = FALSE
  BY FreeIs DEF Request
<1>9. r.hadRev = 0
  BY FreeIs DEF Request
<1>10. Send(k, r) /\ conn' = k
  BY DEF Poll
<1> HIDE DEF r
<1>11. QED
  BY <1>1, <1>2, <1>3, <1>4, <1>6, <1>7, <1>8, <1>9, <1>10, SendTurns

(***************************************************************************)
(* What each step does to the state, field by field.                       *)
(***************************************************************************)
RowBecomes(state, cred, certificates, hash, rev) ==
  /\ row' \in Row /\ row'.state = state /\ row'.cred = cred /\ row'.certs = certificates
  /\ row'.hash = hash /\ row'.rev = rev
Marks(unchanged, what) == trouble' = IF unchanged THEN trouble ELSE trouble \union {what}
Faulty == faults' \in 0..MaxFaults

RevokeDoes ==
  /\ RowBecomes("REVOKED", 0, <<>>, row.hash, row.rev) /\ banned' = TRUE
  /\ UNCHANGED <<token, drifted, certs, admitted, missed, req, agentVars, trouble, faults>>
TokenDoes ==
  /\ token' \in Seq({"open", "closed"}) /\ Len(token') <= MaxTokens /\ DOMAIN token \subseteq DOMAIN token'
  /\ \A t \in DOMAIN token' : token'[t] = "open" => t \notin DOMAIN token \/ token[t] = "open"
  /\ UNCHANGED <<row, drifted, certs, banned, admitted, missed, req, agentVars, trouble, faults>>
EnrollDoes(k) ==
  /\ At(k, "enroll") /\ Redeemable(req[k].tok) /\ Budget /\ Enrolls(k)
  /\ certs' = certs + 1 /\ RowBecomes("ONLINE", certs + 1, row.certs, NoHash, row.rev) /\ banned' = FALSE
  /\ token' = [token EXCEPT ![req[k].tok] = "closed"]
  /\ admitted' = [admitted EXCEPT ![req[k].tok] = admitted[req[k].tok] + 1]
  /\ Marks(k = conn, "overwrite")
  /\ UNCHANGED <<drifted, missed, agentVars, faults>>
RefuseDoes(k) ==
  /\ req[k].stage \notin {"free", "done"} /\ Ends(k, FALSE, Nobody) /\ Faulty
  /\ UNCHANGED <<serverVars, agentVars, trouble>>
CertifyDoes(k) ==
  /\ At(k, "certify")
  /\ \E i \in Identity : /\ Ends(k, TRUE, i)
                         /\ i.cred = req[k].id.cred /\ i.cert = req[k].id.cred /\ i.rev = req[k].id.rev
  /\ RowBecomes(row.state, row.cred, <<req[k].id.cred>>, row.hash, row.rev) /\ missed' = {}
  /\ Marks(row.cred = req[k].id.cred, "overwrite")
  /\ UNCHANGED <<token, drifted, certs, banned, admitted, agentVars, faults>>
PassDoes(k) ==
  /\ At(k, "auth") /\ row.cred # 0 /\ row.cred = req[k].id.cred /\ Passes(k)
  /\ UNCHANGED <<serverVars, agentVars, trouble, faults>>
MatchDoes(k) ==
  /\ At(k, "match") /\ Known(req[k].id.cert)
  /\ \E c \in Number : Turned(k, "retire", c) \/ Turned(k, Body(req[k].kind), c)
  /\ UNCHANGED <<serverVars, agentVars, trouble, faults>>
RetireDoes(k) ==
  /\ At(k, "retire") /\ Turned(k, Body(req[k].kind), 0)
  /\ RowBecomes(row.state, row.cred, <<req[k].id.cert>>, row.hash, row.rev) /\ missed' = {}
  /\ Marks(row.certs = <<req[k].hadCert, req[k].id.cert>>, "overwrite")
  /\ UNCHANGED <<token, drifted, certs, banned, admitted, agentVars, faults>>
SkipDoes(k) ==
  /\ At(k, "retire") /\ Goes(k, Body(req[k].kind)) /\ Faulty
  /\ UNCHANGED <<serverVars, agentVars, trouble>>
ReadDoes(k) ==
  /\ At(k, "report")
  /\ Reads(k) \/ Goes(k, "update")
  /\ Faulty
  /\ UNCHANGED <<serverVars, agentVars, trouble>>
UpdateDoes(k) ==
  /\ At(k, "update")
  /\ Notifies(k) \/ Ends(k, TRUE, Nobody)
  /\ \E h \in Hashes : RowBecomes("ONLINE", row.cred, row.certs, h, req[k].id.rev)
  /\ UNCHANGED <<token, drifted, certs, banned, admitted, missed, agentVars, trouble, faults>>
NotifyDoes(k) ==
  /\ At(k, "notify") /\ Ends(k, TRUE, Nobody) /\ drifted' \in {TRUE, drifted} /\ Faulty
  /\ UNCHANGED <<token, row, certs, banned, admitted, missed, agentVars, trouble>>
IssueDoes(k) ==
  /\ At(k, "rotate") /\ Budget /\ certs' = certs + 1 /\ Issues(k)
  /\ UNCHANGED <<token, row, drifted, banned, admitted, missed, agentVars, trouble, faults>>
StoreDoes(k) ==
  /\ At(k, "store") /\ Ends(k, TRUE, req[k].id)
  /\ RowBecomes(row.state, row.cred, Combined(req[k].hadCert, req[k].id.cert), row.hash, row.rev)
  /\ missed' = missed \union {req[k].id.cert}
  /\ Marks(Newest = req[k].hadCert, "overwrite")
  /\ UNCHANGED <<token, drifted, certs, banned, admitted, agentVars, faults>>

Sends(k, kind) ==
  /\ At(k, "free") /\ Turns(k) /\ conn' = k /\ req'[k].kind = kind
  /\ req'[k].hadRev = 0 /\ ~ req'[k].after /\ ~ req'[k].ok
Hangs(k, kind) == /\ Reply(k, kind) /\ Turns(k) /\ req'[k] = Free /\ conn' = NoConn
EnrollingDoes(k) ==
  /\ pc = "down" /\ disk.cred = 0 /\ pc' = "enrolling" /\ Sends(k, "enroll")
  /\ req'[k].stage = "enroll" /\ req'[k].tok \in DOMAIN token /\ req'[k].id = Nobody
  /\ UNCHANGED <<serverVars, mem, disk, due, trouble, faults>>
ResumeDoes ==
  /\ pc = "down" /\ disk.cred # 0 /\ mem' = disk /\ pc' = "top"
  /\ UNCHANGED <<serverVars, req, disk, conn, due, trouble, faults>>
EnrolledDoes(k) ==
  /\ Hangs(k, "enroll") /\ Faulty
  /\ \/ req[k].ok /\ mem' = req[k].id /\ disk' = req[k].id /\ pc' = "top"
     \/ pc' = "stopped" /\ UNCHANGED <<mem, disk>>
  /\ UNCHANGED <<serverVars, due, trouble>>
RotateDoes(k) ==
  /\ pc = "top" /\ pc' = "rotating" /\ Sends(k, "rotate") /\ req'[k].stage = "auth" /\ req'[k].id = mem
  /\ UNCHANGED <<serverVars, mem, disk, due, trouble, faults>>
NewCertDoes(k) ==
  /\ req[k].ok /\ mem' \in Identity /\ mem'.cred = mem.cred /\ mem'.cert = req[k].id.cert /\ mem'.rev = mem.rev
  /\ missed' = {c \in missed : c > req[k].id.cert}
  /\ \/ disk' = mem' /\ UNCHANGED trouble
     \/ trouble' = trouble \union {"unsaved"} /\ UNCHANGED disk
RotatedDoes(k) ==
  /\ Hangs(k, "rotate") /\ pc' = "ready" /\ Faulty
  /\ NewCertDoes(k) \/ UNCHANGED <<mem, disk, missed, trouble>>
  /\ UNCHANGED <<token, row, drifted, certs, banned, admitted, due>>
PollDoes(k) ==
  /\ pc \in {"ready", "top"} /\ pc' = "polling" /\ Sends(k, "poll") /\ req'[k].stage = "auth" /\ req'[k].id = mem
  /\ req'[k].hadHash = NoHash
  /\ UNCHANGED <<serverVars, mem, disk, due, trouble, faults>>
PolledDoes(k) ==
  /\ Hangs(k, "poll") /\ pc' \in {"save", "top"}
  /\ mem' \in Identity /\ mem'.cred = mem.cred /\ mem'.cert = mem.cert
  /\ UNCHANGED <<serverVars, disk, due, trouble, faults>>
SaveDoes ==
  /\ pc = "save" /\ pc' = "top" /\ Faulty
  /\ \/ disk' = mem /\ UNCHANGED trouble
     \/ trouble' = trouble \union {"unsaved"} /\ UNCHANGED disk
  /\ UNCHANGED <<serverVars, req, mem, conn, due>>
GiveUpDoes ==
  /\ conn # NoConn /\ Faulty /\ Deserts /\ conn' = NoConn
  /\ \/ pc = "enrolling" /\ pc' = "stopped"
     \/ pc = "rotating" /\ pc' = "ready"
     \/ pc = "polling" /\ pc' = "top"
  /\ UNCHANGED <<serverVars, trouble, mem, disk, due>>
CrashDoes ==
  /\ Faulty /\ Deserts /\ conn' = NoConn /\ pc' = "down" /\ mem' = Nobody
  /\ UNCHANGED <<serverVars, disk, due, trouble>>

\* A handler is one of the server's.
ServerDoes(k) ==
  \/ EnrollDoes(k) \/ RefuseDoes(k) \/ CertifyDoes(k) \/ PassDoes(k) \/ MatchDoes(k) \/ RetireDoes(k)
  \/ SkipDoes(k) \/ ReadDoes(k) \/ UpdateDoes(k) \/ NotifyDoes(k) \/ IssueDoes(k) \/ StoreDoes(k)
AgentDoes(k) ==
  \/ EnrollingDoes(k) \/ EnrolledDoes(k) \/ RotateDoes(k) \/ RotatedDoes(k) \/ PollDoes(k) \/ PolledDoes(k)

\* A fault is counted.
LEMMA FaultIs ==
  ASSUME TypeOK
  PROVE  (\A n \in {1, 2} : Spend(n) => Faulty) /\ (Fault => Faulty) /\ (UNCHANGED faults => Faulty)
BY Numbers DEF TypeOK, Spend, Fault, Faulty

\* Each action has the effect that the invariants are proved from. A revocation.
LEMMA RevokeStep ==
  ASSUME TypeOK, RevokeAgent
  PROVE  RevokeDoes
<1> DEFINE r == Revoked(row)
<1>1. row \in Row /\ row' = r /\ r = Revoked(row)
  BY Typed DEF RevokeAgent
<1> HIDE DEF r
<1>2. QED
  BY <1>1, RevokedIs DEF RevokeAgent, RevokeDoes, RowBecomes

\* Enrollment tokens come and go.
LEMMA CreateStep ==
  ASSUME TypeOK, CreateEnrollmentToken
  PROVE  TokenDoes
<1> DEFINE S == {"open", "closed"}
<1>1. token \in Seq(S) /\ Len(token) < MaxTokens /\ token' = Append(token, "open") /\ "open" \in S
  BY DEF TypeOK, CreateEnrollmentToken
<1>2. UNCHANGED <<row, drifted, certs, banned, admitted, missed, req, agentVars, trouble, faults>>
  BY DEF CreateEnrollmentToken
<1> HIDE DEF S
<1>3. /\ token' \in Seq(S) /\ Len(token') = Len(token) + 1 /\ Len(token) \in Nat
      /\ \A t \in 1..Len(token) : token'[t] = token[t]
  BY <1>1
<1>4. DOMAIN token = 1..Len(token) /\ DOMAIN token' = 1..Len(token')
  BY <1>1, <1>3
<1>5. Len(token') <= MaxTokens
  BY <1>1, <1>3, Numbers
<1>6. QED
  BY <1>2, <1>3, <1>4, <1>5 DEF S, TokenDoes

\* ... a token that expires,
LEMMA ExpireStep ==
  ASSUME TypeOK, NEW t \in DOMAIN token, TokenExpires(t)
  PROVE  TokenDoes
<1> DEFINE S == {"open", "closed"}
<1>1. token \in Seq(S) /\ Len(token) <= MaxTokens /\ token' = [token EXCEPT ![t] = "closed"] /\ "closed" \in S
  BY DEF TypeOK, TokenExpires
<1>2. UNCHANGED <<row, drifted, certs, banned, admitted, missed, req, agentVars, trouble, faults>>
  BY DEF TokenExpires
<1> HIDE DEF S
<1>3. token' \in Seq(S) /\ Len(token') = Len(token)
  BY <1>1
<1>4. DOMAIN token = DOMAIN token'
  BY <1>1
<1>5. \A u \in DOMAIN token' : token'[u] = "open" => token[u] = "open"
  BY <1>1
<1>6. QED
  BY <1>1, <1>2, <1>3, <1>4, <1>5 DEF S, TokenDoes

\* ... the transaction of an enrollment,
LEMMA EnrollStep ==
  ASSUME TypeOK, NEW k \in Conns, Enroll(k)
  PROVE  EnrollDoes(k) \/ RefuseDoes(k)
<1>1. CASE Redeemable(req[k].tok) /\ Budget /\ Enrolls(k)
  <2> DEFINE r == EnrolledRow(row, certs + 1)
  <2>1. certs' = certs + 1 /\ certs + 1 \in Number /\ row \in Row
    BY <1>1, Typed, Numbers DEF Enroll, Budget, Number
  <2>2. row' = r /\ r = EnrolledRow(row, certs + 1)
    BY <1>1, <2>1 DEF Enroll, EnrolledRow
  <2> HIDE DEF r
  <2>3. RowBecomes("ONLINE", certs + 1, row.certs, NoHash, row.rev)
    BY <2>1, <2>2, EnrolledRowIs DEF RowBecomes
  <2>4. Marks(k = conn, "overwrite")
    BY <1>1 DEF Enroll, Marks
  <2>5. QED
    BY <1>1, <2>1, <2>3, <2>4 DEF Enroll, EnrollDoes
<1>2. CASE ~ (Redeemable(req[k].tok) /\ Budget) /\ Ends(k, FALSE, Nobody)
  BY <1>2, FaultIs DEF Enroll, RefuseDoes, At, serverVars
<1>3. QED
  BY <1>1, <1>2, EnrollMoves

\* ... its certificate,
LEMMA CertifyStep ==
  ASSUME TypeOK, RequestInv, NEW k \in Conns, Certify(k)
  PROVE  CertifyDoes(k)
<1>1. req[k].kind = "enroll" /\ At(k, "certify")
  BY DEF RequestInv, Asks, Certify
<1> DEFINE l == <<req[k].id.cred>>
           r == CertifiedRow(row, l)
<1>2. row \in Row /\ l \in Seq(Number)
  <2>1. req[k].id.cred \in Number
    BY Typed, RequestIs, IdentityIs
  <2>2. QED
    BY <2>1, Typed
<1>3. row' = r /\ r = CertifiedRow(row, l)
  BY DEF Certify, CertifiedRow
<1> HIDE DEF r, l
<1>4. RowBecomes(row.state, row.cred, l, row.hash, row.rev)
  BY <1>2, <1>3, CertifiedRowIs DEF RowBecomes
<1>5. QED
  BY <1>1, <1>3, <1>4, CertifyMoves DEF Certify, CertifyDoes, Overwrite, Marks, l

\* ... the check of the credential,
LEMMA AuthenticateStep ==
  ASSUME TypeOK, NEW k \in Conns, Authenticate(k)
  PROVE  PassDoes(k) \/ RefuseDoes(k)
<1>1. CASE row.cred # 0 /\ row.cred = req[k].id.cred /\ Passes(k)
  BY <1>1 DEF Authenticate, PassDoes
<1>2. CASE Ends(k, FALSE, Nobody)
  BY <1>2, FaultIs DEF Authenticate, RefuseDoes, At
<1>3. QED
  BY <1>1, <1>2, AuthenticateMoves

\* ... of the certificate,
LEMMA MatchStep ==
  ASSUME TypeOK, NEW k \in Conns, CertificateMatches(k)
  PROVE  MatchDoes(k) \/ RefuseDoes(k)
<1>1. CASE /\ Known(req[k].id.cert)
           /\ \E c \in Number : \/ Turned(k, "retire", c)
                                \/ Turned(k, Body(req[k].kind), c)
  BY <1>1 DEF CertificateMatches, MatchDoes
<1>2. CASE Ends(k, FALSE, Nobody)
  BY <1>2, FaultIs DEF CertificateMatches, RefuseDoes, At
<1>3. QED
  BY <1>1, <1>2, MatchMoves

\* ... the end of the overlap,
LEMMA RetireStep ==
  ASSUME TypeOK, NEW k \in Conns, Retire(k)
  PROVE  RetireDoes(k)
<1> DEFINE l == <<req[k].id.cert>>
           r == CertifiedRow(row, l)
<1>1. row \in Row /\ l \in Seq(Number)
  <2>1. req[k].id.cert \in Number
    BY Typed, RequestIs, IdentityIs
  <2>2. QED
    BY <2>1, Typed
<1>2. row' = r /\ r = CertifiedRow(row, l)
  BY DEF Retire, CertifiedRow
<1> HIDE DEF r, l
<1>3. RowBecomes(row.state, row.cred, l, row.hash, row.rev)
  BY <1>1, <1>2, CertifiedRowIs DEF RowBecomes
<1>4. QED
  BY <1>2, <1>3, RetireMoves DEF Retire, RetireDoes, Overwrite, Marks, l

\* ... that fails,
LEMMA RetireFailsStep ==
  ASSUME TypeOK, NEW k \in Conns, RetireFails(k)
  PROVE  SkipDoes(k)
BY RetireFailsMoves, FaultIs DEF RetireFails, SkipDoes

\* ... the reading of the report before,
LEMMA ReadStep ==
  ASSUME TypeOK, NEW k \in Conns, ReadPrevious(k)
  PROVE  ReadDoes(k)
BY ReadMoves, FaultIs DEF ReadPrevious, ReadDoes

\* ... the writing of the report,
LEMMA UpdateStep ==
  ASSUME TypeOK, RequestInv, NEW k \in Conns, UpdateState(k)
  PROVE  UpdateDoes(k) \/ RefuseDoes(k)
<1>1. req[k].kind = "poll" /\ At(k, "update")
  BY DEF RequestInv, Asks, UpdateState, At
<1>2. CASE ~ Current(req[k]) /\ Ends(k, FALSE, Nobody)
  BY <1>2, FaultIs DEF UpdateState, RefuseDoes, At, serverVars
<1>3. CASE /\ Current(req[k]) /\ (Notifies(k) \/ Ends(k, TRUE, Nobody))
           /\ \E h \in Hashes : row' = ReportedRow(row, h, req[k].id.rev)
  <2>1. row \in Row /\ req[k].id.rev \in 0..MaxRev
    BY Typed, RequestIs, IdentityIs
  <2>2. \E h \in Hashes : RowBecomes("ONLINE", row.cred, row.certs, h, req[k].id.rev)
    BY <1>3, <2>1, ReportedRowIs DEF RowBecomes
  <2>3. UNCHANGED <<token, drifted, certs, banned, admitted, missed, agentVars, trouble, faults>>
    BY DEF UpdateState
  <2>4. QED
    BY <1>1, <1>3, <2>2, <2>3 DEF UpdateDoes
<1>4. QED
  BY <1>1, <1>2, <1>3, UpdateMoves

\* ... the notification,
LEMMA NotifyStep ==
  ASSUME TypeOK, RequestInv, NEW k \in Conns, Notify(k)
  PROVE  NotifyDoes(k)
<1>1. req[k].kind = "poll" /\ At(k, "notify")
  BY DEF RequestInv, Asks, Notify, At
<1>2. drifted' \in {TRUE, drifted} /\ Faulty
  BY FaultIs DEF Notify
<1>3. QED
  BY <1>1, <1>2, NotifyMoves DEF Notify, NotifyDoes

\* ... a certificate that is made,
LEMMA IssueStep ==
  ASSUME TypeOK, NEW k \in Conns, ReadCurrent(k)
  PROVE  IssueDoes(k) \/ RefuseDoes(k)
<1>1. CASE Budget /\ certs' = certs + 1 /\ Issues(k)
  BY <1>1 DEF ReadCurrent, IssueDoes
<1>2. CASE UNCHANGED certs /\ Ends(k, FALSE, Nobody)
  BY <1>2, FaultIs DEF ReadCurrent, RefuseDoes, At, serverVars
<1>3. QED
  BY <1>1, <1>2, ReadCurrentMoves

\* ... and stored,
LEMMA StoreStep ==
  ASSUME TypeOK, RequestInv, NEW k \in Conns, RotateAgentCertificate(k)
  PROVE  StoreDoes(k)
<1>1. req[k].kind = "rotate" /\ At(k, "store")
  BY DEF RequestInv, Asks, RotateAgentCertificate, At
<1> DEFINE l == Combined(req[k].hadCert, req[k].id.cert)
           r == CertifiedRow(row, l)
<1>2. row \in Row /\ l \in Seq(Number)
  <2>1. req[k].id.cert \in Number /\ req[k].hadCert \in Number
    BY Typed, RequestIs, IdentityIs
  <2>2. QED
    BY <2>1, Typed DEF Combined
<1>3. row' = r /\ r = CertifiedRow(row, l) /\ l = Combined(req[k].hadCert, req[k].id.cert)
  BY DEF RotateAgentCertificate, CertifiedRow
<1> HIDE DEF l, r
<1>4. RowBecomes(row.state, row.cred, l, row.hash, row.rev)
  BY <1>2, <1>3, CertifiedRowIs DEF RowBecomes
<1>5. QED
  BY <1>1, <1>3, <1>4, StoreMoves DEF RotateAgentCertificate, StoreDoes, Overwrite, Marks

\* ... a statement that fails,
LEMMA FailStep ==
  ASSUME TypeOK, NEW k \in Conns, HandlerFails(k)
  PROVE  RefuseDoes(k)
BY FailMoves, FaultIs DEF HandlerFails, RefuseDoes

\* ... the agent that sends its token,
LEMMA EnrollingStep ==
  ASSUME TypeOK, NEW k \in Conns, NEW t \in DOMAIN token, Enrolling(k, t)
  PROVE  EnrollingDoes(k)
<1>1. t \in 0..MaxTokens
  <2>1. DOMAIN token = 1..Len(token) /\ Len(token) \in Nat /\ Len(token) <= MaxTokens
    BY DEF TypeOK
  <2>2. QED
    BY <2>1, Numbers
<1>2. QED
  BY <1>1, EnrollingMoves DEF Enrolling, EnrollingDoes, Sends

\* ... its certificate,
LEMMA RotateStep ==
  ASSUME TypeOK, NEW k \in Conns, Rotate(k)
  PROVE  RotateDoes(k)
BY RotateMoves DEF Rotate, RotateDoes, Sends

\* ... its report,
LEMMA PollStep ==
  ASSUME TypeOK, NEW k \in Conns, Poll(k)
  PROVE  PollDoes(k)
BY PollMoves DEF Poll, PollDoes, Sends

\* ... and that has the answer to its enrollment,
LEMMA EnrolledStep ==
  ASSUME TypeOK, NEW k \in Conns, Enrolled(k)
  PROVE  EnrolledDoes(k)
<1>1. Hangs(k, "enroll")
  BY HangTurns DEF Enrolled, Hangs
<1>2. Faulty /\ UNCHANGED <<serverVars, due, trouble>>
  BY FaultIs DEF Enrolled
<1>3. QED
  BY <1>1, <1>2 DEF Enrolled, EnrolledDoes

\* ... to its rotation,
LEMMA RotatedStep ==
  ASSUME TypeOK, NEW k \in Conns, Rotated(k)
  PROVE  RotatedDoes(k)
<1>1. Hangs(k, "rotate")
  BY HangTurns DEF Rotated, Hangs
<1>2. mem \in Identity /\ req[k].id.cert \in Number /\ mem.rev \in 0..MaxRev
  BY Typed, RequestIs, IdentityIs
<1>3. Faulty /\ UNCHANGED <<token, row, drifted, certs, banned, admitted, due>> /\ pc' = "ready"
  BY FaultIs DEF Rotated
<1>4. CASE req[k].ok
  <2>1. mem' = [mem EXCEPT !.cert = req[k].id.cert]
    BY <1>4 DEF Rotated
  <2>2. mem' \in Identity /\ mem'.cred = mem.cred /\ mem'.cert = req[k].id.cert /\ mem'.rev = mem.rev
    BY <1>2, <2>1 DEF Identity
  <2>3. NewCertDoes(k)
    BY <1>4, <2>2 DEF Rotated, NewCertDoes
  <2>4. QED
    BY <1>1, <1>3, <2>3 DEF RotatedDoes
<1>5. CASE ~ req[k].ok
  BY <1>1, <1>3, <1>5 DEF Rotated, RotatedDoes
<1>6. QED
  BY <1>4, <1>5

\* ... to its report,
LEMMA PolledStep ==
  ASSUME TypeOK, NumberInv, NEW k \in Conns, Polled(k)
  PROVE  PolledDoes(k)
<1>1. Hangs(k, "poll")
  BY HangTurns DEF Polled, Hangs
<1>2. mem \in Identity /\ mem.rev \in 0..MaxRev
  BY Typed, IdentityIs
<1>3. pc' \in {"save", "top"} /\ UNCHANGED <<serverVars, disk, due, trouble, faults>>
  BY DEF Polled
<1>4. CASE UNCHANGED mem
  BY <1>1, <1>2, <1>3, <1>4 DEF PolledDoes
<1>5. CASE mem.rev < MaxRev /\ mem' = [mem EXCEPT !.rev = @ + 1]
  <2>1. mem.rev + 1 \in 0..MaxRev
    BY <1>2, <1>5, Numbers
  <2>2. mem' \in Identity /\ mem'.cred = mem.cred /\ mem'.cert = mem.cert
    BY <1>2, <1>5, <2>1 DEF Identity
  <2>3. QED
    BY <1>1, <1>3, <2>2 DEF PolledDoes
<1>6. QED
  BY <1>4, <1>5 DEF Polled

\* ... the writing of the identity file,
LEMMA SaveStep ==
  ASSUME TypeOK, SaveIdentity
  PROVE  SaveDoes
BY FaultIs DEF SaveIdentity, SaveDoes

\* ... the end of its patience,
LEMMA GiveUpStep ==
  ASSUME TypeOK, AgentInv, GiveUp
  PROVE  GiveUpDoes
<1>1. Faulty /\ Deserts /\ conn # NoConn /\ conn' = NoConn
  BY FaultIs, DesertedIs DEF GiveUp
<1>2. pc \in {"enrolling", "rotating", "polling"}
  BY <1>1 DEF AgentInv
<1>3. QED
  BY <1>1, <1>2 DEF GiveUp, GiveUpDoes

\* ... and of its process.
LEMMA CrashStep ==
  ASSUME TypeOK, Crash
  PROVE  CrashDoes
BY FaultIs, DesertedIs DEF Crash, CrashDoes

\* Every step is one of these.
Does ==
  \/ RevokeDoes \/ TokenDoes \/ ResumeDoes \/ SaveDoes \/ GiveUpDoes \/ CrashDoes
  \/ RestartStopped \/ RemoveIdentity \/ CertificateAges
  \/ \E k \in Conns : ServerDoes(k) \/ AgentDoes(k)

\* Every step has one of these effects.
LEMMA NextDoes ==
  ASSUME TypeOK, NumberInv, RequestInv, AgentInv, Next
  PROVE  Does
<1>1. CASE Admin
  BY <1>1, RevokeStep, CreateStep, ExpireStep DEF Admin, Does
<1>2. CASE AgentLoop
  <2>1. CASE SaveIdentity \/ Resume
    BY <2>1, SaveStep DEF Does, Resume, ResumeDoes
  <2>2. ASSUME NEW k \in Conns, Enrolled(k) \/ Rotate(k) \/ Rotated(k) \/ Poll(k) \/ Polled(k)
        PROVE  AgentDoes(k)
    BY <2>2, EnrolledStep, RotateStep, RotatedStep, PollStep, PolledStep DEF AgentDoes
  <2>3. QED
    BY <1>2, <2>1, <2>2 DEF AgentLoop, Does
<1>3. CASE Trouble
  <2>1. ASSUME NEW k \in Conns, HandlerFails(k) \/ RetireFails(k) PROVE ServerDoes(k)
    BY <2>1, FailStep, RetireFailsStep DEF ServerDoes
  <2>2. QED
    BY <1>3, <2>1, GiveUpStep, CrashStep DEF Trouble, Does
<1>4. ASSUME NEW k \in Conns, Handlers(k) PROVE ServerDoes(k)
  BY <1>4, EnrollStep, CertifyStep, AuthenticateStep, MatchStep, RetireStep, ReadStep, UpdateStep, NotifyStep,
     IssueStep, StoreStep DEF Handlers, ServerDoes
<1>5. ASSUME NEW k \in Conns, NEW t \in DOMAIN token, Enrolling(k, t) PROVE AgentDoes(k)
  BY <1>5, EnrollingStep DEF AgentDoes
<1>6. QED
  BY <1>1, <1>2, <1>3, <1>4, <1>5 DEF Next, Does

(***************************************************************************)
(* Types.                                                                  *)
(***************************************************************************)
TokenType  == token \in Seq({"open", "closed"}) /\ Len(token) <= MaxTokens
RowType    == row \in Row /\ Len(row.certs) <= 2
ServerType == /\ drifted \in BOOLEAN /\ certs \in Number /\ banned \in BOOLEAN
              /\ admitted \in [1..MaxTokens -> Nat] /\ missed \subseteq 1..MaxWork
AgentType  == /\ pc \in {"down", "stopped", "enrolling", "top", "rotating", "ready", "polling", "save"}
              /\ mem \in Identity /\ disk \in Identity /\ conn \in Conns \union {NoConn}
              /\ due \subseteq 1..MaxWork
RestType   == /\ trouble \subseteq {"overwrite", "unsaved"}
              /\ faults \in 0..MaxFaults /\ req \in [Conns -> Request]

\* TypeOK, in parts.
LEMMA TypeParts == TypeOK <=> TokenType /\ RowType /\ ServerType /\ AgentType /\ RestType
BY DEF TypeOK, TokenType, RowType, ServerType, AgentType, RestType, Row

\* A handler turns its own request only.
LEMMA ServerTurns ==
  ASSUME NEW k \in Conns, ServerDoes(k)
  PROVE  Turns(k)
<1>1. CASE EnrollDoes(k) \/ RefuseDoes(k) \/ CertifyDoes(k)
  BY <1>1 DEF EnrollDoes, RefuseDoes, CertifyDoes, Enrolls, Ends
<1>2. CASE PassDoes(k) \/ MatchDoes(k) \/ RetireDoes(k)
  BY <1>2 DEF PassDoes, MatchDoes, RetireDoes, Passes, Turned
<1>3. CASE SkipDoes(k) \/ ReadDoes(k) \/ UpdateDoes(k)
  BY <1>3 DEF SkipDoes, ReadDoes, UpdateDoes, Goes, Reads, Notifies, Ends
<1>4. CASE NotifyDoes(k) \/ IssueDoes(k) \/ StoreDoes(k)
  BY <1>4 DEF NotifyDoes, IssueDoes, StoreDoes, Issues, Ends
<1>5. QED
  BY <1>1, <1>2, <1>3, <1>4 DEF ServerDoes

\* The tokens that open requests hold exist.
LEMMA TokensAre ==
  ASSUME TypeOK
  PROVE  DOMAIN token = 1..Len(token) /\ Len(token) \in Nat /\ DOMAIN token \subseteq 1..MaxTokens
<1>1. DOMAIN token = 1..Len(token) /\ Len(token) \in Nat /\ Len(token) <= MaxTokens
  BY DEF TypeOK
<1>2. QED
  BY <1>1, Numbers

\* The tokens are open or closed.
LEMMA TokenTyped ==
  ASSUME IndInv, Does
  PROVE  TokenType'
<1>1. ASSUME NEW k \in Conns, EnrollDoes(k) PROVE TokenType'
  <2> DEFINE S == {"open", "closed"}
  <2>1. req[k].tok \in DOMAIN token /\ token' = [token EXCEPT ![req[k].tok] = "closed"]
    BY <1>1 DEF IndInv, RequestInv, Asks, EnrollDoes
  <2>2. token \in Seq(S) /\ "closed" \in S /\ Len(token) <= MaxTokens
    BY DEF IndInv, TypeOK
  <2> HIDE DEF S
  <2>3. token' \in Seq(S) /\ Len(token') = Len(token)
    BY <2>1, <2>2
  <2>4. QED
    BY <2>2, <2>3 DEF S, TokenType
<1>2. CASE TokenDoes
  BY <1>2 DEF TokenDoes, TokenType
<1>3. ASSUME NEW k \in Conns, RefuseDoes(k) \/ CertifyDoes(k) \/ PassDoes(k) \/ MatchDoes(k) \/
            RetireDoes(k) \/ SkipDoes(k) \/ ReadDoes(k) \/ UpdateDoes(k) \/ NotifyDoes(k) \/ IssueDoes(k)
            \/ StoreDoes(k) \/ EnrollingDoes(k) \/ EnrolledDoes(k) \/ RotateDoes(k) \/ RotatedDoes(k) \/
            PollDoes(k) \/ PolledDoes(k) PROVE TokenType'
  BY <1>3, TypeParts DEF IndInv, RefuseDoes, CertifyDoes, PassDoes, MatchDoes, RetireDoes, SkipDoes,
     ReadDoes, UpdateDoes, NotifyDoes, IssueDoes, StoreDoes, EnrollingDoes, EnrolledDoes, RotateDoes,
     RotatedDoes, PollDoes, PolledDoes, TokenType, serverVars, agentVars
<1>4. CASE RevokeDoes \/ ResumeDoes \/ SaveDoes \/ GiveUpDoes \/ CrashDoes \/ RestartStopped \/
        RemoveIdentity \/ CertificateAges
  BY <1>4, TypeParts DEF IndInv, RevokeDoes, ResumeDoes, SaveDoes, GiveUpDoes, CrashDoes, RestartStopped,
     RemoveIdentity, CertificateAges, TokenType, serverVars, agentVars
<1>5. QED
  BY <1>1, <1>2, <1>3, <1>4 DEF Does, ServerDoes, AgentDoes

\* At most two certificates are stored.
LEMMA RowTyped ==
  ASSUME IndInv, Does
  PROVE  RowType'
<1>1. CASE RevokeDoes
  BY <1>1 DEF RevokeDoes, RowBecomes, RowType
<1>2. ASSUME NEW k \in Conns, EnrollDoes(k) PROVE RowType'
  BY <1>2, TypeParts DEF IndInv, EnrollDoes, RowBecomes, RowType
<1>3. ASSUME NEW k \in Conns, CertifyDoes(k) PROVE RowType'
  <2>1. row' \in Row /\ row'.certs = <<req[k].id.cred>>
    BY <1>3 DEF CertifyDoes, RowBecomes
  <2>2. QED
    BY <2>1 DEF RowType
<1>4. ASSUME NEW k \in Conns, RetireDoes(k) PROVE RowType'
  <2>1. row' \in Row /\ row'.certs = <<req[k].id.cert>>
    BY <1>4 DEF RetireDoes, RowBecomes
  <2>2. QED
    BY <2>1 DEF RowType
<1>5. ASSUME NEW k \in Conns, StoreDoes(k) PROVE RowType'
  <2>1. row' \in Row /\ row'.certs = Combined(req[k].hadCert, req[k].id.cert)
    BY <1>5 DEF StoreDoes, RowBecomes
  <2>2. QED
    BY <2>1 DEF RowType, Combined
<1>6. ASSUME NEW k \in Conns, UpdateDoes(k) PROVE RowType'
  BY <1>6, TypeParts DEF IndInv, UpdateDoes, RowBecomes, RowType
<1>7. ASSUME NEW k \in Conns, RefuseDoes(k) \/ PassDoes(k) \/ MatchDoes(k) \/ SkipDoes(k) \/ ReadDoes(k)
            \/ NotifyDoes(k) \/ IssueDoes(k) \/ EnrollingDoes(k) \/ EnrolledDoes(k) \/ RotateDoes(k) \/
            RotatedDoes(k) \/ PollDoes(k) \/ PolledDoes(k) PROVE RowType'
  BY <1>7, TypeParts DEF IndInv, RefuseDoes, PassDoes, MatchDoes, SkipDoes, ReadDoes, NotifyDoes,
     IssueDoes, EnrollingDoes, EnrolledDoes, RotateDoes, RotatedDoes, PollDoes, PolledDoes, RowType,
     serverVars, agentVars
<1>8. CASE TokenDoes \/ ResumeDoes \/ SaveDoes \/ GiveUpDoes \/ CrashDoes \/ RestartStopped \/
        RemoveIdentity \/ CertificateAges
  BY <1>8, TypeParts DEF IndInv, TokenDoes, ResumeDoes, SaveDoes, GiveUpDoes, CrashDoes, RestartStopped,
     RemoveIdentity, CertificateAges, RowType, serverVars, agentVars
<1>9. QED
  BY <1>1, <1>2, <1>3, <1>4, <1>5, <1>6, <1>7, <1>8 DEF Does, ServerDoes, AgentDoes

\* The rest of the server.
LEMMA ServerTyped ==
  ASSUME IndInv, Does
  PROVE  ServerType'
<1>1. ASSUME NEW k \in Conns, EnrollDoes(k) PROVE ServerType'
  <2>1. req[k].tok \in 1..MaxTokens
    BY <1>1, TokensAre DEF IndInv, RequestInv, Asks, EnrollDoes
  <2>2. admitted \in [1..MaxTokens -> Nat] /\ drifted \in BOOLEAN /\ missed \subseteq 1..MaxWork
    BY TypeParts DEF IndInv, ServerType
  <2>3. certs' \in Number
    BY <1>1, Typed, Numbers DEF IndInv, EnrollDoes, Budget, Number
  <2>4. admitted' \in [1..MaxTokens -> Nat]
    BY <1>1, <2>1, <2>2 DEF EnrollDoes
  <2>5. QED
    BY <1>1, <2>2, <2>3, <2>4 DEF EnrollDoes, ServerType
<1>2. ASSUME NEW k \in Conns, IssueDoes(k) PROVE ServerType'
  <2>1. certs' \in Number
    BY <1>2, Typed, Numbers DEF IndInv, IssueDoes, Budget, Number
  <2>2. QED
    BY <1>2, <2>1, TypeParts DEF IndInv, IssueDoes, ServerType
<1>3. ASSUME NEW k \in Conns, StoreDoes(k) PROVE ServerType'
  <2>1. req[k].id.cert \in 1..MaxWork
    <3>1. req[k].id.cert \in Number /\ req[k].hadCert \in Number
      BY Typed, RequestIs, IdentityIs DEF IndInv
    <3>2. req[k].hadCert < req[k].id.cert
      BY <1>3 DEF IndInv, RequestInv, Asks, StoreDoes
    <3>3. QED
      BY <3>1, <3>2, Numbers DEF Number
  <2>2. QED
    BY <1>3, <2>1, TypeParts DEF IndInv, StoreDoes, ServerType
<1>4. ASSUME NEW k \in Conns, RotatedDoes(k) PROVE ServerType'
  BY <1>4, TypeParts DEF IndInv, RotatedDoes, NewCertDoes, ServerType
<1>5. ASSUME NEW k \in Conns, RefuseDoes(k) \/ CertifyDoes(k) \/ PassDoes(k) \/ MatchDoes(k) \/
            RetireDoes(k) \/ SkipDoes(k) \/ ReadDoes(k) \/ UpdateDoes(k) \/ NotifyDoes(k) \/
            EnrollingDoes(k) \/ EnrolledDoes(k) \/ RotateDoes(k) \/ PollDoes(k) \/ PolledDoes(k) PROVE
            ServerType'
  BY <1>5, TypeParts DEF IndInv, RefuseDoes, CertifyDoes, PassDoes, MatchDoes, RetireDoes, SkipDoes,
     ReadDoes, UpdateDoes, NotifyDoes, EnrollingDoes, EnrolledDoes, RotateDoes, PollDoes, PolledDoes,
     ServerType, serverVars, agentVars
<1>6. CASE RevokeDoes \/ TokenDoes \/ ResumeDoes \/ SaveDoes \/ GiveUpDoes \/ CrashDoes \/ RestartStopped
        \/ RemoveIdentity \/ CertificateAges
  BY <1>6, TypeParts DEF IndInv, RevokeDoes, TokenDoes, ResumeDoes, SaveDoes, GiveUpDoes, CrashDoes,
     RestartStopped, RemoveIdentity, CertificateAges, ServerType, serverVars,
     agentVars
<1>7. QED
  BY <1>1, <1>2, <1>3, <1>4, <1>5, <1>6 DEF Does, ServerDoes, AgentDoes

\* The agent.
LEMMA AgentTyped ==
  ASSUME IndInv, Does
  PROVE  AgentType'
<1>1. ASSUME NEW k \in Conns, EnrolledDoes(k) PROVE AgentType'
  <2>1. req[k].id \in Identity
    BY Typed, RequestIs DEF IndInv
  <2>2. QED
    BY <1>1, <2>1, TypeParts DEF IndInv, EnrolledDoes, Hangs, AgentType
<1>2. ASSUME NEW k \in Conns, RotatedDoes(k) PROVE AgentType'
  BY <1>2, TypeParts DEF IndInv, RotatedDoes, NewCertDoes, Hangs, AgentType
<1>3. ASSUME NEW k \in Conns, PolledDoes(k) PROVE AgentType'
  BY <1>3, TypeParts DEF IndInv, PolledDoes, Hangs, AgentType
<1>4. CASE CertificateAges
  <2>1. mem.cert \in Number /\ mem.cert # 0
    BY <1>4, Typed, IdentityIs DEF IndInv, CertificateAges
  <2>2. mem.cert \in 1..MaxWork
    BY <2>1, Numbers DEF Number
  <2>3. QED
    BY <1>4, <2>2, TypeParts DEF IndInv, CertificateAges, AgentType
<1>5. ASSUME NEW k \in Conns, EnrollDoes(k) \/ RefuseDoes(k) \/ CertifyDoes(k) \/ PassDoes(k) \/
            MatchDoes(k) \/ RetireDoes(k) \/ SkipDoes(k) \/ ReadDoes(k) \/ UpdateDoes(k) \/ NotifyDoes(k)
            \/ IssueDoes(k) \/ StoreDoes(k) \/ EnrollingDoes(k) \/ RotateDoes(k) \/ PollDoes(k) PROVE
            AgentType'
  BY <1>5, TypeParts, NobodyIs DEF IndInv, EnrollDoes, RefuseDoes, CertifyDoes, PassDoes, MatchDoes,
     RetireDoes, SkipDoes, ReadDoes, UpdateDoes, NotifyDoes, IssueDoes, StoreDoes, EnrollingDoes,
     RotateDoes, PollDoes, Sends, AgentType, serverVars, agentVars
<1>6. CASE RevokeDoes \/ TokenDoes \/ ResumeDoes \/ SaveDoes \/ GiveUpDoes \/ CrashDoes \/ RestartStopped
        \/ RemoveIdentity
  BY <1>6, TypeParts, NobodyIs DEF IndInv, RevokeDoes, TokenDoes, ResumeDoes, SaveDoes, GiveUpDoes,
     CrashDoes, RestartStopped, RemoveIdentity, Sends, AgentType, serverVars, agentVars
<1>7. QED
  BY <1>1, <1>2, <1>3, <1>4, <1>5, <1>6 DEF Does, ServerDoes, AgentDoes

\* Faults and requests.
LEMMA RestTyped ==
  ASSUME IndInv, Does
  PROVE  RestType'
<1>1. ASSUME NEW k \in Conns, EnrollDoes(k) \/ RefuseDoes(k) \/ CertifyDoes(k) \/ PassDoes(k) \/
            MatchDoes(k) \/ RetireDoes(k) \/ SkipDoes(k) \/ ReadDoes(k) \/ UpdateDoes(k) \/ NotifyDoes(k)
            \/ IssueDoes(k) \/ StoreDoes(k) PROVE RestType'
  <2>1. req' \in [Conns -> Request]
    BY <1>1, ServerTurns DEF ServerDoes, Turns
  <2>2. faults' \in 0..MaxFaults
    BY <1>1, TypeParts DEF IndInv, RestType, EnrollDoes, RefuseDoes, CertifyDoes, PassDoes, MatchDoes, RetireDoes,
       SkipDoes, ReadDoes, UpdateDoes, NotifyDoes, IssueDoes, StoreDoes, Faulty
  <2>3. trouble' \in {trouble, trouble \union {"overwrite"}}
    BY <1>1 DEF EnrollDoes, RefuseDoes, CertifyDoes, PassDoes, MatchDoes, RetireDoes,
       SkipDoes, ReadDoes, UpdateDoes, NotifyDoes, IssueDoes, StoreDoes, Marks
  <2>4. QED
    BY <2>1, <2>2, <2>3, TypeParts DEF IndInv, RestType
<1>2. ASSUME NEW k \in Conns, EnrollingDoes(k) \/ EnrolledDoes(k) \/ RotateDoes(k) \/ RotatedDoes(k) \/
            PollDoes(k) \/ PolledDoes(k) PROVE RestType'
  BY <1>2, TypeParts DEF IndInv, EnrollingDoes, EnrolledDoes, RotateDoes, RotatedDoes, PollDoes,
     PolledDoes, NewCertDoes, RestType, Faulty, Sends, Hangs, Turns
<1>3. CASE RevokeDoes \/ TokenDoes \/ ResumeDoes \/ SaveDoes \/ GiveUpDoes \/ CrashDoes \/ RestartStopped
        \/ RemoveIdentity \/ CertificateAges
  BY <1>3, TypeParts DEF IndInv, RevokeDoes, TokenDoes, ResumeDoes, SaveDoes, GiveUpDoes, CrashDoes,
     RestartStopped, RemoveIdentity, CertificateAges, RestType, Marks, Faulty,
     Deserts, serverVars
<1>4. QED
  BY <1>1, <1>2, <1>3 DEF Does, ServerDoes, AgentDoes

\* The types, together.
LEMMA TypeStep ==
  ASSUME IndInv, Does
  PROVE  TypeOK'
<1>1. TokenType' /\ RowType' /\ ServerType' /\ AgentType' /\ RestType'
  BY TokenTyped, RowTyped, ServerTyped, AgentTyped, RestTyped
<1>2. QED
  BY <1>1 DEF TypeOK, TokenType, RowType, ServerType, AgentType, RestType, Row

(***************************************************************************)
(* Numbers.                                                                *)
(***************************************************************************)
Grow == certs \in Nat /\ certs' \in Nat /\ certs <= certs' /\ certs' <= MaxWork

\* Certificates are only added.
LEMMA GrowStep ==
  ASSUME IndInv, Does
  PROVE  Grow
<1>0. certs \in Nat /\ certs <= MaxWork
  BY Typed, Numbers DEF IndInv, NumberInv, Number
<1>1. ASSUME NEW k \in Conns, EnrollDoes(k) \/ IssueDoes(k) PROVE Grow
  <2>1. certs < MaxWork /\ certs' = certs + 1
    BY <1>1 DEF EnrollDoes, IssueDoes, Budget
  <2>2. QED
    BY <1>0, <2>1, Numbers DEF Grow
<1>2. ASSUME NEW k \in Conns, RefuseDoes(k) \/ CertifyDoes(k) \/ PassDoes(k) \/ MatchDoes(k) \/
            RetireDoes(k) \/ SkipDoes(k) \/ ReadDoes(k) \/ UpdateDoes(k) \/ NotifyDoes(k) \/ StoreDoes(k)
            \/ EnrollingDoes(k) \/ EnrolledDoes(k) \/ RotateDoes(k) \/ RotatedDoes(k) \/ PollDoes(k)
            \/ PolledDoes(k) PROVE Grow
  <2>1. UNCHANGED certs
    BY <1>2 DEF RefuseDoes, CertifyDoes, PassDoes, MatchDoes, RetireDoes, SkipDoes, ReadDoes, UpdateDoes,
       NotifyDoes, StoreDoes, EnrollingDoes, EnrolledDoes, RotateDoes, RotatedDoes, PollDoes, PolledDoes, serverVars
  <2>2. QED
    BY <1>0, <2>1 DEF Grow
<1>3. CASE RevokeDoes \/ TokenDoes \/ ResumeDoes \/ SaveDoes \/ GiveUpDoes \/ CrashDoes \/ RestartStopped
        \/ RemoveIdentity \/ CertificateAges
  <2>1. UNCHANGED certs
    BY <1>3 DEF RevokeDoes, TokenDoes, ResumeDoes, SaveDoes, GiveUpDoes, CrashDoes, RestartStopped,
       RemoveIdentity, CertificateAges, serverVars
  <2>2. QED
    BY <1>0, <2>1 DEF Grow
<1>4. QED
  BY <1>1, <1>2, <1>3 DEF Does, ServerDoes, AgentDoes

RowMade == row.cred <= certs /\ \A i \in DOMAIN row.certs : row.certs[i] \in 1..certs

\* What one knows of the numbers before a step.
LEMMA NumbersAre ==
  ASSUME IndInv
  PROVE  /\ row.cred \in Nat /\ row.rev \in Nat /\ row.cred <= certs
         /\ \A i \in DOMAIN row.certs : row.certs[i] \in 1..certs
         /\ \A i \in {mem, disk} : i.cred \in Nat /\ i.cert \in Nat /\ i.rev \in Nat /\ Made(i)
         /\ \A k \in Conns : /\ req[k].id.cred \in Nat /\ req[k].id.cert \in Nat /\ req[k].id.rev \in Nat
                             /\ req[k].hadRev \in Nat /\ req[k].hadCert \in Nat
                             /\ Made(req[k].id)
<1>1. row \in Row /\ mem \in Identity /\ disk \in Identity /\ \A k \in Conns : req[k] \in Request
  BY Typed DEF IndInv
<1>2. row.cred \in Nat /\ row.rev \in Nat
  BY <1>1, RowIs, Numbers DEF Number
<1>3. \A i \in {mem, disk} : i.cred \in Nat /\ i.cert \in Nat /\ i.rev \in Nat
  BY <1>1, IdentityIs, Numbers DEF Number
<1>4. \A k \in Conns : /\ req[k].id.cred \in Nat /\ req[k].id.cert \in Nat /\ req[k].id.rev \in Nat
                       /\ req[k].hadRev \in Nat /\ req[k].hadCert \in Nat
  BY <1>1, RequestIs, IdentityIs, Numbers DEF Number
<1>5. QED
  BY <1>2, <1>3, <1>4 DEF IndInv, NumberInv

\* What the row holds was made.
LEMMA RowMadeStep ==
  ASSUME IndInv, Does
  PROVE  RowMade'
<1>1. CASE RevokeDoes
  <2>1. row'.cred = 0 /\ row'.rev = row.rev /\ row'.certs = <<>>
    BY <1>1 DEF RevokeDoes, RowBecomes
  <2>2. DOMAIN row'.certs = {}
    BY <2>1
  <2>3. QED
    BY <2>1, <2>2, GrowStep, NumbersAre DEF Grow, RowMade
<1>2. ASSUME NEW k \in Conns, EnrollDoes(k) PROVE RowMade'
  <2>1. row'.cred = certs + 1 /\ row'.rev = row.rev /\ row'.certs = row.certs /\ certs' = certs + 1
    BY <1>2 DEF EnrollDoes, RowBecomes
  <2>2. QED
    BY <2>1, GrowStep, NumbersAre DEF Grow, RowMade
<1>3. ASSUME NEW k \in Conns, CertifyDoes(k) PROVE RowMade'
  <2>1. row'.cred = row.cred /\ row'.rev = row.rev /\ row'.certs = <<req[k].id.cred>>
    BY <1>3 DEF CertifyDoes, RowBecomes
  <2>2. req[k].id.cred \in 1..certs
    BY <1>3, GrowStep, NumbersAre DEF IndInv, RequestInv, Asks, CertifyDoes, Grow, Made
  <2>3. \A i \in DOMAIN row'.certs : row'.certs[i] = req[k].id.cred
    BY <2>1
  <2>4. QED
    BY <2>1, <2>2, <2>3, GrowStep, NumbersAre DEF Grow, RowMade
<1>4. ASSUME NEW k \in Conns, RetireDoes(k) PROVE RowMade'
  <2>1. row'.cred = row.cred /\ row'.rev = row.rev /\ row'.certs = <<req[k].id.cert>>
    BY <1>4 DEF RetireDoes, RowBecomes
  <2>2. req[k].id.cert \in 1..certs
    BY <1>4, GrowStep, NumbersAre DEF IndInv, RequestInv, Asks, RetireDoes, Grow, Made
  <2>3. \A i \in DOMAIN row'.certs : row'.certs[i] = req[k].id.cert
    BY <2>1
  <2>4. QED
    BY <2>1, <2>2, <2>3, GrowStep, NumbersAre DEF Grow, RowMade
<1>5. ASSUME NEW k \in Conns, StoreDoes(k) PROVE RowMade'
  <2>1. row'.cred = row.cred /\ row'.rev = row.rev /\ row'.certs = Combined(req[k].hadCert, req[k].id.cert)
    BY <1>5 DEF StoreDoes, RowBecomes
  <2>2. req[k].id.cert \in 1..certs /\ (req[k].hadCert # 0 => req[k].hadCert \in 1..certs)
    BY <1>5, GrowStep, NumbersAre DEF IndInv, RequestInv, Asks, StoreDoes, Grow, Made
  <2>3. \A i \in DOMAIN row'.certs : row'.certs[i] = req[k].id.cert \/ (req[k].hadCert # 0 /\ row'.certs[i] = req[k].hadCert)
    BY <2>1 DEF Combined
  <2>4. QED
    BY <2>1, <2>2, <2>3, GrowStep, NumbersAre DEF Grow, RowMade
<1>6. ASSUME NEW k \in Conns, UpdateDoes(k) PROVE RowMade'
  <2>1. row'.cred = row.cred /\ row'.rev = req[k].id.rev /\ row'.certs = row.certs
    BY <1>6 DEF UpdateDoes, RowBecomes
  <2>2. QED
    BY <2>1, GrowStep, NumbersAre DEF Grow, RowMade, Made
<1>7. ASSUME NEW k \in Conns, RefuseDoes(k) \/ PassDoes(k) \/ MatchDoes(k) \/ SkipDoes(k) \/ ReadDoes(k)
            \/ NotifyDoes(k) \/ IssueDoes(k) \/ EnrollingDoes(k) \/ EnrolledDoes(k) \/ RotateDoes(k) \/
            RotatedDoes(k) \/ PollDoes(k) \/ PolledDoes(k) PROVE RowMade'
  <2>1. row' = row
    BY <1>7 DEF RefuseDoes, PassDoes, MatchDoes, SkipDoes, ReadDoes, NotifyDoes, IssueDoes, EnrollingDoes, EnrolledDoes, RotateDoes, RotatedDoes, PollDoes, PolledDoes, serverVars, agentVars
  <2>2. QED
    BY <2>1, GrowStep, NumbersAre DEF Grow, RowMade
<1>8. CASE TokenDoes \/ ResumeDoes \/ SaveDoes \/ GiveUpDoes \/ CrashDoes \/ RestartStopped \/
        RemoveIdentity \/ CertificateAges
  <2>1. row' = row
    BY <1>8 DEF TokenDoes, ResumeDoes, SaveDoes, GiveUpDoes, CrashDoes, RestartStopped, RemoveIdentity, CertificateAges, serverVars, agentVars
  <2>2. QED
    BY <2>1, GrowStep, NumbersAre DEF Grow, RowMade
<1>9. QED
  BY <1>1, <1>2, <1>3, <1>4, <1>5, <1>6, <1>7, <1>8 DEF Does, ServerDoes, AgentDoes

\* What the agent holds was made.
LEMMA AgentMadeStep ==
  ASSUME IndInv, Does
  PROVE  Made(mem)' /\ Made(disk)'
<1>1. ASSUME NEW k \in Conns, EnrolledDoes(k) PROVE Made(mem)' /\ Made(disk)'
  <2>1. mem' \in {mem, req[k].id} /\ disk' \in {disk, req[k].id}
    BY <1>1 DEF EnrolledDoes
  <2>2. QED
    BY <2>1, GrowStep, NumbersAre DEF Grow, Made
<1>2. ASSUME NEW k \in Conns, RotatedDoes(k) PROVE Made(mem)' /\ Made(disk)'
  <2>1. mem' = mem \/ (mem'.cred = mem.cred /\ mem'.cert = req[k].id.cert /\ mem'.rev = mem.rev)
    BY <1>2 DEF RotatedDoes, NewCertDoes
  <2>2. disk' \in {disk, mem'}
    BY <1>2 DEF RotatedDoes, NewCertDoes
  <2>3. QED
    BY <2>1, <2>2, GrowStep, NumbersAre DEF Grow, Made
<1>3. ASSUME NEW k \in Conns, PolledDoes(k) PROVE Made(mem)' /\ Made(disk)'
  <2>1. mem'.cred = mem.cred /\ mem'.cert = mem.cert
    BY <1>3 DEF PolledDoes
  <2>2. disk' = disk
    BY <1>3 DEF PolledDoes
  <2>3. QED
    BY <2>1, <2>2, GrowStep, NumbersAre DEF Grow, Made
<1>4. ASSUME NEW k \in Conns, EnrollDoes(k) \/ RefuseDoes(k) \/ CertifyDoes(k) \/ PassDoes(k) \/
            MatchDoes(k) \/ RetireDoes(k) \/ SkipDoes(k) \/ ReadDoes(k) \/ UpdateDoes(k) \/ NotifyDoes(k)
            \/ IssueDoes(k) \/ StoreDoes(k) \/ EnrollingDoes(k) \/ RotateDoes(k) \/ PollDoes(k) PROVE
            Made(mem)' /\ Made(disk)'
  <2>1. mem' \in {mem, disk, Nobody} /\ disk' \in {mem, disk, Nobody}
    BY <1>4 DEF EnrollDoes, RefuseDoes, CertifyDoes, PassDoes, MatchDoes, RetireDoes, SkipDoes, ReadDoes, UpdateDoes, NotifyDoes, IssueDoes, StoreDoes, EnrollingDoes, RotateDoes, PollDoes, serverVars, agentVars
  <2>2. QED
    BY <2>1, GrowStep, NumbersAre, NobodyIs DEF Grow, Made
<1>5. CASE RevokeDoes \/ TokenDoes \/ ResumeDoes \/ SaveDoes \/ GiveUpDoes \/ CrashDoes \/ RestartStopped
        \/ RemoveIdentity \/ CertificateAges
  <2>1. mem' \in {mem, disk, Nobody} /\ disk' \in {mem, disk, Nobody}
    BY <1>5 DEF RevokeDoes, TokenDoes, ResumeDoes, SaveDoes, GiveUpDoes, CrashDoes, RestartStopped, RemoveIdentity, CertificateAges, serverVars, agentVars
  <2>2. QED
    BY <2>1, GrowStep, NumbersAre, NobodyIs DEF Grow, Made
<1>6. QED
  BY <1>1, <1>2, <1>3, <1>4, <1>5 DEF Does, ServerDoes, AgentDoes

ReqMade(k) == Made(req[k].id)

\* The others' requests hold what they held.
LEMMA OthersMade ==
  ASSUME IndInv, Does, NEW k \in Conns, Turns(k)
  PROVE  \A j \in Conns \ {k} : ReqMade(j)'
<1>1. \A j \in Conns \ {k} : req'[j].id = req[j].id /\ req'[j].hadRev = req[j].hadRev
  BY DEF Turns, Resembles
<1>2. QED
  BY <1>1, GrowStep, NumbersAre DEF Grow, Made, ReqMade

\* What one handler holds was made.
LEMMA ServerMade ==
  ASSUME IndInv, Does, NEW k \in Conns, ServerDoes(k)
  PROVE  ReqMade(k)'
<1>1. CASE EnrollDoes(k)
  <2>1. /\ req'[k].id.cred = certs + 1 /\ req'[k].id.cert = req[k].id.cert /\ req'[k].id.rev = req[k].id.rev
        /\ req'[k].hadRev = req[k].hadRev /\ certs' = certs + 1
    BY <1>1 DEF EnrollDoes, Enrolls, SameHad
  <2>2. QED
    BY <2>1, GrowStep, NumbersAre DEF Grow, Made, ReqMade
<1>2. CASE IssueDoes(k)
  <2>1. /\ req'[k].id.cred = req[k].id.cred /\ req'[k].id.cert = certs + 1 /\ req'[k].id.rev = req[k].id.rev
        /\ req'[k].hadRev = req[k].hadRev /\ certs' = certs + 1
    BY <1>2 DEF IssueDoes, Issues, SameHad
  <2>2. QED
    BY <2>1, GrowStep, NumbersAre DEF Grow, Made, ReqMade
<1>3. CASE CertifyDoes(k)
  <2>1. PICK i \in Identity : /\ Ends(k, TRUE, i)
                              /\ i.cred = req[k].id.cred /\ i.cert = req[k].id.cred /\ i.rev = req[k].id.rev
    BY <1>3 DEF CertifyDoes
  <2>2. (req'[k].id = i \/ req'[k].id = Nobody) /\ req'[k].hadRev = 0
    BY <2>1, FreeIs DEF Ends
  <2>3. QED
    BY <2>1, <2>2, GrowStep, NumbersAre, NobodyIs DEF Grow, Made, ReqMade
<1>4. CASE RefuseDoes(k) \/ UpdateDoes(k) \/ NotifyDoes(k) \/ StoreDoes(k)
  <2>1. req'[k].id \in {req[k].id, Nobody} /\ req'[k].hadRev = 0
    BY <1>4, FreeIs DEF RefuseDoes, UpdateDoes, NotifyDoes, StoreDoes, Ends, Notifies
  <2>2. QED
    BY <2>1, GrowStep, NumbersAre, NobodyIs DEF Grow, Made, ReqMade
<1>5. CASE PassDoes(k) \/ MatchDoes(k) \/ RetireDoes(k) \/ SkipDoes(k) \/ ReadDoes(k)
  <2>1. req'[k].id = req[k].id /\ req'[k].hadRev \in {req[k].hadRev, row.rev}
    BY <1>5 DEF PassDoes, MatchDoes, RetireDoes, SkipDoes, ReadDoes, Passes, Turned, Goes, Reads, SameAsk, SameHad
  <2>2. QED
    BY <2>1, GrowStep, NumbersAre, NobodyIs DEF Grow, Made, ReqMade
<1>6. QED
  BY <1>1, <1>2, <1>3, <1>4, <1>5 DEF ServerDoes

\* What the requests hold was made.
LEMMA RequestMadeStep ==
  ASSUME IndInv, Does
  PROVE  \A j \in Conns : ReqMade(j)'
<1>1. ASSUME NEW k \in Conns, EnrollDoes(k) \/ RefuseDoes(k) \/ CertifyDoes(k) \/ PassDoes(k) \/
            MatchDoes(k) \/ RetireDoes(k) \/ SkipDoes(k) \/ ReadDoes(k) \/ UpdateDoes(k) \/ NotifyDoes(k)
            \/ IssueDoes(k) \/ StoreDoes(k) PROVE \A j \in Conns : ReqMade(j)'
  BY <1>1, ServerTurns, ServerMade, OthersMade DEF ServerDoes
<1>2. ASSUME NEW k \in Conns, EnrollingDoes(k) \/ EnrolledDoes(k) \/ RotateDoes(k) \/ RotatedDoes(k) \/
            PollDoes(k) \/ PolledDoes(k) PROVE \A j \in Conns : ReqMade(j)'
  <2>1. Turns(k) /\ req'[k].id \in {mem, Nobody} /\ req'[k].hadRev = 0
    BY <1>2, FreeIs DEF EnrollingDoes, EnrolledDoes, RotateDoes, RotatedDoes, PollDoes, PolledDoes, Sends, Hangs
  <2>2. ReqMade(k)'
    BY <2>1, GrowStep, NumbersAre, NobodyIs DEF Grow, Made, ReqMade
  <2>3. QED
    BY <2>1, <2>2, OthersMade
<1>3. CASE RevokeDoes \/ TokenDoes \/ ResumeDoes \/ SaveDoes \/ GiveUpDoes \/ CrashDoes \/ RestartStopped
        \/ RemoveIdentity \/ CertificateAges
  <2>1. \A j \in Conns : req'[j] = req[j] \/ req'[j] = Free
    BY <1>3 DEF RevokeDoes, TokenDoes, ResumeDoes, SaveDoes, GiveUpDoes, CrashDoes, RestartStopped, RemoveIdentity, CertificateAges, Deserts, serverVars, agentVars
  <2>2. QED
    BY <2>1, GrowStep, NumbersAre, NobodyIs, FreeIs DEF Grow, Made, ReqMade
<1>4. QED
  BY <1>1, <1>2, <1>3 DEF Does, ServerDoes, AgentDoes

\* The certificates that were missed were made.
LEMMA MissedMadeStep ==
  ASSUME IndInv, Does
  PROVE  missed' \subseteq 1..certs'
<1>1. ASSUME NEW k \in Conns, StoreDoes(k) PROVE missed' \subseteq 1..certs'
  <2>1. missed' = missed \union {req[k].id.cert} /\ missed \subseteq 1..certs
    BY <1>1 DEF StoreDoes, IndInv, NumberInv
  <2>2. req[k].id.cert \in 1..certs
    BY <1>1, GrowStep, NumbersAre DEF IndInv, RequestInv, Asks, StoreDoes, Grow, Made
  <2>3. 1..certs \subseteq 1..certs'
    BY GrowStep DEF Grow
  <2>4. QED
    BY <2>1, <2>2, <2>3
<1>2. ASSUME NEW k \in Conns, EnrollDoes(k) \/ RefuseDoes(k) \/ CertifyDoes(k) \/ PassDoes(k) \/
            MatchDoes(k) \/ RetireDoes(k) \/ SkipDoes(k) \/ ReadDoes(k) \/ UpdateDoes(k) \/ NotifyDoes(k)
            \/ IssueDoes(k) \/ EnrollingDoes(k) \/ EnrolledDoes(k) \/ RotateDoes(k) \/ RotatedDoes(k) \/
            PollDoes(k) \/ PolledDoes(k) PROVE missed' \subseteq 1..certs'
  <2>1. missed' \subseteq missed /\ missed \subseteq 1..certs
    BY <1>2 DEF EnrollDoes, RefuseDoes, CertifyDoes, PassDoes, MatchDoes, RetireDoes, SkipDoes, ReadDoes, UpdateDoes, NotifyDoes, IssueDoes, EnrollingDoes, EnrolledDoes, RotateDoes, RotatedDoes, PollDoes, PolledDoes, NewCertDoes, IndInv, NumberInv, serverVars, agentVars
  <2>2. 1..certs \subseteq 1..certs'
    BY GrowStep DEF Grow
  <2>3. QED
    BY <2>1, <2>2
<1>3. CASE RevokeDoes \/ TokenDoes \/ ResumeDoes \/ SaveDoes \/ GiveUpDoes \/ CrashDoes \/ RestartStopped
        \/ RemoveIdentity \/ CertificateAges
  <2>1. missed' \subseteq missed /\ missed \subseteq 1..certs
    BY <1>3 DEF RevokeDoes, TokenDoes, ResumeDoes, SaveDoes, GiveUpDoes, CrashDoes, RestartStopped, RemoveIdentity, CertificateAges, NewCertDoes, IndInv, NumberInv, serverVars, agentVars
  <2>2. 1..certs \subseteq 1..certs'
    BY GrowStep DEF Grow
  <2>3. QED
    BY <2>1, <2>2
<1>4. QED
  BY <1>1, <1>2, <1>3 DEF Does, ServerDoes, AgentDoes

\* No number is of a certificate that has not been made.
LEMMA NumberStep ==
  ASSUME IndInv, Does
  PROVE  NumberInv'
<1>1. certs' <= MaxWork
  BY GrowStep DEF Grow
<1>2. QED
  BY <1>1, RowMadeStep, AgentMadeStep, RequestMadeStep, MissedMadeStep DEF NumberInv, RowMade, ReqMade

(***************************************************************************)
(* Requests, and the agent that makes them.                                *)
(***************************************************************************)

\* A token is not forgotten.
LEMMA TokensStay ==
  ASSUME IndInv, Does
  PROVE  DOMAIN token \subseteq DOMAIN token'
<1>1. ASSUME NEW k \in Conns, EnrollDoes(k) PROVE DOMAIN token \subseteq DOMAIN token'
  BY <1>1 DEF EnrollDoes
<1>2. ASSUME NEW k \in Conns, RefuseDoes(k) \/ CertifyDoes(k) \/ PassDoes(k) \/ MatchDoes(k) \/
            RetireDoes(k) \/ SkipDoes(k) \/ ReadDoes(k) \/ UpdateDoes(k) \/ NotifyDoes(k) \/ IssueDoes(k)
            \/ StoreDoes(k) \/ EnrollingDoes(k) \/ EnrolledDoes(k) \/ RotateDoes(k) \/ RotatedDoes(k) \/
            PollDoes(k) \/ PolledDoes(k) PROVE DOMAIN token \subseteq DOMAIN token'
  BY <1>2 DEF RefuseDoes, CertifyDoes, PassDoes, MatchDoes, RetireDoes, SkipDoes, ReadDoes, UpdateDoes,
     NotifyDoes, IssueDoes, StoreDoes, EnrollingDoes, EnrolledDoes, RotateDoes, RotatedDoes, PollDoes,
     PolledDoes, serverVars, agentVars
<1>3. CASE RevokeDoes \/ TokenDoes \/ ResumeDoes \/ SaveDoes \/ GiveUpDoes \/ CrashDoes \/ RestartStopped
        \/ RemoveIdentity \/ CertificateAges
  BY <1>3 DEF RevokeDoes, TokenDoes, ResumeDoes, SaveDoes, GiveUpDoes, CrashDoes, RestartStopped,
     RemoveIdentity, CertificateAges, serverVars, agentVars
<1>4. QED
  BY <1>1, <1>2, <1>3 DEF Does, ServerDoes, AgentDoes

\* The others' requests are what they were.
LEMMA OthersAsk ==
  ASSUME IndInv, Does, NEW k \in Conns, Turns(k), conn' = conn \/ conn \in {k, NoConn}
  PROVE  \A j \in Conns \ {k} : Asks(j)'
<1> SUFFICES ASSUME NEW j \in Conns \ {k} PROVE Asks(j)'
  OBVIOUS
<1>1. Resembles(req'[j], req[j]) /\ Asks(j)
  BY DEF Turns, IndInv, RequestInv
<1>2. At(j, "done") => j = conn'
  BY <1>1, Numbers DEF Asks
<1>3. QED
  BY <1>1, <1>2, TokensStay DEF Asks, Resembles, At

\* A free request asks for nothing.
LEMMA FreeAsks ==
  ASSUME NEW k \in Conns, req'[k] = Free
  PROVE  Asks(k)'
BY FreeIs DEF Asks, At

\* An answer is read by its agent.
LEMMA EndsAsks ==
  ASSUME NEW k \in Conns, NEW ok \in BOOLEAN, NEW i \in Identity, Ends(k, ok, i), conn' = conn,
         ok /\ req[k].kind = "enroll" => i.cred # 0 /\ i.cert = i.cred /\ i.rev = 0
  PROVE  Asks(k)'
<1>1. CASE k # conn
  BY <1>1, FreeAsks DEF Ends
<1>2. CASE k = conn
  BY <1>2 DEF Ends, Asks, At
<1>3. QED
  BY <1>1, <1>2

\* What a handler has made of its request.
LEMMA ServerAsks ==
  ASSUME IndInv, Does, NEW k \in Conns, ServerDoes(k)
  PROVE  Asks(k)'
<1>1. Asks(k) /\ req[k] \in Request /\ req[k].id \in Identity
  BY Typed, RequestIs DEF IndInv, RequestInv
<1>2. conn' = conn
  BY DEF ServerDoes, EnrollDoes, RefuseDoes, CertifyDoes, PassDoes, MatchDoes, RetireDoes, SkipDoes, ReadDoes,
     UpdateDoes, NotifyDoes, IssueDoes, StoreDoes, agentVars
<1>3. CASE EnrollDoes(k)
  <2>1. req[k].kind = "enroll" /\ req[k].id.rev = 0
    BY <1>1, <1>3, NobodyIs DEF EnrollDoes, Asks
  <2>2. req'[k].kind = "enroll" /\ req'[k].stage = "certify" /\ req'[k].id.cred = certs + 1 /\ req'[k].id.rev = 0
    BY <1>3, <2>1 DEF EnrollDoes, Enrolls
  <2>3. QED
    BY <2>2, GrowStep DEF Asks, At, Grow
<1>4. CASE IssueDoes(k)
  <2>1. req[k].kind = "rotate"
    BY <1>1, <1>4 DEF IssueDoes, Asks, At
  <2>2. req'[k].kind = "rotate" /\ req'[k].stage = "store" /\ req'[k].id.cert = certs + 1 /\ req'[k].hadCert = Newest
    BY <1>4, <2>1 DEF IssueDoes, Issues
  <2>3. Newest <= certs
    <3>1. row.certs \in Seq(Number)
      BY Typed, RowIs DEF IndInv
    <3>2. row.certs # <<>> => Len(row.certs) \in DOMAIN row.certs
      BY <3>1
    <3>3. QED
      BY <3>2, GrowStep, NumbersAre DEF Newest, Grow
  <2>4. Newest \in Nat
    <3>1. row.certs \in Seq(Number)
      BY Typed, RowIs DEF IndInv
    <3>2. row.certs # <<>> => Newest \in Number
      BY <3>1 DEF Newest
    <3>3. QED
      BY <3>2 DEF Newest, Number
  <2>5. Newest < certs + 1
    BY <2>3, <2>4, GrowStep DEF Grow
  <2>6. QED
    BY <2>2, <2>5 DEF Asks, At
<1>5. CASE CertifyDoes(k)
  <2>1. PICK i \in Identity : /\ Ends(k, TRUE, i)
                              /\ i.cred = req[k].id.cred /\ i.cert = req[k].id.cred /\ i.rev = req[k].id.rev
    BY <1>5 DEF CertifyDoes
  <2>2. req[k].id.cred # 0 /\ req[k].id.rev = 0
    BY <1>1, <1>5 DEF CertifyDoes, Asks
  <2>3. QED
    BY <1>2, <2>1, <2>2, EndsAsks
<1>6. CASE RefuseDoes(k)
  BY <1>2, <1>6, NobodyIs, EndsAsks DEF RefuseDoes
<1>7. CASE NotifyDoes(k)
  <2>1. req[k].kind = "poll" /\ Ends(k, TRUE, Nobody)
    BY <1>1, <1>7 DEF NotifyDoes, Asks, At
  <2>2. QED
    BY <1>2, <2>1, NobodyIs, EndsAsks
<1>8. CASE StoreDoes(k)
  <2>1. req[k].kind = "rotate" /\ Ends(k, TRUE, req[k].id)
    BY <1>1, <1>8 DEF StoreDoes, Asks, At
  <2>2. QED
    BY <1>1, <1>2, <2>1, EndsAsks
<1>9. CASE UpdateDoes(k)
  <2>1. req[k].kind = "poll"
    BY <1>1, <1>9 DEF UpdateDoes, Asks, At
  <2>2. CASE Ends(k, TRUE, Nobody)
    BY <1>2, <2>1, <2>2, NobodyIs, EndsAsks
  <2>3. CASE Notifies(k)
    BY <2>3 DEF Notifies, Asks, At
  <2>4. QED
    BY <1>9, <2>2, <2>3 DEF UpdateDoes
<1>10. CASE PassDoes(k)
  <2>1. req[k].kind \in {"poll", "rotate"} /\ req'[k].kind = req[k].kind /\ req'[k].stage = "match"
    BY <1>1, <1>10 DEF PassDoes, Passes, SameAsk, Asks, At
  <2>2. QED
    BY <2>1 DEF Asks, At
<1>11. CASE MatchDoes(k)
  <2>1. req[k].kind \in {"poll", "rotate"} /\ req'[k].kind = req[k].kind /\ req'[k].id = req[k].id
        /\ req'[k].stage \in {"retire", Body(req[k].kind)}
    BY <1>1, <1>11 DEF MatchDoes, Turned, SameAsk, Asks, At
  <2>2. req[k].id.cert # 0
    BY <1>11, NumbersAre DEF MatchDoes, Known
  <2>3. QED
    BY <2>1, <2>2 DEF Asks, At, Body
<1>12. CASE RetireDoes(k) \/ SkipDoes(k)
  <2>1. req[k].kind \in {"poll", "rotate"} /\ req'[k].kind = req[k].kind /\ req'[k].stage = Body(req[k].kind)
    BY <1>1, <1>12 DEF RetireDoes, SkipDoes, Turned, Goes, SameAsk, Asks, At
  <2>2. QED
    BY <2>1 DEF Asks, At, Body
<1>13. CASE ReadDoes(k)
  <2>1. req'[k].kind = "poll" /\ req'[k].stage = "update"
    BY <1>1, <1>13 DEF ReadDoes, Reads, Goes, SameAsk, Asks, At
  <2>2. QED
    BY <2>1 DEF Asks, At
<1>14. QED
  BY <1>3, <1>4, <1>5, <1>6, <1>7, <1>8, <1>9, <1>10, <1>11, <1>12, <1>13 DEF ServerDoes

\* What the agent asks.
LEMMA AgentAsks ==
  ASSUME IndInv, Does, NEW k \in Conns, AgentDoes(k)
  PROVE  Asks(k)' /\ Turns(k) /\ conn \in {k, NoConn}
<1>1. CASE EnrolledDoes(k) \/ RotatedDoes(k) \/ PolledDoes(k)
  <2>1. req'[k] = Free /\ Turns(k) /\ conn = k
    BY <1>1 DEF EnrolledDoes, RotatedDoes, PolledDoes, Hangs, Reply
  <2>2. QED
    BY <2>1, FreeAsks
<1>2. CASE EnrollingDoes(k) \/ RotateDoes(k) \/ PollDoes(k)
  <2>1. pc \in {"down", "top", "ready"} /\ Turns(k)
    BY <1>2 DEF EnrollingDoes, RotateDoes, PollDoes, Sends
  <2>2. conn = NoConn
    BY <2>1 DEF IndInv, AgentInv
  <2>3. CASE EnrollingDoes(k)
    <3>1. /\ req'[k].kind = "enroll" /\ req'[k].stage = "enroll" /\ req'[k].tok \in DOMAIN token'
          /\ req'[k].id = Nobody
      BY <2>3, TokensStay DEF EnrollingDoes, Sends
    <3>2. QED
      BY <2>1, <2>2, <3>1, NobodyIs DEF Asks, At
  <2>4. CASE RotateDoes(k) \/ PollDoes(k)
    BY <2>1, <2>2, <2>4 DEF RotateDoes, PollDoes, Sends, Asks, At
  <2>5. QED
    BY <1>2, <2>3, <2>4
<1>3. QED
  BY <1>1, <1>2 DEF AgentDoes

\* Requests are asked as their handlers expect.
LEMMA RequestStep ==
  ASSUME IndInv, Does
  PROVE  RequestInv'
<1>1. ASSUME NEW k \in Conns, EnrollDoes(k) \/ RefuseDoes(k) \/ CertifyDoes(k) \/ PassDoes(k) \/
            MatchDoes(k) \/ RetireDoes(k) \/ SkipDoes(k) \/ ReadDoes(k) \/ UpdateDoes(k) \/ NotifyDoes(k)
            \/ IssueDoes(k) \/ StoreDoes(k) PROVE RequestInv'
  <2>1. ServerDoes(k) /\ conn' = conn
    BY <1>1 DEF ServerDoes, EnrollDoes, RefuseDoes, CertifyDoes, PassDoes, MatchDoes, RetireDoes, SkipDoes, ReadDoes, UpdateDoes, NotifyDoes, IssueDoes, StoreDoes, agentVars
  <2>2. QED
    BY <2>1, ServerTurns, ServerAsks, OthersAsk DEF RequestInv
<1>2. ASSUME NEW k \in Conns, EnrollingDoes(k) \/ EnrolledDoes(k) \/ RotateDoes(k) \/ RotatedDoes(k) \/
            PollDoes(k) \/ PolledDoes(k) PROVE RequestInv'
  BY <1>2, AgentAsks, OthersAsk DEF AgentDoes, RequestInv
<1>3. CASE GiveUpDoes \/ CrashDoes
  <2>1. ASSUME NEW j \in Conns PROVE Asks(j)'
    <3>1. Asks(j) /\ (req'[j] = Free \/ (req'[j] = req[j] /\ ~ At(j, "done")))
      BY <1>3 DEF GiveUpDoes, CrashDoes, Deserts, IndInv, RequestInv, Asks
    <3>2. QED
      BY <3>1, TokensStay, FreeAsks DEF Asks, At
  <2>2. QED
    BY <2>1 DEF RequestInv
<1>4. CASE RevokeDoes \/ TokenDoes \/ ResumeDoes \/ SaveDoes \/ RestartStopped \/ RemoveIdentity \/
        CertificateAges
  <2>1. req' = req /\ conn' = conn
    BY <1>4 DEF RevokeDoes, TokenDoes, ResumeDoes, SaveDoes, RestartStopped, RemoveIdentity, CertificateAges, serverVars, agentVars
  <2>2. ASSUME NEW j \in Conns PROVE Asks(j)'
    BY <2>1, <2>2, TokensStay DEF Asks, At, IndInv, RequestInv
  <2>3. QED
    BY <2>2 DEF RequestInv
<1>5. QED
  BY <1>1, <1>2, <1>3, <1>4 DEF Does, ServerDoes, AgentDoes

\* The agent's request stays of its kind until the answer is read.
LEMMA KindKept ==
  ASSUME IndInv, NEW k \in Conns, ServerDoes(k), conn # NoConn
  PROVE  req'[conn].kind = req[conn].kind
<1>1. conn \in Conns /\ Asks(k)
  BY DEF IndInv, TypeOK, RequestInv
<1>2. CASE conn # k
  BY <1>1, <1>2, ServerTurns DEF Turns, Resembles
<1>3. CASE conn = k
  <2>1. CASE EnrollDoes(k) \/ IssueDoes(k) \/ PassDoes(k) \/ MatchDoes(k)
    BY <1>3, <2>1 DEF EnrollDoes, IssueDoes, PassDoes, MatchDoes, Enrolls, Issues, Passes, Turned, SameAsk
  <2>2. CASE RetireDoes(k) \/ SkipDoes(k) \/ ReadDoes(k)
    BY <1>3, <2>2 DEF RetireDoes, SkipDoes, ReadDoes, Turned, Goes, Reads, SameAsk
  <2>3. CASE RefuseDoes(k) \/ CertifyDoes(k) \/ NotifyDoes(k) \/ StoreDoes(k)
    BY <1>3, <2>3 DEF RefuseDoes, CertifyDoes, NotifyDoes, StoreDoes, Ends
  <2>4. CASE UpdateDoes(k)
    BY <1>1, <1>3, <2>4 DEF UpdateDoes, Ends, Notifies, Asks, At
  <2>5. QED
    BY <2>1, <2>2, <2>3, <2>4 DEF ServerDoes
<1>4. QED
  BY <1>2, <1>3

\* The agent has its identity from the file while it runs.
LEMMA AgentStep ==
  ASSUME IndInv, Does
  PROVE  AgentInv'
<1>1. ASSUME NEW k \in Conns, EnrollDoes(k) \/ RefuseDoes(k) \/ CertifyDoes(k) \/ PassDoes(k) \/
            MatchDoes(k) \/ RetireDoes(k) \/ SkipDoes(k) \/ ReadDoes(k) \/ UpdateDoes(k) \/ NotifyDoes(k)
            \/ IssueDoes(k) \/ StoreDoes(k) PROVE AgentInv'
  <2>1. UNCHANGED <<pc, mem, disk, conn>> /\ ("unsaved" \in trouble => "unsaved" \in trouble')
    BY <1>1 DEF EnrollDoes, RefuseDoes, CertifyDoes, PassDoes, MatchDoes, RetireDoes, SkipDoes, ReadDoes, UpdateDoes, NotifyDoes, IssueDoes, StoreDoes, Marks, agentVars
  <2>2. conn # NoConn => req'[conn].kind = req[conn].kind
    BY <1>1, KindKept DEF ServerDoes
  <2>3. QED
    BY <2>1, <2>2 DEF IndInv, AgentInv, Running
<1>2. ASSUME NEW k \in Conns, EnrollingDoes(k) \/ RotateDoes(k) \/ PollDoes(k) PROVE AgentInv'
  <2>1. conn' = k /\ conn' # NoConn /\ UNCHANGED <<mem, disk, trouble>>
    BY <1>2, Numbers DEF EnrollingDoes, RotateDoes, PollDoes, Sends
  <2>2. \/ pc = "down" /\ disk.cred = 0 /\ pc' = "enrolling" /\ req'[k].kind = "enroll"
        \/ pc = "top" /\ pc' = "rotating" /\ req'[k].kind = "rotate"
        \/ pc \in {"ready", "top"} /\ pc' = "polling" /\ req'[k].kind = "poll"
    BY <1>2 DEF EnrollingDoes, RotateDoes, PollDoes, Sends
  <2>3. QED
    BY <2>1, <2>2 DEF IndInv, AgentInv, Running
<1>3. ASSUME NEW k \in Conns, EnrolledDoes(k) PROVE AgentInv'
  <2>1. conn = k /\ conn' = NoConn /\ At(k, "done") /\ req[k].kind = "enroll" /\ UNCHANGED trouble
    BY <1>3 DEF EnrolledDoes, Hangs, Reply
  <2>2. pc = "enrolling" /\ disk.cred = 0 /\ mem = Nobody
    BY <2>1, Numbers DEF IndInv, AgentInv, Running
  <2>3. CASE req[k].ok /\ mem' = req[k].id /\ disk' = req[k].id /\ pc' = "top"
    <3>1. req[k].id.cred # 0
      BY <2>1, <2>3 DEF IndInv, RequestInv, Asks
    <3>2. QED
      BY <2>1, <2>3, <3>1 DEF AgentInv, Running
  <2>4. CASE pc' = "stopped" /\ UNCHANGED <<mem, disk>>
    BY <2>1, <2>2, <2>4 DEF AgentInv, Running
  <2>5. QED
    BY <1>3, <2>3, <2>4 DEF EnrolledDoes
<1>4. ASSUME NEW k \in Conns, RotatedDoes(k) PROVE AgentInv'
  <2>1. conn = k /\ conn' = NoConn /\ req[k].kind = "rotate" /\ pc' = "ready"
    BY <1>4 DEF RotatedDoes, Hangs, Reply
  <2>2. pc = "rotating"
    BY <2>1, Numbers DEF IndInv, AgentInv
  <2>3. mem.cred # 0 /\ mem.cred = disk.cred
    BY <2>2 DEF IndInv, AgentInv, Running
  <2>4. CASE NewCertDoes(k)
    <3>1. mem'.cred = mem.cred /\ (disk' = mem' \/ (disk' = disk /\ "unsaved" \in trouble'))
      BY <2>4 DEF NewCertDoes
    <3>2. QED
      BY <2>1, <2>3, <3>1 DEF AgentInv, Running
  <2>5. CASE UNCHANGED <<mem, disk, missed, trouble>>
    BY <2>1, <2>2, <2>5 DEF IndInv, AgentInv, Running
  <2>6. QED
    BY <1>4, <2>4, <2>5 DEF RotatedDoes
<1>5. ASSUME NEW k \in Conns, PolledDoes(k) PROVE AgentInv'
  <2>1. conn = k /\ conn' = NoConn /\ req[k].kind = "poll" /\ pc' \in {"save", "top"} /\ UNCHANGED disk
    BY <1>5 DEF PolledDoes, Hangs, Reply
  <2>2. pc = "polling"
    BY <2>1, Numbers DEF IndInv, AgentInv
  <2>3. /\ mem' = mem \/ (mem'.cred = mem.cred /\ mem'.cert = mem.cert)
        /\ "unsaved" \in trouble => "unsaved" \in trouble'
    BY <1>5 DEF PolledDoes
  <2>4. QED
    BY <2>1, <2>2, <2>3 DEF IndInv, AgentInv, Running
<1>6. CASE ResumeDoes \/ SaveDoes \/ GiveUpDoes \/ CrashDoes
  BY <1>6, NobodyIs DEF ResumeDoes, SaveDoes, GiveUpDoes, CrashDoes, IndInv, AgentInv, Running, Marks
<1>7. CASE RevokeDoes \/ TokenDoes \/ RestartStopped \/ RemoveIdentity \/ CertificateAges
  <2>1. /\ req' = req /\ conn' = conn /\ mem' = mem /\ ("unsaved" \in trouble => "unsaved" \in trouble')
        /\ \/ UNCHANGED <<pc, disk>>
           \/ pc = "stopped" /\ pc' = "down" /\ UNCHANGED disk
           \/ pc = "down" /\ pc' = "down" /\ disk' = Nobody
    BY <1>7 DEF RevokeDoes, TokenDoes, RestartStopped, RemoveIdentity, CertificateAges, serverVars, agentVars
  <2>2. QED
    BY <2>1, NobodyIs DEF IndInv, AgentInv, Running
<1>8. QED
  BY <1>1, <1>2, <1>3, <1>4, <1>5, <1>6, <1>7 DEF Does, ServerDoes, AgentDoes

\* Whose credential a request has after a step.
LEMMA CredOf ==
  ASSUME IndInv, Does, NEW k \in Conns, ServerDoes(k), NEW j \in Conns
  PROVE  \/ req'[j].id.cred \in {req[j].id.cred, 0}
         \/ j = k /\ EnrollDoes(k) /\ req'[j].id.cred = certs + 1
<1>1. CASE j # k
  BY <1>1, ServerTurns DEF Turns, Resembles
<1>2. CASE j = k
  <2>1. CASE EnrollDoes(k) \/ IssueDoes(k) \/ PassDoes(k) \/ MatchDoes(k)
    BY <1>2, <2>1 DEF EnrollDoes, IssueDoes, PassDoes, MatchDoes, Enrolls, Issues, Passes, Turned, SameAsk
  <2>2. CASE RetireDoes(k) \/ SkipDoes(k) \/ ReadDoes(k)
    BY <1>2, <2>2 DEF RetireDoes, SkipDoes, ReadDoes, Turned, Goes, Reads, SameAsk
  <2>3. CASE RefuseDoes(k) \/ CertifyDoes(k) \/ NotifyDoes(k) \/ StoreDoes(k)
    BY <1>2, <2>3, FreeIs, NobodyIs DEF RefuseDoes, CertifyDoes, NotifyDoes, StoreDoes, Ends
  <2>4. CASE UpdateDoes(k)
    BY <1>2, <2>4, FreeIs, NobodyIs DEF UpdateDoes, Ends, Notifies
  <2>5. QED
    BY <2>1, <2>2, <2>3, <2>4 DEF ServerDoes
<1>3. QED
  BY <1>1, <1>2

\* A certificate is being made only for those who were admitted.
LEMMA CertifyOf ==
  ASSUME IndInv, Does, NEW k \in Conns, ServerDoes(k), NEW j \in Conns, At(j, "certify")'
  PROVE  \/ At(j, "certify") /\ req'[j].id = req[j].id
         \/ j = k /\ EnrollDoes(k) /\ req'[j].id.cred = certs + 1
<1>1. CASE j # k
  BY <1>1, ServerTurns DEF Turns, Resembles, At
<1>2. CASE j = k
  <2>1. CASE EnrollDoes(k) \/ IssueDoes(k) \/ PassDoes(k) \/ MatchDoes(k)
    BY <1>2, <2>1 DEF EnrollDoes, IssueDoes, PassDoes, MatchDoes, Enrolls, Issues, Passes, Turned, At, Body
  <2>2. CASE RetireDoes(k) \/ SkipDoes(k) \/ ReadDoes(k)
    BY <1>2, <2>2 DEF RetireDoes, SkipDoes, ReadDoes, Turned, Goes, Reads, At, Body
  <2>3. CASE RefuseDoes(k) \/ CertifyDoes(k) \/ NotifyDoes(k) \/ StoreDoes(k)
    BY <1>2, <2>3, FreeIs DEF RefuseDoes, CertifyDoes, NotifyDoes, StoreDoes, Ends, At
  <2>4. CASE UpdateDoes(k)
    BY <1>2, <2>4, FreeIs DEF UpdateDoes, Ends, Notifies, At
  <2>5. QED
    BY <2>1, <2>2, <2>3, <2>4 DEF ServerDoes
<1>3. QED
  BY <1>1, <1>2

Fresh(k) == /\ mem.cred # req[k].id.cred /\ disk.cred # req[k].id.cred
            /\ \A j \in Conns : j # k => req[j].id.cred # req[k].id.cred

\* Nobody has the credential for which a certificate is being made.
LEMMA FreshStep ==
  ASSUME IndInv, Does
  PROVE  FreshInv'
<1>1. ASSUME NEW k \in Conns, EnrollDoes(k) \/ RefuseDoes(k) \/ CertifyDoes(k) \/ PassDoes(k) \/
            MatchDoes(k) \/ RetireDoes(k) \/ SkipDoes(k) \/ ReadDoes(k) \/ UpdateDoes(k) \/ NotifyDoes(k)
            \/ IssueDoes(k) \/ StoreDoes(k) PROVE FreshInv'
  <2> SUFFICES ASSUME NEW i \in Conns, At(i, "certify")' PROVE Fresh(i)'
    BY DEF FreshInv, Fresh
  <2>1. ServerDoes(k) /\ UNCHANGED <<mem, disk>>
    BY <1>1 DEF ServerDoes, EnrollDoes, RefuseDoes, CertifyDoes, PassDoes, MatchDoes, RetireDoes, SkipDoes, ReadDoes, UpdateDoes, NotifyDoes, IssueDoes, StoreDoes, agentVars
  <2>2. CASE At(i, "certify") /\ req'[i].id = req[i].id
    <3>1. Fresh(i) /\ req[i].id.cred # 0 /\ req[i].id.cred # certs + 1
      BY <2>2, NumbersAre, GrowStep DEF IndInv, FreshInv, Fresh, RequestInv, Asks, Made, Grow
    <3>2. \A j \in Conns : j # i => req'[j].id.cred # req[i].id.cred
      BY <2>1, <3>1, CredOf DEF Fresh
    <3>3. QED
      BY <2>1, <2>2, <3>1, <3>2 DEF Fresh
  <2>3. CASE i = k /\ EnrollDoes(k) /\ req'[i].id.cred = certs + 1
    <3>1. \A x \in {mem, disk} : x.cred # certs + 1
      BY NumbersAre, GrowStep DEF Made, Grow
    <3>2. \A j \in Conns : j # k => req'[j].id.cred # certs + 1
      BY <2>1, NumbersAre, GrowStep, CredOf DEF Made, Grow
    <3>3. QED
      BY <2>1, <2>3, <3>1, <3>2 DEF Fresh
  <2>4. QED
    BY <2>1, <2>2, <2>3, CertifyOf
<1>2. ASSUME NEW k \in Conns, EnrollingDoes(k) \/ EnrolledDoes(k) \/ RotateDoes(k) \/ RotatedDoes(k) \/
            PollDoes(k) \/ PolledDoes(k) PROVE FreshInv'
  <2> SUFFICES ASSUME NEW i \in Conns, At(i, "certify")' PROVE Fresh(i)'
    BY DEF FreshInv, Fresh
  <2>1. i # k /\ Turns(k) /\ req'[k].id \in {mem, Nobody}
    BY <1>2, FreeIs DEF EnrollingDoes, EnrolledDoes, RotateDoes, RotatedDoes, PollDoes, PolledDoes, Sends, Hangs, At
  <2>2. At(i, "certify") /\ \A j \in Conns : j # k => req'[j].id = req[j].id
    BY <2>1 DEF Turns, Resembles, At
  <2>3. Fresh(i) /\ req[i].id.cred # 0
    BY <2>2 DEF IndInv, FreshInv, Fresh, RequestInv, Asks
  <2>4. mem'.cred \in {mem.cred, req[k].id.cred} /\ disk'.cred \in {mem.cred, disk.cred, req[k].id.cred}
    BY <1>2 DEF EnrollingDoes, EnrolledDoes, RotateDoes, RotatedDoes, PollDoes, PolledDoes, NewCertDoes
  <2>5. mem'.cred # req[i].id.cred /\ disk'.cred # req[i].id.cred
    BY <2>1, <2>3, <2>4 DEF Fresh
  <2>6. \A j \in Conns : j # i => req'[j].id.cred # req[i].id.cred
    BY <2>1, <2>2, <2>3, NobodyIs DEF Fresh
  <2>7. QED
    BY <2>1, <2>2, <2>5, <2>6 DEF Fresh
<1>3. CASE RevokeDoes \/ TokenDoes \/ ResumeDoes \/ SaveDoes \/ GiveUpDoes \/ CrashDoes \/ RestartStopped
        \/ RemoveIdentity \/ CertificateAges
  <2> SUFFICES ASSUME NEW i \in Conns, At(i, "certify")' PROVE Fresh(i)'
    BY DEF FreshInv, Fresh
  <2>1. \A j \in Conns : req'[j] = req[j] \/ req'[j] = Free
    BY <1>3 DEF RevokeDoes, TokenDoes, ResumeDoes, SaveDoes, GiveUpDoes, CrashDoes, RestartStopped, RemoveIdentity, CertificateAges, Deserts, serverVars, agentVars
  <2>2. At(i, "certify") /\ req'[i] = req[i] /\ \A j \in Conns : req'[j].id.cred \in {req[j].id.cred, 0}
    BY <2>1, FreeIs, NobodyIs DEF At
  <2>3. Fresh(i) /\ req[i].id.cred # 0
    BY <2>2 DEF IndInv, FreshInv, Fresh, RequestInv, Asks
  <2>4. mem'.cred \in {mem.cred, disk.cred, 0} /\ disk'.cred \in {mem.cred, disk.cred, 0}
    BY <1>3, NobodyIs DEF RevokeDoes, TokenDoes, ResumeDoes, SaveDoes, GiveUpDoes, CrashDoes, RestartStopped, RemoveIdentity, CertificateAges, serverVars, agentVars
  <2>5. QED
    BY <2>2, <2>3, <2>4 DEF Fresh
<1>4. QED
  BY <1>1, <1>2, <1>3 DEF Does, ServerDoes, AgentDoes

Barred == (banned => row.cred = 0) /\ (row.state = "REVOKED" => banned)

\* A revoked agent has no credential.
LEMMA BarredStep ==
  ASSUME IndInv, Does
  PROVE  Barred'
<1>1. ASSUME NEW k \in Conns, EnrollDoes(k) PROVE Barred'
  BY <1>1 DEF EnrollDoes, RowBecomes, Barred
<1>2. CASE RevokeDoes
  BY <1>2 DEF RevokeDoes, RowBecomes, Barred
<1>3. ASSUME NEW k \in Conns, CertifyDoes(k) \/ RetireDoes(k) \/ StoreDoes(k) \/ UpdateDoes(k) PROVE
            Barred'
  <2>1. row'.cred = row.cred /\ row'.state \in {row.state, "ONLINE"} /\ banned' = banned
    BY <1>3 DEF CertifyDoes, RetireDoes, StoreDoes, UpdateDoes, RowBecomes
  <2>2. QED
    BY <2>1 DEF Barred, IndInv, BanInv
<1>4. ASSUME NEW k \in Conns, RefuseDoes(k) \/ PassDoes(k) \/ MatchDoes(k) \/ SkipDoes(k) \/ ReadDoes(k)
            \/ NotifyDoes(k) \/ IssueDoes(k) \/ EnrollingDoes(k) \/ EnrolledDoes(k) \/ RotateDoes(k) \/
            RotatedDoes(k) \/ PollDoes(k) \/ PolledDoes(k) PROVE Barred'
  <2>1. row' = row /\ banned' = banned
    BY <1>4 DEF RefuseDoes, PassDoes, MatchDoes, SkipDoes, ReadDoes, NotifyDoes, IssueDoes, EnrollingDoes, EnrolledDoes, RotateDoes, RotatedDoes, PollDoes, PolledDoes, serverVars, agentVars
  <2>2. QED
    BY <2>1 DEF Barred, IndInv, BanInv
<1>5. CASE TokenDoes \/ ResumeDoes \/ SaveDoes \/ GiveUpDoes \/ CrashDoes \/ RestartStopped \/
        RemoveIdentity \/ CertificateAges
  <2>1. row' = row /\ banned' = banned
    BY <1>5 DEF TokenDoes, ResumeDoes, SaveDoes, GiveUpDoes, CrashDoes, RestartStopped, RemoveIdentity, CertificateAges, serverVars, agentVars
  <2>2. QED
    BY <2>1 DEF Barred, IndInv, BanInv
<1>6. QED
  BY <1>1, <1>2, <1>3, <1>4, <1>5 DEF Does, ServerDoes, AgentDoes

\* No authentication began during the ban.
LEMMA AfterStep ==
  ASSUME IndInv, Does
  PROVE  \A j \in Conns : ~ req'[j].after
<1>1. ASSUME NEW k \in Conns, EnrollDoes(k) \/ RefuseDoes(k) \/ CertifyDoes(k) \/ PassDoes(k) \/
            MatchDoes(k) \/ RetireDoes(k) \/ SkipDoes(k) \/ ReadDoes(k) \/ UpdateDoes(k) \/ NotifyDoes(k)
            \/ IssueDoes(k) \/ StoreDoes(k) PROVE \A j \in Conns : ~ req'[j].after
  <2>1. \A j \in Conns : ~ req[j].after
    BY DEF IndInv, BanInv
  <2>2. Turns(k)
    BY <1>1, ServerTurns DEF ServerDoes
  <2>3. ~ req'[k].after
    <3>1. CASE PassDoes(k)
      BY <3>1 DEF PassDoes, Passes, IndInv, BanInv
    <3>2. CASE EnrollDoes(k) \/ IssueDoes(k) \/ MatchDoes(k) \/ RetireDoes(k)
      BY <2>1, <3>2 DEF EnrollDoes, IssueDoes, MatchDoes, RetireDoes, Enrolls, Issues, Turned, SameWay
    <3>3. CASE SkipDoes(k) \/ ReadDoes(k)
      BY <2>1, <3>3 DEF SkipDoes, ReadDoes, Goes, Reads, SameWay
    <3>4. CASE RefuseDoes(k) \/ CertifyDoes(k) \/ NotifyDoes(k) \/ StoreDoes(k)
      BY <3>4, FreeIs DEF RefuseDoes, CertifyDoes, NotifyDoes, StoreDoes, Ends
    <3>5. CASE UpdateDoes(k)
      BY <3>5, FreeIs DEF UpdateDoes, Ends, Notifies
    <3>6. QED
      BY <1>1, <3>1, <3>2, <3>3, <3>4, <3>5
  <2>4. QED
    BY <2>1, <2>2, <2>3 DEF Turns, Resembles
<1>2. ASSUME NEW k \in Conns, EnrollingDoes(k) \/ EnrolledDoes(k) \/ RotateDoes(k) \/ RotatedDoes(k) \/
            PollDoes(k) \/ PolledDoes(k) PROVE \A j \in Conns : ~ req'[j].after
  <2>1. Turns(k) /\ ~ req'[k].after
    BY <1>2, FreeIs DEF EnrollingDoes, EnrolledDoes, RotateDoes, RotatedDoes, PollDoes, PolledDoes, Sends, Hangs
  <2>2. QED
    BY <2>1 DEF Turns, Resembles, IndInv, BanInv
<1>3. CASE RevokeDoes \/ TokenDoes \/ ResumeDoes \/ SaveDoes \/ GiveUpDoes \/ CrashDoes \/ RestartStopped
        \/ RemoveIdentity \/ CertificateAges
  <2>1. \A j \in Conns : req'[j] = req[j] \/ req'[j] = Free
    BY <1>3 DEF RevokeDoes, TokenDoes, ResumeDoes, SaveDoes, GiveUpDoes, CrashDoes, RestartStopped, RemoveIdentity, CertificateAges, Deserts, serverVars, agentVars
  <2>2. QED
    BY <2>1, FreeIs DEF IndInv, BanInv
<1>4. QED
  BY <1>1, <1>2, <1>3 DEF Does, ServerDoes, AgentDoes

\* A token that is open has admitted nobody, and one that is closed at most one.
LEMMA TokenStep ==
  ASSUME IndInv, Does
  PROVE  TokenInv'
<1>1. ASSUME NEW k \in Conns, EnrollDoes(k) PROVE TokenInv'
  <2> DEFINE t == req[k].tok
  <2>1. t \in DOMAIN token /\ t \in 1..MaxTokens /\ token[t] = "open"
    BY <1>1, TokensAre DEF IndInv, RequestInv, Asks, EnrollDoes, Redeemable
  <2>2. admitted[t] = 0
    BY <2>1 DEF IndInv, TokenInv
  <2>3. admitted \in [1..MaxTokens -> Nat]
    BY DEF IndInv, TypeOK
  <2>4. token' = [token EXCEPT ![t] = "closed"] /\ admitted' = [admitted EXCEPT ![t] = admitted[t] + 1]
    BY <1>1 DEF EnrollDoes
  <2> HIDE DEF t
  <2>5. token'[t] = "closed" /\ admitted'[t] = 1 /\ DOMAIN token' = DOMAIN token
    BY <2>1, <2>2, <2>3, <2>4
  <2>6. \A u \in 1..MaxTokens : u # t => admitted'[u] = admitted[u] /\ (u \in DOMAIN token => token'[u] = token[u])
    BY <2>3, <2>4
  <2>7. QED
    BY <2>1, <2>5, <2>6 DEF IndInv, TokenInv
<1>2. CASE TokenDoes
  BY <1>2 DEF TokenDoes, IndInv, TokenInv
<1>3. ASSUME NEW k \in Conns, RefuseDoes(k) \/ CertifyDoes(k) \/ PassDoes(k) \/ MatchDoes(k) \/
            RetireDoes(k) \/ SkipDoes(k) \/ ReadDoes(k) \/ UpdateDoes(k) \/ NotifyDoes(k) \/ IssueDoes(k)
            \/ StoreDoes(k) \/ EnrollingDoes(k) \/ EnrolledDoes(k) \/ RotateDoes(k) \/ RotatedDoes(k) \/
            PollDoes(k) \/ PolledDoes(k) PROVE TokenInv'
  <2>1. UNCHANGED <<token, admitted>>
    BY <1>3 DEF RefuseDoes, CertifyDoes, PassDoes, MatchDoes, RetireDoes, SkipDoes, ReadDoes, UpdateDoes, NotifyDoes, IssueDoes, StoreDoes, EnrollingDoes, EnrolledDoes, RotateDoes, RotatedDoes, PollDoes, PolledDoes, serverVars, agentVars
  <2>2. QED
    BY <2>1 DEF IndInv, TokenInv
<1>4. CASE RevokeDoes \/ ResumeDoes \/ SaveDoes \/ GiveUpDoes \/ CrashDoes \/ RestartStopped \/
        RemoveIdentity \/ CertificateAges
  <2>1. UNCHANGED <<token, admitted>>
    BY <1>4 DEF RevokeDoes, ResumeDoes, SaveDoes, GiveUpDoes, CrashDoes, RestartStopped, RemoveIdentity, CertificateAges, serverVars, agentVars
  <2>2. QED
    BY <2>1 DEF IndInv, TokenInv
<1>5. QED
  BY <1>1, <1>2, <1>3, <1>4 DEF Does, ServerDoes, AgentDoes

(***************************************************************************)
(* The certificates that are stored.                                       *)
(***************************************************************************)

\* Who has the identity stays who it is,
Alike == Holder'.cred = Holder.cred /\ Holder'.cert = Holder.cert /\ (Certifying' <=> Certifying)
\* ... authentication has begun with a certificate that was already used or is the agent's,
Earlier(j) ==
  Begun(j)' => \/ Begun(j) /\ req'[j].id.cert = req[j].id.cert
               \/ ~ Certifying /\ req'[j].id.cert = Holder.cert
\* ... and an answer that waits has waited before.
Still == Waiting' => Waiting /\ req'[conn'].id.cert = req[conn].id.cert

\* What changes neither the row's credentials nor the agent's and lets no handler begin keeps LockInv.
LEMMA LockCarries ==
  ASSUME IndInv, Clean' => Clean, row'.cred = row.cred, row'.certs = row.certs, missed' = missed,
         Alike, \A j \in Conns : Earlier(j), Still
  PROVE  LockInv'
<1> SUFFICES ASSUME Clean', Holder'.cred # 0
             PROVE  /\ \A k \in Conns : Begun(k)' => req'[k].id.cert <= Latest'
                    /\ ~ Certifying' => /\ row'.cred = Holder'.cred /\ Follow(Holder.cert)'
                                        /\ Waiting' => req'[conn'].id.cert \in missed'
  BY DEF LockInv
<1>1. /\ \A k \in Conns : Begun(k) => req[k].id.cert <= Latest
      /\ ~ Certifying => /\ row.cred = Holder.cred /\ Follow(Holder.cert)
                         /\ Waiting => req[conn].id.cert \in missed
  BY DEF IndInv, LockInv, Alike
<1>2. Latest' = Latest
  BY DEF Alike, Latest
<1>3. Holder.cert \in Nat
  <2>1. conn # NoConn => conn \in Conns
    BY DEF IndInv, TypeOK
  <2>2. Certifying \/ Granted => conn \in Conns
    BY <2>1 DEF Certifying, Granted
  <2>3. QED
    BY <2>2, NumbersAre DEF Holder
<1>4. ASSUME NEW k \in Conns, Begun(k)' PROVE req'[k].id.cert <= Latest'
  BY <1>1, <1>2, <1>3, <1>4 DEF Earlier, Latest
<1>5. ASSUME ~ Certifying' PROVE row'.cred = Holder'.cred /\ Follow(Holder.cert)'
  <2>1. row.cred = Holder.cred /\ Follow(Holder.cert)
    BY <1>1, <1>5 DEF Alike
  <2>2. Follow(Holder.cert)' 
    BY <2>1 DEF Alike, Follow, Newest
  <2>3. QED
    BY <2>1, <2>2 DEF Alike
<1>6. ASSUME ~ Certifying', Waiting' PROVE req'[conn'].id.cert \in missed'
  BY <1>1, <1>6 DEF Alike, Still
<1>7. QED
  BY <1>4, <1>5, <1>6

\* Nothing that this is about changes.
LEMMA LockSame ==
  ASSUME IndInv, Clean' => Clean, UNCHANGED <<row, missed, req, pc, mem, disk, conn>>
  PROVE  LockInv'
<1>1. Alike
  BY DEF Alike, Holder, Certifying, Granted, Running, At
<1>2. \A j \in Conns : Earlier(j)
  BY DEF Earlier, Begun
<1>3. Still
  BY DEF Still, Waiting, At
<1>4. QED
  BY <1>1, <1>2, <1>3, LockCarries

\* Without an identity there is nothing to lose.
LEMMA LockVacuous ==
  ASSUME ~ Clean' \/ Holder'.cred = 0
  PROVE  LockInv'
BY DEF LockInv

\* Handlers of other requests leave the identity alone, and those of the agent's
\* own, once it is enrolled.
LEMMA HolderKept ==
  ASSUME IndInv, NEW k \in Conns, ServerDoes(k), k # conn \/ req[k].kind # "enroll"
  PROVE  Alike /\ Holder' = Holder
<1>1. UNCHANGED <<pc, mem, disk, conn>>
  BY DEF ServerDoes, EnrollDoes, RefuseDoes, CertifyDoes, PassDoes, MatchDoes, RetireDoes, SkipDoes, ReadDoes,
     UpdateDoes, NotifyDoes, IssueDoes, StoreDoes, agentVars
<1>2. conn \in Conns \union {NoConn}
  BY DEF IndInv, TypeOK
<1>3. CASE conn = NoConn \/ pc # "enrolling"
  BY <1>1, <1>3 DEF Alike, Holder, Certifying, Granted, Running
<1>4. CASE conn # NoConn /\ pc = "enrolling"
  <2>1. k # conn
    BY <1>4 DEF IndInv, AgentInv
  <2>2. req'[conn].stage = req[conn].stage /\ req'[conn].id = req[conn].id /\ req'[conn].ok = req[conn].ok
    BY <1>2, <1>4, <2>1, ServerTurns DEF Turns, Resembles
  <2>3. QED
    BY <1>1, <2>2 DEF Alike, Holder, Certifying, Granted, Running, At
<1>5. QED
  BY <1>3, <1>4

\* Nor does a refused enrollment.
LEMMA RefusedIsNobody ==
  ASSUME IndInv, NEW k \in Conns, RefuseDoes(k), k = conn, req[k].kind = "enroll"
  PROVE  Holder'.cred = 0
<1>1. conn # NoConn /\ pc = "enrolling" /\ disk.cred = 0
  BY Numbers DEF IndInv, AgentInv
<1>2. UNCHANGED <<pc, disk, conn>> /\ req'[conn].stage = "done" /\ ~ req'[conn].ok
  BY DEF RefuseDoes, Ends, agentVars
<1>3. QED
  BY <1>1, <1>2 DEF Holder, Running, Certifying, Granted, At

\* A handler that leaves the row's certificates alone.
LEMMA QuietLock ==
  ASSUME IndInv, NEW k \in Conns, PassDoes(k) \/ MatchDoes(k) \/ SkipDoes(k) \/ ReadDoes(k) \/ UpdateDoes(k)
                                  \/ NotifyDoes(k) \/ IssueDoes(k) \/ RefuseDoes(k)
  PROVE  LockInv'
<1>1. ServerDoes(k) /\ Turns(k) /\ Asks(k)
  BY ServerTurns DEF ServerDoes, IndInv, RequestInv
<1>2. row'.cred = row.cred /\ row'.certs = row.certs /\ missed' = missed /\ (Clean' => Clean) /\ conn' = conn
  <2>1. row'.cred = row.cred /\ row'.certs = row.certs
    BY DEF PassDoes, MatchDoes, SkipDoes, ReadDoes, UpdateDoes, NotifyDoes, IssueDoes, RefuseDoes, RowBecomes,
       serverVars
  <2>2. missed' = missed /\ banned' = banned /\ conn' = conn
    BY DEF PassDoes, MatchDoes, SkipDoes, ReadDoes, UpdateDoes, NotifyDoes, IssueDoes, RefuseDoes, serverVars,
       agentVars
  <2>3. trouble' = trouble
    BY DEF PassDoes, MatchDoes, SkipDoes, ReadDoes, UpdateDoes, NotifyDoes, IssueDoes, RefuseDoes
  <2>4. Clean' => Clean
    BY <2>2, <2>3 DEF Clean
  <2>5. QED
    BY <2>1, <2>2, <2>4
<1>3. ASSUME NEW j \in Conns, j # k PROVE Earlier(j)
  BY <1>1, <1>3 DEF Turns, Resembles, Earlier, Begun
<1>4. Earlier(k)
  <2>1. CASE PassDoes(k) \/ MatchDoes(k)
    BY <2>1 DEF PassDoes, MatchDoes, Passes, Turned, SameAsk, Earlier, Begun, At
  <2>2. CASE SkipDoes(k) \/ ReadDoes(k) \/ IssueDoes(k)
    BY <2>2 DEF SkipDoes, ReadDoes, IssueDoes, Goes, Reads, Issues, Earlier, Begun, Body
  <2>3. CASE UpdateDoes(k) \/ NotifyDoes(k) \/ RefuseDoes(k)
    BY <2>3, FreeIs DEF UpdateDoes, NotifyDoes, RefuseDoes, Ends, Notifies, Earlier, Begun
  <2>4. QED
    BY <2>1, <2>2, <2>3
<1>5. Still
  <2>1. conn # NoConn => conn \in Conns
    BY DEF IndInv, TypeOK
  <2>2. CASE conn # k
    BY <1>1, <1>2, <2>1, <2>2 DEF Turns, Resembles, Still, Waiting, At
  <2>3. CASE conn = k
    <3>1. CASE PassDoes(k) \/ MatchDoes(k)
      BY <1>2, <2>3, <3>1 DEF PassDoes, MatchDoes, Passes, Turned, Still, Waiting, At, Body
    <3>2. CASE SkipDoes(k) \/ ReadDoes(k) \/ IssueDoes(k)
      BY <1>2, <2>3, <3>2 DEF SkipDoes, ReadDoes, IssueDoes, Goes, Reads, Issues, Still, Waiting, Body, At
    <3>3. CASE UpdateDoes(k) \/ NotifyDoes(k)
      BY <1>1, <1>2, <2>3, <3>3 DEF UpdateDoes, NotifyDoes, Ends, Notifies, Still, Waiting, Asks, At
    <3>4. CASE RefuseDoes(k)
      BY <1>2, <2>3, <3>4 DEF RefuseDoes, Ends, Still, Waiting
    <3>5. QED
      BY <3>1, <3>2, <3>3, <3>4
  <2>4. QED
    BY <2>2, <2>3
<1>6. CASE k # conn \/ req[k].kind # "enroll"
  BY <1>1, <1>2, <1>3, <1>4, <1>5, <1>6, HolderKept, LockCarries
<1>7. CASE k = conn /\ req[k].kind = "enroll"
  <2>1. RefuseDoes(k)
    BY <1>1, <1>7 DEF PassDoes, MatchDoes, SkipDoes, ReadDoes, UpdateDoes, NotifyDoes, IssueDoes, Asks, At
  <2>2. QED
    BY <1>7, <2>1, RefusedIsNobody, LockVacuous
<1>8. QED
  BY <1>6, <1>7

\* An enrollment that the agent waits for begins a new identity.
LEMMA EnrollLock ==
  ASSUME IndInv, Does, NEW k \in Conns, EnrollDoes(k)
  PROVE  LockInv'
<1>1. CASE k # conn
  BY <1>1, LockVacuous DEF EnrollDoes, Marks, Clean
<1>2. CASE k = conn
  <2>1. conn # NoConn /\ conn' = conn /\ pc' = pc /\ pc = "enrolling" /\ Turns(k)
    BY <1>2, Numbers, ServerTurns DEF IndInv, AgentInv, RequestInv, Asks, EnrollDoes, ServerDoes, agentVars
  <2>2. Certifying' /\ Holder' = req'[k].id /\ Holder'.cred = certs + 1
    BY <1>2, <2>1 DEF Certifying, Holder, Running, At, EnrollDoes, Enrolls
  <2>3. Latest' = certs + 1
    BY <2>2 DEF Latest
  <2>4. ASSUME NEW j \in Conns, Begun(j)' PROVE req'[j].id.cert <= Latest'
    <3>1. j # k
      BY <2>4 DEF EnrollDoes, Enrolls, Begun
    <3>2. req'[j].id = req[j].id
      BY <2>1, <3>1 DEF Turns, Resembles
    <3>3. QED
      BY <2>3, <3>2, NumbersAre, GrowStep DEF Made, Grow
  <2>5. QED
    BY <2>2, <2>4 DEF LockInv
<1>3. QED
  BY <1>1, <1>2

\* The certificate of an enrollment is the only one.
LEMMA CertifyLock ==
  ASSUME IndInv, Does, NEW k \in Conns, CertifyDoes(k)
  PROVE  LockInv'
<1>1. /\ At(k, "certify") /\ req[k].kind = "enroll" /\ Turns(k) /\ ServerDoes(k)
      /\ UNCHANGED <<pc, mem, disk, conn, banned>>
  BY ServerTurns DEF IndInv, RequestInv, Asks, CertifyDoes, ServerDoes, agentVars
<1>2. /\ row'.cred = row.cred /\ row'.certs = <<req[k].id.cred>> /\ missed' = {}
      /\ Clean' => Clean /\ row.cred = req[k].id.cred
  BY DEF CertifyDoes, RowBecomes, Marks, Clean
<1>3. PICK i \in Identity : /\ Ends(k, TRUE, i)
                            /\ i.cred = req[k].id.cred /\ i.cert = req[k].id.cred
  BY DEF CertifyDoes
<1>4. ~ Begun(k)' /\ \A j \in Conns : j # k => (Begun(j)' <=> Begun(j)) /\ req'[j].id = req[j].id
  BY <1>1, <1>3, FreeIs DEF Ends, Begun, Turns, Resembles
<1>5. CASE k # conn
  <2> SUFFICES ASSUME Clean', Holder'.cred # 0
               PROVE  /\ \A j \in Conns : Begun(j)' => req'[j].id.cert <= Latest'
                      /\ Certifying'
    BY DEF LockInv
  <2>1. Alike /\ Latest' = Latest /\ Clean /\ Holder.cred # 0
    BY <1>1, <1>2, <1>5, HolderKept DEF Alike, Latest
  <2>2. Holder.cred # req[k].id.cred
    <3>1. mem.cred # req[k].id.cred /\ disk.cred # req[k].id.cred
      BY <1>1 DEF IndInv, FreshInv
    <3>2. conn # NoConn => req[conn].id.cred # req[k].id.cred
      BY <1>1, <1>5 DEF IndInv, TypeOK, FreshInv
    <3>3. QED
      BY <3>1, <3>2 DEF Holder, Certifying, Granted
  <2>3. Certifying
    BY <1>2, <2>1, <2>2 DEF IndInv, LockInv
  <2>4. \A j \in Conns : Begun(j) => req[j].id.cert <= Latest
    BY <2>1 DEF IndInv, LockInv
  <2>5. QED
    BY <1>4, <2>1, <2>3, <2>4 DEF Alike
<1>6. CASE k = conn
  <2>1. conn # NoConn /\ pc = "enrolling" /\ Certifying /\ Holder = req[k].id /\ Latest = req[k].id.cred
    BY <1>1, <1>6, Numbers DEF IndInv, AgentInv, Certifying, Holder, Running, Latest
  <2>2. req'[k].stage = "done" /\ req'[k].ok /\ req'[k].id = i /\ req'[k].kind = "enroll"
    BY <1>1, <1>3, <1>6 DEF Ends
  <2>3. ~ Certifying' /\ ~ Waiting' /\ Holder' = i
    BY <1>1, <1>6, <2>1, <2>2 DEF Certifying, Granted, Holder, Running, Waiting, At
  <2>4. Latest' = Latest /\ Holder'.cert = req[k].id.cred
    BY <1>3, <2>1, <2>3 DEF Latest
  <2>5. req[k].id.cred # 0
    BY <1>1 DEF IndInv, RequestInv, Asks
  <2> SUFFICES ASSUME Clean'
               PROVE  /\ \A j \in Conns : Begun(j)' => req'[j].id.cert <= Latest'
                      /\ row'.cred = Holder'.cred /\ Follow(Holder.cert)'
    BY <2>3 DEF LockInv
  <2>6. \A j \in Conns : Begun(j) => req[j].id.cert <= Latest
    BY <1>2, <2>1, <2>5 DEF IndInv, LockInv
  <2>7. Follow(Holder.cert)'
    BY <1>2, <2>4 DEF Follow, Newest
  <2>8. QED
    BY <1>2, <1>3, <1>4, <2>3, <2>4, <2>6, <2>7
<1>7. QED
  BY <1>5, <1>6

\* The certificates that the row holds are numbers.
LEMMA CertsAre ==
  ASSUME IndInv
  PROVE  /\ Len(row.certs) \in {0, 1, 2} /\ missed \subseteq Nat
         /\ \A i \in 1..Len(row.certs) : row.certs[i] \in Nat /\ row.certs[i] # 0
         /\ row.certs # <<>> => Len(row.certs) # 0 /\ Newest = row.certs[Len(row.certs)]
<1>1. row.certs \in Seq(Number) /\ Len(row.certs) <= 2 /\ missed \subseteq 1..MaxWork
  BY TypeParts, RowIs DEF IndInv, RowType, ServerType
<1>2. Len(row.certs) \in Nat /\ certs \in Nat
  BY <1>1, Typed DEF IndInv, Number
<1>3. \A i \in 1..Len(row.certs) : row.certs[i] \in 1..certs
  BY <1>1, NumbersAre
<1>4. \A i \in 1..Len(row.certs) : row.certs[i] \in Nat /\ row.certs[i] # 0
  BY <1>2, <1>3
<1>5. row.certs # <<>> => Len(row.certs) # 0 /\ Newest = row.certs[Len(row.certs)]
  BY <1>1 DEF Newest
<1>6. Len(row.certs) \in {0, 1, 2}
  <2> DEFINE n == Len(row.certs)
  <2>1. n \in Nat /\ n <= 2
    BY <1>1, <1>2
  <2> HIDE DEF n
  <2>2. n \in {0, 1, 2}
    BY <2>1
  <2>3. QED
    BY <2>2 DEF n
<1>7. QED
  BY <1>1, <1>4, <1>5, <1>6

\* Who has the identity has a certificate that was made.
LEMMA HolderIs ==
  ASSUME IndInv
  PROVE  Holder.cert \in Nat /\ Holder.cred \in Nat /\ Latest \in Nat
<1>1. conn # NoConn => conn \in Conns
  BY DEF IndInv, TypeOK
<1>2. Certifying \/ Granted => conn \in Conns
  BY <1>1 DEF Certifying, Granted
<1>3. QED
  BY <1>2, NumbersAre DEF Holder, Latest

\* The first request with the newest certificate is by whom it was given to.
LEMMA RetireLock ==
  ASSUME IndInv, Does, NEW k \in Conns, RetireDoes(k)
  PROVE  LockInv'
<1>1. /\ At(k, "retire") /\ req[k].kind \in {"poll", "rotate"} /\ Turned(k, Body(req[k].kind), 0) /\ Turns(k)
      /\ ServerDoes(k) /\ UNCHANGED <<pc, mem, disk, conn, banned>>
  <2>1. At(k, "retire") /\ Turned(k, Body(req[k].kind), 0) /\ ServerDoes(k)
    BY DEF RetireDoes, ServerDoes
  <2>2. UNCHANGED <<pc, mem, disk, conn, banned>>
    BY DEF RetireDoes, agentVars
  <2>3. Turns(k)
    BY <2>1 DEF Turned
  <2>4. req[k].kind \in {"poll", "rotate"}
    BY <2>1 DEF IndInv, RequestInv, Asks, At
  <2>5. QED
    BY <2>1, <2>2, <2>3, <2>4
<1>2. /\ row'.cred = row.cred /\ row'.certs = <<req[k].id.cert>> /\ missed' = {}
      /\ Clean' => Clean /\ row.certs = <<req[k].hadCert, req[k].id.cert>>
  BY DEF RetireDoes, RowBecomes, Marks, Clean
<1>3. Alike /\ Latest' = Latest
  BY <1>1, HolderKept DEF Alike, Latest
<1>4. ~ Begun(k)' /\ \A j \in Conns : j # k => (Begun(j)' <=> Begun(j)) /\ req'[j] .id = req[j].id
  BY <1>1 DEF Turned, Body, Begun, Turns, Resembles
<1> SUFFICES ASSUME Clean', Holder'.cred # 0
             PROVE  /\ \A j \in Conns : Begun(j)' => req'[j].id.cert <= Latest'
                    /\ ~ Certifying' => row'.cred = Holder'.cred /\ Follow(Holder.cert)' /\ ~ Waiting'
  BY DEF LockInv
<1>5. /\ \A j \in Conns : Begun(j) => req[j].id.cert <= Latest
      /\ ~ Certifying => /\ row.cred = Holder.cred /\ Follow(Holder.cert)
                         /\ Waiting => req[conn].id.cert \in missed
  BY <1>2, <1>3 DEF IndInv, LockInv, Alike
<1>6. ASSUME ~ Certifying' PROVE row'.cred = Holder'.cred /\ Follow(Holder.cert)' /\ ~ Waiting'
  <2> DEFINE c == Holder.cert
             d == req[k].id.cert
  <2>1. ~ Certifying /\ row.cred = Holder.cred /\ Follow(c) /\ d <= c
    BY <1>1, <1>3, <1>5, <1>6 DEF Alike, Latest, Begun, At
  <2>2. row.certs = <<req[k].hadCert, d>>
    BY <1>2
  <2>3. c \in Nat /\ d \in Nat /\ missed \subseteq Nat
    BY HolderIs, NumbersAre, CertsAre
  <2>4. row.certs[2] = d /\ Newest = d
    BY <2>2 DEF Newest
  <2> HIDE DEF c, d
  <2>5. missed = {} /\ d = c
    <3>1. d \in missed => c < d
      BY <2>1 DEF Follow
    <3>2. d \notin missed
      BY <2>1, <2>3, <3>1
    <3>3. QED
      BY <2>1, <2>4, <3>2 DEF Follow
  <2>6. ~ Waiting /\ Holder'.cert = d
    BY <1>3, <1>5, <2>1, <2>5 DEF Alike, c
  <2>7. ~ Waiting'
    <3>1. conn # NoConn => conn \in Conns
      BY DEF IndInv, TypeOK
    <3>2. CASE conn = k
      BY <1>1, <3>2 DEF Turned, Waiting, At, Body
    <3>3. CASE conn # k
      BY <1>1, <2>6, <3>1, <3>3 DEF Turns, Resembles, Waiting, At
    <3>4. QED
      BY <3>2, <3>3
  <2>8. row'.certs = <<d>>
    BY <1>2 DEF d
  <2>9. Follow(Holder.cert)'
    BY <1>2, <2>6, <2>8 DEF Follow, Newest
  <2>10. QED
    BY <1>2, <1>3, <2>1, <2>7, <2>9 DEF Alike
<1>7. QED
  BY <1>3, <1>4, <1>5, <1>6

\* What is stored next to the newest certificate.
LEMMA FollowStored ==
  ASSUME IndInv, NEW c \in Nat, NEW x \in Nat, Follow(c), Newest < x,
         row'.certs = Combined(Newest, x), missed' = missed \union {x}
  PROVE  /\ \A y \in missed' : c < y
         /\ Len(row'.certs) = 2 /\ row'.certs[1] < row'.certs[2]
         /\ row'.certs[2] \in missed' /\ row'.certs[1] \in missed' \union {c}
         /\ \A y \in missed' \union {c} : y <= row'.certs[1] \/ y = row'.certs[2]
<1>1. missed \subseteq Nat /\ row.certs # <<>>
  <2>1. Len(row.certs) = 2 => row.certs # <<>>
    OBVIOUS
  <2>2. QED
    BY <2>1, CertsAre DEF Follow
<1> DEFINE h == Newest
<1>2. h \in Nat /\ h # 0 /\ h = row.certs[Len(row.certs)]
  <2>1. Len(row.certs) \in 1..Len(row.certs)
    BY <1>1, CertsAre
  <2>2. QED
    BY <1>1, <2>1, CertsAre
<1>3. row'.certs = <<h, x>>
  BY <1>2 DEF Combined
<1>4. h \in missed \union {c} /\ \A y \in missed \union {c} : y <= h
  <2>1. CASE missed = {}
    BY <2>1, <1>2 DEF Follow
  <2>2. CASE missed # {}
    <3>1. Len(row.certs) = 2 /\ h = row.certs[2] /\ row.certs[1] \in Nat
      BY <1>2, <2>2, CertsAre DEF Follow
    <3>2. QED
      BY <1>1, <1>2, <2>2, <3>1 DEF Follow
  <2>3. QED
    BY <2>1, <2>2
<1> HIDE DEF h
<1>5. c < x /\ \A y \in missed : c < y
  BY <1>2, <1>4 DEF Follow, h
<1>6. Len(row'.certs) = 2 /\ row'.certs[1] = h /\ row'.certs[2] = x
  BY <1>3
<1>7. h < x
  BY DEF h
<1>8. QED
  BY <1>4, <1>5, <1>6, <1>7

\* A rotation adds a certificate that its agent has not yet.
LEMMA StoreLock ==
  ASSUME IndInv, Does, NEW k \in Conns, StoreDoes(k)
  PROVE  LockInv'
<1>1. /\ At(k, "store") /\ req[k].kind = "rotate" /\ Ends(k, TRUE, req[k].id) /\ Turns(k)
      /\ ServerDoes(k) /\ UNCHANGED <<pc, mem, disk, conn, banned>>
  BY DEF IndInv, RequestInv, Asks, At, StoreDoes, Ends, ServerDoes, agentVars
<1>2. /\ row'.cred = row.cred /\ row'.certs = Combined(req[k].hadCert, req[k].id.cert)
      /\ missed' = missed \union {req[k].id.cert}
      /\ Clean' => Clean /\ Newest = req[k].hadCert
  BY DEF StoreDoes, RowBecomes, Marks, Clean
<1>3. Alike /\ Latest' = Latest
  BY <1>1, HolderKept DEF Alike, Latest
<1>4. ~ Begun(k)' /\ \A j \in Conns : j # k => (Begun(j)' <=> Begun(j)) /\ req'[j] .id = req[j].id
  BY <1>1, FreeIs DEF Ends, Begun, Turns, Resembles
<1> SUFFICES ASSUME Clean', Holder'.cred # 0
             PROVE  /\ \A j \in Conns : Begun(j)' => req'[j].id.cert <= Latest'
                    /\ ~ Certifying' => /\ row'.cred = Holder'.cred /\ Follow(Holder.cert)'
                                        /\ Waiting' => req'[conn'].id.cert \in missed'
  BY DEF LockInv
<1>5. /\ \A j \in Conns : Begun(j) => req[j].id.cert <= Latest
      /\ ~ Certifying => /\ row.cred = Holder.cred /\ Follow(Holder.cert)
                         /\ Waiting => req[conn].id.cert \in missed
  BY <1>2, <1>3 DEF IndInv, LockInv, Alike
<1>6. ASSUME ~ Certifying'
      PROVE  /\ row'.cred = Holder'.cred /\ Follow(Holder.cert)'
             /\ Waiting' => req'[conn'].id.cert \in missed'
  <2> DEFINE c == Holder.cert
             x == req[k].id.cert
  <2>1. ~ Certifying /\ row.cred = Holder.cred /\ Follow(c)
    BY <1>3, <1>5, <1>6 DEF Alike
  <2>2. Newest < x /\ c \in Nat /\ x \in Nat
    BY <1>1, <1>2, HolderIs, NumbersAre DEF IndInv, RequestInv, Asks
  <2>3. row'.certs = Combined(Newest, x) /\ missed' = missed \union {x} /\ Holder'.cert = c
    BY <1>2, <1>3 DEF Alike
  <2> HIDE DEF c, x
  <2>4. Follow(Holder.cert)'
    <3>1. missed' # {}
      BY <2>3
    <3>2. QED
      BY <2>1, <2>2, <2>3, <3>1, FollowStored DEF Follow
  <2>5. Waiting' => req'[conn'].id.cert \in missed'
    <3>1. conn # NoConn => conn \in Conns
      BY DEF IndInv, TypeOK
    <3>2. CASE conn = k
      BY <1>1, <1>2, <3>2 DEF Ends
    <3>3. CASE conn # k
      <4>1. Waiting' => Waiting /\ req'[conn'].id = req[conn].id
        BY <1>1, <3>1, <3>3 DEF Turns, Resembles, Waiting, At
      <4>2. QED
        BY <1>2, <1>5, <2>1, <4>1
    <3>4. QED
      BY <3>2, <3>3
  <2>6. QED
    BY <1>2, <1>3, <2>1, <2>4, <2>5 DEF Alike
<1>7. QED
  BY <1>3, <1>4, <1>5, <1>6

\* The agent takes a certificate that was stored after its own.
LEMMA FollowTaken ==
  ASSUME IndInv, NEW c \in Nat, Follow(c), NEW x \in missed, row'.certs = row.certs,
         missed' = {y \in missed : y > x}
  PROVE  /\ \A y \in missed' : x < y
         /\ missed' = {} => row.certs # <<>> /\ Newest = x
         /\ missed' # {} => /\ Len(row.certs) = 2 /\ row.certs[1] < row.certs[2]
                            /\ row.certs[2] \in missed' /\ row.certs[1] \in missed' \union {x}
                            /\ \A y \in missed' \union {x} : y <= row.certs[1] \/ y = row.certs[2]
<1> DEFINE a == row.certs[1]
           b == row.certs[2]
<1>1. /\ Len(row.certs) = 2 /\ a < b /\ b \in missed /\ a \in missed \union {c} /\ c < x
      /\ \A y \in missed \union {c} : y <= a \/ y = b
  BY DEF Follow
<1>2. a \in Nat /\ b \in Nat /\ missed \subseteq Nat /\ row.certs # <<>>
  BY <1>1, CertsAre
<1>3. Newest = b
  BY <1>1, <1>2, CertsAre
<1> HIDE DEF a, b
<1>4. x <= b /\ (x # b => x <= a)
  BY <1>1, <1>2
<1>5. CASE x = b
  <2>1. \A y \in missed : ~ y > x
    BY <1>1, <1>2, <1>5
  <2>2. missed' = {}
    BY <2>1
  <2>3. QED
    BY <1>2, <1>3, <1>5, <2>2
<1>6. CASE x # b
  <2>1. b \in missed'
    BY <1>1, <1>2, <1>4, <1>6
  <2>2. a \in missed' \union {x}
    BY <1>1, <1>2, <1>4, <1>6
  <2>3. \A y \in missed' \union {x} : y <= a \/ y = b
    BY <1>1
  <2>4. QED
    BY <1>1, <1>2, <2>1, <2>2, <2>3 DEF a, b
<1>7. QED
  BY <1>5, <1>6

\* An answer to a rotation is used.
LEMMA RotatedLock ==
  ASSUME IndInv, Does, NEW k \in Conns, RotatedDoes(k)
  PROVE  LockInv'
<1>1. /\ conn = k /\ conn' = NoConn /\ At(k, "done") /\ req[k].kind = "rotate" /\ Turns(k) /\ req'[k] = Free
      /\ pc' = "ready" /\ row' = row /\ banned' = banned
  BY DEF RotatedDoes, Hangs, Reply
<1>2. pc = "rotating" /\ conn # NoConn
  BY <1>1, Numbers DEF IndInv, AgentInv
<1>3. Holder = mem /\ Holder' = mem' /\ ~ Certifying /\ ~ Certifying' /\ ~ Waiting'
  BY <1>1, <1>2 DEF Holder, Running, Certifying, Waiting
<1>4. \A j \in Conns : Begun(j)' => Begun(j) /\ req'[j].id = req[j].id
  BY <1>1, FreeIs DEF Begun, Turns, Resembles
<1>5. CASE NewCertDoes(k)
  <2> DEFINE c == mem.cert
             x == req[k].id.cert
  <2>1. req[k].ok /\ mem'.cred = mem.cred /\ mem'.cert = x /\ missed' = {y \in missed : y > x} /\ (Clean' => Clean)
    BY <1>1, <1>5 DEF NewCertDoes, Clean
  <2> SUFFICES ASSUME Clean', mem'.cred # 0
               PROVE  /\ \A j \in Conns : Begun(j)' => req'[j].id.cert <= Latest'
                      /\ row'.cred = mem'.cred /\ Follow(Holder.cert)'
    BY <1>3 DEF LockInv
  <2>2. /\ \A j \in Conns : Begun(j) => req[j].id.cert <= c
        /\ row.cred = mem.cred /\ Follow(c) /\ x \in missed
    BY <1>1, <1>2, <1>3, <2>1 DEF IndInv, LockInv, Latest, Waiting
  <2>3. c \in Nat /\ x \in Nat /\ c < x /\ Latest' = x
    BY <1>3, <2>1, <2>2, NumbersAre DEF Follow, Latest
  <2>4. \A j \in Conns : Begun(j)' => req'[j].id.cert <= Latest'
    BY <1>4, <2>2, <2>3, NumbersAre
  <2>5. Holder'.cert = x
    BY <1>3, <2>1
  <2> HIDE DEF c, x
  <2>6. Follow(Holder.cert)'
    BY <1>1, <2>1, <2>2, <2>3, <2>5, FollowTaken DEF Follow, Newest
  <2>7. QED
    BY <1>1, <2>1, <2>2, <2>4, <2>6
<1>6. CASE UNCHANGED <<mem, disk, missed, trouble>>
  <2>1. Alike /\ Still /\ (Clean' => Clean)
    BY <1>1, <1>3, <1>6 DEF Alike, Still, Clean
  <2>2. \A j \in Conns : Earlier(j)
    BY <1>4 DEF Earlier
  <2>3. QED
    BY <1>1, <1>6, <2>1, <2>2, LockCarries
<1>7. QED
  BY <1>5, <1>6 DEF RotatedDoes

\* The agent's other steps leave its identity as it is, or give it up.
LEMMA AgentLock ==
  ASSUME IndInv, Does, NEW k \in Conns, EnrollingDoes(k) \/ EnrolledDoes(k) \/ RotateDoes(k) \/ PollDoes(k) \/ PolledDoes(k)
  PROVE  LockInv'
<1>1. row' = row /\ missed' = missed /\ (Clean' => Clean) /\ Turns(k)
  <2>1. row' = row /\ missed' = missed /\ banned' = banned /\ Turns(k)
    BY DEF EnrollingDoes, EnrolledDoes, RotateDoes, PollDoes, PolledDoes, Sends, Hangs, serverVars
  <2>2. trouble' = trouble
    BY DEF EnrollingDoes, EnrolledDoes, RotateDoes, PollDoes, PolledDoes
  <2>3. QED
    BY <2>1, <2>2 DEF Clean
<1>2. \A j \in Conns : j # k => Earlier(j)
  BY <1>1 DEF Turns, Resembles, Earlier, Begun
<1>3. CASE EnrollingDoes(k)
  <2>1. pc' = "enrolling" /\ disk' = disk /\ disk.cred = 0 /\ conn' = k /\ req'[k].stage = "enroll"
    BY <1>3 DEF EnrollingDoes, Sends
  <2>2. Holder'.cred = 0
    BY <2>1 DEF Holder, Running, Certifying, Granted, At
  <2>3. QED
    BY <2>2, LockVacuous
<1>4. CASE EnrolledDoes(k)
  <2>1. conn = k /\ conn' = NoConn /\ At(k, "done") /\ req[k].kind = "enroll" /\ req'[k] = Free
    BY <1>4 DEF EnrolledDoes, Hangs, Reply
  <2>2. pc = "enrolling" /\ disk.cred = 0 /\ conn # NoConn
    BY <2>1, Numbers DEF IndInv, AgentInv
  <2>3. CASE req[k].ok /\ mem' = req[k].id /\ disk' = req[k].id /\ pc' = "top"
    <3>1. Holder = req[k].id /\ ~ Certifying
      BY <2>1, <2>2, <2>3 DEF Holder, Running, Certifying, Granted, At
    <3>2. Holder' = req[k].id /\ ~ Certifying' /\ ~ Waiting'
      BY <2>1, <2>3 DEF Holder, Running, Certifying, Waiting
    <3>3. Alike /\ Still /\ Earlier(k)
      BY <2>1, <3>1, <3>2, FreeIs DEF Alike, Still, Earlier, Begun
    <3>4. QED
      BY <1>1, <1>2, <3>3, LockCarries
  <2>4. CASE pc' = "stopped" /\ UNCHANGED <<mem, disk>>
    <3>1. Holder'.cred = 0
      BY <2>2, <2>4 DEF Holder, Running, Certifying, Granted
    <3>2. QED
      BY <3>1, LockVacuous
  <2>5. QED
    BY <1>4, <2>3, <2>4 DEF EnrolledDoes
<1>5. CASE RotateDoes(k) \/ PollDoes(k)
  <2>1. pc \in {"top", "ready"} /\ pc' \in {"rotating", "polling"} /\ conn' = k /\ mem' = mem
        /\ req'[k].stage = "auth" /\ req'[k].id = mem
    BY <1>5 DEF RotateDoes, PollDoes, Sends
  <2>2. Holder = mem /\ Holder' = mem /\ ~ Certifying /\ ~ Certifying' /\ ~ Waiting'
    BY <2>1 DEF Holder, Running, Certifying, Waiting, At
  <2>3. Alike /\ Still /\ Earlier(k)
    BY <2>1, <2>2 DEF Alike, Still, Earlier
  <2>4. QED
    BY <1>1, <1>2, <2>3, LockCarries
<1>6. CASE PolledDoes(k)
  <2>1. conn = k /\ conn' = NoConn /\ req[k].kind = "poll" /\ req'[k] = Free /\ pc' \in {"save", "top"}
    BY <1>6 DEF PolledDoes, Hangs, Reply
  <2>2. pc = "polling"
    BY <2>1, Numbers DEF IndInv, AgentInv
  <2>3. Holder = mem /\ Holder' = mem' /\ ~ Certifying /\ ~ Certifying' /\ ~ Waiting'
    BY <2>1, <2>2 DEF Holder, Running, Certifying, Waiting
  <2>4. mem'.cred = mem.cred /\ mem'.cert = mem.cert
    BY <1>6 DEF PolledDoes
  <2>5. Alike /\ Still /\ Earlier(k)
    BY <2>1, <2>3, <2>4, FreeIs DEF Alike, Still, Earlier, Begun
  <2>6. QED
    BY <1>1, <1>2, <2>5, LockCarries
<1>7. QED
  BY <1>3, <1>4, <1>5, <1>6

\* The agent's request is given up.
LEMMA DesertedLock ==
  ASSUME IndInv, Does, GiveUpDoes \/ CrashDoes
  PROVE  LockInv'
<1>1. row' = row /\ missed' = missed /\ disk' = disk /\ conn' = NoConn /\ (Clean' => Clean) /\ Deserts
  <2>1. row' = row /\ missed' = missed /\ banned' = banned /\ disk' = disk /\ conn' = NoConn /\ Deserts
    BY DEF GiveUpDoes, CrashDoes, serverVars
  <2>2. trouble' = trouble
    BY DEF GiveUpDoes, CrashDoes
  <2>3. QED
    BY <2>1, <2>2 DEF Clean
<1>2. (\A j \in Conns : Earlier(j)) /\ Still /\ ~ Certifying'
  BY <1>1, FreeIs DEF Deserts, Earlier, Begun, Still, Waiting, Certifying
<1>3. CASE GiveUpDoes
  <2>1. CASE pc = "enrolling" /\ pc' = "stopped"
    <3>1. Holder'.cred = 0
      BY <1>1, <2>1 DEF Holder, Running, Certifying, Granted, IndInv, AgentInv
    <3>2. QED
      BY <3>1, LockVacuous
  <2>2. CASE pc \in {"rotating", "polling"} /\ pc' \in {"ready", "top"}
    <3>1. mem' = mem
      BY <1>3 DEF GiveUpDoes
    <3>2. Alike
      BY <1>2, <2>2, <3>1 DEF Alike, Holder, Running, Certifying
    <3>3. QED
      BY <1>1, <1>2, <3>2, LockCarries
  <2>3. QED
    BY <1>3, <2>1, <2>2 DEF GiveUpDoes
<1>4. CASE CrashDoes
  <2>1. pc' = "down" /\ Holder' = disk
    BY <1>1, <1>4 DEF CrashDoes, Holder, Running, Certifying, Granted
  <2>2. CASE Running
    <3>1. CASE Clean'
      <4>1. mem.cred = disk.cred /\ mem.cert = disk.cert
        BY <1>1, <2>2, <3>1 DEF Clean, IndInv, AgentInv
      <4>2. Alike
        BY <1>2, <2>1, <2>2, <4>1 DEF Alike, Holder, Running, Certifying
      <4>3. QED
        BY <1>1, <1>2, <4>2, LockCarries
    <3>2. CASE ~ Clean'
      BY <3>2, LockVacuous
    <3>3. QED
      BY <3>1, <3>2
  <2>3. CASE pc \in {"stopped", "enrolling"}
    <3>1. Holder'.cred = 0
      BY <2>1, <2>3 DEF IndInv, AgentInv
    <3>2. QED
      BY <3>1, LockVacuous
  <2>4. CASE pc = "down"
    <3>1. Alike
      BY <1>2, <2>1, <2>4 DEF Alike, Holder, Running, Certifying, Granted
    <3>2. QED
      BY <1>1, <1>2, <3>1, LockCarries
  <2>5. QED
    BY <2>2, <2>3, <2>4 DEF Running, IndInv, TypeOK
<1>5. QED
  BY <1>3, <1>4

\* The certificates that are stored are those of the agent and those that it has not read of.
LEMMA LockStep ==
  ASSUME IndInv, Does
  PROVE  LockInv'
<1>1. ASSUME NEW k \in Conns, PassDoes(k) \/ MatchDoes(k) \/ SkipDoes(k) \/ ReadDoes(k) \/ UpdateDoes(k)
            \/ NotifyDoes(k) \/ IssueDoes(k) \/ RefuseDoes(k) PROVE LockInv'
  BY <1>1, QuietLock
<1>2. ASSUME NEW k \in Conns, EnrollDoes(k) \/ CertifyDoes(k) \/ RetireDoes(k) \/ StoreDoes(k) PROVE
            LockInv'
  BY <1>2, EnrollLock, CertifyLock, RetireLock, StoreLock
<1>3. ASSUME NEW k \in Conns, RotatedDoes(k) PROVE LockInv'
  BY <1>3, RotatedLock
<1>4. ASSUME NEW k \in Conns, EnrollingDoes(k) \/ EnrolledDoes(k) \/ RotateDoes(k) \/ PollDoes(k) \/
            PolledDoes(k) PROVE LockInv'
  BY <1>4, AgentLock
<1>5. CASE GiveUpDoes \/ CrashDoes
  BY <1>5, DesertedLock
<1>6. CASE RevokeDoes
  BY <1>6, LockVacuous DEF RevokeDoes, Clean
<1>7. CASE TokenDoes \/ CertificateAges
  BY <1>7, LockSame DEF TokenDoes, CertificateAges, Clean, serverVars, agentVars
<1>8. CASE ResumeDoes
  <2>1. /\ UNCHANGED <<row, missed, req, disk, conn>> /\ (Clean' => Clean) /\ mem' = disk
        /\ pc = "down" /\ pc' = "top"
    BY <1>8 DEF ResumeDoes, Clean, serverVars
  <2>2. Alike /\ Still /\ \A j \in Conns : Earlier(j)
    BY <2>1 DEF Alike, Holder, Running, Certifying, Granted, Still, Waiting, Earlier, Begun, At
  <2>3. QED
    BY <2>1, <2>2, LockCarries
<1>9. CASE SaveDoes
  <2>1. /\ UNCHANGED <<row, missed, req, mem, conn, banned>> /\ pc = "save" /\ pc' = "top"
        /\ trouble' \in {trouble, trouble \union {"unsaved"}}
    BY <1>9 DEF SaveDoes, serverVars
  <2>2. Alike /\ Still /\ \A j \in Conns : Earlier(j)
    BY <2>1 DEF Alike, Holder, Running, Certifying, Granted, Still, Waiting, Earlier, Begun, At
  <2>3. Clean' => Clean
    BY <2>1 DEF Clean
  <2>4. QED
    BY <2>1, <2>2, <2>3, LockCarries
<1>10. CASE RestartStopped \/ RemoveIdentity
  <2>1. pc' = "down" /\ disk'.cred = 0
    BY <1>10, NobodyIs DEF RestartStopped, RemoveIdentity, IndInv, AgentInv
  <2>2. Holder'.cred = 0
    BY <2>1 DEF Holder, Running, Certifying, Granted
  <2>3. QED
    BY <2>2, LockVacuous
<1>11. QED
  BY <1>1, <1>2, <1>3, <1>4, <1>5, <1>6, <1>7, <1>8, <1>9, <1>10 DEF Does, ServerDoes, AgentDoes

(***************************************************************************)
(* The theorems.                                                           *)
(***************************************************************************)
\* Before anything happens there is nothing to keep.
LEMMA InitHolds == Init => IndInv
<1> SUFFICES ASSUME Init PROVE IndInv
  OBVIOUS
<1>1. /\ Free.kind = "free" /\ Free.stage = "free" /\ Free.id = Nobody /\ Free.hadHash = NoHash
      /\ Free.hadRev = 0 /\ ~ Free.after /\ Free \in Request
  BY Numbers, NobodyIs DEF Free, Request, Stages, Hashes, NoHash
<1>2. TypeOK
  <2>1. token = <<>> /\ token \in Seq({"open", "closed"}) /\ Len(token) = 0
    BY DEF Init
  <2>2. row \in [state : {"NONE", "ONLINE", "REVOKED"}, cred : Number, certs : Seq(Number),
                 hash : Hashes, rev : 0..MaxRev] /\ Len(row.certs) = 0
    BY Numbers DEF Init
  <2>3. certs \in Number /\ due \subseteq 1..MaxWork /\ missed \subseteq 1..MaxWork
        /\ faults \in 0..MaxFaults /\ admitted \in [1..MaxTokens -> Nat]
    BY Numbers DEF Init
  <2>4. req \in [Conns -> Request] /\ conn \in Conns \union {NoConn} /\ mem \in Identity /\ disk \in Identity
    BY <1>1, NobodyIs DEF Init
  <2>5. /\ drifted \in BOOLEAN /\ banned \in BOOLEAN
        /\ pc \in {"down", "stopped", "enrolling", "top", "rotating", "ready", "polling", "save"}
        /\ trouble \subseteq {"overwrite", "unsaved"}
    BY DEF Init
  <2>6. Len(token) <= MaxTokens /\ Len(row.certs) <= 2
    BY <2>1, <2>2, Numbers
  <2>7. QED
    BY <2>1, <2>2, <2>3, <2>4, <2>5, <2>6 DEF TypeOK
<1>3. NumberInv
  BY <1>1, NobodyIs, Numbers DEF Init, NumberInv, Made
<1>4. RequestInv
  BY <1>1 DEF Init, RequestInv, Asks, At
<1>5. AgentInv
  BY NobodyIs DEF Init, AgentInv, Running
<1>6. FreshInv /\ BanInv
  BY <1>1 DEF Init, FreshInv, BanInv, At
<1>7. TokenInv
  BY Numbers DEF Init, TokenInv
<1>8. LockInv
  BY NobodyIs DEF Init, LockInv, Holder, Running, Certifying, Granted
<1>9. QED
  BY <1>2, <1>3, <1>4, <1>5, <1>6, <1>7, <1>8 DEF IndInv

\* A step of anything else changes nothing of this.
LEMMA StutterHolds ==
  ASSUME IndInv, UNCHANGED vars
  PROVE  IndInv'
<1>1. /\ token' = token /\ row' = row /\ drifted' = drifted /\ certs' = certs /\ due' = due /\ req' = req
      /\ pc' = pc /\ mem' = mem /\ disk' = disk /\ conn' = conn /\ banned' = banned
      /\ admitted' = admitted /\ trouble' = trouble /\ missed' = missed /\ faults' = faults
  BY DEF vars
<1>2. TypeOK' /\ NumberInv' /\ AgentInv'
  BY <1>1 DEF IndInv, TypeOK, NumberInv, Made, AgentInv, Running
<1>3. RequestInv' /\ FreshInv' /\ BanInv' /\ TokenInv'
  BY <1>1 DEF IndInv, RequestInv, Asks, FreshInv, BanInv, TokenInv, At
<1>4. LockInv'
  BY <1>1 DEF IndInv, LockInv, Clean, Holder, Running, Certifying, Granted, Latest, Follow, Newest, Waiting,
     Begun, At
<1>5. QED
  BY <1>2, <1>3, <1>4 DEF IndInv

\* Every step keeps the invariant.
LEMMA NextHolds ==
  ASSUME IndInv, Next
  PROVE  IndInv'
<1>1. Does
  BY NextDoes DEF IndInv
<1>2. TypeOK' /\ NumberInv' /\ RequestInv' /\ AgentInv'
  BY <1>1, TypeStep, NumberStep, RequestStep, AgentStep
<1>3. FreshInv' /\ TokenInv' /\ LockInv'
  BY <1>1, FreshStep, TokenStep, LockStep
<1>4. BanInv'
  BY <1>1, BarredStep, AfterStep DEF BanInv, Barred
<1>5. QED
  BY <1>2, <1>3, <1>4 DEF IndInv

\* The inductive invariant holds whatever the administrator, the handlers, the
\* agent, its host and the network do (fleet.go:92-237, sync.go:44-165).
THEOREM Invariance == Spec => []IndInv
<1>1. Init => IndInv
  BY InitHolds
<1>2. IndInv /\ [Next]_vars => IndInv'
  BY NextHolds, StutterHolds
<1>3. QED
  BY <1>1, <1>2, PTL DEF Spec

\* The server serves those it admitted, once for each token, and no longer than
\* they are admitted (fleet.go:92-121, 149-197).
THEOREM OnlyAdmitted == Spec => []OnlyTheAdmitted
<1>1. IndInv => OnlyTheAdmitted
  <2> SUFFICES ASSUME IndInv PROVE OnlyTheAdmitted
    OBVIOUS
  <2>1. TypeOK
    BY DEF IndInv
  <2>2. TokenAdmitsOne
    BY <2>1, TokensAre DEF IndInv, TokenInv, TokenAdmitsOne
  <2>3. RevokedStaysOut
    BY DEF IndInv, BanInv, RevokedStaysOut
  <2>4. QED
    BY <2>1, <2>2, <2>3 DEF OnlyTheAdmitted
<1>2. QED
  BY <1>1, Invariance, PTL

\* A set of at most one number.
LEMMA AtMostOne ==
  ASSUME NEW S, S \subseteq 1..MaxWork, Cardinality(S) <= 1
  PROVE  \A x, y \in S : x = y
<1>1. SUFFICES ASSUME NEW x \in S, NEW y \in S, x # y PROVE FALSE
  OBVIOUS
<1>2. IsFiniteSet(S)
  <2>1. IsFiniteSet(1..MaxWork)
    BY Numbers, FS_Interval
  <2>2. QED
    BY <2>1, FS_Subset
<1>3. IsFiniteSet({x}) /\ Cardinality({x}) = 1
  BY FS_Singleton
<1>4. IsFiniteSet({x} \cup {y}) /\ Cardinality({x} \cup {y}) = 2
  BY <1>1, <1>3, FS_AddElement
<1>5. Cardinality({x} \cup {y}) <= Cardinality(S)
  BY <1>2, FS_Subset
<1>6. Cardinality(S) \in Nat
  BY <1>2, FS_CardinalityType
<1>7. QED
  BY <1>4, <1>5, <1>6

\* Where the stored certificates follow the agent's and at most one of them was
\* stored after it, the agent's is stored.
LEMMA StillStored ==
  ASSUME IndInv, NEW c \in Nat, Follow(c), Cardinality(missed) <= 1
  PROVE  \E i \in DOMAIN row.certs : row.certs[i] = c
<1>1. row.certs \in Seq(Number) /\ missed \subseteq 1..MaxWork
  BY DEF IndInv, TypeOK
<1>2. CASE missed = {}
  <2>1. row.certs # <<>> /\ Newest = c
    BY <1>2 DEF Follow
  <2>2. Len(row.certs) \in 1..Len(row.certs) /\ row.certs[Len(row.certs)] = c
    BY <2>1, CertsAre
  <2>3. QED
    BY <1>1, <2>2
<1>3. CASE missed # {}
  <2>1. /\ Len(row.certs) = 2 /\ row.certs[1] < row.certs[2]
        /\ row.certs[2] \in missed /\ row.certs[1] \in missed \union {c}
    BY <1>3 DEF Follow
  <2>2. row.certs[1] \in Nat /\ row.certs[2] \in Nat
    BY <2>1, CertsAre
  <2>3. row.certs[1] # row.certs[2]
    BY <2>1, <2>2
  <2>4. row.certs[1] = c
    <3>1. \A x, y \in missed : x = y
      BY <1>1, AtMostOne
    <3>2. QED
      BY <2>1, <2>3, <3>1
  <2>5. QED
    BY <1>1, <2>1, <2>4
<1>4. QED
  BY <1>2, <1>3

\* An agent is not locked out by a rotation as long as at most one answer was
\* lost since the one that gave it its certificate (fleet.go:199-237,
\* sync.go:111-165).
THEOREM NotLocked == Spec => []NotLockedOut
<1>1. IndInv => NotLockedOut
  <2> SUFFICES ASSUME IndInv, Running, ~ banned, trouble \intersect {"overwrite", "unsaved"} = {},
                      Cardinality(missed) <= 1
               PROVE  Admissible
    BY DEF NotLockedOut
  <2>1. Holder = mem /\ ~ Certifying /\ mem.cred # 0
    BY DEF Holder, Certifying, Running, IndInv, AgentInv
  <2>2. row.cred = mem.cred /\ Follow(mem.cert)
    BY <2>1 DEF IndInv, LockInv, Clean
  <2>3. mem.cert \in Nat
    BY <2>1, HolderIs
  <2>4. row.state # "REVOKED"
    BY DEF IndInv, BanInv
  <2>5. QED
    BY <2>2, <2>3, <2>4, StillStored DEF Admissible, Known
<1>2. QED
  BY <1>1, Invariance, PTL

===============================================================================
