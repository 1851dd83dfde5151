---------------------------- MODULE AgentLifecycle ----------------------------
(***************************************************************************)
(* One remote agent's credentials and its state reports: enrollment with   *)
(* a single-use token, authentication by credential and client             *)
(* certificate, rotation of the certificate with one overlapping           *)
(* predecessor, revocation, and the report of the firewall's state from    *)
(* which the server concludes that it drifted (database/fleet.go,          *)
(* api/fleet.go, agent/sync.go, pki/agentca.go).                           *)
(*                                                                         *)
(* Every statement of a handler is a step of its own; handlers overlap     *)
(* because a client that gives up does not stop them, and stop before any  *)
(* statement when that statement fails.  The agent may crash at any step   *)
(* and the write of its identity file may fail.                            *)
(*                                                                         *)
(* Abstracted: secrets and certificates are numbers in the order they are  *)
(* made, the hash of a report is what it is taken of, the sequence number  *)
(* of a report is its place among the open ones, and commands and their    *)
(* delivery are FleetSync's: a recorded report is answered by any operation*)
(* or by none.  Modelled is the deployment with TLS, where the server asks *)
(* for certificates.                                                       *)
(***************************************************************************)
EXTENDS Naturals, FiniteSets, Sequences

CONSTANTS
  MaxTokens,   \* bound: enrollment tokens made for this agent or for any
  Conns,       \* HTTP requests that can be open at once
  NoConn,
  MaxWork,     \* bound: certificates issued
  MaxRev,      \* bound: operations counted in an identity's policy revision
  MaxFaults    \* bound: lost requests; failing statements and writes and crashes
               \* count twice

\* Two open requests: at most one report is older than the latest.
ASSUME LifecycleAssumption ==
  /\ IsFiniteSet(Conns) /\ Cardinality(Conns) <= 2 /\ NoConn \notin Conns
  /\ MaxTokens \in Nat /\ MaxWork \in Nat /\ MaxRev \in Nat /\ MaxFaults \in Nat

VARIABLES
  token,    \* enrollment_tokens in the order they were made: open, or closed
            \* because used or expired
  row,      \* the agent's row of agents; credential 0 and <<>> are NULL
  drifted,  \* an AGENT_FIREWALL_DRIFT notification exists
  certs,    \* certificates and credentials made so far
  due,      \* certificates that expire within seven days
  req,      \* open requests and how far their handlers are
  pc,       \* the agent: down, stopped (process without remote loop), ...
  mem,      \* its identity
  disk,     \* the identity file
  conn,     \* the request it waits for
  \* history
  banned,   \* revoked, and not enrolled since
  admitted, \* enrollments each token admitted
  trouble,  \* what went wrong so far, by kind
  missed,   \* certificates stored after the agent's, whose answer it did not use
  faults

vars == <<token, row, drifted, certs, due, req, pc, mem, disk, conn,
          banned, admitted, trouble, missed, faults>>
serverVars == <<token, row, drifted, certs, banned, admitted, missed>>
agentVars  == <<pc, mem, disk, conn, due>>

Number   == 0..MaxWork
\* What a state hash is taken of: no report yet; a status and rules, with the
\* time of the reading and ids made for it, so that no two hashes are equal and
\* a change of the firewall makes no difference to them; or nothing, because
\* neither could be read.
NoHash   == "none"
Hashes   == {NoHash, "read", "blank"}
Identity == [cred : Number, cert : Number, rev : 0..MaxRev]
Nobody   == [cred |-> 0, cert |-> 0, rev |-> 0]
Stages   == {"free", "enroll", "certify", "auth", "match", "retire", "report",
             "update", "notify", "rotate", "store", "done"}
\* age: the newest report, one behind it, one whose successor is recorded,
\* or one of an earlier enrollment, whose number is beyond all newer ones.
Request  == [kind : {"free", "enroll", "poll", "rotate"}, stage : Stages,
             tok : 0..MaxTokens, id : Identity,
             age : {"latest", "behind", "stale", "foreign"}, hadHash : Hashes,
             hadRev : 0..MaxRev, hadCert : Number, ok : BOOLEAN,
             after : BOOLEAN]  \* history: authentication began while banned
Free == [kind |-> "free", stage |-> "free", tok |-> 0, id |-> Nobody,
         age |-> "latest", hadHash |-> NoHash, hadRev |-> 0, hadCert |-> 0, ok |-> FALSE,
         after |-> FALSE]

TypeOK ==
  /\ token \in Seq({"open", "closed"}) /\ Len(token) <= MaxTokens
  /\ row \in [state : {"NONE", "ONLINE", "REVOKED"}, cred : Number, certs : Seq(Number),
              hash : Hashes, rev : 0..MaxRev]
  /\ Len(row.certs) <= 2
  /\ drifted \in BOOLEAN
  /\ certs \in Number /\ due \subseteq 1..MaxWork
  /\ req \in [Conns -> Request]
  /\ pc \in {"down", "stopped", "enrolling", "top", "rotating", "ready", "polling", "save"}
  /\ mem \in Identity /\ disk \in Identity
  /\ conn \in Conns \union {NoConn}
  /\ banned \in BOOLEAN
  /\ admitted \in [1..MaxTokens -> Nat]
  /\ trouble \subseteq {"overwrite", "unsaved"}
  /\ missed \subseteq 1..MaxWork
  /\ faults \in 0..MaxFaults

Init ==
  /\ token = <<>>
  /\ row = [state |-> "NONE", cred |-> 0, certs |-> <<>>, hash |-> NoHash, rev |-> 0]
  /\ drifted = FALSE
  /\ certs = 0 /\ due = {}
  /\ req = [k \in Conns |-> Free]
  /\ pc = "down" /\ mem = Nobody /\ disk = Nobody /\ conn = NoConn
  /\ banned = FALSE
  /\ admitted = [t \in 1..MaxTokens |-> 0]
  /\ trouble = {} /\ missed = {} /\ faults = 0

Budget == certs < MaxWork
Spend(n) == faults + n <= MaxFaults /\ faults' = faults + n
\* A failing statement, write or process costs twice a lost request.
Fault  == Spend(2)

At(k, s) == req[k].stage = s

\* The handler goes on to its next statement, or ends with an answer, which
\* nobody reads once the client has gone.
Goto(k, s) == req' = [req EXCEPT ![k].stage = s]
Answered(k, ok, r) ==
  IF k # conn THEN Free
  ELSE [Free EXCEPT !.kind = r.kind, !.stage = "done", !.ok = ok,
                    !.id = IF ok /\ r.kind # "poll" THEN r.id ELSE Nobody]
Answer(k, ok, r) == req' = [req EXCEPT ![k] = Answered(k, ok, r)]

(***************************************************************************)
(* The administrator.                                                      *)
(***************************************************************************)
CreateEnrollmentToken ==
  /\ Len(token) < MaxTokens
  /\ token' = Append(token, "open")
  /\ UNCHANGED <<row, drifted, certs, banned, admitted, missed, req, agentVars, trouble, faults>>

TokenExpires(t) ==
  /\ token[t] = "open"
  /\ token' = [token EXCEPT ![t] = "closed"]
  /\ UNCHANGED <<row, drifted, certs, banned, admitted, missed, req, agentVars, trouble, faults>>

\* Mutant: the credential of a revoked agent stays.
CertificateRevoked(r) == [r EXCEPT !.state = "REVOKED", !.certs = <<>>]
Revoked(r) == [r EXCEPT !.state = "REVOKED", !.cred = 0, !.certs = <<>>]

RevokeAgent ==
  /\ row.state # "NONE"
  /\ row' = Revoked(row)
  /\ banned' = TRUE
  /\ UNCHANGED <<token, drifted, certs, admitted, missed, req, agentVars, trouble, faults>>

\* History: a handler writes a row that is not as it was when it read it.
Overwrite(unchanged) == trouble' = IF unchanged THEN trouble ELSE trouble \union {"overwrite"}

(***************************************************************************)
(* Enrollment: one transaction, then the certificate outside of it.        *)
(***************************************************************************)
Redeemable(t) == token[t] = "open"

Enroll(k) ==
  /\ At(k, "enroll")
  /\ IF Redeemable(req[k].tok) /\ Budget
     THEN /\ certs' = certs + 1
          /\ row' = [row EXCEPT !.state = "ONLINE", !.cred = certs', !.hash = NoHash]
          /\ token' = [token EXCEPT ![req[k].tok] = "closed"]
          /\ admitted' = [admitted EXCEPT ![req[k].tok] = @ + 1]
          /\ banned' = FALSE
          /\ trouble' = trouble \union (IF k = conn THEN {} ELSE {"overwrite"})
          /\ req' = [j \in Conns |->
               IF j = k THEN [req[k] EXCEPT !.stage = "certify", !.id.cred = certs']
               ELSE IF req[j].kind = "poll" THEN [req[j] EXCEPT !.age = "foreign"] ELSE req[j]]
     ELSE /\ Answer(k, FALSE, req[k])
          /\ UNCHANGED <<token, row, certs, banned, admitted, trouble>>
  /\ UNCHANGED <<drifted, missed, agentVars, faults>>

\* Issue and SetAgentCertificate; the fingerprint's number is the credential's.
Certify(k) ==
  /\ At(k, "certify")
  /\ row' = [row EXCEPT !.certs = <<req[k].id.cred>>]
  /\ missed' = {}
  /\ Overwrite(row.cred = req[k].id.cred)
  /\ Answer(k, TRUE, [req[k] EXCEPT !.id.cert = req[k].id.cred])
  /\ UNCHANGED <<token, drifted, certs, banned, admitted, agentVars, faults>>

(***************************************************************************)
(* authenticateAgent: the credential, then the certificate.                *)
(***************************************************************************)
Authenticate(k) ==
  /\ At(k, "auth")
  /\ IF row.cred # 0 /\ row.cred = req[k].id.cred
     THEN req' = [req EXCEPT ![k].stage = "match", ![k].after = banned]
     ELSE Answer(k, FALSE, req[k])
  /\ UNCHANGED <<serverVars, agentVars, trouble, faults>>

Body(kind) == IF kind = "poll" THEN "report" ELSE "rotate"
Known(c) == row.state # "REVOKED" /\ \E i \in DOMAIN row.certs : row.certs[i] = c
\* The first request with the rotated certificate retires the overlap.
Retires(c) == Len(row.certs) > 1 /\ row.certs[1] # c

CertificateMatches(k) ==
  /\ At(k, "match")
  /\ LET c == req[k].id.cert IN
       IF Known(c)
       THEN req' = [req EXCEPT
              ![k].stage = IF Retires(c) THEN "retire" ELSE Body(req[k].kind),
              ![k].hadCert = IF Retires(c) THEN row.certs[1] ELSE 0]
       ELSE Answer(k, FALSE, req[k])
  /\ UNCHANGED <<serverVars, agentVars, trouble, faults>>

Retire(k) ==
  /\ At(k, "retire")
  /\ row' = [row EXCEPT !.certs = <<req[k].id.cert>>]
  /\ missed' = {}
  /\ Overwrite(row.certs = <<req[k].hadCert, req[k].id.cert>>)
  /\ req' = [req EXCEPT ![k].stage = Body(req[k].kind), ![k].hadCert = 0]
  /\ UNCHANGED <<token, drifted, certs, banned, admitted, agentVars, faults>>

(***************************************************************************)
(* handleAgentPoll: UpdateState, the drift notification, the long poll.    *)
(***************************************************************************)
ReadPrevious(k) ==
  /\ At(k, "report")
  /\ \/ /\ req' = [req EXCEPT ![k].stage = "update", ![k].hadHash = row.hash,
                               ![k].hadRev = row.rev]
        /\ UNCHANGED faults
     \/ Fault /\ Goto(k, "update")  \* the error is ignored
  /\ UNCHANGED <<serverVars, agentVars, trouble>>

SameHash(g, h) == g = h /\ g # "read"
Drift(r, h) == r.hadHash # NoHash /\ ~ SameHash(r.hadHash, h) /\ r.hadRev = r.id.rev

\* WHERE sequence<=?
Current(r) == r.age # "stale"

UpdateState(k) ==
  /\ At(k, "update")
  /\ IF ~Current(req[k])
     THEN /\ Answer(k, FALSE, req[k])
          /\ UNCHANGED row
     ELSE \E h \in Hashes \ {NoHash} :  \* what the agent had read when it sent the report
          /\ row' = [row EXCEPT !.state = "ONLINE", !.hash = h, !.rev = req[k].id.rev]
          /\ req' = [j \in Conns |->
               IF j = k THEN IF Drift(req[k], h) THEN [Free EXCEPT !.kind = "poll", !.stage = "notify"]
                             ELSE Answered(k, TRUE, req[k])
               ELSE IF req[k].age = "latest" /\ req[j].age = "behind"
                    THEN [req[j] EXCEPT !.age = "stale"] ELSE req[j]]
  /\ UNCHANGED <<token, drifted, certs, banned, admitted, missed, agentVars, trouble, faults>>

\* notifs.Upsert; its error is ignored.
Notify(k) ==
  /\ At(k, "notify")
  /\ \/ drifted' = TRUE /\ UNCHANGED faults
     \/ Fault /\ UNCHANGED drifted
  /\ Answer(k, TRUE, req[k])
  /\ UNCHANGED <<token, row, certs, banned, admitted, missed, agentVars, trouble>>

(***************************************************************************)
(* handleAgentCertificateRotate.                                           *)
(***************************************************************************)
Newest == IF row.certs = <<>> THEN 0 ELSE row.certs[Len(row.certs)]

ReadCurrent(k) ==
  /\ At(k, "rotate")
  /\ IF Budget
     THEN /\ certs' = certs + 1
          /\ req' = [req EXCEPT ![k].stage = "store", ![k].id.cert = certs',
                       ![k].hadCert = Newest]
     ELSE Answer(k, FALSE, req[k]) /\ UNCHANGED certs
  /\ UNCHANGED <<token, row, drifted, banned, admitted, missed, agentVars, trouble, faults>>

\* Mutant: the rotated certificate replaces its predecessor at once.
NoOverlap(old, new) == <<new>>
Combined(old, new) == IF old = 0 THEN <<new>> ELSE <<old, new>>

RotateAgentCertificate(k) ==
  /\ At(k, "store")
  /\ row' = [row EXCEPT !.certs = Combined(req[k].hadCert, req[k].id.cert)]
  /\ missed' = missed \union {req[k].id.cert}
  /\ Overwrite(Newest = req[k].hadCert)
  /\ Answer(k, TRUE, req[k])
  /\ UNCHANGED <<token, drifted, certs, banned, admitted, agentVars, faults>>

\* A statement fails: 500, or 401 where the error reads as a refusal.
HandlerFails(k) ==
  /\ req[k].stage \notin {"free", "done", "report", "notify", "retire"}
  /\ Fault
  /\ Answer(k, FALSE, req[k])
  /\ UNCHANGED <<serverVars, agentVars, trouble>>
\* ... or the UPDATE that retires the overlap, whose error is ignored.
RetireFails(k) ==
  /\ At(k, "retire") /\ Fault
  /\ Goto(k, Body(req[k].kind))
  /\ UNCHANGED <<serverVars, agentVars, trouble>>

(***************************************************************************)
(* The agent.                                                              *)
(***************************************************************************)
Send(k, r) == req' = [j \in Conns |->
  IF j = k THEN r
  ELSE IF r.kind = "poll" /\ req[j].kind = "poll" /\ req[j].age = "latest" THEN [req[j] EXCEPT !.age = "behind"]
  ELSE req[j]]

\* RunRemoteSync up to its loop, with the token its configuration holds.
Enrolling(k, t) ==
  /\ pc = "down" /\ disk.cred = 0
  /\ At(k, "free")
  /\ Send(k, [Free EXCEPT !.kind = "enroll", !.stage = "enroll", !.tok = t])
  /\ conn' = k /\ pc' = "enrolling"
  /\ UNCHANGED <<serverVars, mem, disk, due, trouble, faults>>
Resume ==
  /\ pc = "down" /\ disk.cred # 0
  /\ mem' = disk /\ pc' = "top"
  /\ UNCHANGED <<serverVars, req, disk, conn, due, trouble, faults>>

Reply(k, kind) == conn = k /\ At(k, "done") /\ req[k].kind = kind
Hang(k) == conn' = NoConn /\ req' = [req EXCEPT ![k] = Free]

\* Whatever goes wrong on the way ends the goroutine, and nothing starts it
\* again while the process lives.
Enrolled(k) ==
  /\ Reply(k, "enroll")
  /\ \/ /\ req[k].ok
        /\ mem' = req[k].id /\ disk' = mem' /\ pc' = "top"
        /\ UNCHANGED faults
     \/ /\ req[k].ok /\ Fault \* saveRemoteIdentity fails
        /\ pc' = "stopped" /\ UNCHANGED <<mem, disk>>
     \/ /\ ~req[k].ok
        /\ pc' = "stopped" /\ UNCHANGED <<mem, disk, faults>>
  /\ Hang(k)
  /\ UNCHANGED <<serverVars, due, trouble>>

Rotate(k) ==
  /\ pc = "top" /\ mem.cert \in due
  /\ At(k, "free")
  /\ Send(k, [Free EXCEPT !.kind = "rotate", !.stage = "auth", !.id = mem])
  /\ conn' = k /\ pc' = "rotating"
  /\ UNCHANGED <<serverVars, mem, disk, due, trouble, faults>>

\* The new certificate is used whether or not the file could be written; a
\* refusal is only logged.
Rotated(k) ==
  /\ Reply(k, "rotate")
  /\ IF req[k].ok
     THEN /\ mem' = [mem EXCEPT !.cert = req[k].id.cert]
          /\ missed' = {c \in missed : c > req[k].id.cert}
          /\ \/ disk' = mem' /\ UNCHANGED <<trouble, faults>>
             \/ Fault /\ trouble' = trouble \union {"unsaved"} /\ UNCHANGED disk
     ELSE UNCHANGED <<mem, disk, missed, trouble, faults>>
  /\ pc' = "ready"
  /\ Hang(k)
  /\ UNCHANGED <<token, row, drifted, certs, banned, admitted, due>>

Poll(k) ==
  /\ pc = "ready" \/ (pc = "top" /\ mem.cert \notin due)
  /\ At(k, "free")
  /\ Send(k, [Free EXCEPT !.kind = "poll", !.stage = "auth", !.id = mem])
  /\ conn' = k /\ pc' = "polling"
  /\ UNCHANGED <<serverVars, mem, disk, due, trouble, faults>>

\* The poll ends without a command, with one that is not counted, or with one
\* that is: ApplyTransaction, RestoreSnapshot, Reload and Restart, if they succeed.
Polled(k) ==
  /\ Reply(k, "poll")
  /\ \/ UNCHANGED mem
     \/ req[k].ok /\ mem.rev < MaxRev /\ mem' = [mem EXCEPT !.rev = @ + 1]
  /\ pc' = IF req[k].ok /\ mem' # disk THEN "save" ELSE "top"
  /\ Hang(k)
  /\ UNCHANGED <<serverVars, disk, due, trouble, faults>>

SaveIdentity ==
  /\ pc = "save" /\ pc' = "top"
  /\ \/ disk' = mem /\ UNCHANGED <<trouble, faults>>
     \/ Fault /\ trouble' = trouble \union {"unsaved"} /\ UNCHANGED disk
  /\ UNCHANGED <<serverVars, req, mem, conn, due>>

Deserted == [k \in Conns |-> IF k = conn /\ At(k, "done") THEN Free ELSE req[k]]

\* The request fails or the client's 35 seconds are over.
GiveUp ==
  /\ conn # NoConn /\ Spend(1)
  /\ pc' = CASE pc = "enrolling" -> "stopped" [] pc = "rotating" -> "ready" [] OTHER -> "top"
  /\ conn' = NoConn /\ req' = Deserted
  /\ UNCHANGED <<serverVars, trouble, mem, disk, due>>

Crash ==
  /\ pc # "down" /\ Fault
  /\ pc' = "down" /\ conn' = NoConn /\ req' = Deserted
  /\ mem' = Nobody
  /\ UNCHANGED <<serverVars, disk, due, trouble>>

\* The operator restarts an agent whose remote loop has ended.
RestartStopped ==
  /\ pc = "stopped" /\ pc' = "down"
  /\ UNCHANGED <<serverVars, req, mem, disk, conn, due, trouble, faults>>

\* ... and may take the identity file away, so that it enrolls again.
RemoveIdentity ==
  /\ pc = "down" /\ disk.cred # 0
  /\ disk' = Nobody
  /\ UNCHANGED <<serverVars, req, pc, mem, conn, due, trouble, faults>>

(***************************************************************************)
(* The environment.                                                        *)
(***************************************************************************)
CertificateAges ==
  /\ mem.cert \notin due /\ mem.cert # 0
  /\ due' = due \union {mem.cert}
  /\ UNCHANGED <<serverVars, req, pc, mem, disk, conn, trouble, faults>>

Admin == RevokeAgent \/ CreateEnrollmentToken \/ \E t \in DOMAIN token : TokenExpires(t)
Handlers(k) ==
  \/ Enroll(k) \/ Certify(k) \/ Authenticate(k) \/ CertificateMatches(k) \/ Retire(k)
  \/ ReadPrevious(k) \/ UpdateState(k) \/ Notify(k)
  \/ ReadCurrent(k) \/ RotateAgentCertificate(k)
AgentLoop ==
  \/ SaveIdentity \/ Resume
  \/ \E k \in Conns : Enrolled(k) \/ Rotate(k) \/ Rotated(k) \/ Poll(k) \/ Polled(k)
Trouble == GiveUp \/ Crash \/ \E k \in Conns : HandlerFails(k) \/ RetireFails(k)

Next ==
  \/ Admin \/ AgentLoop \/ Trouble \/ RestartStopped \/ RemoveIdentity
  \/ CertificateAges
  \/ \E k \in Conns : Handlers(k) \/ \E t \in DOMAIN token : Enrolling(k, t)

Spec == Init /\ [][Next]_vars

(***************************************************************************)
(* Properties.                                                             *)
(***************************************************************************)
Running    == pc \in {"top", "rotating", "ready", "polling", "save"}
Admissible == row.cred = mem.cred /\ Known(mem.cert)

\* A token admits one enrollment, however often its request is repeated and
\* whatever the handlers of earlier attempts are still doing (fleet.go:92-121).
TokenAdmitsOne == \A t \in DOMAIN token : admitted[t] <= 1

\* An agent is not locked out by a rotation: as long as at most one answer
\* was lost since the one that gave it its certificate, that certificate is one
\* of those stored.  Not survived are a handler that writes a row which changed
\* since it read it, and an identity file that could not be written.
NotLockedOut ==
  Running /\ ~banned /\ trouble \intersect {"overwrite", "unsaved"} = {} /\ Cardinality(missed) <= 1
    => Admissible

\* No request that begins after a revocation is served, although polls and
\* rotations in flight set the row ONLINE and write fingerprints into it
\* again: only a new enrollment lets the agent back in (fleet.go:149-197).
RevokedStaysOut == \A k \in Conns : req[k].after => req[k].stage \in {"free", "match", "done"}

\* The server serves those it admitted, once for each token, and no longer than
\* they are admitted.
OnlyTheAdmitted == TypeOK /\ TokenAdmitsOne /\ RevokedStaysOut

\* Refuted by TLC (see README).
\* api/fleet.go:99: "Firewall state changed outside a FYRwall policy operation":
\* nothing here changes the firewall but operations that the revision counts.
NoFalseDrift == ~ drifted

\* README.md:88: "mTLS client certificates with automatic rotation": a lost answer is
\* retried and never costs the agent its access.
RotationIsSafe ==
  Running /\ pc # "rotating" /\ ~banned /\ trouble \intersect {"overwrite", "unsaved"} = {} => Admissible
=============================================================================
