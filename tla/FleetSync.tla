------------------------------ MODULE FleetSync ------------------------------
(***************************************************************************)
(* Durable command delivery to one remote agent: the agent_commands table  *)
(* and the poll and result handlers of the server (database/fleet.go,      *)
(* api/fleet.go) against the loop of the agent (agent/sync.go), over HTTP  *)
(* requests that may be lost, abandoned by the client while the handler    *)
(* still runs, or answered late, with an agent that may crash at any step  *)
(* and whose identity file may fail to be written.                         *)
(*                                                                         *)
(* Abstracted: what a command does (only whether it succeeded), the state  *)
(* report (only its sequence number; its hash and revision are             *)
(* AgentLifecycle's), authentication, and the back-off delays.             *)
(***************************************************************************)
EXTENDS Naturals

CONSTANTS
  Commands,     \* ids of the commands queued for this agent
  NoCommand,    \* no pending result
  Conns,        \* HTTP requests that can be open at once
  NoConn,       \* the agent is waiting for no request
  Oversize,     \* commands whose result exceeds bodyLimit (1 MiB)
  MaxSeq,       \* bound: the sequence number saturates here
  MaxStamp,     \* bound: values of created_at told apart
  MaxFaults,    \* bound: abandoned requests and failed identity writes
  MaxCrashes    \* bound: crashes of the agent

ASSUME SyncAssumption ==
  /\ NoCommand \notin Commands
  /\ NoConn \notin Conns
  /\ Oversize \subseteq Commands
  /\ MaxSeq \in Nat
  /\ MaxStamp \in Nat
  /\ MaxFaults \in Nat
  /\ MaxCrashes \in Nat

VARIABLES
  \* server: rows of agent_commands, and agents.sequence
  state,        \* agent_commands.state, "ABSENT" before the INSERT
  stamp,        \* agent_commands.created_at, as its text sorts
  overdue,      \* DELIVERED more than two minutes ago
  srvSeq,       \* agents.sequence
  \* network and handlers: every open HTTP request of this agent
  req,
  \* agent: the loop of RunRemoteSync
  pc,           \* where the loop stands, "down" when not running
  mem,          \* its identity: sequence and pending result
  disk,         \* the identity file
  cur,          \* the command received and not yet dispatched
  conn,         \* the request the loop is waiting for
  \* history, read by properties only
  rows,         \* how many commands were ever queued
  place,        \* which of them in the order of the INSERTs a command is
  execs,        \* how often each command was dispatched
  forgot,       \* dispatches of which a crash erased every trace
  produced,     \* outcomes the dispatches had
  strayed,      \* commands handed out by NextCommand to nobody
  faults,
  crashes

serverVars  == <<state, stamp, overdue, srvSeq>>
placeVars   == <<rows, place>>
agentVars   == <<pc, mem, disk, cur, conn>>
historyVars == <<execs, forgot, produced, strayed>>
budgetVars  == <<faults, crashes>>
vars == <<serverVars, req, agentVars, placeVars, historyVars, budgetVars>>

Terminal  == {"COMPLETED", "FAILED"}
CmdStates == {"ABSENT", "QUEUED", "DELIVERED"} \union Terminal
Result    == [cmd : Commands \union {NoCommand}, out : Terminal]
NoResult  == [cmd |-> NoCommand, out |-> "COMPLETED"]
Identity  == [seq : 0..MaxSeq, pending : Result]
Request   == [kind : {"free", "poll", "look", "idle", "result"},
              seq  : 0..MaxSeq, res : Result]
Free      == [kind |-> "free", seq |-> 0, res |-> NoResult]

Min2(a, b) == IF a < b THEN a ELSE b

TypeOK ==
  /\ state \in [Commands -> CmdStates]
  /\ stamp \in [Commands -> 0..MaxStamp]
  /\ overdue \subseteq Commands
  /\ srvSeq \in 0..MaxSeq
  /\ req \in [Conns -> Request]
  /\ pc \in {"down", "top", "polling", "posting", "exec", "save"}
  /\ mem \in Identity /\ disk \in Identity
  /\ cur \in Commands \union {NoCommand} /\ (pc = "exec" => cur \in Commands)
  /\ conn \in Conns \union {NoConn}
  /\ rows \in Nat
  /\ place \in [Commands -> Nat]
  /\ execs \in [Commands -> Nat]
  /\ forgot \in [Commands -> Nat]
  /\ produced \in [Commands -> SUBSET Terminal]
  /\ strayed \subseteq Commands
  /\ faults \in 0..MaxFaults
  /\ crashes \in 0..MaxCrashes

\* An enrolled agent that has never polled, and an empty command table.
Init ==
  /\ state = [c \in Commands |-> "ABSENT"]
  /\ stamp = [c \in Commands |-> 0]
  /\ overdue = {}
  /\ srvSeq = 0
  /\ req = [k \in Conns |-> Free]
  /\ pc = "top"
  /\ mem = [seq |-> 0, pending |-> NoResult]
  /\ disk = [seq |-> 0, pending |-> NoResult]
  /\ cur = NoCommand
  /\ conn = NoConn
  /\ rows = 0
  /\ place = [c \in Commands |-> 0]
  /\ execs = [c \in Commands |-> 0]
  /\ forgot = [c \in Commands |-> 0]
  /\ produced = [c \in Commands |-> {}]
  /\ strayed = {}
  /\ faults = 0
  /\ crashes = 0

Fault == faults < MaxFaults /\ faults' = faults + 1

(***************************************************************************)
(* Server.                                                                 *)
(***************************************************************************)

\* An administrator queues a command.  created_at is the clock's reading as
\* RFC3339Nano text, which drops trailing zeros: "...0.1Z" sorts after
\* "...0.12Z", and the clock itself may be set back.  So the text of a later
\* command may sort before, with or after that of an earlier one.
QueueCommand(c) ==
  /\ state[c] = "ABSENT"
  /\ state' = [state EXCEPT ![c] = "QUEUED"]
  /\ \E t \in 0..MaxStamp : stamp' = [stamp EXCEPT ![c] = t]
  /\ rows' = rows + 1
  /\ place' = [place EXCEPT ![c] = rows']
  /\ UNCHANGED <<overdue, srvSeq, req, agentVars, historyVars, budgetVars>>

\* The poll handler records the reported state: UPDATE ... WHERE sequence<=?.
UpdateState(k) ==
  /\ req[k].kind = "poll"
  /\ srvSeq <= req[k].seq
  /\ srvSeq' = req[k].seq
  /\ req' = [req EXCEPT ![k].kind = "look"]
  /\ UNCHANGED <<placeVars, state, stamp, overdue, agentVars, historyVars, budgetVars>>

\* ... or answers 409 to a stale sequence; the loop goes round again.
RejectStale(k) ==
  /\ req[k].kind = "poll"
  /\ srvSeq > req[k].seq
  /\ req' = [req EXCEPT ![k] = Free]
  /\ pc'   = IF k = conn THEN "top" ELSE pc
  /\ conn' = IF k = conn THEN NoConn ELSE conn
  /\ UNCHANGED <<placeVars, serverVars, mem, disk, cur, historyVars, budgetVars>>

\* Mutant: nothing delivered is ever requeued.
OnlyQueued == {c \in Commands : state[c] = "QUEUED"}

Candidates == {c \in Commands : state[c] = "QUEUED"} \union overdue

\* Mutant: the order of the query reversed.
Newest(c) == \A d \in Candidates : stamp[d] <= stamp[c]

Oldest(c) == \A d \in Candidates : stamp[c] <= stamp[d]

\* Mutant: a command counts as done once it is handed out.
HandedForGood(c) ==
  [d \in Commands |-> IF d = c THEN "COMPLETED"
                      ELSE IF d \in overdue THEN "QUEUED" ELSE state[d]]

Handed(c) ==
  [d \in Commands |-> IF d = c THEN "DELIVERED"
                      ELSE IF d \in overdue THEN "QUEUED" ELSE state[d]]

\* One transaction: requeue what was delivered over two minutes ago, take the
\* oldest QUEUED row and mark it DELIVERED.  The answer reaches the loop only
\* if the loop still waits for this request.
NextCommand(k) ==
  /\ req[k].kind \in {"look", "idle"}
  /\ \E c \in Candidates :
       /\ Oldest(c)
       /\ state' = Handed(c)
       /\ cur'     = IF k = conn THEN c ELSE cur
       /\ strayed' = IF k = conn THEN strayed ELSE strayed \union {c}
  /\ overdue' = {}
  /\ req'  = [req EXCEPT ![k] = Free]
  /\ pc'   = IF k = conn THEN "exec" ELSE pc
  /\ conn' = IF k = conn THEN NoConn ELSE conn
  /\ UNCHANGED <<placeVars, stamp, srvSeq, mem, disk, execs, forgot, produced, budgetVars>>

NothingQueued(k) ==
  /\ req[k].kind = "look"
  /\ Candidates = {}
  /\ req' = [req EXCEPT ![k].kind = "idle"]
  /\ UNCHANGED <<placeVars, serverVars, agentVars, historyVars, budgetVars>>

\* Twenty seconds without a command: 204, and the loop saves its identity
\* (the error of the write is ignored).
Deadline(k) ==
  /\ req[k].kind = "idle"
  /\ req' = [req EXCEPT ![k] = Free]
  /\ IF k = conn
     THEN /\ pc' = "top" /\ conn' = NoConn
          /\ \/ disk' = mem /\ UNCHANGED faults
             \/ Fault /\ UNCHANGED disk
     ELSE UNCHANGED <<pc, conn, disk, faults>>
  /\ UNCHANGED <<placeVars, serverVars, mem, cur, historyVars, crashes>>

\* The request context of a client that is gone ends its handler, or the
\* abandoned request never arrived.
ClientGone(k) ==
  /\ k # conn
  /\ req[k].kind # "free"
  /\ req' = [req EXCEPT ![k] = Free]
  /\ UNCHANGED <<placeVars, serverVars, agentVars, historyVars, budgetVars>>

\* Mutant: a result that comes after the two minutes is refused.
AcceptsInTime(r) == r.cmd \notin Oversize \union overdue

\* What bodyLimit and the decoder let through to the result handler.
Accepts(r) == r.cmd \notin Oversize

\* The result handler: an unconditional UPDATE of the row.  On 200 the loop
\* clears its pending result and saves (the error is ignored).
CompleteCommand(k) ==
  LET r == req[k].res IN
  /\ req[k].kind = "result"
  /\ Accepts(r)
  /\ state' = [state EXCEPT ![r.cmd] = r.out]
  /\ overdue' = overdue \ {r.cmd}
  /\ req' = [req EXCEPT ![k] = Free]
  /\ IF k = conn
     THEN /\ pc' = "top" /\ conn' = NoConn
          /\ mem' = [mem EXCEPT !.pending = NoResult]
          /\ \/ disk' = mem' /\ UNCHANGED faults
             \/ Fault /\ UNCHANGED disk
     ELSE UNCHANGED <<pc, conn, mem, disk, faults>>
  /\ UNCHANGED <<placeVars, stamp, srvSeq, cur, historyVars, crashes>>

\* Mutant: the loop drops a result the server refuses.
DropRefused(k) ==
  /\ req[k].kind = "result"
  /\ ~Accepts(req[k].res)
  /\ req' = [req EXCEPT ![k] = Free]
  /\ pc'   = IF k = conn THEN "top" ELSE pc
  /\ conn' = IF k = conn THEN NoConn ELSE conn
  /\ mem'  = IF k = conn THEN [mem EXCEPT !.pending = NoResult] ELSE mem
  /\ UNCHANGED <<placeVars, serverVars, disk, cur, historyVars, budgetVars>>

\* A body over the limit is refused with 400, every time it is sent.
RejectResult(k) ==
  /\ req[k].kind = "result"
  /\ ~Accepts(req[k].res)
  /\ req' = [req EXCEPT ![k] = Free]
  /\ pc'   = IF k = conn THEN "top" ELSE pc
  /\ conn' = IF k = conn THEN NoConn ELSE conn
  /\ UNCHANGED <<placeVars, serverVars, mem, disk, cur, historyVars, budgetVars>>

\* Mutant: the requeue forgets to look at the state.
AnyOverdue(c) ==
  /\ state[c] \notin {"ABSENT", "QUEUED"}
  /\ c \notin overdue
  /\ overdue' = overdue \union {c}
  /\ UNCHANGED <<placeVars, state, stamp, srvSeq, req, agentVars, historyVars, budgetVars>>

\* delivered_at of a row falls behind now - 2 minutes.
BecomeOverdue(c) ==
  /\ state[c] = "DELIVERED"
  /\ c \notin overdue
  /\ overdue' = overdue \union {c}
  /\ UNCHANGED <<placeVars, state, stamp, srvSeq, req, agentVars, historyVars, budgetVars>>

(***************************************************************************)
(* Agent.                                                                  *)
(***************************************************************************)

\* Mutant: the state reported is not the one of the run.
PostSuccess(k) ==
  /\ pc = "top"
  /\ mem.pending # NoResult
  /\ req[k].kind = "free"
  /\ req' = [req EXCEPT ![k] = [kind |-> "result", seq |-> 0,
                                res |-> [mem.pending EXCEPT !.out = "COMPLETED"]]]
  /\ pc' = "posting" /\ conn' = k
  /\ UNCHANGED <<placeVars, serverVars, mem, disk, cur, historyVars, budgetVars>>

\* Head of the loop: a pending result goes first ...
PostResult(k) ==
  /\ pc = "top"
  /\ mem.pending # NoResult
  /\ req[k].kind = "free"
  /\ req' = [req EXCEPT ![k] = [kind |-> "result", seq |-> 0, res |-> mem.pending]]
  /\ pc' = "posting" /\ conn' = k
  /\ UNCHANGED <<placeVars, serverVars, mem, disk, cur, historyVars, budgetVars>>

\* Mutant: the loop asks for work whatever result it still holds.
PollAnyway(k) ==
  LET seq == Min2(mem.seq + 1, MaxSeq) IN
  /\ pc = "top"
  /\ req[k].kind = "free"
  /\ mem' = [mem EXCEPT !.seq = seq]
  /\ req' = [req EXCEPT ![k] = [kind |-> "poll", seq |-> seq, res |-> NoResult]]
  /\ pc' = "polling" /\ conn' = k
  /\ UNCHANGED <<placeVars, serverVars, disk, cur, historyVars, budgetVars>>

\* ... and only without one does the agent ask for work.  The increment is in
\* memory: it reaches the disk with the next save.
Poll(k) ==
  LET seq == Min2(mem.seq + 1, MaxSeq) IN
  /\ pc = "top"
  /\ mem.pending = NoResult
  /\ req[k].kind = "free"
  /\ mem' = [mem EXCEPT !.seq = seq]
  /\ req' = [req EXCEPT ![k] = [kind |-> "poll", seq |-> seq, res |-> NoResult]]
  /\ pc' = "polling" /\ conn' = k
  /\ UNCHANGED <<placeVars, serverVars, disk, cur, historyVars, budgetVars>>

\* Timeout, reset connection, lost or undecodable answer: the loop goes on
\* while the request, or its handler, may live on.
GiveUp ==
  /\ pc \in {"polling", "posting"}
  /\ Fault
  /\ pc' = "top" /\ conn' = NoConn
  /\ UNCHANGED <<placeVars, serverVars, req, mem, disk, cur, historyVars, crashes>>

\* dispatch returns and the result becomes the pending one, in memory.
Dispatch ==
  /\ pc = "exec"
  /\ \E o \in Terminal :
       /\ mem' = [mem EXCEPT !.pending = [cmd |-> cur, out |-> o]]
       /\ produced' = [produced EXCEPT ![cur] = @ \union {o}]
  /\ execs' = [execs EXCEPT ![cur] = @ + 1]
  /\ cur' = NoCommand
  /\ pc' = "save"
  /\ UNCHANGED <<placeVars, serverVars, req, disk, conn, forgot, strayed, budgetVars>>

\* saveRemoteIdentity: write aside, then rename; its error is ignored.
SaveResult ==
  /\ pc = "save"
  /\ pc' = "top"
  /\ \/ disk' = mem /\ UNCHANGED faults
     \/ Fault /\ UNCHANGED disk
  /\ UNCHANGED <<placeVars, serverVars, req, mem, cur, conn, historyVars, crashes>>

\* The process dies.  While it is down, mem holds what the next start loads.
Crash ==
  LET c == mem.pending.cmd IN
  /\ pc # "down"
  /\ crashes < MaxCrashes /\ crashes' = crashes + 1
  /\ pc' = "down" /\ conn' = NoConn /\ cur' = NoCommand
  /\ mem' = disk
  /\ forgot' = IF c # NoCommand /\ disk.pending # mem.pending /\ state[c] \notin Terminal
               THEN [forgot EXCEPT ![c] = @ + 1] ELSE forgot
  /\ strayed' = IF pc = "exec" THEN strayed \union {cur} ELSE strayed
  /\ UNCHANGED <<placeVars, serverVars, req, disk, execs, produced, faults>>

\* Mutant: a new process goes on where the old one stood.
RestartInside ==
  /\ pc = "down"
  /\ pc' = "exec"
  /\ UNCHANGED <<placeVars, serverVars, req, mem, disk, cur, conn, historyVars, budgetVars>>

Restart ==
  /\ pc = "down"
  /\ pc' = "top"
  /\ UNCHANGED <<placeVars, serverVars, req, mem, disk, cur, conn, historyVars, budgetVars>>

(***************************************************************************)
(* Specification.                                                          *)
(***************************************************************************)

Handlers == \E k \in Conns :
  \/ UpdateState(k) \/ RejectStale(k) \/ NextCommand(k) \/ NothingQueued(k)
  \/ Deadline(k) \/ ClientGone(k) \/ CompleteCommand(k) \/ RejectResult(k)

AgentLoop ==
  \/ \E k \in Conns : PostResult(k) \/ Poll(k)
  \/ Dispatch \/ SaveResult \/ Restart

Next ==
  \/ \E c \in Commands : QueueCommand(c) \/ BecomeOverdue(c)
  \/ Handlers
  \/ AgentLoop
  \/ GiveUp \/ Crash

Spec == Init /\ [][Next]_vars

(***************************************************************************)
(* Fairness.  The handlers and the loop are goroutines that the Go runtime *)
(* schedules and that wait only for timers or for each other; a supervisor *)
(* (systemd, Restart=) starts a dead agent again; time passes.  Nothing is *)
(* assumed of administrators, of the network or of crashes, whose budgets  *)
(* are finite.                                                             *)
(***************************************************************************)
Fairness ==
  /\ \A k \in Conns :
       /\ WF_vars(UpdateState(k) \/ RejectStale(k))
       /\ WF_vars(NextCommand(k) \/ NothingQueued(k) \/ Deadline(k))
       /\ WF_vars(CompleteCommand(k) \/ RejectResult(k))
       /\ WF_vars(ClientGone(k))
  /\ WF_vars(AgentLoop)
  /\ \A c \in Commands : WF_vars(BecomeOverdue(c))

FairSpec == Spec /\ Fairness

(***************************************************************************)
(* Properties.                                                             *)
(***************************************************************************)

\* A firewall command is never dispatched a second time while the agent, or
\* the server, still knows of an earlier dispatch: however often requests are
\* abandoned, retried, requeued after two minutes or answered late, only a
\* crash that erased the unsaved result (and is counted by forgot) lets the
\* command run again.
RunsOncePerLapse == \A c \in Commands : execs[c] <= forgot[c] + 1

\* The outcome an administrator reads in agent_commands is the outcome of a
\* run that took place on the target, never one made up by a retry.
OutcomeWasProduced ==
  \A c \in Commands : state[c] \in Terminal => state[c] \in produced[c]

\* A run whose outcome the server does not know yet is remembered: its result
\* is the loop's pending one, in memory or in the file the next start loads.
ResultIsHeld ==
  \A c \in Commands :
    execs[c] > forgot[c] /\ state[c] \notin Terminal => mem.pending.cmd = c

\* A completed command is never requeued, and no late or repeated result
\* request turns its outcome round, unless a crash had erased one of its runs.
OutcomeIsFinal ==
  [][\A c \in Commands :
       state[c] \in Terminal /\ forgot[c] = 0 => state'[c] = state[c]]_vars

\* A command that comes after another, in the order of the INSERTs and in that
\* of created_at, overtakes it only if NextCommand had handed the other one to
\* a request nobody was waiting for any more, or the agent died holding it.
RunsInOrder ==
  [][\A c, d \in Commands :
       /\ execs'[c] > execs[c]
       /\ state[d] # "ABSENT" /\ place[d] < place[c] /\ stamp[d] < stamp[c]
       => execs[d] > 0 \/ d \in strayed]_vars

\* Not so: "commands run in the order in which they were queued".
RunsAsQueued ==
  [][\A c, d \in Commands :
       execs'[c] > execs[c] /\ state[d] # "ABSENT" /\ place[d] < place[c]
         => execs[d] > 0 \/ d \in strayed]_vars

\* The agent holds a result that the server will never take.
Stuck == mem.pending.cmd \in Oversize

\* The service itself: every queued command whose result fits a request is
\* resolved, whatever finite number of requests is abandoned and of crashes
\* the agent suffers, unless the agent gets stuck for ever with the oversize
\* result of another command.
EveryCommandResolved ==
  \A c \in Commands \ Oversize :
    state[c] = "QUEUED" ~> (state[c] \in Terminal \/ []Stuck)

\* A result the agent holds that fits a request is delivered, or the crash
\* that erased it happened.
PendingIsDelivered ==
  \A c \in Commands \ Oversize :
    (mem.pending.cmd = c) ~> (state[c] \in Terminal \/ forgot[c] > 0)

(***************************************************************************)
(* The promise, and the mapping that shows FleetSync keeps it.             *)
(***************************************************************************)
LedgerStatus ==
  [c \in Commands |-> IF state[c] \in {"QUEUED", "DELIVERED"} THEN "OPEN" ELSE state[c]]

Ledger == INSTANCE CommandLedger
            WITH status <- LedgerStatus, runs <- execs, lapses <- forgot

\* Every behaviour of server, network and agent is one of the ledger's.
KeepsLedger == Ledger!LedgerSpec

=============================================================================
