----------------------------- MODULE FleetRollout -----------------------------
(***************************************************************************)
(* A staged rollout of one operation to a group of agents (CreateRollout,  *)
(* queueRolloutBatch, advanceRollout and CompleteCommand of                *)
(* database/fleet.go).  Every SQL statement is atomic, nothing else is:    *)
(* the handlers of different agents' results, and of one result posted     *)
(* again, interleave between any two statements, and the server may stop.  *)
(*                                                                         *)
(* Abstracted: the delivery of a command to its agent (FleetSync), of      *)
(* which only this is left: a queued command is run once, and its result   *)
(* is posted until an answer is seen.  One rollout; a target is its        *)
(* ordinal, a command the position of its INSERT.                          *)
(***************************************************************************)
EXTENDS Naturals, Sequences, FiniteSets

CONSTANTS
  N,            \* agents of the group
  Handlers,     \* HTTP handlers that can run at once
  BatchSizes,   \* batch sizes an administrator may ask for
  Failures,     \* failure budgets an administrator may ask for
  MaxTroubles   \* bound: stops of the server, failing SQL statements, posts given up

ASSUME RolloutAssumption ==
  /\ N \in Nat \ {0}
  /\ BatchSizes \subseteq Nat /\ Failures \subseteq Nat
  /\ MaxTroubles \in Nat

VARIABLES
  \* fleet_rollouts
  rollout,      \* state, "ABSENT" before the INSERT
  batch,        \* batch_size
  maxFail,      \* max_failures
  counts,       \* completed_targets and failed_targets
  \* fleet_rollout_targets
  target,       \* state
  link,         \* command_id, 0 for NULL
  \* agent_commands and the agents
  owner,        \* the agent of each command, in the order of the INSERTs
  outcome,      \* what the run of each command gave, "none" before it
  acked,        \* commands whose result the agent saw accepted
  \* server
  frame,        \* what each handler is doing
  \* history, read by properties only
  overlapped,   \* two handlers of the rollout ran at the same time
  orphaned,     \* the handler that created the rollout did not finish
  crashes, faults, givenUp

table  == <<rollout, batch, maxFail, counts>>
agents == <<owner, outcome, acked>>
budget == <<crashes, faults, givenUp>>
vars   == <<table, target, link, agents, frame, overlapped, orphaned, budget>>

Targets   == 1..N
Ended     == {"COMPLETED", "FAILED"}
Tally     == [active : 0..N, pending : 0..N, done : 0..N, failed : 0..N]
Untold    == [active |-> 0, pending |-> 0, done |-> 0, failed |-> 0]
Points    == {"idle", "lookup", "mark", "sum", "settle", "batch", "pick", "queue", "link"}
Frame     == [pc : Points, cmd : Nat, out : Ended, awaited : BOOLEAN, seen : Tally,
              todo : SUBSET Targets, new : Nat]
Idle      == [pc |-> "idle", cmd |-> 0, out |-> "COMPLETED", awaited |-> FALSE, seen |-> Untold,
              todo |-> {}, new |-> 0]
Commands  == DOMAIN owner

TypeOK ==
  /\ rollout \in {"ABSENT", "RUNNING"} \union Ended
  /\ batch \in 0..N /\ maxFail \in Nat
  /\ counts \in [done : 0..N, failed : 0..N]
  /\ target \in [Targets -> {"PENDING", "ACTIVE"} \union Ended]
  /\ link \in [Targets -> {0} \union Commands]
  /\ owner \in Seq(Targets)
  /\ outcome \in [Commands -> {"none"} \union Ended]
  /\ acked \subseteq Commands
  /\ frame \in [Handlers -> Frame]
  /\ \A h \in Handlers :
       /\ frame[h].cmd \in {0} \union Commands /\ frame[h].new \in {0} \union Commands
       /\ frame[h].pc \in {"queue", "link"} => frame[h].todo # {}
  /\ overlapped \in BOOLEAN /\ orphaned \in BOOLEAN
  /\ crashes \in Nat /\ faults \in Nat /\ givenUp \in Nat
  /\ crashes + faults + givenUp <= MaxTroubles

Init ==
  /\ rollout = "ABSENT" /\ batch = 0 /\ maxFail = 0
  /\ counts = [done |-> 0, failed |-> 0]
  /\ target = [t \in Targets |-> "PENDING"]
  /\ link = [t \in Targets |-> 0]
  /\ owner = <<>> /\ outcome = <<>> /\ acked = {}
  /\ frame = [h \in Handlers |-> Idle]
  /\ overlapped = FALSE /\ orphaned = FALSE
  /\ crashes = 0 /\ faults = 0 /\ givenUp = 0

Trouble == crashes + faults + givenUp < MaxTroubles

GoTo(h, at) == frame' = [frame EXCEPT ![h].pc = at]

\* The handler answers, which its agent sees if it still waits.
Finish(h) ==
  /\ frame' = [frame EXCEPT ![h] = Idle]
  /\ acked' = IF frame[h].awaited THEN acked \union {frame[h].cmd} ELSE acked

Alone(h) == \A g \in Handlers : g # h => frame[g].pc = "idle"

(***************************************************************************)
(* CreateRollout: one transaction inserts the rollout and its targets, and *)
(* the same handler goes on to queue the first batch.                      *)
(***************************************************************************)
CreateRollout(h) ==
  /\ rollout = "ABSENT" /\ frame[h].pc = "idle"
  /\ rollout' = "RUNNING"
  /\ \E b \in BatchSizes : batch' = IF b < 1 THEN 1 ELSE IF b > N THEN N ELSE b
  /\ maxFail' \in Failures
  /\ GoTo(h, "batch")
  /\ UNCHANGED <<counts, target, link, agents, overlapped, orphaned, budget>>

(***************************************************************************)
(* queueRolloutBatch.                                                      *)
(***************************************************************************)
SelectRollout(h) ==
  /\ frame[h].pc = "batch"
  /\ IF rollout = "RUNNING"
     THEN GoTo(h, "pick") /\ UNCHANGED acked
     ELSE Finish(h)
  /\ UNCHANGED <<table, target, link, owner, outcome, overlapped, orphaned, budget>>

Pending == {t \in Targets : target[t] = "PENDING"}

\* Mutant: LIMIT is off by one.
OneMorePending(n) == {t \in Pending : Cardinality({u \in Pending : u < t}) <= n}

\* The first n of the pending targets, by ordinal.
FirstPending(n) == {t \in Pending : Cardinality({u \in Pending : u < t}) < n}

\* Mutant: an empty batch is queued like any other.
PickAlways(h) ==
  /\ frame[h].pc = "pick"
  /\ frame' = [frame EXCEPT ![h].pc = "queue", ![h].todo = FirstPending(batch)]
  /\ UNCHANGED <<table, target, link, agents, overlapped, orphaned, budget>>

PickBatch(h) ==
  /\ frame[h].pc = "pick"
  /\ IF Pending = {}
     THEN Finish(h)
     ELSE /\ frame' = [frame EXCEPT ![h].pc = "queue", ![h].todo = FirstPending(batch)]
          /\ UNCHANGED acked
  /\ UNCHANGED <<table, target, link, owner, outcome, overlapped, orphaned, budget>>

\* The rows of the batch are worked through by ordinal.
NextOf(h) == CHOOSE t \in frame[h].todo : \A u \in frame[h].todo : t <= u

\* The command of the next target exists, and its agent may run it at once ...
QueueCommand(h) ==
  /\ frame[h].pc = "queue"
  /\ owner' = Append(owner, NextOf(h))
  /\ outcome' = Append(outcome, "none")
  /\ frame' = [frame EXCEPT ![h].pc = "link", ![h].new = Len(owner) + 1]
  /\ UNCHANGED <<table, target, link, acked, overlapped, orphaned, budget>>

\* ... before the row of the target points to it.
LinkTarget(h) ==
  LET t == NextOf(h) IN
  /\ frame[h].pc = "link"
  /\ link' = [link EXCEPT ![t] = frame[h].new]
  /\ target' = [target EXCEPT ![t] = "ACTIVE"]
  /\ IF frame[h].todo = {t}
     THEN Finish(h)
     ELSE /\ frame' = [frame EXCEPT ![h].pc = "queue", ![h].todo = @ \ {t}, ![h].new = 0]
          /\ UNCHANGED acked
  /\ UNCHANGED <<table, owner, outcome, overlapped, orphaned, budget>>

(***************************************************************************)
(* The agent runs the command and posts its result until it sees an        *)
(* answer.  CompleteCommand: the command's row is updated, which decides   *)
(* nothing here, then advanceRollout starts.                               *)
(***************************************************************************)
CompleteCommand(h, c) ==
  /\ frame[h].pc = "idle"
  /\ c \in Commands \ acked
  /\ \A g \in Handlers : ~(frame[g].awaited /\ frame[g].cmd = c)
  /\ \E o \in IF outcome[c] = "none" THEN Ended ELSE {outcome[c]} :
       /\ outcome' = [outcome EXCEPT ![c] = o]
       /\ frame' = [frame EXCEPT ![h].pc = "lookup", ![h].cmd = c, ![h].out = o,
                             ![h].awaited = TRUE]
  /\ overlapped' = (overlapped \/ ~Alone(h))
  /\ UNCHANGED <<table, target, link, owner, acked, orphaned, budget>>

(***************************************************************************)
(* advanceRollout.                                                         *)
(***************************************************************************)
Linked(c) == {t \in Targets : link[t] = c}

\* Mutant: a result posted again is taken for done.
LookupNew(h) ==
  /\ frame[h].pc = "lookup"
  /\ IF \A t \in Linked(frame[h].cmd) : target[t] \in Ended
     THEN Finish(h)
     ELSE GoTo(h, "mark") /\ UNCHANGED acked
  /\ UNCHANGED <<table, target, link, owner, outcome, overlapped, orphaned, budget>>

LookupRollout(h) ==
  /\ frame[h].pc = "lookup"
  /\ IF Linked(frame[h].cmd) = {}
     THEN Finish(h)
     ELSE GoTo(h, "mark") /\ UNCHANGED acked
  /\ UNCHANGED <<table, target, link, owner, outcome, overlapped, orphaned, budget>>

MarkTarget(h) ==
  /\ frame[h].pc = "mark"
  /\ target' = [t \in Targets |->
                  IF t \in Linked(frame[h].cmd) THEN frame[h].out ELSE target[t]]
  /\ GoTo(h, "sum")
  /\ UNCHANGED <<table, link, agents, overlapped, orphaned, budget>>

HowMany(s) == Cardinality({t \in Targets : target[t] = s})

\* The sums, with the limit of failures, which never changes.
SumTargets(h) ==
  /\ frame[h].pc = "sum"
  /\ frame' = [frame EXCEPT ![h].pc = "settle",
                 ![h].seen = [active |-> HowMany("ACTIVE"), pending |-> HowMany("PENDING"),
                              done |-> HowMany("COMPLETED"), failed |-> HowMany("FAILED")]]
  /\ UNCHANGED <<table, target, link, agents, overlapped, orphaned, budget>>

\* Mutant: the targets still at work are forgotten.
VerdictEarly(seen) ==
  IF seen.failed > maxFail THEN "FAILED"
  ELSE IF seen.pending = 0 THEN "COMPLETED" ELSE "RUNNING"

\* Whether to fail, to complete or to go on is decided by the sums as read.
Verdict(seen) ==
  IF seen.failed > maxFail THEN "FAILED"
  ELSE IF seen.active = 0 /\ seen.pending = 0 THEN "COMPLETED"
  ELSE "RUNNING"

Counted(seen) == [done |-> seen.done, failed |-> seen.failed]

\* Mutant: the end is written without the counts.
EndUncounted(h) ==
  /\ frame[h].pc = "settle" /\ Verdict(frame[h].seen) \in Ended
  /\ rollout' = Verdict(frame[h].seen)
  /\ Finish(h)
  /\ UNCHANGED <<batch, maxFail, counts, target, link, owner, outcome, overlapped, orphaned,
                 budget>>

\* Mutant: no return after the end.
EndAndGoOn(h) ==
  /\ frame[h].pc = "settle" /\ Verdict(frame[h].seen) \in Ended
  /\ rollout' = Verdict(frame[h].seen)
  /\ counts' = Counted(frame[h].seen)
  /\ GoTo(h, "pick")
  /\ UNCHANGED <<batch, maxFail, target, link, agents, overlapped, orphaned, budget>>

EndRollout(h) ==
  /\ frame[h].pc = "settle" /\ Verdict(frame[h].seen) \in Ended
  /\ rollout' = Verdict(frame[h].seen)
  /\ counts' = Counted(frame[h].seen)
  /\ Finish(h)
  /\ UNCHANGED <<batch, maxFail, target, link, owner, outcome, overlapped, orphaned,
                 budget>>

\* The counts are written, whatever the state is by now, and an error of that
\* is ignored; a batch with nothing left active is followed by the next one.
GoOn(h) ==
  /\ frame[h].pc = "settle" /\ Verdict(frame[h].seen) = "RUNNING"
  /\ \/ counts' = Counted(frame[h].seen) /\ UNCHANGED faults
     \/ UNCHANGED counts /\ Trouble /\ faults' = faults + 1
  /\ IF frame[h].seen.active = 0
     THEN /\ frame' = [frame EXCEPT ![h].pc = "batch", ![h].seen = Untold]
          /\ UNCHANGED acked
     ELSE Finish(h)
  /\ UNCHANGED <<rollout, batch, maxFail, target, link, owner, outcome, overlapped,
                 orphaned, crashes, givenUp>>

(***************************************************************************)
(* Failures.                                                               *)
(***************************************************************************)

\* A statement fails: the error ends advanceRollout, CompleteCommand drops it
\* and the agent is told that all is well.
StatementFails(h) ==
  /\ frame[h].pc # "idle"
  /\ frame[h].pc = "settle" => Verdict(frame[h].seen) \in Ended
  /\ Trouble /\ faults' = faults + 1
  /\ orphaned' = (orphaned \/ frame[h].cmd = 0)
  /\ Finish(h)
  /\ UNCHANGED <<table, target, link, owner, outcome, overlapped, crashes, givenUp>>

\* The server stops: every handler is gone between two of its statements.
Crash ==
  /\ Trouble /\ crashes' = crashes + 1
  /\ orphaned' = (orphaned \/ \E h \in Handlers : frame[h].pc # "idle" /\ frame[h].cmd = 0)
  /\ frame' = [h \in Handlers |-> Idle]
  /\ UNCHANGED <<table, target, link, agents, overlapped, faults, givenUp>>

\* The connection breaks or times out: the agent will post again, the handler
\* goes on and does not notice.
GiveUp(h) ==
  /\ frame[h].awaited
  /\ Trouble /\ givenUp' = givenUp + 1
  /\ frame' = [frame EXCEPT ![h].awaited = FALSE]
  /\ UNCHANGED <<table, target, link, agents, overlapped, orphaned, crashes, faults>>

Statement(h) ==
  \/ SelectRollout(h) \/ PickBatch(h) \/ QueueCommand(h) \/ LinkTarget(h)
  \/ LookupRollout(h) \/ MarkTarget(h) \/ SumTargets(h) \/ EndRollout(h) \/ GoOn(h)

Post == \E h \in Handlers, c \in 1..Len(owner) : CompleteCommand(h, c)

Next ==
  \/ \E h \in Handlers : CreateRollout(h) \/ Statement(h) \/ StatementFails(h) \/ GiveUp(h)
  \/ Post \/ Crash

Spec == Init /\ [][Next]_vars

\* Handlers are goroutines that wait for nothing but the database; an agent runs
\* what it is given and posts a result that was not accepted again (FleetSync).
Fairness ==
  /\ \A h \in Handlers : WF_vars(Statement(h))
  /\ WF_vars(Post)

FairSpec == Spec /\ Fairness

(***************************************************************************)
(* Properties.                                                             *)
(***************************************************************************)
Gave(t, o) == \E c \in Commands : owner[c] = t /\ outcome[c] = o

\* A rollout that says COMPLETED skipped no target and kept its failure budget,
\* counted by what really ran on the targets: whatever handlers overlapped, on
\* all but max_failures of them the operation succeeded.
CompletionIsHonest ==
  rollout = "COMPLETED" =>
    /\ \A t \in Targets : Gave(t, "COMPLETED") \/ Gave(t, "FAILED")
    /\ Cardinality({t \in Targets : ~Gave(t, "COMPLETED")}) <= maxFail

\* A rollout that says FAILED really failed on more than max_failures targets.
FailureIsHonest ==
  rollout = "FAILED" => Cardinality({t \in Targets : Gave(t, "FAILED")}) > maxFail

\* The end that a rollout shows is what happened on its targets.
VerdictIsHonest == CompletionIsHonest /\ FailureIsHonest

\* The group is worked through by ordinal: no target gets a command before every
\* earlier one has one.
InOrdinalOrder ==
  \A c \in Commands, t \in Targets : t < owner[c] => \E d \in Commands : owner[d] = t

\* As long as no two handlers overlapped, whatever crashes and posts again, no
\* more than batch_size targets are being changed.
WithinBatch == overlapped \/ HowMany("ACTIVE") <= batch

\* ... and without a crash or an error between two statements each target is
\* given the operation once.
OncePerTarget ==
  \/ overlapped \/ crashes > 0 \/ faults > 0
  \/ \A c, d \in Commands : owner[c] = owner[d] => c = d

\* Targets are worked through in order, in batches, once.
BatchesInOrder == InOrdinalOrder /\ WithinBatch /\ OncePerTarget

\* And once every result was accepted, the counts shown are the targets'.
CountsSettle ==
  \/ overlapped \/ faults > 0
  \/ \E h \in Handlers : frame[h].pc # "idle"
  \/ \E c \in Commands : outcome[c] # "none" /\ c \notin acked
  \/ counts = [done |-> HowMany("COMPLETED"), failed |-> HowMany("FAILED")]

\* ... and a rollout that has ended stays as it ended and starts nothing more.
EndIsFinal ==
  [][~overlapped' /\ rollout \in Ended => rollout' = rollout /\ owner' = owner]_vars

\* Every rollout ends: the retry of the results that were not accepted carries
\* it over a stop of the server, unless that hit the handler that created it.
RolloutEnds ==
  rollout = "RUNNING" ~> rollout \in Ended \/ overlapped \/ orphaned \/ faults > 0

\* Refuted by TLC (see README).
\* Never more than batch_size targets at a time.
BatchIsBound == HowMany("ACTIVE") <= batch
=============================================================================
