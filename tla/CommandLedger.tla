---------------------------- MODULE CommandLedger ----------------------------
(***************************************************************************)
(* What the fleet promises an administrator about one agent's commands,    *)
(* with no server, agent, network or disk in sight: a submitted command    *)
(* stays open until it is resolved with the outcome of a run that really   *)
(* took place; it is run once, and once more only after the agent has      *)
(* lost every trace of the previous run (a lapse); and, unless it lapsed,  *)
(* a resolved command keeps its outcome.  FleetSync implements this.       *)
(***************************************************************************)
EXTENDS Naturals

CONSTANT Commands       \* command ids (agent_commands.command_id)

VARIABLES
  status,               \* "ABSENT", "OPEN" or the outcome, per command
  runs,                 \* number of runs on the target, per command
  lapses,               \* number of runs of which every trace was lost
  produced              \* the outcomes the runs had, per command

ledgerVars == <<status, runs, lapses, produced>>

Outcomes == {"COMPLETED", "FAILED"}

LedgerInit ==
  /\ status   = [c \in Commands |-> "ABSENT"]
  /\ runs     = [c \in Commands |-> 0]
  /\ lapses   = [c \in Commands |-> 0]
  /\ produced = [c \in Commands |-> {}]

Submit(c) ==
  /\ status[c] = "ABSENT"
  /\ status' = [status EXCEPT ![c] = "OPEN"]
  /\ UNCHANGED <<runs, lapses, produced>>

\* A run starts only when no earlier run is still accounted for.
Run(c, o) ==
  /\ status[c] # "ABSENT"
  /\ runs[c] = lapses[c]
  /\ runs'     = [runs EXCEPT ![c] = @ + 1]
  /\ produced' = [produced EXCEPT ![c] = @ \union {o}]
  /\ UNCHANGED <<status, lapses>>

Lapse(c) ==
  /\ status[c] = "OPEN"
  /\ runs[c] = lapses[c] + 1
  /\ lapses' = [lapses EXCEPT ![c] = @ + 1]
  /\ UNCHANGED <<status, runs, produced>>

Resolve(c, o) ==
  /\ o \in produced[c]
  /\ status[c] = "OPEN" \/ lapses[c] > 0
  /\ status' = [status EXCEPT ![c] = o]
  /\ UNCHANGED <<runs, lapses, produced>>

LedgerNext ==
  \E c \in Commands :
    \/ Submit(c)
    \/ Lapse(c)
    \/ \E o \in Outcomes : Run(c, o) \/ Resolve(c, o)

LedgerSpec == LedgerInit /\ [][LedgerNext]_ledgerVars
=============================================================================
