--------------------------- MODULE FirewallManager ---------------------------
(***************************************************************************)
(* The firewall manager of one agent process (firewall/manager.go) over    *)
(* its UFW or iptables backend, called by the goroutines that serve the    *)
(* local socket and by the remote loop (agent/server.go): the transaction  *)
(* pipeline with its gate, lock, snapshot, apply, verify and rollback, the *)
(* two restores, and Reload and Restart.                                   *)
(*                                                                         *)
(* Abstracted: a rule is a model value and the firewall a set of rules;    *)
(* validation only accepts or refuses; the two address families are one.   *)
(***************************************************************************)
EXTENDS Naturals, Sequences

CONSTANTS
  Callers,      \* goroutines that call the manager
  NoCaller,     \* mu is free
  Rules,        \* firewall rules
  Programs,     \* transactions: sequences of backend commands
  Backends,     \* what detectBackend may choose: "ufw", "iptables"
  MaxCalls,     \* bound: calls
  MaxFaults,    \* bound: failing commands and expired deadlines
  MaxOutside    \* bound: changes made by another program, process crashes

Command == [op : {"add", "delete"}, rule : Rules]

ASSUME ManagerAssumption ==
  /\ NoCaller \notin Callers
  /\ Programs \subseteq Seq(Command)
  /\ Backends \subseteq {"ufw", "iptables"}
  /\ MaxCalls \in Nat /\ MaxFaults \in Nat /\ MaxOutside \in Nat

VARIABLES
  conf,         \* the rules in UFW's rule files, which "ufw status" prints
  kern,         \* the rules in the kernel
  active,       \* UFW is enabled
  backend,      \* Manager.backend, chosen once at start
  mu,           \* holder of Manager.mu
  writable,     \* Manager.ownership.WritesAllowed, set once at start
  lastSnapshot, \* Manager.lastSnapshot, {} for nil
  pc,           \* where each caller stands in its call
  prog,         \* its transaction
  step,         \* the commands of it that ran
  snap,         \* its snapshot, or the one it restores
  expect,       \* ApplyResult.StateHash
  expired,      \* its 60 s context is over
  result,       \* what its last call returned
  begun,        \* history: the firewall when its transaction passed Check
  disturbed,    \* history: callers during whose transaction another changed the firewall
  undo,         \* history: the kernel before the last success, {} if disturbed
  calls, faults, outside

firewall == <<conf, kern, active>>
memory   == <<lastSnapshot, undo>>
manager  == <<backend, mu, writable, memory>>
call     == <<pc, prog, step, snap, expect, expired, result, begun>>
vars     == <<firewall, manager, call, disturbed, calls, faults, outside>>

Steps    == {"idle", "gate", "lock", "check", "snapshot", "command", "verify", "rollback",
             "restore", "restoreLast", "replay", "enable"}
Locked   == {"check", "snapshot", "command", "verify", "rollback", "replay"}
Results  == {"none", "ok", "failed", "rollbackFailed", "blocked", "refused"}
NoSnapshot == [captured |-> FALSE, rules |-> {}]
Snapshot == [captured : BOOLEAN, rules : SUBSET Rules]
Status   == [read : BOOLEAN, up : BOOLEAN, rules : SUBSET Rules]
Before   == [files : SUBSET Rules, kernel : SUBSET Rules]
NotBegun == [files |-> {}, kernel |-> {}]
NotRead  == [read |-> FALSE, up |-> FALSE, rules |-> {}]

\* What a status, and so its hash, tells: UFW prints its rule files, and only
\* when it is enabled; iptables-save prints the kernel.
Observed ==
  IF backend = "iptables" THEN [read |-> TRUE, up |-> TRUE, rules |-> kern]
  ELSE [read |-> TRUE, up |-> active, rules |-> IF active THEN conf ELSE {}]

TypeOK ==
  /\ conf \in SUBSET Rules /\ kern \in SUBSET Rules /\ active \in BOOLEAN
  /\ backend \in Backends
  /\ mu \in Callers \union {NoCaller}
  /\ writable \in BOOLEAN
  /\ lastSnapshot \in SUBSET Snapshot
  /\ pc \in [Callers -> Steps]
  /\ prog \in [Callers -> Programs \union {<<>>}]
  /\ step \in [Callers -> Nat] /\ \A t \in Callers : step[t] <= Len(prog[t])
  /\ snap \in [Callers -> Snapshot]
  /\ expect \in [Callers -> Status]
  /\ expired \in [Callers -> BOOLEAN]
  /\ result \in [Callers -> Results]
  /\ begun \in [Callers -> Before]
  /\ disturbed \subseteq Callers /\ undo \in SUBSET SUBSET Rules
  /\ calls \in 0..MaxCalls /\ faults \in 0..MaxFaults /\ outside \in 0..MaxOutside

Init ==
  /\ conf \in SUBSET Rules /\ kern = conf /\ active = TRUE
  /\ backend \in Backends
  /\ mu = NoCaller
  /\ writable \in BOOLEAN
  /\ lastSnapshot = {}
  /\ pc = [t \in Callers |-> "idle"]
  /\ prog = [t \in Callers |-> <<>>]
  /\ step = [t \in Callers |-> 0]
  /\ snap = [t \in Callers |-> NoSnapshot]
  /\ expect = [t \in Callers |-> NotRead]
  /\ expired = [t \in Callers |-> FALSE]
  /\ result = [t \in Callers |-> "none"]
  /\ begun = [t \in Callers |-> NotBegun]
  /\ disturbed = {} /\ undo = {}
  /\ calls = 0 /\ faults = 0 /\ outside = 0

(***************************************************************************)
(* Running a program (system/exec): it fails for certain once the caller's *)
(* context has expired, and otherwise now and then.                        *)
(***************************************************************************)
Succeeds(t) == ~expired[t] /\ UNCHANGED faults
Fails(t) ==
  \/ expired[t] /\ UNCHANGED faults
  \/ faults < MaxFaults /\ faults' = faults + 1

\* The 60 s of handleConn are over; for the remote loop, the agent stops.
Expire(t) ==
  /\ pc[t] # "idle" /\ ~expired[t]
  /\ faults < MaxFaults /\ faults' = faults + 1
  /\ expired' = [expired EXCEPT ![t] = TRUE]
  /\ UNCHANGED <<firewall, manager, pc, prog, step, snap, expect, result, begun,
                 disturbed, calls, outside>>

(***************************************************************************)
(* Calls.                                                                  *)
(***************************************************************************)
Start(t, at, p, s) ==
  /\ pc[t] = "idle"
  /\ calls < MaxCalls /\ calls' = calls + 1
  /\ pc' = [pc EXCEPT ![t] = at]
  /\ prog' = [prog EXCEPT ![t] = p]
  /\ snap' = [snap EXCEPT ![t] = s]
  /\ result' = [result EXCEPT ![t] = "none"]
  /\ UNCHANGED <<firewall, manager, step, expect, expired, begun, disturbed, faults, outside>>

\* Mutant: the count of commands outlives the call.
LeaveCounting(t, r) ==
  /\ pc' = [pc EXCEPT ![t] = "idle"]
  /\ prog' = [prog EXCEPT ![t] = <<>>]
  /\ snap' = [snap EXCEPT ![t] = NoSnapshot]
  /\ expect' = [expect EXCEPT ![t] = NotRead]
  /\ expired' = [expired EXCEPT ![t] = FALSE]
  /\ result' = [result EXCEPT ![t] = r]
  /\ begun' = [begun EXCEPT ![t] = NotBegun]
  /\ disturbed' = disturbed \ {t}
  /\ UNCHANGED <<step, calls, outside>>

\* The caller's frame is gone; r is what it got.
Leave(t, r) ==
  /\ pc' = [pc EXCEPT ![t] = "idle"]
  /\ prog' = [prog EXCEPT ![t] = <<>>]
  /\ step' = [step EXCEPT ![t] = 0]
  /\ snap' = [snap EXCEPT ![t] = NoSnapshot]
  /\ expect' = [expect EXCEPT ![t] = NotRead]
  /\ expired' = [expired EXCEPT ![t] = FALSE]
  /\ result' = [result EXCEPT ![t] = r]
  /\ begun' = [begun EXCEPT ![t] = NotBegun]
  /\ disturbed' = disturbed \ {t}
  /\ UNCHANGED <<calls, outside>>

\* The deferred Unlock and the return.
Unlock(t, r) == mu' = NoCaller /\ UNCHANGED <<backend, writable>> /\ Leave(t, r)

GoTo(t, at) == pc' = [pc EXCEPT ![t] = at]

\* Something other than the holder of mu changes the firewall.
Disturb == disturbed' = disturbed \union ({mu} \ {NoCaller})

(***************************************************************************)
(* ApplyTransaction.                                                       *)
(***************************************************************************)
ApplyTransaction(t) == \E p \in Programs : Start(t, "gate", p, NoSnapshot)

\* The gate reads the ownership under mu and lets mu go again.
Gate(t) ==
  /\ pc[t] = "gate" /\ mu = NoCaller
  /\ IF writable
     THEN GoTo(t, "lock") /\ UNCHANGED <<prog, step, snap, expect, expired, result, begun,
                                         disturbed, calls, outside>>
     ELSE Leave(t, "blocked")
  /\ UNCHANGED <<firewall, manager, faults>>

\* Mutant: the transaction does not wait for mu.
Barge(t) ==
  /\ pc[t] = "lock"
  /\ mu' = t /\ GoTo(t, "check")
  /\ disturbed' = disturbed \ {t}
  /\ UNCHANGED <<firewall, backend, writable, memory, prog, step, snap, expect, expired, result,
                 begun, calls, faults, outside>>

Lock(t) ==
  /\ pc[t] = "lock" /\ mu = NoCaller
  /\ mu' = t /\ GoTo(t, "check")
  /\ disturbed' = disturbed \ {t}
  /\ UNCHANGED <<firewall, backend, writable, memory, prog, step, snap, expect, expired, result,
                 begun, calls, faults, outside>>

\* The rules are read, the transaction is valid and conflicts critically with none ...
Check(t) ==
  /\ pc[t] = "check" /\ Succeeds(t)
  /\ GoTo(t, "snapshot")
  /\ begun' = [begun EXCEPT ![t] = [files |-> conf, kernel |-> kern]]
  /\ UNCHANGED <<firewall, manager, prog, step, snap, expect, expired, result,
                 disturbed, calls, outside>>

\* Mutant: the early return keeps mu.
RefuseHolding(t) ==
  /\ pc[t] = "check" /\ (UNCHANGED faults \/ Fails(t))
  /\ Leave(t, "refused")
  /\ UNCHANGED <<firewall, manager>>

\* ... or the call returns before anything is touched.
Refuse(t) ==
  /\ pc[t] = "check" /\ (UNCHANGED faults \/ Fails(t))
  /\ Unlock(t, "refused")
  /\ UNCHANGED <<firewall, memory>>

\* Mutant: the snapshot is remembered before the transaction has succeeded.
CaptureLast(t) ==
  /\ pc[t] = "snapshot"
  /\ \/ Succeeds(t) /\ snap' = [snap EXCEPT ![t] = [captured |-> TRUE, rules |-> kern]]
     \/ Fails(t) /\ UNCHANGED snap
  /\ lastSnapshot' = {snap'[t]}
  /\ GoTo(t, "command")
  /\ UNCHANGED <<firewall, backend, mu, writable, undo, prog, step, expect, expired, result,
                 begun, disturbed, calls, outside>>

\* Snapshot never reports an error: a failing iptables-save leaves it empty.
Capture(t) ==
  /\ pc[t] = "snapshot"
  /\ \/ Succeeds(t) /\ snap' = [snap EXCEPT ![t] = [captured |-> TRUE, rules |-> kern]]
     \/ Fails(t) /\ UNCHANGED snap
  /\ GoTo(t, "command")
  /\ UNCHANGED <<firewall, manager, prog, step, expect, expired, result, begun,
                 disturbed, calls, outside>>

With(rules, c) == IF c.op = "add" THEN rules \union {c.rule} ELSE rules \ {c.rule}

\* UFW changes its files, and the kernel too when it is enabled.
Effect(c) ==
  /\ conf' = IF backend = "ufw" THEN With(conf, c) ELSE conf
  /\ kern' = IF backend = "iptables" \/ active THEN With(kern, c) ELSE kern
  /\ UNCHANGED active

\* One command of the transaction.
RunCommand(t) ==
  /\ pc[t] = "command" /\ step[t] < Len(prog[t]) /\ Succeeds(t)
  /\ Effect(prog[t][step[t] + 1])
  /\ step' = [step EXCEPT ![t] = @ + 1]
  /\ UNCHANGED <<manager, pc, prog, snap, expect, expired, result, begun,
                 disturbed, calls, outside>>

\* A command that fails, or is killed, may have done its work; once the context
\* has expired none is started.
FailCommand(t) ==
  /\ pc[t] = "command" /\ step[t] < Len(prog[t]) /\ Fails(t)
  /\ UNCHANGED firewall \/ (~expired[t] /\ Effect(prog[t][step[t] + 1]))
  /\ GoTo(t, "rollback")
  /\ UNCHANGED <<manager, prog, step, snap, expect, expired, result, begun,
                 disturbed, calls, outside>>

\* The status after the last command: UFW's backend reports a failing read,
\* the iptables backend takes the hash of nothing.
ReadBack(t) ==
  /\ pc[t] = "command" /\ step[t] = Len(prog[t])
  /\ \/ Succeeds(t) /\ expect' = [expect EXCEPT ![t] = Observed] /\ GoTo(t, "verify")
     \/ /\ Fails(t) /\ UNCHANGED expect
        /\ GoTo(t, IF backend = "ufw" THEN "rollback" ELSE "verify")
  /\ UNCHANGED <<firewall, manager, prog, step, snap, expired, result, begun,
                 disturbed, calls, outside>>

Verify(t) ==
  /\ pc[t] = "verify" /\ Succeeds(t) /\ expect[t] = Observed
  /\ lastSnapshot' = {snap[t]}
  /\ undo' = IF t \in disturbed THEN {} ELSE {begun[t].kernel}
  /\ Unlock(t, "ok")
  /\ UNCHANGED firewall

VerifyFails(t) ==
  /\ pc[t] = "verify"
  /\ Fails(t) \/ (Succeeds(t) /\ expect[t] # Observed)
  /\ GoTo(t, "rollback")
  /\ UNCHANGED <<firewall, manager, prog, step, snap, expect, expired, result, begun,
                 disturbed, calls, outside>>

(***************************************************************************)
(* Restoring: what the snapshot does not hold is not restored, and UFW's   *)
(* rule files are never.                                                   *)
(***************************************************************************)
Replayed(s) ==
  /\ kern' = IF s.captured THEN s.rules ELSE kern
  /\ UNCHANGED <<conf, active>>

Restore(t, s) ==
  /\ s.captured => ~expired[t]
  /\ UNCHANGED faults
  /\ Replayed(s)

RestoreFails(t, s) ==
  /\ s.captured /\ Fails(t)
  /\ UNCHANGED firewall \/ (~expired[t] /\ Replayed(s))

Rollback(t) ==
  /\ pc[t] = "rollback"
  /\ \/ Restore(t, snap[t]) /\ Unlock(t, "failed")
     \/ RestoreFails(t, snap[t]) /\ Unlock(t, "rollbackFailed")
  /\ UNCHANGED memory

\* RestoreSnapshot takes whatever snapshot the caller sends; no gate is asked.
RestoreSnapshot(t) ==
  \E s \in Snapshot : (s.captured \/ s = NoSnapshot) /\ Start(t, "restore", <<>>, s)

RestoreLast(t) == Start(t, "restoreLast", <<>>, NoSnapshot)

LockRestore(t) ==
  /\ pc[t] = "restore" /\ mu = NoCaller
  /\ mu' = t /\ GoTo(t, "replay")
  /\ UNCHANGED <<firewall, backend, writable, memory, prog, step, snap, expect, expired, result,
                 begun, disturbed, calls, faults, outside>>

\* Without a successful transaction since the start there is nothing to restore.
LockRestoreLast(t) ==
  /\ pc[t] = "restoreLast" /\ mu = NoCaller
  /\ IF lastSnapshot = {}
     THEN mu' = mu /\ Leave(t, "refused")
     ELSE /\ mu' = t /\ GoTo(t, "replay")
          /\ \E s \in lastSnapshot : snap' = [snap EXCEPT ![t] = s]
          /\ UNCHANGED <<prog, step, expect, expired, result, begun, disturbed, calls, outside>>
  /\ UNCHANGED <<firewall, backend, writable, memory, faults>>

Replay(t) ==
  /\ pc[t] = "replay"
  /\ \/ Restore(t, snap[t]) /\ Unlock(t, "ok")
     \/ RestoreFails(t, snap[t]) /\ Unlock(t, "failed")
  /\ UNCHANGED memory

(***************************************************************************)
(* Reload and Restart take no lock and ask no gate.  With the iptables     *)
(* backend they do nothing.                                                *)
(***************************************************************************)
CountCall == calls < MaxCalls /\ calls' = calls + 1

Reload(t) ==
  /\ backend = "ufw" /\ pc[t] = "idle" /\ CountCall
  /\ kern' = IF active THEN conf ELSE kern
  /\ Disturb
  /\ UNCHANGED <<conf, active, manager, call, faults, outside>>

\* Restart: "ufw disable" takes the rules out of the kernel, and the call ends
\* there if it is killed after that ...
Disable(t) ==
  /\ backend = "ufw" /\ pc[t] = "idle" /\ CountCall
  /\ kern' = {} /\ active' = FALSE /\ UNCHANGED conf
  /\ \/ UNCHANGED faults /\ GoTo(t, "enable")
     \/ Fails(t) /\ UNCHANGED pc
  /\ Disturb
  /\ UNCHANGED <<manager, prog, step, snap, expect, expired, result, begun, outside>>

\* ... "ufw enable" loads them again, unless it fails.
Enable(t) ==
  /\ pc[t] = "enable"
  /\ \/ /\ Succeeds(t)
        /\ kern' = conf /\ active' = TRUE
        /\ Disturb
        /\ result' = [result EXCEPT ![t] = "ok"]
     \/ /\ Fails(t)
        /\ UNCHANGED <<kern, active, disturbed>>
        /\ result' = [result EXCEPT ![t] = "failed"]
  /\ GoTo(t, "idle")
  /\ expired' = [expired EXCEPT ![t] = FALSE]
  /\ UNCHANGED <<conf, manager, prog, step, snap, expect, begun, calls, outside>>

(***************************************************************************)
(* The environment.                                                        *)
(***************************************************************************)

\* Another program changes a rule.
Outside == \E c \in Command :
  /\ outside < MaxOutside /\ outside' = outside + 1
  /\ Effect(c)
  /\ Disturb
  /\ UNCHANGED <<manager, call, calls, faults>>

\* The agent dies and starts again: calls, lock and snapshot are gone, the
\* firewall stays as the last command left it.
Crash ==
  /\ outside < MaxOutside /\ outside' = outside + 1
  /\ mu' = NoCaller /\ lastSnapshot' = {}
  /\ pc' = [t \in Callers |-> "idle"]
  /\ prog' = [t \in Callers |-> <<>>]
  /\ step' = [t \in Callers |-> 0]
  /\ snap' = [t \in Callers |-> NoSnapshot]
  /\ expect' = [t \in Callers |-> NotRead]
  /\ expired' = [t \in Callers |-> FALSE]
  /\ result' = [t \in Callers |-> "none"]
  /\ begun' = [t \in Callers |-> NotBegun]
  /\ disturbed' = {} /\ undo' = {}
  /\ UNCHANGED <<firewall, backend, writable, calls, faults>>

Progress(t) ==
  \/ Check(t) \/ Refuse(t) \/ Capture(t)
  \/ RunCommand(t) \/ FailCommand(t) \/ ReadBack(t) \/ Verify(t) \/ VerifyFails(t)
  \/ Rollback(t) \/ Replay(t) \/ Enable(t)

Acquire(t) == Gate(t) \/ Lock(t) \/ LockRestore(t) \/ LockRestoreLast(t)

Next ==
  \/ \E t \in Callers :
       \/ ApplyTransaction(t) \/ RestoreSnapshot(t) \/ RestoreLast(t) \/ Reload(t) \/ Disable(t)
       \/ Acquire(t) \/ Progress(t) \/ Expire(t)
  \/ Outside \/ Crash

Spec == Init /\ [][Next]_vars

\* Every exec has a timeout, so a call that holds mu goes on; and sync.Mutex
\* hands itself to its longest waiter after a millisecond of starvation.
Fairness == \A t \in Callers : WF_vars(Progress(t)) /\ SF_vars(Acquire(t))

FairSpec == Spec /\ Fairness

(***************************************************************************)
(* Properties.                                                             *)
(***************************************************************************)

\* What a transaction should make of the rules, said without running it: a
\* rule is there if the last command about it adds it.
Outcome(rules, p) ==
  {r \in Rules :
     \/ r \in rules /\ \A i \in DOMAIN p : p[i].rule # r
     \/ \E i \in DOMAIN p : /\ p[i] = [op |-> "add", rule |-> r]
                            /\ \A j \in DOMAIN p : j > i => p[j].rule # r}

InTransaction(t) == pc[t] \in {"check", "snapshot", "command", "verify", "rollback"}

\* A transaction nobody disturbed is all or nothing, however the calls of other
\* callers overlap it: if it returns success the kernel, once UFW is enabled,
\* went from what it was to what the transaction says; if it returns an
\* ordinary failure after its snapshot was captured, the kernel is as it was.
AllOrNothing ==
  [][\A t \in Callers :
       InTransaction(t) /\ t \notin disturbed /\ pc'[t] = "idle" =>
         /\ result'[t] = "ok" /\ active => kern' = Outcome(begun[t].kernel, prog[t])
         /\ result'[t] = "failed" /\ snap[t].captured => kern' = begun[t].kernel
    ]_vars

\* RestoreLast, the emergency rollback of the fleet, goes back to before the
\* last successful transaction, whatever failed or was restored since.
LastGood ==
  \A s \in lastSnapshot, r \in undo : s.captured => s.rules = r

\* Refuted by TLC (see README).
\* A failed change rolls back, or the caller is told that it did not.
FailureIsUndoneOrReported ==
  [][\A t \in Callers :
       InTransaction(t) /\ t \notin disturbed /\ pc'[t] = "idle" /\ result'[t] = "failed"
         => kern' = begun[t].kernel]_vars

\* Refuted by TLC (see README).
\* A rollback that succeeds leaves nothing of the failed change that a later
\* reload of the firewall would bring back.
RollbackIsComplete ==
  [][\A t \in Callers :
       InTransaction(t) /\ t \notin disturbed /\ snap[t].captured
       /\ pc'[t] = "idle" /\ result'[t] = "failed"
         => conf' = begun[t].files]_vars

\* Every call returns: no path leaves mu locked, and nobody starves.
CallsReturn == \A t \in Callers : pc[t] # "idle" ~> pc[t] = "idle"
=============================================================================
