------------------------ MODULE FirewallManagerProofs ------------------------
(***************************************************************************)
(* Proofs about FirewallManager, for any callers, rules, transactions and  *)
(* bounds and for both backends: type correctness, mutual exclusion, that  *)
(* an undisturbed transaction is all or nothing, and that RestoreLast goes *)
(* back to before the last success.                                        *)
(***************************************************************************)
EXTENDS FirewallManager, TLAPS

(***************************************************************************)
(* What a prefix of a transaction makes of the rules.                      *)
(***************************************************************************)
Ran(rules, p, n) ==
  {r \in Rules :
     \/ r \in rules /\ \A i \in 1..n : p[i].rule # r
     \/ \E i \in 1..n : /\ p[i] = [op |-> "add", rule |-> r]
                        /\ \A j \in 1..n : j > i => p[j].rule # r}

\* No command yet.
LEMMA RanNone ==
  ASSUME NEW rules \in SUBSET Rules, NEW p
  PROVE  Ran(rules, p, 0) = rules
BY DEF Ran

\* One more command.
LEMMA RanStep ==
  ASSUME NEW rules \in SUBSET Rules, NEW p \in Seq(Command), NEW n \in Nat, n < Len(p)
  PROVE  Ran(rules, p, n + 1) = With(Ran(rules, p, n), p[n + 1])
<1> DEFINE c == p[n + 1]
<1>1. c \in Command /\ \A i \in 1..(n + 1) : p[i] \in Command
  OBVIOUS
<1>2. 1..(n + 1) = (1..n) \union {n + 1} /\ \A i \in 1..n : i < n + 1
  OBVIOUS
<1>3. ASSUME NEW r \in Rules
      PROVE  r \in Ran(rules, p, n + 1) <=> r \in With(Ran(rules, p, n), c)
  <2>1. CASE c.rule # r
    <3>1. r \in With(Ran(rules, p, n), c) <=> r \in Ran(rules, p, n)
      BY <2>1 DEF With
    <3>2. r \in Ran(rules, p, n + 1) <=> r \in Ran(rules, p, n)
      BY <1>2, <2>1 DEF Ran
    <3>3. QED
      BY <3>1, <3>2
  <2>2. CASE c.rule = r
    <3>1. r \in Ran(rules, p, n + 1) <=> c = [op |-> "add", rule |-> r]
      BY <1>2, <2>2 DEF Ran
    <3>2. c = [op |-> "add", rule |-> r] <=> c.op = "add"
      BY <1>1, <2>2 DEF Command
    <3>3. r \in With(Ran(rules, p, n), c) <=> c.op = "add"
      BY <2>2 DEF With
    <3>4. QED
      BY <3>1, <3>2, <3>3
  <2>3. QED
    BY <2>1, <2>2
<1>4. Ran(rules, p, n + 1) \subseteq Rules /\ With(Ran(rules, p, n), c) \subseteq Rules
  BY <1>1 DEF Ran, With, Command
<1>5. QED
  BY <1>3, <1>4

\* All of them.
LEMMA RanAll ==
  ASSUME NEW rules, NEW p \in Seq(Command)
  PROVE  Ran(rules, p, Len(p)) = Outcome(rules, p)
BY DEF Ran, Outcome

(***************************************************************************)
(* The inductive invariant.                                                *)
(***************************************************************************)

\* Mutual exclusion: whoever is past Lock, and nobody else, holds mu.
LockInv == \A t \in Callers : pc[t] \in Locked <=> mu = t

\* What a call has not used yet is as it was.
FrameInv ==
  \A t \in Callers :
    /\ pc[t] \notin {"command", "verify", "rollback"} => step[t] = 0
    /\ pc[t] \in {"gate", "lock", "check", "snapshot"} => snap[t] = NoSnapshot
    /\ pc[t] = "verify" => step[t] = Len(prog[t])

\* An undisturbed transaction holds the kernel it began with, and so far the
\* kernel is that one with the commands that ran.
TxInv ==
  \A t \in Callers : InTransaction(t) /\ t \notin disturbed =>
    /\ pc[t] # "check" /\ snap[t].captured => snap[t].rules = begun[t].kernel
    /\ pc[t] = "snapshot" => kern = begun[t].kernel
    /\ pc[t] \in {"command", "verify"} /\ active
         => kern = Ran(begun[t].kernel, prog[t], step[t])

IndInv == TypeOK /\ LockInv /\ FrameInv /\ TxInv /\ LastGood

\* A command leads from rules to rules.
LEMMA WithType ==
  ASSUME NEW rules \in SUBSET Rules, NEW c \in Command
  PROVE  With(rules, c) \in SUBSET Rules
BY DEF With, Command

\* A running command is one of the transaction's, and leaves the types alone.
LEMMA EffectType ==
  ASSUME TypeOK, NEW c \in Command, Effect(c)
  PROVE  conf' \in SUBSET Rules /\ kern' \in SUBSET Rules /\ active' = active
BY WithType DEF TypeOK, Effect

\* A program that has not ended has a next command.
LEMMA CommandOf ==
  ASSUME TypeOK, NEW t \in Callers, step[t] < Len(prog[t])
  PROVE  prog[t] \in Seq(Command) /\ prog[t][step[t] + 1] \in Command
BY ManagerAssumption DEF TypeOK

\* The empty snapshot, status and frame have their types.
LEMMA Blank == NoSnapshot \in Snapshot /\ NotRead \in Status /\ NotBegun \in Before
BY DEF NoSnapshot, Snapshot, NotRead, Status, NotBegun, Before

\* The frame of a call that starts.
LEMMA StartType ==
  ASSUME TypeOK, FrameInv, NEW t \in Callers, NEW at \in Steps,
         NEW p \in Programs \union {<<>>}, NEW s \in Snapshot, Start(t, at, p, s)
  PROVE  TypeOK'
<1>1. \A u \in Callers : step'[u] <= Len(prog'[u])
  <2>1. step[t] = 0
    BY DEF Start, FrameInv
  <2>a. p \in Seq(Command)
    <3>1. CASE p \in Programs
      BY <3>1, ManagerAssumption
    <3>2. CASE p = <<>>
      BY <3>2
    <3>3. QED
      BY <3>1, <3>2
  <2>2. Len(p) >= 0
    BY <2>a
  <2>3. QED
    BY <2>1, <2>2 DEF Start, TypeOK
<1>2. calls' \in 0..MaxCalls
  BY ManagerAssumption DEF Start, TypeOK
<1>3. QED
  BY <1>1, <1>2 DEF Start, TypeOK, Results, firewall, manager, memory

\* The frame of a call that returns.
LEMMA LeaveType ==
  ASSUME TypeOK, NEW t \in Callers, NEW r \in Results, Leave(t, r)
  PROVE  /\ pc' \in [Callers -> Steps] /\ prog' \in [Callers -> Programs \union {<<>>}]
         /\ step' \in [Callers -> Nat] /\ \A u \in Callers : step'[u] <= Len(prog'[u])
         /\ snap' \in [Callers -> Snapshot] /\ expect' \in [Callers -> Status]
         /\ expired' \in [Callers -> BOOLEAN] /\ result' \in [Callers -> Results]
         /\ begun' \in [Callers -> Before] /\ disturbed' \subseteq Callers
         /\ calls' \in 0..MaxCalls /\ outside' \in 0..MaxOutside
<1>1. \A u \in Callers : step'[u] <= Len(prog'[u])
  <2>1. Len(<<>>) = 0
    OBVIOUS
  <2>2. QED
    BY <2>1 DEF TypeOK, Leave
<1>2. QED
  BY <1>1, Blank DEF TypeOK, Leave, Steps

\* A command that succeeds or fails keeps the count of faults.
LEMMA FaultType ==
  ASSUME TypeOK, NEW t \in Callers, Succeeds(t) \/ Fails(t) \/ UNCHANGED faults
  PROVE  faults' \in 0..MaxFaults
BY ManagerAssumption DEF TypeOK, Succeeds, Fails

\* What a caller sees of the firewall is a status.
LEMMA ObservedType == TypeOK => Observed \in Status
BY DEF TypeOK, Observed, Status

\* The types hold at the beginning,
LEMMA InitType == Init => TypeOK
<1>1. Len(<<>>) = 0
  OBVIOUS
<1>2. QED
  BY <1>1, Blank, ManagerAssumption DEF Init, TypeOK, Steps, Results

\* ... and every step keeps them.
LEMMA TypeStep == TypeOK /\ FrameInv /\ [Next]_vars => TypeOK'
<1> SUFFICES ASSUME TypeOK, FrameInv, [Next]_vars PROVE TypeOK'
  OBVIOUS
<1> USE ManagerAssumption DEF firewall, manager, memory, call, Steps
<1>1. ASSUME NEW t \in Callers, ApplyTransaction(t) PROVE TypeOK'
  BY <1>1, StartType, Blank DEF ApplyTransaction
<1>2. ASSUME NEW t \in Callers, RestoreSnapshot(t) PROVE TypeOK'
  BY <1>2, StartType DEF RestoreSnapshot
<1>3. ASSUME NEW t \in Callers, RestoreLast(t) PROVE TypeOK'
  BY <1>3, StartType, Blank DEF RestoreLast
<1>4. ASSUME NEW t \in Callers, Reload(t) PROVE TypeOK'
  BY <1>4 DEF Reload, CountCall, Disturb, TypeOK
<1>5. ASSUME NEW t \in Callers, Disable(t) PROVE TypeOK'
  <2>1. faults' \in 0..MaxFaults
    BY <1>5, FaultType DEF Disable
  <2>2. pc' \in [Callers -> Steps]
    BY <1>5 DEF Disable, GoTo, TypeOK
  <2>3. calls' \in 0..MaxCalls /\ disturbed' \subseteq Callers
    BY <1>5 DEF Disable, CountCall, Disturb, TypeOK
  <2>4. kern' \in SUBSET Rules /\ active' \in BOOLEAN
    BY <1>5 DEF Disable
  <2>5. QED
    BY <1>5, <2>1, <2>2, <2>3, <2>4 DEF Disable, TypeOK
<1>6. ASSUME NEW t \in Callers, Gate(t) PROVE TypeOK'
  <2>1. CASE writable
    BY <1>6, <2>1 DEF Gate, GoTo, TypeOK
  <2>2. CASE ~writable
    BY <1>6, <2>2, LeaveType DEF Gate, TypeOK, Results
  <2>3. QED
    BY <2>1, <2>2
<1>7. ASSUME NEW t \in Callers, Lock(t) PROVE TypeOK'
  BY <1>7 DEF Lock, GoTo, TypeOK
<1>8. ASSUME NEW t \in Callers, LockRestore(t) PROVE TypeOK'
  BY <1>8 DEF LockRestore, GoTo, TypeOK
<1>9. ASSUME NEW t \in Callers, LockRestoreLast(t) PROVE TypeOK'
  <2>1. CASE lastSnapshot = {}
    BY <1>9, <2>1, LeaveType DEF LockRestoreLast, TypeOK, Results
  <2>2. CASE lastSnapshot # {}
    <3>1. snap' \in [Callers -> Snapshot]
      BY <1>9, <2>2 DEF LockRestoreLast, TypeOK
    <3>2. pc' \in [Callers -> Steps] /\ mu' \in Callers
      BY <1>9, <2>2 DEF LockRestoreLast, GoTo, TypeOK
    <3>3. QED
      BY <1>9, <2>2, <3>1, <3>2 DEF LockRestoreLast, TypeOK
  <2>3. QED
    BY <2>1, <2>2
<1>10. ASSUME NEW t \in Callers, Check(t) PROVE TypeOK'
  BY <1>10, FaultType DEF Check, GoTo, TypeOK, Before
<1>11. ASSUME NEW t \in Callers, Refuse(t) PROVE TypeOK'
  BY <1>11, FaultType, LeaveType DEF Refuse, Unlock, TypeOK, Results
<1>12. ASSUME NEW t \in Callers, Capture(t) PROVE TypeOK'
  <2>1. snap' \in [Callers -> Snapshot]
    <3>1. [captured |-> TRUE, rules |-> kern] \in Snapshot
      BY DEF TypeOK, Snapshot
    <3>2. QED
      BY <1>12, <3>1 DEF Capture, TypeOK
  <2>2. pc' \in [Callers -> Steps] /\ faults' \in 0..MaxFaults
    BY <1>12, FaultType DEF Capture, GoTo, TypeOK
  <2>3. QED
    BY <1>12, <2>1, <2>2 DEF Capture, TypeOK
<1>13. ASSUME NEW t \in Callers, RunCommand(t) PROVE TypeOK'
  BY <1>13, FaultType, EffectType, CommandOf DEF RunCommand, TypeOK
<1>14. ASSUME NEW t \in Callers, FailCommand(t) PROVE TypeOK'
  BY <1>14, FaultType, EffectType, CommandOf DEF FailCommand, GoTo, TypeOK
<1>15. ASSUME NEW t \in Callers, ReadBack(t) PROVE TypeOK'
  <2>1. expect' \in [Callers -> Status]
    BY <1>15, ObservedType DEF ReadBack, TypeOK
  <2>a. pc' \in [Callers -> Steps]
    BY <1>15 DEF ReadBack, GoTo, TypeOK
  <2>2. faults' \in 0..MaxFaults
    BY <1>15, FaultType DEF ReadBack
  <2>3. QED
    BY <1>15, <2>1, <2>a, <2>2 DEF ReadBack, TypeOK
<1>16. ASSUME NEW t \in Callers, Verify(t) PROVE TypeOK'
  <2>1. lastSnapshot' \in SUBSET Snapshot
    BY <1>16 DEF Verify, TypeOK
  <2>2. undo' \in SUBSET SUBSET Rules
    BY <1>16 DEF Verify, TypeOK, Before
  <2>3. "ok" \in Results /\ Leave(t, "ok") /\ mu' = NoCaller /\ UNCHANGED <<backend, writable>>
    BY <1>16 DEF Verify, Unlock, Results
  <2>4. faults' \in 0..MaxFaults
    BY <1>16, FaultType DEF Verify
  <2>5. QED
    BY <1>16, <2>1, <2>2, <2>3, <2>4, LeaveType DEF Verify, TypeOK
<1>17. ASSUME NEW t \in Callers, VerifyFails(t) PROVE TypeOK'
  BY <1>17, FaultType DEF VerifyFails, GoTo, TypeOK
<1>18. ASSUME NEW t \in Callers, Rollback(t) PROVE TypeOK'
  <2>1. conf' \in SUBSET Rules /\ kern' \in SUBSET Rules /\ active' \in BOOLEAN
    BY <1>18 DEF Rollback, Restore, RestoreFails, Replayed, TypeOK, Snapshot, NoSnapshot
  <2>2. QED
    BY <1>18, <2>1, FaultType, LeaveType DEF Rollback, Restore, RestoreFails, Unlock, TypeOK, Results
<1>19. ASSUME NEW t \in Callers, Replay(t) PROVE TypeOK'
  <2>1. conf' \in SUBSET Rules /\ kern' \in SUBSET Rules /\ active' \in BOOLEAN
    BY <1>19 DEF Replay, Restore, RestoreFails, Replayed, TypeOK, Snapshot, NoSnapshot
  <2>2. QED
    BY <1>19, <2>1, FaultType, LeaveType DEF Replay, Restore, RestoreFails, Unlock, TypeOK, Results
<1>20. ASSUME NEW t \in Callers, Enable(t) PROVE TypeOK'
  BY <1>20, FaultType DEF Enable, Disturb, GoTo, TypeOK, Results
<1>21. ASSUME NEW t \in Callers, Expire(t) PROVE TypeOK'
  BY <1>21 DEF Expire, TypeOK
<1>22. CASE Outside
  BY <1>22, EffectType DEF Outside, Disturb, TypeOK
<1>23. CASE Crash
  BY <1>23 DEF Crash, TypeOK, Snapshot, NoSnapshot, Status, NotRead, Before, NotBegun, Results
<1>24. CASE UNCHANGED vars
  BY <1>24 DEF vars, TypeOK
<1>25. QED
  BY <1>1, <1>2, <1>3, <1>4, <1>5, <1>6, <1>7, <1>8, <1>9, <1>10, <1>11, <1>12, <1>13, <1>14,
     <1>15, <1>16, <1>17, <1>18, <1>19, <1>20, <1>21, <1>22, <1>23, <1>24
  DEF Next, Progress, Acquire

(***************************************************************************)
(* The inductive step.                                                     *)
(***************************************************************************)
InvParts == LockInv /\ FrameInv /\ TxInv /\ LastGood

\* The inductive invariant holds at the beginning,
LEMMA InitInv == Init => IndInv
BY InitType, ManagerAssumption
   DEF Init, IndInv, LockInv, FrameInv, TxInv, LastGood, InTransaction, Locked

\* A change by anything but the holder of mu disturbs every transaction there is.
LEMMA DisturbStep ==
  ASSUME IndInv, Disturb,
         \A u \in Callers : pc'[u] \in Locked => pc'[u] = pc[u],
         \A u \in Callers : pc[u] \in Locked => pc'[u] = pc[u],
         \A u \in Callers : pc'[u] \notin Locked => pc'[u] = pc[u] \/ pc'[u] \in {"idle", "enable"},
         \A u \in Callers : pc[u] \in {"idle", "enable"} <=> pc'[u] \in {"idle", "enable"},
         UNCHANGED <<manager, prog, step, snap>>
  PROVE  InvParts'
<1>1. LockInv'
  BY DEF IndInv, LockInv, manager
<1>2. FrameInv'
  BY DEF IndInv, FrameInv, Locked
<1>3. TxInv'
  <2>1. ASSUME NEW u \in Callers, InTransaction(u)' PROVE u \in disturbed'
    <3>1. pc[u] \in Locked
      BY <2>1 DEF InTransaction, Locked
    <3>2. mu = u
      BY <3>1 DEF IndInv, LockInv
    <3>3. QED
      BY <3>2, ManagerAssumption DEF Disturb
  <2>2. QED
    BY <2>1 DEF TxInv
<1>4. LastGood'
  BY DEF IndInv, LastGood, manager, memory
<1>5. QED
  BY <1>1, <1>2, <1>3, <1>4 DEF InvParts

\* A call that was holding mu leaves and unlocks it.
LEMMA UnlockStep ==
  ASSUME IndInv, NEW t \in Callers, NEW r, pc[t] \in Locked, Unlock(t, r), LastGood'
  PROVE  InvParts'
<1>1. \A u \in Callers : u # t => pc[u] \notin Locked
  BY DEF IndInv, LockInv
<1>2. /\ pc' = [pc EXCEPT ![t] = "idle"] /\ mu' = NoCaller
      /\ step' = [step EXCEPT ![t] = 0] /\ snap' = [snap EXCEPT ![t] = NoSnapshot]
      /\ prog' = [prog EXCEPT ![t] = <<>>]
  BY DEF Unlock, Leave
<1>3. \A u \in Callers : pc'[u] \notin Locked /\ pc'[u] = (IF u = t THEN "idle" ELSE pc[u])
  BY <1>1, <1>2 DEF IndInv, TypeOK, Locked
<1>4. LockInv'
  BY <1>2, <1>3, ManagerAssumption DEF LockInv
<1>5. FrameInv'
  BY <1>2, <1>3 DEF IndInv, TypeOK, FrameInv
<1>6. TxInv'
  BY <1>3 DEF TxInv, InTransaction, Locked
<1>7. QED
  BY <1>4, <1>5, <1>6 DEF InvParts

\* A call that does not hold mu starts, waits or leaves, and touches nothing.
LEMMA AsideStep ==
  ASSUME IndInv, NEW t \in Callers, NEW at \in Steps, pc[t] \notin Locked, at \notin Locked,
         at \notin {"gate", "lock"} \/ snap'[t] = NoSnapshot,
         pc' = [pc EXCEPT ![t] = at],
         step'[t] = 0,
         \A u \in Callers : u # t => /\ step'[u] = step[u] /\ snap'[u] = snap[u]
                                     /\ prog'[u] = prog[u] /\ begun'[u] = begun[u]
                                     /\ (u \in disturbed' <=> u \in disturbed),
         UNCHANGED <<firewall, manager>>
  PROVE  InvParts'
<1>1. pc'[t] = at /\ \A u \in Callers : u # t => pc'[u] = pc[u]
  BY DEF IndInv, TypeOK
<1>2. LockInv'
  BY <1>1 DEF IndInv, LockInv, manager
<1>3. FrameInv'
  BY <1>1 DEF IndInv, FrameInv, Locked
<1>4. TxInv'
  <2>1. ~InTransaction(t)'
    BY <1>1 DEF InTransaction, Locked
  <2>2. QED
    BY <1>1, <2>1 DEF IndInv, TxInv, InTransaction, firewall
<1>5. LastGood'
  BY DEF IndInv, LastGood, manager, memory
<1>6. QED
  BY <1>2, <1>3, <1>4, <1>5 DEF InvParts

\* The holder of mu goes on, and nobody else moves.
LEMMA HolderStep ==
  ASSUME IndInv, NEW t \in Callers, NEW at \in Locked, pc[t] \in Locked,
         pc' = [pc EXCEPT ![t] = at],
         \A u \in Callers : u # t => step'[u] = step[u] /\ snap'[u] = snap[u] /\ prog'[u] = prog[u],
         at \notin {"command", "verify", "rollback"} => step'[t] = 0,
         at \in {"check", "snapshot"} => snap'[t] = NoSnapshot,
         at = "verify" => step'[t] = Len(prog'[t]),
         UNCHANGED manager,
         t \notin disturbed' /\ at # "replay" =>
           /\ at # "check" /\ snap'[t].captured => snap'[t].rules = begun'[t].kernel
           /\ at = "snapshot" => kern' = begun'[t].kernel
           /\ at \in {"command", "verify"} /\ active'
                => kern' = Ran(begun'[t].kernel, prog'[t], step'[t])
  PROVE  InvParts'
<1>1. pc'[t] = at /\ \A u \in Callers : u # t => pc'[u] = pc[u]
  BY DEF IndInv, TypeOK
<1>2. \A u \in Callers : u # t => pc[u] \notin Locked
  BY DEF IndInv, LockInv
<1>3. LockInv'
  BY <1>1 DEF IndInv, LockInv, manager
<1>4. FrameInv'
  BY <1>1 DEF IndInv, FrameInv, Locked
<1>5. TxInv'
  <2>1. \A u \in Callers : u # t => ~InTransaction(u)'
    BY <1>1, <1>2 DEF InTransaction, Locked
  <2>2. InTransaction(t)' => at # "replay"
    BY <1>1 DEF InTransaction
  <2>3. QED
    BY <1>1, <2>1, <2>2 DEF TxInv
<1>6. LastGood'
  BY DEF IndInv, LastGood, manager, memory
<1>7. QED
  BY <1>3, <1>4, <1>5, <1>6 DEF InvParts

\* ... and every step keeps it.
LEMMA InvStep == IndInv /\ [Next]_vars => IndInv'
<1> SUFFICES ASSUME IndInv, [Next]_vars PROVE IndInv'
  OBVIOUS
<1>0. TypeOK'
  BY TypeStep DEF IndInv
<1>1. ASSUME NEW t \in Callers, NEW at \in {"gate", "restore", "restoreLast"},
             NEW p \in Programs \union {<<>>}, NEW s \in Snapshot,
             at = "gate" => s = NoSnapshot, Start(t, at, p, s)
      PROVE  InvParts'
  <2>1. step'[t] = 0 /\ snap'[t] = s
    BY <1>1 DEF Start, IndInv, TypeOK, FrameInv
  <2>2. \A u \in Callers : u # t => /\ step'[u] = step[u] /\ snap'[u] = snap[u]
                                    /\ prog'[u] = prog[u] /\ begun'[u] = begun[u]
                                    /\ (u \in disturbed' <=> u \in disturbed)
    BY <1>1 DEF Start, IndInv, TypeOK
  <2>3. UNCHANGED <<firewall, manager>> /\ pc[t] = "idle" /\ pc' = [pc EXCEPT ![t] = at]
    BY <1>1 DEF Start
  <2>4. at \in Steps /\ at \notin Locked /\ pc[t] \notin Locked
    BY <1>1, <2>3 DEF Steps, Locked
  <2>5. QED
    BY <1>1, <2>1, <2>2, <2>3, <2>4, AsideStep
<1>2. ASSUME NEW t \in Callers, ApplyTransaction(t) \/ RestoreSnapshot(t) \/ RestoreLast(t)
      PROVE  InvParts'
  BY <1>1, <1>2, Blank DEF ApplyTransaction, RestoreSnapshot, RestoreLast
<1>3. ASSUME NEW t \in Callers, Reload(t) PROVE InvParts'
  BY <1>3, DisturbStep DEF Reload, call
<1>4. ASSUME NEW t \in Callers, Disable(t) PROVE InvParts'
  <2>1. pc[t] = "idle" /\ (pc' = [pc EXCEPT ![t] = "enable"] \/ pc' = pc)
    BY <1>4 DEF Disable, GoTo
  <2>2. \A u \in Callers : /\ u # t => pc'[u] = pc[u]
                           /\ pc'[t] \in {"idle", "enable"}
    BY <2>1 DEF IndInv, TypeOK
  <2>3. Disturb /\ UNCHANGED <<manager, prog, step, snap>>
    BY <1>4 DEF Disable
  <2>4. QED
    BY <2>1, <2>2, <2>3, DisturbStep DEF Locked
<1>5. ASSUME NEW t \in Callers, Enable(t) PROVE InvParts'
  <2>1. pc[t] = "enable" /\ pc' = [pc EXCEPT ![t] = "idle"]
        /\ UNCHANGED <<manager, prog, step, snap, begun>>
    BY <1>5 DEF Enable, GoTo
  <2>2. \A u \in Callers : u # t => pc'[u] = pc[u]
    BY <2>1 DEF IndInv, TypeOK
  <2>3. pc'[t] = "idle"
    BY <2>1 DEF IndInv, TypeOK
  <2>4. CASE Disturb
    BY <2>1, <2>2, <2>3, <2>4, DisturbStep DEF Locked
  <2>5. CASE UNCHANGED <<kern, active, disturbed>>
    <3>1. UNCHANGED firewall
      BY <1>5, <2>5 DEF Enable, firewall
    <3>2. step'[t] = 0
      BY <2>1 DEF IndInv, FrameInv
    <3>3. "idle" \in Steps /\ "idle" \notin Locked /\ pc[t] \notin Locked
      BY <2>1 DEF Steps, Locked
    <3>4. QED
      BY <2>1, <2>5, <3>1, <3>2, <3>3, AsideStep
  <2>6. QED
    BY <1>5, <2>4, <2>5 DEF Enable
<1>6. ASSUME NEW t \in Callers, Gate(t) PROVE InvParts'
  <2>1. pc[t] = "gate" /\ snap[t] = NoSnapshot /\ step[t] = 0 /\ UNCHANGED <<firewall, manager>>
    BY <1>6 DEF Gate, IndInv, FrameInv
  <2>2. {"lock", "idle"} \subseteq Steps /\ "lock" \notin Locked /\ "idle" \notin Locked
        /\ pc[t] \notin Locked
    BY <2>1 DEF Steps, Locked
  <2>3. CASE writable
    BY <1>6, <2>1, <2>2, <2>3, AsideStep DEF Gate, GoTo
  <2>4. CASE ~writable
    <3>1. Leave(t, "blocked")
      BY <1>6, <2>4 DEF Gate
    <3>2. pc' = [pc EXCEPT ![t] = "idle"] /\ step'[t] = 0
      BY <3>1 DEF Leave, IndInv, TypeOK
    <3>3. \A u \in Callers : u # t => /\ step'[u] = step[u] /\ snap'[u] = snap[u]
                                      /\ prog'[u] = prog[u] /\ begun'[u] = begun[u]
                                      /\ (u \in disturbed' <=> u \in disturbed)
      BY <3>1 DEF Leave, IndInv, TypeOK
    <3>4. QED
      BY <2>1, <2>2, <3>2, <3>3, AsideStep
  <2>5. QED
    BY <2>3, <2>4 DEF IndInv, TypeOK
<1>7. ASSUME NEW t \in Callers, NEW at \in {"check", "replay"}, mu = NoCaller, mu' = t,
             pc' = [pc EXCEPT ![t] = at], pc[t] \in Steps \ Locked, step[t] = 0,
             \A u \in Callers : step'[u] = step[u] /\ (u # t => snap'[u] = snap[u]),
             at = "check" => snap'[t] = NoSnapshot,
             UNCHANGED <<firewall, backend, writable, memory>>
      PROVE  InvParts'
  <2>1. pc'[t] = at /\ \A u \in Callers : u # t => pc'[u] = pc[u]
    BY <1>7 DEF IndInv, TypeOK
  <2>2. \A u \in Callers : pc[u] \notin Locked
    BY <1>7, ManagerAssumption DEF IndInv, LockInv
  <2>3. LockInv'
    BY <1>7, <2>1, <2>2 DEF LockInv, Locked
  <2>4. FrameInv'
    BY <1>7, <2>1, <2>2 DEF IndInv, FrameInv, Locked
  <2>5. TxInv'
    BY <1>7, <2>1, <2>2 DEF TxInv, InTransaction, Locked
  <2>6. LastGood'
    BY <1>7 DEF IndInv, LastGood, memory
  <2>7. QED
    BY <2>3, <2>4, <2>5, <2>6 DEF InvParts
<1>8. ASSUME NEW t \in Callers, Lock(t) PROVE InvParts'
  <2>1. pc[t] = "lock" /\ step[t] = 0 /\ snap[t] = NoSnapshot
    BY <1>8 DEF Lock, IndInv, FrameInv
  <2>2. QED
    BY <1>7, <1>8, <2>1 DEF Lock, GoTo, Steps, Locked
<1>9. ASSUME NEW t \in Callers, LockRestore(t) PROVE InvParts'
  <2>1. pc[t] = "restore" /\ step[t] = 0
    BY <1>9 DEF LockRestore, IndInv, FrameInv
  <2>2. QED
    BY <1>7, <1>9, <2>1 DEF LockRestore, GoTo, Steps, Locked
<1>10. ASSUME NEW t \in Callers, LockRestoreLast(t) PROVE InvParts'
  <2>1. pc[t] = "restoreLast" /\ step[t] = 0 /\ UNCHANGED <<firewall, backend, writable, memory>>
        /\ mu = NoCaller
    BY <1>10 DEF LockRestoreLast, IndInv, FrameInv
  <2>2. CASE lastSnapshot = {}
    <3>1. Leave(t, "refused") /\ UNCHANGED <<firewall, manager>>
      BY <1>10, <2>1, <2>2 DEF LockRestoreLast, manager
    <3>2. pc' = [pc EXCEPT ![t] = "idle"] /\ step'[t] = 0
      BY <3>1 DEF Leave, IndInv, TypeOK
    <3>3. \A u \in Callers : u # t => /\ step'[u] = step[u] /\ snap'[u] = snap[u]
                                      /\ prog'[u] = prog[u] /\ begun'[u] = begun[u]
                                      /\ (u \in disturbed' <=> u \in disturbed)
      BY <3>1 DEF Leave, IndInv, TypeOK
    <3>4. "idle" \in Steps /\ "idle" \notin Locked /\ pc[t] \notin Locked
      BY <2>1 DEF Steps, Locked
    <3>5. QED
      BY <3>1, <3>2, <3>3, <3>4, AsideStep
  <2>3. CASE lastSnapshot # {}
    <3>1. /\ mu' = t /\ pc' = [pc EXCEPT ![t] = "replay"] /\ step' = step
          /\ \A u \in Callers : u # t => snap'[u] = snap[u]
      BY <1>10, <2>3 DEF LockRestoreLast, GoTo, IndInv, TypeOK
    <3>2. QED
      BY <1>7, <2>1, <3>1 DEF Steps, Locked
  <2>4. QED
    BY <2>2, <2>3
<1>11. ASSUME NEW t \in Callers, Check(t) PROVE InvParts'
  <2>1. pc[t] = "check" /\ step[t] = 0 /\ snap[t] = NoSnapshot
        /\ UNCHANGED <<firewall, manager, prog, step, snap, disturbed>>
        /\ pc' = [pc EXCEPT ![t] = "snapshot"]
    BY <1>11 DEF Check, GoTo, IndInv, FrameInv
  <2>2. begun'[t].kernel = kern /\ kern' = kern
    BY <1>11 DEF Check, IndInv, TypeOK, firewall
  <2>3. ~snap'[t].captured
    BY <2>1 DEF NoSnapshot
  <2>4. QED
    BY <2>1, <2>2, <2>3, HolderStep DEF Locked
<1>12. ASSUME NEW t \in Callers, Refuse(t) PROVE InvParts'
  <2>1. LastGood'
    BY <1>12 DEF Refuse, IndInv, LastGood, memory
  <2>2. QED
    BY <1>12, <2>1, UnlockStep DEF Refuse, Locked
<1>13. ASSUME NEW t \in Callers, Capture(t) PROVE InvParts'
  <2>1. pc[t] = "snapshot" /\ step[t] = 0 /\ snap[t] = NoSnapshot
        /\ UNCHANGED <<firewall, manager, prog, step, begun, disturbed>>
        /\ pc' = [pc EXCEPT ![t] = "command"]
    BY <1>13 DEF Capture, GoTo, IndInv, FrameInv
  <2>2. \A u \in Callers : u # t => snap'[u] = snap[u]
    BY <1>13 DEF Capture, IndInv, TypeOK
  <2>3. snap'[t].captured => snap'[t].rules = kern
    BY <1>13, <2>1 DEF Capture, IndInv, TypeOK, NoSnapshot
  <2>4. t \notin disturbed => kern = begun[t].kernel
    BY <2>1 DEF IndInv, TxInv, InTransaction
  <2>5. kern = Ran(kern, prog[t], 0) /\ kern' = kern
    BY <2>1, RanNone DEF IndInv, TypeOK, firewall
  <2>6. QED
    BY <2>1, <2>2, <2>3, <2>4, <2>5, HolderStep DEF Locked
<1>14. ASSUME NEW t \in Callers, RunCommand(t) PROVE InvParts'
  <2> DEFINE c == prog[t][step[t] + 1]
  <2>1. pc[t] = "command" /\ step[t] < Len(prog[t]) /\ Effect(c)
        /\ UNCHANGED <<manager, pc, prog, snap, begun, disturbed>>
    BY <1>14 DEF RunCommand
  <2>2. step'[t] = step[t] + 1 /\ \A u \in Callers : u # t => step'[u] = step[u]
    BY <1>14 DEF RunCommand, IndInv, TypeOK
  <2>3. pc' = [pc EXCEPT ![t] = "command"]
    BY <2>1 DEF IndInv, TypeOK
  <2>4. t \notin disturbed /\ active => kern' = Ran(begun[t].kernel, prog[t], step[t] + 1)
    <3>1. t \notin disturbed /\ active => kern = Ran(begun[t].kernel, prog[t], step[t])
      BY <2>1 DEF IndInv, TxInv, InTransaction
    <3>2. active => kern' = With(kern, c)
      BY <2>1 DEF Effect
    <3>3. begun[t].kernel \in SUBSET Rules /\ prog[t] \in Seq(Command) /\ step[t] \in Nat
      BY <2>1, CommandOf DEF IndInv, TypeOK, Before
    <3>4. Ran(begun[t].kernel, prog[t], step[t] + 1)
            = With(Ran(begun[t].kernel, prog[t], step[t]), c)
      BY <2>1, <3>3, RanStep
    <3>5. QED
      BY <3>1, <3>2, <3>4
  <2>5. t \notin disturbed /\ snap[t].captured => snap[t].rules = begun[t].kernel
    BY <2>1 DEF IndInv, TxInv, InTransaction
  <2>6. active' = active
    BY <2>1 DEF Effect
  <2>7. QED
    BY <2>1, <2>2, <2>3, <2>4, <2>5, <2>6, HolderStep DEF Locked
<1>15. ASSUME NEW t \in Callers, FailCommand(t) \/ VerifyFails(t) PROVE InvParts'
  <2>1. pc[t] \in {"command", "verify"} /\ pc' = [pc EXCEPT ![t] = "rollback"]
        /\ UNCHANGED <<manager, prog, step, snap, begun, disturbed>>
    BY <1>15 DEF FailCommand, VerifyFails, GoTo
  <2>2. t \notin disturbed /\ snap[t].captured => snap[t].rules = begun[t].kernel
    BY <2>1 DEF IndInv, TxInv, InTransaction
  <2>3. QED
    BY <2>1, <2>2, HolderStep DEF Locked
<1>16. ASSUME NEW t \in Callers, ReadBack(t) PROVE InvParts'
  <2>1. pc[t] = "command" /\ step[t] = Len(prog[t])
        /\ UNCHANGED <<firewall, manager, prog, step, snap, begun, disturbed>>
    BY <1>16 DEF ReadBack
  <2>2. PICK at \in {"verify", "rollback"} : pc' = [pc EXCEPT ![t] = at]
    BY <1>16 DEF ReadBack, GoTo
  <2>3. t \notin disturbed =>
          /\ snap[t].captured => snap[t].rules = begun[t].kernel
          /\ active => kern = Ran(begun[t].kernel, prog[t], step[t])
    BY <2>1 DEF IndInv, TxInv, InTransaction
  <2>4. kern' = kern /\ active' = active
    BY <2>1 DEF firewall
  <2>5. QED
    BY <2>1, <2>2, <2>3, <2>4, HolderStep DEF Locked
<1>17. ASSUME NEW t \in Callers, Verify(t) PROVE InvParts'
  <2>1. t \notin disturbed /\ snap[t].captured => snap[t].rules = begun[t].kernel
    BY <1>17 DEF Verify, IndInv, TxInv, InTransaction
  <2>2. LastGood'
    BY <1>17, <2>1 DEF Verify, LastGood
  <2>3. QED
    BY <1>17, <2>2, UnlockStep DEF Verify, Locked
<1>18. ASSUME NEW t \in Callers, Rollback(t) \/ Replay(t) PROVE InvParts'
  <2>1. LastGood'
    BY <1>18 DEF Rollback, Replay, IndInv, LastGood, memory
  <2>2. pc[t] \in Locked /\ \E r \in Results : Unlock(t, r)
    BY <1>18 DEF Rollback, Replay, Locked, Results
  <2>3. QED
    BY <2>1, <2>2, UnlockStep
<1>19. ASSUME NEW t \in Callers, Expire(t) PROVE InvParts'
  <2>1. UNCHANGED <<firewall, manager, pc, prog, step, snap, begun, disturbed>>
    BY <1>19 DEF Expire
  <2>2. QED
    BY <2>1 DEF IndInv, InvParts, LockInv, FrameInv, TxInv, LastGood, InTransaction,
                firewall, manager, memory
<1>20. ASSUME Outside PROVE InvParts'
  BY <1>20, DisturbStep DEF Outside, call
<1>21. ASSUME Crash PROVE InvParts'
  BY <1>21, ManagerAssumption
     DEF Crash, InvParts, LockInv, FrameInv, TxInv, LastGood, InTransaction, Locked
<1>22. ASSUME UNCHANGED vars PROVE InvParts'
  BY <1>22 DEF vars, call, IndInv, InvParts, LockInv, FrameInv, TxInv, LastGood, InTransaction,
               firewall, manager, memory
<1>23. InvParts'
  BY <1>2, <1>3, <1>4, <1>5, <1>6, <1>8, <1>9, <1>10, <1>11, <1>12, <1>13, <1>14, <1>15,
     <1>16, <1>17, <1>18, <1>19, <1>20, <1>21, <1>22
  DEF Next, Progress, Acquire
<1>24. QED
  BY <1>0, <1>23 DEF IndInv, InvParts

\* The inductive invariant holds for any callers, rules, programs of commands and faults (manager.go:42-260).
LEMMA Invariance == Spec => []IndInv
<1>1. IndInv /\ [Next]_vars => IndInv'
  BY InvStep
<1>2. QED
  BY <1>1, InitInv, PTL DEF Spec

(***************************************************************************)
(* Theorems.                                                               *)
(***************************************************************************)

\* Every variable of the firewall, the manager and its callers keeps its type.
THEOREM TypeCorrect == Spec => []TypeOK
<1>1. IndInv => TypeOK
  BY DEF IndInv
<1>2. QED
  BY <1>1, Invariance, PTL

\* At most one call is between Lock and its return, and it is mu's holder.
THEOREM MutualExclusion == Spec => []LockInv
<1>1. IndInv => LockInv
  BY DEF IndInv
<1>2. QED
  BY <1>1, Invariance, PTL

\* RestoreLast goes back to before the last success.
THEOREM RestoresLastGood == Spec => []LastGood
<1>1. IndInv => LastGood
  BY DEF IndInv
<1>2. QED
  BY <1>1, Invariance, PTL

\* A transaction nobody disturbed is all or nothing.
THEOREM Atomic == Spec => AllOrNothing
<1>1. ASSUME IndInv, [Next]_vars, NEW t \in Callers,
             InTransaction(t), t \notin disturbed, pc'[t] = "idle"
      PROVE  /\ result'[t] = "ok" /\ active => kern' = Outcome(begun[t].kernel, prog[t])
             /\ result'[t] = "failed" /\ snap[t].captured => kern' = begun[t].kernel
  <2>1. pc'[t] # pc[t]
    BY <1>1 DEF InTransaction
  <2>2. ASSUME NEW u \in Callers, NEW at, pc' = [pc EXCEPT ![u] = at] PROVE u = t /\ at = "idle"
    BY <1>1, <2>1, <2>2 DEF IndInv, TypeOK
  <2>3. ASSUME NEW u \in Callers,
               ApplyTransaction(u) \/ RestoreSnapshot(u) \/ RestoreLast(u) \/ Reload(u) \/ Disable(u)
        PROVE  FALSE
    <3>1. pc' = pc \/ \E at \in {"gate", "restore", "restoreLast", "enable"} : pc' = [pc EXCEPT ![u] = at]
      BY <2>3 DEF ApplyTransaction, RestoreSnapshot, RestoreLast, Start, Reload, Disable, GoTo, call
    <3>2. QED
      BY <2>1, <2>2, <3>1
  <2>4. ASSUME NEW u \in Callers, Acquire(u) \/ Replay(u) \/ Enable(u) PROVE FALSE
    <3>1. pc[u] \in {"gate", "lock", "restore", "restoreLast", "replay", "enable"}
          /\ \E at \in Steps : pc' = [pc EXCEPT ![u] = at]
      BY <2>4 DEF Acquire, Gate, Lock, LockRestore, LockRestoreLast, Replay, Unlock, Enable,
                  GoTo, Leave, Steps
    <3>2. QED
      BY <1>1, <2>2, <3>1 DEF InTransaction
  <2>5. ASSUME NEW u \in Callers,
               \/ Check(u) \/ Capture(u) \/ RunCommand(u) \/ FailCommand(u) \/ ReadBack(u)
               \/ VerifyFails(u) \/ Expire(u)
        PROVE  FALSE
    <3>1. pc' = pc \/ \E at \in Locked : pc' = [pc EXCEPT ![u] = at]
      BY <2>5 DEF Check, Capture, RunCommand, FailCommand, ReadBack, VerifyFails, Expire,
                  GoTo, Locked
    <3>2. QED
      BY <2>1, <2>2, <3>1 DEF Locked
  <2>6. ASSUME NEW u \in Callers, Refuse(u) PROVE result'[t] = "refused"
    <3>1. pc' = [pc EXCEPT ![u] = "idle"] /\ result' = [result EXCEPT ![u] = "refused"]
      BY <2>6 DEF Refuse, Unlock, Leave
    <3>2. QED
      BY <1>1, <2>2, <3>1 DEF IndInv, TypeOK
  <2>7. ASSUME NEW u \in Callers, Verify(u)
        PROVE  result'[t] = "ok" /\ (active => kern' = Outcome(begun[t].kernel, prog[t]))
    <3>1. u = t /\ result'[t] = "ok" /\ pc[t] = "verify" /\ kern' = kern
      BY <1>1, <2>2, <2>7 DEF Verify, Unlock, Leave, IndInv, TypeOK, firewall
    <3>2. step[t] = Len(prog[t]) /\ (active => kern = Ran(begun[t].kernel, prog[t], step[t]))
      BY <1>1, <3>1 DEF IndInv, FrameInv, TxInv
    <3>3. prog[t] \in Seq(Command)
      <4>1. CASE prog[t] \in Programs
        BY <4>1, ManagerAssumption
      <4>2. CASE prog[t] = <<>>
        BY <4>2
      <4>3. QED
        BY <1>1, <4>1, <4>2 DEF IndInv, TypeOK
    <3>4. QED
      BY <3>1, <3>2, <3>3, RanAll
  <2>8. ASSUME NEW u \in Callers, Rollback(u)
        PROVE  /\ result'[t] # "ok"
               /\ result'[t] = "failed" /\ snap[t].captured => kern' = begun[t].kernel
    <3>1. u = t /\ pc[t] = "rollback"
      BY <2>2, <2>8 DEF Rollback, Unlock, Leave
    <3>2. \/ result'[t] = "rollbackFailed"
          \/ result'[t] = "failed" /\ Replayed(snap[t])
      BY <1>1, <2>8, <3>1 DEF Rollback, Restore, Unlock, Leave, IndInv, TypeOK
    <3>3. snap[t].captured => snap[t].rules = begun[t].kernel
      BY <1>1, <3>1 DEF IndInv, TxInv
    <3>4. QED
      BY <3>2, <3>3 DEF Replayed
  <2>9. ASSUME Crash PROVE result'[t] = "none"
    BY <2>9 DEF Crash
  <2>10. ASSUME Outside \/ UNCHANGED vars PROVE FALSE
    BY <2>1, <2>10 DEF Outside, vars, call
  <2>11. QED
    BY <1>1, <2>3, <2>4, <2>5, <2>6, <2>7, <2>8, <2>9, <2>10 DEF Next, Progress
<1>2. IndInv /\ [Next]_vars =>
        [\A t \in Callers :
           InTransaction(t) /\ t \notin disturbed /\ pc'[t] = "idle" =>
             /\ result'[t] = "ok" /\ active => kern' = Outcome(begun[t].kernel, prog[t])
             /\ result'[t] = "failed" /\ snap[t].captured => kern' = begun[t].kernel
        ]_vars
  BY <1>1
<1>3. QED
  BY <1>2, Invariance, PTL DEF Spec, AllOrNothing
=============================================================================
