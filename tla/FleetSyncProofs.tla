--------------------------- MODULE FleetSyncProofs ---------------------------
(***************************************************************************)
(* Proofs about FleetSync, for any set of commands and of connections and  *)
(* any budget of faults and crashes: the type invariant, the inductive     *)
(* invariant behind the safety properties, and the implementation of       *)
(* CommandLedger.                                                          *)
(***************************************************************************)
EXTENDS FleetSync, TLAPS

(***************************************************************************)
(* The inductive invariant.  The safety properties speak of execs, forgot, *)
(* produced and state alone; what makes them true is where the loop stands *)
(* with respect to its pending result, and what the identity file holds.   *)
(***************************************************************************)

\* Where the loop stands: which request it waits for, and that it asks for
\* work only with no result pending.
LoopInv ==
  /\ conn # NoConn => pc \in {"polling", "posting"}
  /\ pc = "polling" => conn \in Conns /\ req[conn].kind \in {"poll", "look", "idle"}
  /\ pc = "posting" => conn \in Conns /\ req[conn].kind = "result"
                                      /\ req[conn].res = mem.pending
  /\ pc \in {"polling", "exec"} => mem.pending.cmd = NoCommand
  /\ pc = "save" => mem.pending.cmd # NoCommand
  /\ pc = "down" => mem = disk
  /\ pc = "exec" => state[cur] # "ABSENT" /\ execs[cur] = forgot[cur]

\* A result without a command is NoResult, and a result request has a command.
ResultInv ==
  /\ mem.pending.cmd = NoCommand => mem.pending = NoResult
  /\ disk.pending.cmd = NoCommand => disk.pending = NoResult
  /\ \A k \in Conns : req[k].kind = "result" => req[k].res.cmd \in Commands

\* The file holds an undelivered result only if it is the loop's pending one.
DiskInv ==
  \A c \in Commands :
    disk.pending.cmd = c /\ state[c] \notin Terminal => mem.pending = disk.pending

\* Every run is accounted for: by a lapse, by a stored outcome, or by the
\* pending result.
RunsInv ==
  \A c \in Commands :
    /\ forgot[c] <= execs[c]
    /\ execs[c] <= forgot[c] + 1
    /\ state[c] = "ABSENT" => execs[c] = 0
    /\ state[c] \notin Terminal =>
         (execs[c] = forgot[c] + 1 <=> mem.pending.cmd = c)

\* Outcomes, wherever they travel, are outcomes of runs.
OutcomeInv ==
  /\ \A c \in Commands :
       /\ state[c] \in Terminal => state[c] \in produced[c]
       /\ execs[c] = 0 => produced[c] = {}
       /\ forgot[c] = 0 => \A o1, o2 \in produced[c] : o1 = o2
       /\ mem.pending.cmd = c => mem.pending.out \in produced[c]
       /\ disk.pending.cmd = c => disk.pending.out \in produced[c]
  /\ \A k \in Conns, c \in Commands :
       req[k].kind = "result" /\ req[k].res.cmd = c => req[k].res.out \in produced[c]

OverdueInv == \A c \in overdue : state[c] = "DELIVERED"

IndInv == TypeOK /\ LoopInv /\ ResultInv /\ DiskInv /\ RunsInv /\ OutcomeInv /\ OverdueInv

(***************************************************************************)
(* Type correctness.                                                       *)
(***************************************************************************)

\* The number after a sequence number, cut at the bound, is a sequence number.
LEMMA Min2Seq == \A s \in 0..MaxSeq : Min2(s + 1, MaxSeq) \in 0..MaxSeq
BY SyncAssumption DEF Min2

\* A request that is not open and a missing result have their types.
LEMMA FreeType == Free \in Request /\ NoResult \in Result
BY SyncAssumption DEF Free, Request, NoResult, Result, Terminal

\* The types hold at the beginning,
LEMMA InitType == Init => TypeOK
BY SyncAssumption, FreeType DEF Init, TypeOK, CmdStates, Identity

\* ... and every step keeps them.
LEMMA TypeStep == TypeOK /\ [Next]_vars => TypeOK'
<1> SUFFICES ASSUME TypeOK, [Next]_vars PROVE TypeOK'
  OBVIOUS
<1> USE SyncAssumption, FreeType DEF TypeOK, CmdStates, Terminal
<1> DEFINE T == TypeOK'
<1>1. ASSUME NEW c \in Commands, QueueCommand(c) PROVE T
  BY <1>1 DEF QueueCommand, serverVars, placeVars, agentVars, historyVars, budgetVars
<1>2. ASSUME NEW c \in Commands, BecomeOverdue(c) PROVE T
  BY <1>2 DEF BecomeOverdue, serverVars, placeVars, agentVars, historyVars, budgetVars
<1>3. ASSUME NEW k \in Conns, UpdateState(k) PROVE T
  BY <1>3 DEF UpdateState, Request, serverVars, placeVars, agentVars, historyVars, budgetVars
<1>4. ASSUME NEW k \in Conns, RejectStale(k) PROVE T
  BY <1>4 DEF RejectStale, serverVars, placeVars, agentVars, historyVars, budgetVars
<1>5. ASSUME NEW k \in Conns, NextCommand(k) PROVE T
  BY <1>5 DEF NextCommand, Oldest, Handed, Candidates, Request, serverVars, placeVars, agentVars, historyVars, budgetVars
<1>6. ASSUME NEW k \in Conns, NothingQueued(k) PROVE T
  BY <1>6 DEF NothingQueued, Request, serverVars, placeVars, agentVars, historyVars, budgetVars
<1>7. ASSUME NEW k \in Conns, Deadline(k) PROVE T
  BY <1>7 DEF Deadline, Fault, Identity, serverVars, placeVars, agentVars, historyVars, budgetVars
<1>8. ASSUME NEW k \in Conns, ClientGone(k) PROVE T
  BY <1>8 DEF ClientGone, serverVars, placeVars, agentVars, historyVars, budgetVars
<1>9. ASSUME NEW k \in Conns, CompleteCommand(k) PROVE T
  <2>1. /\ req[k].res \in Result
        /\ req' \in [Conns -> Request]
        /\ state' \in [Commands -> CmdStates]
    BY <1>9 DEF CompleteCommand, Accepts, Request, Result
  <2>2. mem' \in Identity /\ disk' \in Identity /\ faults' \in 0..MaxFaults
    BY <1>9 DEF CompleteCommand, Accepts, Identity, Fault
  <2>3. QED
    BY <1>9, <2>1, <2>2 DEF CompleteCommand, Accepts, placeVars, historyVars
<1>10. ASSUME NEW k \in Conns, RejectResult(k) PROVE T
  BY <1>10 DEF RejectResult, serverVars, placeVars, agentVars, historyVars, budgetVars
<1>11. ASSUME NEW k \in Conns, PostResult(k) PROVE T
  BY <1>11 DEF PostResult, Request, Identity, serverVars, placeVars, agentVars, historyVars, budgetVars
<1>12. ASSUME NEW k \in Conns, Poll(k) PROVE T
  BY <1>12, Min2Seq DEF Poll, Request, Identity, serverVars, placeVars, agentVars, historyVars, budgetVars
<1>13. CASE Dispatch
  BY <1>13 DEF Dispatch, Identity, Result, serverVars, placeVars, agentVars, historyVars, budgetVars
<1>14. CASE SaveResult
  BY <1>14 DEF SaveResult, Fault, serverVars, placeVars, agentVars, historyVars, budgetVars
<1>15. CASE Restart
  BY <1>15 DEF Restart, serverVars, placeVars, agentVars, historyVars, budgetVars
<1>16. CASE GiveUp
  BY <1>16 DEF GiveUp, Fault, serverVars, placeVars, agentVars, historyVars, budgetVars
<1>17. CASE Crash
  <2> DEFINE c == mem.pending.cmd
  <2>1. c # NoCommand => c \in Commands
    BY DEF Identity, Result
  <2>2. forgot' \in [Commands -> Nat]
    BY <1>17, <2>1 DEF Crash
  <2>3. strayed' \subseteq Commands
    BY <1>17 DEF Crash
  <2>4. QED
    BY <1>17, <2>2, <2>3 DEF Crash, serverVars, placeVars
<1>18. CASE UNCHANGED vars
  BY <1>18 DEF vars, serverVars, placeVars, agentVars, historyVars, budgetVars
<1> HIDE DEF T
<1>19. QED
  BY <1>1, <1>2, <1>3, <1>4, <1>5, <1>6, <1>7, <1>8, <1>9, <1>10, <1>11, <1>12, <1>13, <1>14, <1>15, <1>16, <1>17, <1>18 DEF Next, Handlers, AgentLoop, T

\* Every variable of server, network and agent keeps its type.
THEOREM TypeCorrect == Spec => []TypeOK
<1>1. TypeOK /\ [Next]_vars => TypeOK'
  BY TypeStep
<1>2. QED
  BY <1>1, InitType, PTL DEF Spec

(***************************************************************************)
(* The inductive step.                                                     *)
(***************************************************************************)

\* A step that leaves results, runs and outcomes alone, and opens no result
\* request, preserves what the invariant says of them.
LEMMA QuietStep ==
  ASSUME IndInv,
         UNCHANGED <<state, mem, disk, execs, forgot, produced>>,
         \A k \in Conns : req'[k].kind = "result" => req'[k] = req[k]
  PROVE  ResultInv' /\ DiskInv' /\ RunsInv' /\ OutcomeInv'
BY DEF IndInv, ResultInv, DiskInv, RunsInv, OutcomeInv

\* The inductive invariant holds at the beginning,
LEMMA InitInv == Init => IndInv
BY InitType, SyncAssumption
   DEF Init, IndInv, LoopInv, ResultInv, DiskInv, RunsInv, OutcomeInv, OverdueInv,
       NoResult, Free, Terminal

\* ... and every step keeps it.
LEMMA InvStep == IndInv /\ [Next]_vars => IndInv'
<1> SUFFICES ASSUME IndInv, [Next]_vars PROVE IndInv'
  OBVIOUS
<1> DEFINE Rest == LoopInv' /\ ResultInv' /\ DiskInv' /\ RunsInv' /\ OutcomeInv' /\ OverdueInv'
<1>a. TypeOK'
  BY TypeStep DEF IndInv
<1>1. ASSUME NEW k \in Conns, UpdateState(k) PROVE Rest
  <2>1. /\ UNCHANGED <<state, mem, disk, execs, forgot, produced>>
        /\ \A j \in Conns : req'[j].kind = "result" => req'[j] = req[j]
    BY <1>1 DEF UpdateState, IndInv, TypeOK, Request, Free, serverVars, placeVars, agentVars, historyVars, budgetVars
  <2>2. LoopInv'
    BY <1>1, SyncAssumption DEF UpdateState, IndInv, TypeOK, LoopInv, Request, Free, serverVars, placeVars, agentVars, historyVars, budgetVars
  <2>3. OverdueInv'
    BY <1>1 DEF UpdateState, IndInv, OverdueInv, serverVars, placeVars, agentVars, historyVars, budgetVars
  <2>4. QED
    BY <2>1, <2>2, <2>3, QuietStep
<1>2. ASSUME NEW k \in Conns, RejectStale(k) PROVE Rest
  <2>1. /\ UNCHANGED <<state, mem, disk, execs, forgot, produced>>
        /\ \A j \in Conns : req'[j].kind = "result" => req'[j] = req[j]
    BY <1>2 DEF RejectStale, IndInv, TypeOK, Request, Free, serverVars, placeVars, agentVars, historyVars, budgetVars
  <2>2. LoopInv'
    BY <1>2, SyncAssumption DEF RejectStale, IndInv, TypeOK, LoopInv, Request, Free, serverVars, placeVars, agentVars, historyVars, budgetVars
  <2>3. OverdueInv'
    BY <1>2 DEF RejectStale, IndInv, OverdueInv, serverVars, placeVars, agentVars, historyVars, budgetVars
  <2>4. QED
    BY <2>1, <2>2, <2>3, QuietStep
<1>3. ASSUME NEW k \in Conns, NothingQueued(k) PROVE Rest
  <2>1. /\ UNCHANGED <<state, mem, disk, execs, forgot, produced>>
        /\ \A j \in Conns : req'[j].kind = "result" => req'[j] = req[j]
    BY <1>3 DEF NothingQueued, IndInv, TypeOK, Request, Free, serverVars, placeVars, agentVars, historyVars, budgetVars
  <2>2. LoopInv'
    BY <1>3, SyncAssumption DEF NothingQueued, IndInv, TypeOK, LoopInv, Request, Free, serverVars, placeVars, agentVars, historyVars, budgetVars
  <2>3. OverdueInv'
    BY <1>3 DEF NothingQueued, IndInv, OverdueInv, serverVars, placeVars, agentVars, historyVars, budgetVars
  <2>4. QED
    BY <2>1, <2>2, <2>3, QuietStep
<1>4. ASSUME NEW k \in Conns, ClientGone(k) PROVE Rest
  <2>1. /\ UNCHANGED <<state, mem, disk, execs, forgot, produced>>
        /\ \A j \in Conns : req'[j].kind = "result" => req'[j] = req[j]
    BY <1>4 DEF ClientGone, IndInv, TypeOK, Request, Free, serverVars, placeVars, agentVars, historyVars, budgetVars
  <2>2. LoopInv'
    BY <1>4, SyncAssumption DEF ClientGone, IndInv, TypeOK, LoopInv, Request, Free, serverVars, placeVars, agentVars, historyVars, budgetVars
  <2>3. OverdueInv'
    BY <1>4 DEF ClientGone, IndInv, OverdueInv, serverVars, placeVars, agentVars, historyVars, budgetVars
  <2>4. QED
    BY <2>1, <2>2, <2>3, QuietStep
<1>5. ASSUME NEW k \in Conns, RejectResult(k) PROVE Rest
  <2>1. /\ UNCHANGED <<state, mem, disk, execs, forgot, produced>>
        /\ \A j \in Conns : req'[j].kind = "result" => req'[j] = req[j]
    BY <1>5 DEF RejectResult, IndInv, TypeOK, Request, Free, serverVars, placeVars, agentVars, historyVars, budgetVars
  <2>2. LoopInv'
    BY <1>5, SyncAssumption DEF RejectResult, IndInv, TypeOK, LoopInv, Request, Free, serverVars, placeVars, agentVars, historyVars, budgetVars
  <2>3. OverdueInv'
    BY <1>5 DEF RejectResult, IndInv, OverdueInv, serverVars, placeVars, agentVars, historyVars, budgetVars
  <2>4. QED
    BY <2>1, <2>2, <2>3, QuietStep
<1>6. ASSUME NEW c \in Commands, BecomeOverdue(c) PROVE Rest
  <2>1. /\ UNCHANGED <<state, mem, disk, execs, forgot, produced>>
        /\ \A j \in Conns : req'[j].kind = "result" => req'[j] = req[j]
    BY <1>6 DEF BecomeOverdue, IndInv, TypeOK, Request, Free, serverVars, placeVars, agentVars, historyVars, budgetVars
  <2>2. LoopInv'
    BY <1>6, SyncAssumption DEF BecomeOverdue, IndInv, TypeOK, LoopInv, Request, Free, serverVars, placeVars, agentVars, historyVars, budgetVars
  <2>3. OverdueInv'
    BY <1>6 DEF BecomeOverdue, IndInv, OverdueInv, serverVars, placeVars, agentVars, historyVars, budgetVars
  <2>4. QED
    BY <2>1, <2>2, <2>3, QuietStep
<1>7. ASSUME Restart PROVE Rest
  <2>1. /\ UNCHANGED <<state, mem, disk, execs, forgot, produced>>
        /\ \A j \in Conns : req'[j].kind = "result" => req'[j] = req[j]
    BY <1>7 DEF Restart, IndInv, TypeOK, Request, Free, serverVars, placeVars, agentVars, historyVars, budgetVars
  <2>2. LoopInv'
    BY <1>7, SyncAssumption DEF Restart, IndInv, TypeOK, LoopInv, Request, Free, serverVars, placeVars, agentVars, historyVars, budgetVars
  <2>3. OverdueInv'
    BY <1>7 DEF Restart, IndInv, OverdueInv, serverVars, placeVars, agentVars, historyVars, budgetVars
  <2>4. QED
    BY <2>1, <2>2, <2>3, QuietStep
<1>8. ASSUME GiveUp PROVE Rest
  <2>1. /\ UNCHANGED <<state, mem, disk, execs, forgot, produced>>
        /\ \A j \in Conns : req'[j].kind = "result" => req'[j] = req[j]
    BY <1>8 DEF GiveUp, IndInv, TypeOK, Request, Free, serverVars, placeVars, agentVars, historyVars, budgetVars
  <2>2. LoopInv'
    BY <1>8, SyncAssumption DEF GiveUp, IndInv, TypeOK, LoopInv, Request, Free, serverVars, placeVars, agentVars, historyVars, budgetVars
  <2>3. OverdueInv'
    BY <1>8 DEF GiveUp, IndInv, OverdueInv, serverVars, placeVars, agentVars, historyVars, budgetVars
  <2>4. QED
    BY <2>1, <2>2, <2>3, QuietStep
<1>9. ASSUME NEW c \in Commands, QueueCommand(c) PROVE Rest
  <2>1. LoopInv'
    BY <1>9, SyncAssumption DEF QueueCommand, IndInv, TypeOK, LoopInv, Terminal, CmdStates, Free, NoResult, Request, serverVars, placeVars, agentVars, historyVars, budgetVars
  <2>2. ResultInv'
    BY <1>9, SyncAssumption DEF QueueCommand, IndInv, TypeOK, ResultInv, Terminal, CmdStates, Free, NoResult, Request, serverVars, placeVars, agentVars, historyVars, budgetVars
  <2>3. DiskInv'
    BY <1>9, SyncAssumption DEF QueueCommand, IndInv, TypeOK, DiskInv, Terminal, CmdStates, Request, serverVars, placeVars, agentVars, historyVars, budgetVars
  <2>4. RunsInv'
    BY <1>9, SyncAssumption DEF QueueCommand, IndInv, TypeOK, RunsInv, Terminal, CmdStates, Request, serverVars, placeVars, agentVars, historyVars, budgetVars
  <2>5. OutcomeInv'
    BY <1>9, SyncAssumption DEF QueueCommand, IndInv, TypeOK, OutcomeInv, Terminal, CmdStates, Free, NoResult, Request, serverVars, placeVars, agentVars, historyVars, budgetVars
  <2>6. OverdueInv'
    BY <1>9, SyncAssumption DEF QueueCommand, IndInv, TypeOK, OverdueInv, Terminal, CmdStates, Request, serverVars, placeVars, agentVars, historyVars, budgetVars
  <2>7. QED
    BY <2>1, <2>2, <2>3, <2>4, <2>5, <2>6
<1>10. ASSUME NEW k \in Conns, NextCommand(k) PROVE Rest
  <2> USE DEF Terminal
  <2>0. PICK c \in Candidates :
          /\ state' = [d \in Commands |-> IF d = c THEN "DELIVERED"
                                          ELSE IF d \in overdue THEN "QUEUED" ELSE state[d]]
          /\ cur' = IF k = conn THEN c ELSE cur
    BY <1>10 DEF NextCommand, Oldest, Handed
  <2>1. c \in Commands /\ state[c] \in {"QUEUED", "DELIVERED"}
    BY DEF Candidates, IndInv, TypeOK, OverdueInv
  <2>2. \A d \in Commands : /\ state'[d] \in Terminal <=> state[d] \in Terminal
                            /\ state'[d] \in Terminal => state'[d] = state[d]
                            /\ state'[d] = "ABSENT" <=> state[d] = "ABSENT"
    BY <2>0, <2>1 DEF IndInv, TypeOK, OverdueInv
  <2>3. /\ UNCHANGED <<mem, disk, execs, forgot, produced>>
        /\ \A j \in Conns : req'[j].kind = "result" => req'[j] = req[j]
    BY <1>10 DEF NextCommand, Oldest, Handed, IndInv, TypeOK, Request, Free
  <2>4. LoopInv'
    <3>1. CASE k = conn
      <4>1. pc = "polling"
        BY <1>10, <3>1, SyncAssumption DEF NextCommand, Oldest, Handed, IndInv, TypeOK, LoopInv
      <4>2. mem.pending.cmd = NoCommand
        BY <4>1 DEF IndInv, LoopInv
      <4>3. execs[c] = forgot[c]
        BY <2>1, <4>2, SyncAssumption DEF IndInv, TypeOK, RunsInv
      <4>4. pc' = "exec" /\ conn' = NoConn /\ cur' = c
        BY <1>10, <2>0, <3>1 DEF NextCommand, Oldest, Handed
      <4>5. QED
        BY <2>1, <2>2, <2>3, <4>2, <4>3, <4>4 DEF LoopInv
    <3>2. CASE k # conn
      BY <1>10, <2>0, <2>2, <3>2, SyncAssumption DEF NextCommand, Oldest, Handed, IndInv, TypeOK, LoopInv
    <3>3. QED
      BY <3>1, <3>2
  <2>5. ResultInv' /\ DiskInv' /\ RunsInv' /\ OutcomeInv'
    BY <2>2, <2>3 DEF IndInv, ResultInv, DiskInv, RunsInv, OutcomeInv
  <2>6. OverdueInv'
    BY <1>10 DEF NextCommand, Oldest, Handed, OverdueInv
  <2>7. QED
    BY <2>4, <2>5, <2>6
<1>11. ASSUME NEW k \in Conns, Deadline(k) PROVE Rest
  <2>1. LoopInv'
    BY <1>11, SyncAssumption DEF Deadline, IndInv, TypeOK, LoopInv, Terminal, CmdStates, Free, NoResult, Request, serverVars, placeVars, agentVars, historyVars, budgetVars
  <2>2. ResultInv'
    BY <1>11, SyncAssumption DEF Deadline, IndInv, TypeOK, ResultInv, Terminal, CmdStates, Free, NoResult, Request, serverVars, placeVars, agentVars, historyVars, budgetVars
  <2>3. DiskInv'
    BY <1>11, SyncAssumption DEF Deadline, IndInv, TypeOK, DiskInv, Terminal, CmdStates, Request, serverVars, placeVars, agentVars, historyVars, budgetVars
  <2>4. RunsInv'
    BY <1>11, SyncAssumption DEF Deadline, IndInv, TypeOK, RunsInv, Terminal, CmdStates, Request, serverVars, placeVars, agentVars, historyVars, budgetVars
  <2>5. OutcomeInv'
    BY <1>11, SyncAssumption DEF Deadline, IndInv, TypeOK, OutcomeInv, Terminal, CmdStates, Free, NoResult, Request, serverVars, placeVars, agentVars, historyVars, budgetVars
  <2>6. OverdueInv'
    BY <1>11, SyncAssumption DEF Deadline, IndInv, TypeOK, OverdueInv, Terminal, CmdStates, Request, serverVars, placeVars, agentVars, historyVars, budgetVars
  <2>7. QED
    BY <2>1, <2>2, <2>3, <2>4, <2>5, <2>6
<1>12. ASSUME NEW k \in Conns, CompleteCommand(k) PROVE Rest
  <2> DEFINE r == req[k].res
  <2>1. /\ r.cmd \in Commands /\ r.out \in Terminal /\ r.out \in produced[r.cmd]
        /\ req[k].kind = "result"
    BY <1>12 DEF CompleteCommand, Accepts, IndInv, TypeOK, Request, Result, ResultInv, OutcomeInv
  <2>2. /\ state' = [state EXCEPT ![r.cmd] = r.out]
        /\ UNCHANGED <<cur, execs, forgot, produced, strayed>>
        /\ req' = [req EXCEPT ![k] = Free]
        /\ overdue' = overdue \ {r.cmd}
    BY <1>12 DEF CompleteCommand, Accepts, historyVars
  <2>3. \A j \in Conns : req'[j].kind = "result" => req'[j] = req[j]
    BY <2>2 DEF IndInv, TypeOK, Free
  <2>4. CASE k = conn
    <3>1. pc = "posting" /\ r = mem.pending
      BY <2>1, <2>4, SyncAssumption DEF IndInv, TypeOK, LoopInv
    <3>2. /\ pc' = "top" /\ conn' = NoConn
          /\ mem' = [mem EXCEPT !.pending = NoResult]
          /\ disk' = mem' \/ disk' = disk
      BY <1>12, <2>4 DEF CompleteCommand, Accepts
    <3>3. mem'.pending = NoResult /\ NoResult.cmd = NoCommand
      BY <3>2 DEF IndInv, TypeOK, Identity, NoResult
    <3>4. LoopInv'
      BY <3>2, <3>3 DEF LoopInv
    <3>5. ResultInv'
      BY <2>3, <3>2, <3>3 DEF IndInv, ResultInv
    <3>6. DiskInv'
      BY <2>1, <2>2, <3>1, <3>2, SyncAssumption, <3>3 DEF IndInv, TypeOK, DiskInv
    <3>7. RunsInv'
      <4>1. \A d \in Commands : d # r.cmd => state'[d] = state[d] /\ mem.pending.cmd # d
        BY <2>1, <2>2, <3>1 DEF IndInv, TypeOK
      <4>2. state'[r.cmd] \in Terminal /\ state'[r.cmd] # "ABSENT"
        BY <2>1, <2>2 DEF IndInv, TypeOK, Terminal
      <4>3. \A d \in Commands : mem'.pending.cmd # d
        BY <3>3, SyncAssumption
      <4>4. QED
        BY <2>2, <4>1, <4>2, <4>3 DEF IndInv, RunsInv
    <3>8. OutcomeInv'
      <4>1. \A d \in Commands : state'[d] \in Terminal => state'[d] \in produced[d]
        BY <2>1, <2>2 DEF IndInv, TypeOK, OutcomeInv
      <4>2. \A d \in Commands : mem'.pending.cmd # d
        BY <3>3, SyncAssumption
      <4>3. \A d \in Commands : disk'.pending.cmd = d => disk'.pending.out \in produced[d]
        BY <3>2, <4>2 DEF IndInv, OutcomeInv
      <4>4. QED
        BY <2>2, <2>3, <4>1, <4>2, <4>3 DEF IndInv, OutcomeInv
    <3>9. OverdueInv'
      BY <2>2 DEF IndInv, TypeOK, OverdueInv
    <3>10. QED
      BY <3>4, <3>5, <3>6, <3>7, <3>8, <3>9
  <2>5. CASE k # conn
    <3>1. UNCHANGED <<pc, conn, mem, disk>>
      BY <1>12, <2>5 DEF CompleteCommand, Accepts
    <3>2. LoopInv'
      BY <2>1, <2>2, <2>5, <3>1, SyncAssumption DEF IndInv, TypeOK, LoopInv, Terminal
    <3>3. ResultInv'
      BY <2>3, <3>1 DEF IndInv, ResultInv
    <3>4. DiskInv'
      BY <2>1, <2>2, <3>1 DEF IndInv, TypeOK, DiskInv
    <3>5. RunsInv'
      BY <2>1, <2>2, <3>1, SyncAssumption DEF IndInv, TypeOK, RunsInv, OutcomeInv, Terminal
    <3>6. OutcomeInv'
      BY <2>1, <2>2, <2>3, <3>1, SyncAssumption DEF IndInv, TypeOK, OutcomeInv
    <3>7. OverdueInv'
      BY <2>2 DEF IndInv, TypeOK, OverdueInv
    <3>8. QED
      BY <3>2, <3>3, <3>4, <3>5, <3>6, <3>7
  <2>6. QED
    BY <2>4, <2>5
<1>13. ASSUME NEW k \in Conns, PostResult(k) PROVE Rest
  <2>1. LoopInv'
    BY <1>13, SyncAssumption DEF PostResult, IndInv, TypeOK, LoopInv, Terminal, CmdStates, Free, NoResult, Request, serverVars, placeVars, agentVars, historyVars, budgetVars
  <2>2. ResultInv'
    <3>1. mem.pending.cmd \in Commands
      BY <1>13 DEF PostResult, IndInv, TypeOK, Identity, Result, ResultInv
    <3>2. QED
      BY <1>13, <3>1 DEF PostResult, IndInv, TypeOK, ResultInv
  <2>3. DiskInv'
    BY <1>13, SyncAssumption DEF PostResult, IndInv, TypeOK, DiskInv, Terminal, CmdStates, Request, serverVars, placeVars, agentVars, historyVars, budgetVars
  <2>4. RunsInv'
    BY <1>13, SyncAssumption DEF PostResult, IndInv, TypeOK, RunsInv, Terminal, CmdStates, Request, serverVars, placeVars, agentVars, historyVars, budgetVars
  <2>5. OutcomeInv'
    BY <1>13, SyncAssumption DEF PostResult, IndInv, TypeOK, OutcomeInv, Terminal, CmdStates, Free, NoResult, Request, serverVars, placeVars, agentVars, historyVars, budgetVars
  <2>6. OverdueInv'
    BY <1>13, SyncAssumption DEF PostResult, IndInv, TypeOK, OverdueInv, Terminal, CmdStates, Request, serverVars, placeVars, agentVars, historyVars, budgetVars
  <2>7. QED
    BY <2>1, <2>2, <2>3, <2>4, <2>5, <2>6
<1>14. ASSUME NEW k \in Conns, Poll(k) PROVE Rest
  <2>1. LoopInv'
    BY <1>14, SyncAssumption DEF Poll, IndInv, TypeOK, LoopInv, Terminal, CmdStates, Free, NoResult, Request, serverVars, placeVars, agentVars, historyVars, budgetVars
  <2>2. ResultInv'
    BY <1>14, SyncAssumption DEF Poll, IndInv, TypeOK, ResultInv, Terminal, CmdStates, Free, NoResult, Request, serverVars, placeVars, agentVars, historyVars, budgetVars
  <2>3. DiskInv'
    BY <1>14, SyncAssumption DEF Poll, IndInv, TypeOK, DiskInv, Terminal, CmdStates, Request, serverVars, placeVars, agentVars, historyVars, budgetVars
  <2>4. RunsInv'
    BY <1>14, SyncAssumption DEF Poll, IndInv, TypeOK, RunsInv, Terminal, CmdStates, Request, serverVars, placeVars, agentVars, historyVars, budgetVars
  <2>5. OutcomeInv'
    BY <1>14, SyncAssumption DEF Poll, IndInv, TypeOK, OutcomeInv, Terminal, CmdStates, Free, NoResult, Request, serverVars, placeVars, agentVars, historyVars, budgetVars
  <2>6. OverdueInv'
    BY <1>14, SyncAssumption DEF Poll, IndInv, TypeOK, OverdueInv, Terminal, CmdStates, Request, serverVars, placeVars, agentVars, historyVars, budgetVars
  <2>7. QED
    BY <2>1, <2>2, <2>3, <2>4, <2>5, <2>6
<1>15. ASSUME Dispatch PROVE Rest
  <2>0. PICK o \in Terminal :
          /\ mem' = [mem EXCEPT !.pending = [cmd |-> cur, out |-> o]]
          /\ produced' = [produced EXCEPT ![cur] = @ \union {o}]
    BY <1>15 DEF Dispatch
  <2>1. /\ cur \in Commands /\ state[cur] # "ABSENT" /\ execs[cur] = forgot[cur]
        /\ mem.pending.cmd = NoCommand
    BY <1>15 DEF Dispatch, IndInv, TypeOK, LoopInv
  <2>2. mem'.pending = [cmd |-> cur, out |-> o]
    BY <2>0 DEF IndInv, TypeOK, Identity
  <2>3. /\ execs' = [execs EXCEPT ![cur] = @ + 1]
        /\ UNCHANGED <<state, overdue, req, disk, conn, forgot>>
        /\ pc' = "save"
    BY <1>15 DEF Dispatch, serverVars
  <2>4. LoopInv'
    BY <1>15, <2>1, <2>2, <2>3, SyncAssumption DEF Dispatch, IndInv, LoopInv
  <2>5. ResultInv'
    BY <2>1, <2>2, <2>3, SyncAssumption DEF IndInv, ResultInv
  <2>6. DiskInv'
    BY <2>1, <2>3, SyncAssumption DEF IndInv, DiskInv
  <2>7. RunsInv'
    BY <2>1, <2>2, <2>3, SyncAssumption DEF IndInv, TypeOK, RunsInv
  <2>8. OutcomeInv'
    <3>1. \A c \in Commands : produced[c] \subseteq produced'[c]
      BY <2>0, <2>1 DEF IndInv, TypeOK
    <3>2. o \in produced'[cur] /\ \A c \in Commands : c # cur => produced'[c] = produced[c]
      BY <2>0, <2>1 DEF IndInv, TypeOK
    <3>3. forgot[cur] = 0 => produced'[cur] = {o}
      BY <2>0, <2>1 DEF IndInv, TypeOK, OutcomeInv
    <3>4. ASSUME NEW c \in Commands
          PROVE  /\ state'[c] \in Terminal => state'[c] \in produced'[c]
                 /\ execs'[c] = 0 => produced'[c] = {}
                 /\ forgot'[c] = 0 => \A o1, o2 \in produced'[c] : o1 = o2
                 /\ mem'.pending.cmd = c => mem'.pending.out \in produced'[c]
                 /\ disk'.pending.cmd = c => disk'.pending.out \in produced'[c]
      BY <2>1, <2>2, <2>3, <3>1, <3>2, <3>3 DEF IndInv, TypeOK, OutcomeInv
    <3>5. ASSUME NEW k \in Conns, NEW c \in Commands,
                 req'[k].kind = "result", req'[k].res.cmd = c
          PROVE  req'[k].res.out \in produced'[c]
      BY <2>3, <3>1, <3>5 DEF IndInv, OutcomeInv
    <3>6. QED
      BY <3>4, <3>5 DEF OutcomeInv
  <2>9. OverdueInv'
    BY <2>3 DEF IndInv, OverdueInv
  <2>10. QED
    BY <2>4, <2>5, <2>6, <2>7, <2>8, <2>9
<1>16. ASSUME SaveResult PROVE Rest
  <2>1. LoopInv'
    BY <1>16, SyncAssumption DEF SaveResult, IndInv, TypeOK, LoopInv, Terminal, CmdStates, Free, NoResult, Request, serverVars, placeVars, agentVars, historyVars, budgetVars
  <2>2. ResultInv'
    BY <1>16, SyncAssumption DEF SaveResult, IndInv, TypeOK, ResultInv, Terminal, CmdStates, Free, NoResult, Request, serverVars, placeVars, agentVars, historyVars, budgetVars
  <2>3. DiskInv'
    BY <1>16, SyncAssumption DEF SaveResult, IndInv, TypeOK, DiskInv, Terminal, CmdStates, Request, serverVars, placeVars, agentVars, historyVars, budgetVars
  <2>4. RunsInv'
    BY <1>16, SyncAssumption DEF SaveResult, IndInv, TypeOK, RunsInv, Terminal, CmdStates, Request, serverVars, placeVars, agentVars, historyVars, budgetVars
  <2>5. OutcomeInv'
    BY <1>16, SyncAssumption DEF SaveResult, IndInv, TypeOK, OutcomeInv, Terminal, CmdStates, Free, NoResult, Request, serverVars, placeVars, agentVars, historyVars, budgetVars
  <2>6. OverdueInv'
    BY <1>16, SyncAssumption DEF SaveResult, IndInv, TypeOK, OverdueInv, Terminal, CmdStates, Request, serverVars, placeVars, agentVars, historyVars, budgetVars
  <2>7. QED
    BY <2>1, <2>2, <2>3, <2>4, <2>5, <2>6
<1>17. ASSUME Crash PROVE Rest
  <2>1. LoopInv'
    BY <1>17, SyncAssumption DEF Crash, IndInv, TypeOK, LoopInv, Terminal, CmdStates, Free, NoResult, Request, serverVars, placeVars, agentVars, historyVars, budgetVars
  <2>2. ResultInv'
    BY <1>17, SyncAssumption DEF Crash, IndInv, TypeOK, ResultInv, Terminal, CmdStates, Free, NoResult, Request, serverVars, placeVars, agentVars, historyVars, budgetVars
  <2>3. DiskInv'
    BY <1>17, SyncAssumption DEF Crash, IndInv, TypeOK, DiskInv, Terminal, CmdStates, Request, serverVars, placeVars, agentVars, historyVars, budgetVars
  <2>4. RunsInv'
    <3>1. mem.pending.cmd \in Commands \union {NoCommand}
      BY DEF IndInv, TypeOK, Identity, Result
    <3>2. /\ mem' = disk
          /\ UNCHANGED <<state, execs>>
      BY <1>17 DEF Crash, serverVars
    <3>3. ASSUME NEW c \in Commands
          PROVE  /\ forgot'[c] <= execs'[c]
                 /\ execs'[c] <= forgot'[c] + 1
                 /\ state'[c] = "ABSENT" => execs'[c] = 0
                 /\ state'[c] \notin Terminal =>
                      (execs'[c] = forgot'[c] + 1 <=> mem'.pending.cmd = c)
      <4> DEFINE lost == /\ c = mem.pending.cmd
                         /\ disk.pending # mem.pending
                         /\ state[c] \notin Terminal
      <4>1. CASE lost
        <5>1. forgot'[c] = forgot[c] + 1 /\ execs[c] = forgot[c] + 1
          BY <1>17, <4>1, SyncAssumption DEF Crash, IndInv, TypeOK, RunsInv
        <5>2. disk.pending.cmd # c
          BY <4>1 DEF IndInv, DiskInv
        <5>3. QED
          BY <3>2, <5>1, <5>2 DEF IndInv, TypeOK, RunsInv
      <4>2. CASE ~lost
        <5>1. forgot'[c] = forgot[c]
          BY <1>17, <4>2, <3>1 DEF Crash, IndInv, TypeOK
        <5>2. state[c] \notin Terminal => (disk.pending.cmd = c <=> mem.pending.cmd = c)
          BY <4>2 DEF IndInv, DiskInv
        <5>3. QED
          BY <3>2, <5>1, <5>2 DEF IndInv, TypeOK, RunsInv
      <4>3. QED
        BY <4>1, <4>2
    <3>4. QED
      BY <3>3 DEF RunsInv
  <2>5. OutcomeInv'
    BY <1>17, SyncAssumption DEF Crash, IndInv, TypeOK, OutcomeInv, Terminal, CmdStates, Free, NoResult, Request, serverVars, placeVars, agentVars, historyVars, budgetVars
  <2>6. OverdueInv'
    BY <1>17, SyncAssumption DEF Crash, IndInv, TypeOK, OverdueInv, Terminal, CmdStates, Request, serverVars, placeVars, agentVars, historyVars, budgetVars
  <2>7. QED
    BY <2>1, <2>2, <2>3, <2>4, <2>5, <2>6
<1>18. ASSUME UNCHANGED vars PROVE Rest
  BY <1>18 DEF vars, serverVars, placeVars, agentVars, historyVars, budgetVars, IndInv, LoopInv, ResultInv, DiskInv, RunsInv, OutcomeInv, OverdueInv
<1> HIDE DEF Rest
<1>q. Rest
  BY <1>1, <1>2, <1>3, <1>4, <1>5, <1>6, <1>7, <1>8, <1>9, <1>10, <1>11, <1>12, <1>13, <1>14, <1>15, <1>16, <1>17, <1>18 DEF Next, Handlers, AgentLoop
<1>z. QED
  BY <1>a, <1>q DEF IndInv, Rest

\* The inductive invariant holds for any commands, requests and faults (sync.go:111-165, fleet.go, api/fleet.go).
THEOREM Invariance == Spec => []IndInv
<1>1. IndInv /\ [Next]_vars => IndInv'
  BY InvStep
<1>2. QED
  BY <1>1, InitInv, PTL DEF Spec

(***************************************************************************)
(* Safety.                                                                 *)
(***************************************************************************)

\* A command is dispatched once per lapse, for any number of commands, open
\* requests, faults and crashes.
THEOREM RunsOnce == Spec => []RunsOncePerLapse
<1>1. IndInv => RunsOncePerLapse
  BY DEF IndInv, RunsInv, RunsOncePerLapse
<1>2. QED
  BY <1>1, Invariance, PTL

\* A stored outcome is the outcome of a run.
THEOREM Honest == Spec => []OutcomeWasProduced
<1>1. IndInv => OutcomeWasProduced
  BY DEF IndInv, OutcomeInv, OutcomeWasProduced
<1>2. QED
  BY <1>1, Invariance, PTL

\* A run the server has no outcome of is the loop's pending result.
THEOREM Held == Spec => []ResultIsHeld
<1>1. IndInv => ResultIsHeld
  BY DEF IndInv, TypeOK, RunsInv, ResultIsHeld
<1>2. QED
  BY <1>1, Invariance, PTL

\* What one step does to the row of one command: nothing an administrator
\* would notice, unless it inserts the row or stores the outcome of a run.
LEMMA RowStep ==
  ASSUME IndInv, [Next]_vars, NEW c \in Commands
  PROVE  \/ state'[c] = state[c]
         \/ state[c] = "ABSENT" /\ state'[c] = "QUEUED"
         \/ state[c] \in {"QUEUED", "DELIVERED"} /\ state'[c] \in {"QUEUED", "DELIVERED"}
         \/ \E k \in Conns : /\ CompleteCommand(k) /\ req[k].res.cmd = c
                             /\ state'[c] = req[k].res.out
<1> USE DEF IndInv, TypeOK
<1>1. ASSUME NEW d \in Commands, QueueCommand(d)
      PROVE  state'[c] = state[c] \/ (state[c] = "ABSENT" /\ state'[c] = "QUEUED")
  BY <1>1 DEF QueueCommand
<1>2. ASSUME NEW k \in Conns, NextCommand(k)
      PROVE  \/ state'[c] = state[c]
             \/ state[c] \in {"QUEUED", "DELIVERED"} /\ state'[c] \in {"QUEUED", "DELIVERED"}
  BY <1>2 DEF NextCommand, Oldest, Handed, Candidates, OverdueInv
<1>3. ASSUME NEW k \in Conns, CompleteCommand(k)
      PROVE  \/ state'[c] = state[c]
             \/ req[k].res.cmd = c /\ state'[c] = req[k].res.out
  BY <1>3 DEF CompleteCommand, Accepts
<1>4. ASSUME \/ \E k \in Conns : \/ UpdateState(k) \/ RejectStale(k) \/ NothingQueued(k)
                                \/ Deadline(k) \/ ClientGone(k) \/ RejectResult(k)
                                \/ PostResult(k) \/ Poll(k)
             \/ \E d \in Commands : BecomeOverdue(d)
             \/ Dispatch \/ SaveResult \/ Restart \/ GiveUp \/ Crash \/ UNCHANGED vars
      PROVE  state' = state
  BY <1>4 DEF UpdateState, RejectStale, NothingQueued, Deadline, ClientGone, RejectResult,
              PostResult, Poll, BecomeOverdue, Dispatch, SaveResult, Restart, GiveUp, Crash,
              vars, serverVars
<1>5. QED
  BY <1>1, <1>2, <1>3, <1>4 DEF Next, Handlers, AgentLoop

\* A resolved command keeps its outcome for ever, unless it lapsed.
THEOREM Final == Spec => OutcomeIsFinal
<1>1. ASSUME IndInv, [Next]_vars, NEW c \in Commands,
             state[c] \in Terminal, forgot[c] = 0
      PROVE  state'[c] = state[c]
  <2>1. ASSUME NEW k \in Conns, CompleteCommand(k), req[k].res.cmd = c
        PROVE  req[k].res.out = state[c]
    BY <1>1, <2>1 DEF CompleteCommand, Accepts, IndInv, OutcomeInv
  <2>2. QED
    BY <1>1, <2>1, RowStep DEF Terminal
<1>2. IndInv /\ [Next]_vars
        => [\A c \in Commands :
              state[c] \in Terminal /\ forgot[c] = 0 => state'[c] = state[c]]_vars
  BY <1>1
<1>3. QED
  BY <1>2, Invariance, PTL DEF Spec, OutcomeIsFinal

(***************************************************************************)
(* Order.                                                                  *)
(***************************************************************************)

\* A row's place is among those given out; a delivered command has strayed, has
\* run, or is in the loop's hands; and what comes before the command in the
\* loop's hands, in both orders, has run or has strayed.
OrderInv ==
  /\ \A c \in Commands : place[c] <= rows
  /\ \A c \in Commands : state[c] = "DELIVERED" =>
       c \in strayed \/ execs[c] > 0 \/ (pc = "exec" /\ cur = c)
  /\ pc = "exec" =>
       \A d \in Commands :
         state[d] # "ABSENT" /\ place[d] < place[cur] /\ stamp[d] < stamp[cur]
           => execs[d] > 0 \/ d \in strayed

\* Every step keeps the order in which an agent's commands are run.
LEMMA OrderStep == IndInv /\ OrderInv /\ [Next]_vars => OrderInv'
<1> SUFFICES ASSUME IndInv, OrderInv, [Next]_vars PROVE OrderInv'
  OBVIOUS
<1> USE DEF IndInv, TypeOK
<1>1. ASSUME NEW k \in Conns, UpdateState(k) PROVE OrderInv'
  BY <1>1, SyncAssumption DEF UpdateState, OrderInv, LoopInv, serverVars, placeVars, agentVars, historyVars, budgetVars
<1>2. ASSUME NEW k \in Conns, RejectStale(k) PROVE OrderInv'
  BY <1>2, SyncAssumption DEF RejectStale, OrderInv, LoopInv, serverVars, placeVars, agentVars, historyVars, budgetVars
<1>3. ASSUME NEW k \in Conns, NothingQueued(k) PROVE OrderInv'
  BY <1>3, SyncAssumption DEF NothingQueued, OrderInv, LoopInv, serverVars, placeVars, agentVars, historyVars, budgetVars
<1>4. ASSUME NEW k \in Conns, ClientGone(k) PROVE OrderInv'
  BY <1>4, SyncAssumption DEF ClientGone, OrderInv, LoopInv, serverVars, placeVars, agentVars, historyVars, budgetVars
<1>5. ASSUME NEW k \in Conns, RejectResult(k) PROVE OrderInv'
  BY <1>5, SyncAssumption DEF RejectResult, OrderInv, LoopInv, serverVars, placeVars, agentVars, historyVars, budgetVars
<1>6. ASSUME NEW k \in Conns, Deadline(k) PROVE OrderInv'
  BY <1>6, SyncAssumption DEF Deadline, OrderInv, LoopInv, serverVars, placeVars, agentVars, historyVars, budgetVars
<1>7. ASSUME NEW k \in Conns, PostResult(k) PROVE OrderInv'
  BY <1>7, SyncAssumption DEF PostResult, OrderInv, LoopInv, serverVars, placeVars, agentVars, historyVars, budgetVars
<1>8. ASSUME NEW k \in Conns, Poll(k) PROVE OrderInv'
  BY <1>8, SyncAssumption DEF Poll, OrderInv, LoopInv, serverVars, placeVars, agentVars, historyVars, budgetVars
<1>9. ASSUME NEW c \in Commands, QueueCommand(c) PROVE OrderInv'
  BY <1>9, SyncAssumption DEF QueueCommand, OrderInv, LoopInv, Terminal, Request, Result, serverVars, placeVars, agentVars, historyVars, budgetVars
<1>10. ASSUME NEW c \in Commands, BecomeOverdue(c) PROVE OrderInv'
  BY <1>10, SyncAssumption DEF BecomeOverdue, OrderInv, LoopInv, Terminal, Request, Result, serverVars, placeVars, agentVars, historyVars, budgetVars
<1>11. ASSUME NEW k \in Conns, CompleteCommand(k) PROVE OrderInv'
  <2> DEFINE r == req[k].res
  <2>1. r.cmd \in Commands /\ r.out \in Terminal /\ r.out \in produced[r.cmd]
    BY <1>11 DEF CompleteCommand, Accepts, Request, Result, ResultInv, OutcomeInv
  <2>2. execs[r.cmd] > 0
    BY <2>1 DEF OutcomeInv
  <2>3. /\ state' = [state EXCEPT ![r.cmd] = r.out]
        /\ UNCHANGED <<stamp, place, rows, cur, execs, strayed>>
        /\ pc' = "exec" => pc = "exec"
        /\ pc = "exec" => pc' = "exec"
    BY <1>11, SyncAssumption DEF CompleteCommand, Accepts, LoopInv, placeVars, historyVars
  <2>4. \A c \in Commands : /\ state'[c] = "DELIVERED" => state[c] = "DELIVERED"
                           /\ c # r.cmd => state'[c] = state[c]
    BY <2>1, <2>3 DEF Terminal
  <2>5. QED
    BY <2>2, <2>3, <2>4 DEF OrderInv
<1>12. ASSUME Dispatch PROVE OrderInv'
  BY <1>12, SyncAssumption DEF Dispatch, OrderInv, LoopInv, Terminal, Request, Result, serverVars, placeVars, agentVars, historyVars, budgetVars
<1>13. ASSUME SaveResult PROVE OrderInv'
  BY <1>13, SyncAssumption DEF SaveResult, OrderInv, LoopInv, Terminal, Request, Result, serverVars, placeVars, agentVars, historyVars, budgetVars
<1>14. ASSUME Restart PROVE OrderInv'
  BY <1>14, SyncAssumption DEF Restart, OrderInv, LoopInv, Terminal, Request, Result, serverVars, placeVars, agentVars, historyVars, budgetVars
<1>15. ASSUME GiveUp PROVE OrderInv'
  BY <1>15, SyncAssumption DEF GiveUp, OrderInv, LoopInv, Terminal, Request, Result, serverVars, placeVars, agentVars, historyVars, budgetVars
<1>16. ASSUME Crash PROVE OrderInv'
  BY <1>16, SyncAssumption DEF Crash, OrderInv, LoopInv, Terminal, Request, Result, serverVars, placeVars, agentVars, historyVars, budgetVars
<1>17. ASSUME NEW k \in Conns, NextCommand(k) PROVE OrderInv'
  <2>0. PICK c \in Candidates :
          /\ \A d \in Candidates : stamp[c] <= stamp[d]
          /\ state' = [d \in Commands |-> IF d = c THEN "DELIVERED"
                                          ELSE IF d \in overdue THEN "QUEUED" ELSE state[d]]
          /\ cur'     = IF k = conn THEN c ELSE cur
          /\ strayed' = IF k = conn THEN strayed ELSE strayed \union {c}
    BY <1>17 DEF NextCommand, Oldest, Handed
  <2>1. c \in Commands /\ state[c] # "ABSENT"
    BY DEF Candidates, OverdueInv
  <2>2. /\ UNCHANGED <<stamp, place, rows, execs>>
        /\ pc' = IF k = conn THEN "exec" ELSE pc
    BY <1>17 DEF NextCommand, Oldest, Handed, placeVars
  <2>3. k = conn => pc # "exec"
    BY <1>17, SyncAssumption DEF NextCommand, Oldest, Handed, LoopInv
  <2>4. \A d \in Commands : state'[d] # "ABSENT" => state[d] # "ABSENT"
    BY <2>0, <2>1 DEF OverdueInv
  <2>5. \A d \in Commands : state'[d] = "DELIVERED" =>
          d \in strayed' \/ execs[d] > 0 \/ (pc' = "exec" /\ cur' = d)
    BY <2>0, <2>1, <2>2, <2>3 DEF OrderInv
  <2>6. CASE k = conn
    <3>1. ASSUME NEW d \in Commands, state[d] # "ABSENT",
                        place[d] < place[c], stamp[d] < stamp[c]
          PROVE  execs[d] > 0 \/ d \in strayed
      <4>1. d \notin Candidates
        BY <2>0, <2>1, <3>1
      <4>2. state[d] = "DELIVERED" \/ state[d] \in Terminal
        BY <3>1, <4>1 DEF Candidates, CmdStates
      <4>3. state[d] \in Terminal => execs[d] > 0
        BY DEF OutcomeInv
      <4>4. QED
        BY <2>3, <2>6, <4>2, <4>3 DEF OrderInv
    <3>2. QED
      BY <2>0, <2>2, <2>4, <2>5, <2>6, <3>1 DEF OrderInv
  <2>7. CASE k # conn
    BY <2>0, <2>1, <2>2, <2>4, <2>5, <2>7 DEF OrderInv
  <2>8. QED
    BY <2>6, <2>7
<1>18. ASSUME UNCHANGED vars PROVE OrderInv'
  BY <1>18 DEF vars, OrderInv, serverVars, placeVars, agentVars, historyVars, budgetVars
<1>19. QED
  BY <1>1, <1>2, <1>3, <1>4, <1>5, <1>6, <1>7, <1>8, <1>9, <1>10, <1>11, <1>12, <1>13, <1>14, <1>15, <1>16, <1>17, <1>18 DEF Next, Handlers, AgentLoop

\* A command later in the table and in created_at overtakes none but the strayed.
THEOREM InOrder == Spec => RunsInOrder
<1>1. Init => OrderInv
  BY DEF Init, OrderInv
<1>2. IndInv /\ OrderInv /\ [Next]_vars => OrderInv'
  BY OrderStep
<1>3. ASSUME IndInv, [Next]_vars, NEW c \in Commands, execs'[c] > execs[c]
      PROVE  pc = "exec" /\ cur = c
  <2>1. CASE Dispatch
    BY <1>3, <2>1 DEF Dispatch, IndInv, TypeOK
  <2>2. CASE execs' = execs
    BY <1>3, <2>2 DEF IndInv, TypeOK
  <2>3. Dispatch \/ execs' = execs
    BY <1>3 DEF Next, Handlers, AgentLoop, QueueCommand, BecomeOverdue, UpdateState,
                RejectStale, NextCommand, NothingQueued, Deadline, ClientGone,
                CompleteCommand, RejectResult, PostResult, Poll, SaveResult, Restart,
                GiveUp, Crash, vars, historyVars
  <2>4. QED
    BY <2>1, <2>2, <2>3
<1>4. IndInv /\ OrderInv /\ [Next]_vars
        => [\A c, d \in Commands :
              /\ execs'[c] > execs[c]
              /\ state[d] # "ABSENT" /\ place[d] < place[c] /\ stamp[d] < stamp[c]
              => execs[d] > 0 \/ d \in strayed]_vars
  BY <1>3 DEF OrderInv
<1>5. QED
  BY <1>1, <1>2, <1>4, Invariance, PTL DEF Spec, RunsInOrder

(***************************************************************************)
(* FleetSync implements CommandLedger.                                     *)
(***************************************************************************)

\* The initial states are the ledger's,
LEMMA LedgerInitial == Init => Ledger!LedgerInit
BY DEF Init, Ledger!LedgerInit, LedgerStatus

\* ... and every step is one of the ledger's or changes nothing that it shows.
LEMMA LedgerStep == IndInv /\ [Next]_vars => [Ledger!LedgerNext]_(Ledger!ledgerVars)
<1> SUFFICES ASSUME IndInv, [Next]_vars
             PROVE  Ledger!LedgerNext \/ UNCHANGED Ledger!ledgerVars
  OBVIOUS
<1> USE DEF IndInv, TypeOK
<1>1. ASSUME UNCHANGED <<LedgerStatus, execs, forgot, produced>>
      PROVE  UNCHANGED Ledger!ledgerVars
  BY <1>1 DEF Ledger!ledgerVars
<1>2. ASSUME NEW c \in Commands, QueueCommand(c) PROVE Ledger!LedgerNext
  <2>1. Ledger!Submit(c)
    BY <1>2 DEF QueueCommand, historyVars, LedgerStatus, Ledger!Submit
  <2>2. QED
    BY <2>1 DEF Ledger!LedgerNext
<1>3. ASSUME NEW k \in Conns, NextCommand(k) PROVE UNCHANGED Ledger!ledgerVars
  <2>1. \A c \in Commands :
          \/ state'[c] = state[c]
          \/ state[c] \in {"QUEUED", "DELIVERED"} /\ state'[c] \in {"QUEUED", "DELIVERED"}
    BY <1>3 DEF NextCommand, Oldest, Handed, Candidates, OverdueInv
  <2>2. UNCHANGED LedgerStatus
    BY <2>1 DEF LedgerStatus
  <2>3. QED
    BY <1>1, <1>3, <2>2 DEF NextCommand, Oldest, Handed
<1>4. ASSUME NEW k \in Conns, CompleteCommand(k)
      PROVE  Ledger!LedgerNext \/ UNCHANGED Ledger!ledgerVars
  <2> DEFINE r == req[k].res
  <2>1. /\ r.cmd \in Commands /\ r.out \in Terminal /\ r.out \in produced[r.cmd]
    BY <1>4 DEF CompleteCommand, Accepts, Request, Result, ResultInv, OutcomeInv
  <2>2. /\ state' = [state EXCEPT ![r.cmd] = r.out]
        /\ UNCHANGED <<execs, forgot, produced>>
    BY <1>4 DEF CompleteCommand, Accepts, historyVars
  <2>3. state[r.cmd] # "ABSENT"
    BY <2>1 DEF RunsInv, OutcomeInv
  <2>4. LedgerStatus' = [LedgerStatus EXCEPT ![r.cmd] = r.out]
    BY <2>1, <2>2 DEF LedgerStatus, Terminal
  <2>5. CASE state[r.cmd] \notin Terminal \/ forgot[r.cmd] > 0
    <3>1. LedgerStatus[r.cmd] = "OPEN" \/ forgot[r.cmd] > 0
      BY <2>1, <2>3, <2>5 DEF LedgerStatus, CmdStates
    <3>2. Ledger!Resolve(r.cmd, r.out)
      BY <2>1, <2>2, <2>4, <3>1 DEF Ledger!Resolve
    <3>3. r.out \in Ledger!Outcomes
      BY <2>1 DEF Terminal, Ledger!Outcomes
    <3>4. QED
      BY <2>1, <3>2, <3>3 DEF Ledger!LedgerNext
  <2>6. CASE state[r.cmd] \in Terminal /\ forgot[r.cmd] = 0
    <3>1. state[r.cmd] = r.out
      BY <2>1, <2>6 DEF OutcomeInv
    <3>2. state' = state
      BY <2>1, <2>2, <3>1
    <3>3. QED
      BY <1>1, <2>2, <3>2 DEF LedgerStatus
  <2>7. QED
    BY <2>1, <2>5, <2>6
<1>5. ASSUME Dispatch PROVE Ledger!LedgerNext
  <2>1. cur \in Commands /\ state[cur] # "ABSENT" /\ execs[cur] = forgot[cur]
    BY <1>5 DEF Dispatch, LoopInv
  <2>2. PICK o \in Terminal : produced' = [produced EXCEPT ![cur] = @ \union {o}]
    BY <1>5 DEF Dispatch
  <2>3. LedgerStatus[cur] # "ABSENT" /\ UNCHANGED LedgerStatus
    BY <1>5, <2>1 DEF Dispatch, serverVars, LedgerStatus
  <2>4. Ledger!Run(cur, o)
    BY <1>5, <2>1, <2>2, <2>3 DEF Dispatch, Ledger!Run
  <2>5. o \in Ledger!Outcomes
    BY <2>2 DEF Terminal, Ledger!Outcomes
  <2>6. QED
    BY <2>1, <2>4, <2>5 DEF Ledger!LedgerNext
<1>6. ASSUME Crash PROVE Ledger!LedgerNext \/ UNCHANGED Ledger!ledgerVars
  <2> DEFINE c == mem.pending.cmd
  <2>1. UNCHANGED <<LedgerStatus, execs, produced>>
    BY <1>6 DEF Crash, serverVars, LedgerStatus
  <2>2. CASE c # NoCommand /\ disk.pending # mem.pending /\ state[c] \notin Terminal
    <3>1. c \in Commands
      BY <2>2 DEF Identity, Result
    <3>2. execs[c] = forgot[c] + 1
      BY <2>2, <3>1 DEF RunsInv
    <3>3. LedgerStatus[c] = "OPEN"
      BY <2>2, <3>1, <3>2 DEF LedgerStatus, RunsInv, CmdStates
    <3>4. forgot' = [forgot EXCEPT ![c] = @ + 1]
      BY <1>6, <2>2 DEF Crash
    <3>5. Ledger!Lapse(c)
      BY <2>1, <3>2, <3>3, <3>4 DEF Ledger!Lapse
    <3>6. QED
      BY <3>1, <3>5 DEF Ledger!LedgerNext
  <2>3. CASE ~(c # NoCommand /\ disk.pending # mem.pending /\ state[c] \notin Terminal)
    BY <1>1, <1>6, <2>1, <2>3 DEF Crash
  <2>4. QED
    BY <2>2, <2>3
<1>7. ASSUME \/ \E k \in Conns : \/ UpdateState(k) \/ RejectStale(k) \/ NothingQueued(k)
                                \/ Deadline(k) \/ ClientGone(k) \/ RejectResult(k)
                                \/ PostResult(k) \/ Poll(k)
             \/ \E d \in Commands : BecomeOverdue(d)
             \/ SaveResult \/ Restart \/ GiveUp \/ UNCHANGED vars
      PROVE  UNCHANGED Ledger!ledgerVars
  <2>1. UNCHANGED <<state, execs, forgot, produced>>
    BY <1>7 DEF UpdateState, RejectStale, NothingQueued, Deadline, ClientGone, RejectResult,
                PostResult, Poll, BecomeOverdue, SaveResult, Restart, GiveUp,
                vars, serverVars, historyVars
  <2>2. QED
    BY <1>1, <2>1 DEF LedgerStatus
<1>8. QED
  BY <1>2, <1>3, <1>4, <1>5, <1>6, <1>7 DEF Next, Handlers, AgentLoop

\* The server, the network and the agent together keep the ledger's promise.
THEOREM Refinement == Spec => KeepsLedger
<1>1. QED
  BY LedgerInitial, LedgerStep, Invariance, PTL DEF Spec, KeepsLedger, Ledger!LedgerSpec
=============================================================================
