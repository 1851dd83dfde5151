-------------------------- MODULE FleetRolloutProofs --------------------------
(***************************************************************************)
(* What FleetRollout promises, for a group of any size, any number of      *)
(* handlers at once, any batch size and failure budget, and any number of  *)
(* stops of the server, failing statements and posts given up.             *)
(*                                                                         *)
(* LinkInv and FrameInv hold however the handlers overlap, and so does     *)
(* what follows from them: the verdict is honest.  The parts after them    *)
(* are about a rollout whose handlers have not overlapped so far.          *)
(***************************************************************************)
EXTENDS FleetRollout, FiniteSetTheorems, WellFoundedInduction, TLAPS

InState(s) == {t \in Targets : target[t] = s}
Serves(t)  == \E d \in Commands : owner[d] = t
Advancing  == {"lookup", "mark", "sum", "settle"}
Queueing   == {"queue", "link"}
Now == [active |-> HowMany("ACTIVE"), pending |-> HowMany("PENDING"),
        done |-> HowMany("COMPLETED"), failed |-> HowMany("FAILED")]

\* What a row of a target says of the commands.
LinkInv ==
  \A t \in Targets :
    /\ target[t] = "PENDING" \/ link[t] # 0
    /\ link[t] # 0 => owner[link[t]] = t
    /\ target[t] \in Ended => outcome[link[t]] = target[t]

\* What a handler knows: its command has ended as it says ...
Knows(h) ==
  /\ frame[h].pc = "idle" => frame[h].cmd = 0 /\ ~ frame[h].awaited
  /\ frame[h].pc \in Advancing \/ frame[h].awaited => frame[h].cmd # 0
  /\ frame[h].cmd # 0 => outcome[frame[h].cmd] = frame[h].out

\* ... and the targets of its batch are the next in order.
Follows(h) ==
  /\ frame[h].pc = "link" => frame[h].new # 0 /\ owner[frame[h].new] = NextOf(h)
  /\ frame[h].pc \in Queueing =>
       /\ frame[h].todo # {}
       /\ \A u \in frame[h].todo, t \in Targets : t < u => t \in frame[h].todo \/ Serves(t)

FrameInv == \A h \in Handlers : Knows(h) /\ Follows(h)

\* The INSERT of the rollout comes before all else.
StartInv ==
  /\ rollout = "ABSENT" => owner = <<>> /\ \A h \in Handlers : frame[h].pc = "idle"
  /\ rollout = "ABSENT" => counts = [done |-> 0, failed |-> 0] /\ \A t \in Targets : target[t] = "PENDING"
  /\ rollout # "ABSENT" => batch # 0

\* Sums that a handler has read may be old, but what they say of the ends of
\* targets has really happened.
Missed == {t \in Targets : ~ Gave(t, "COMPLETED")}
Broken == {t \in Targets : Gave(t, "FAILED")}
SeenInv ==
  \A h \in Handlers : frame[h].pc = "settle" =>
    /\ frame[h].seen.failed <= Cardinality(Broken)
    /\ frame[h].seen.active = 0 /\ frame[h].seen.pending = 0 =>
         /\ \A t \in Targets : Gave(t, "COMPLETED") \/ Gave(t, "FAILED")
         /\ Cardinality(Missed) <= frame[h].seen.failed

\* As long as no two handlers have overlapped there is only one of them.
AloneInv ==
  ~ overlapped => \A g, h \in Handlers : frame[g].pc # "idle" /\ frame[h].pc # "idle" => g = h

\* The batch that is being queued is of pending targets and fits the batch size
\* with those at work, and none is at work when it is chosen.
BatchAt(h) ==
  /\ frame[h].pc \in {"batch", "pick"} => InState("ACTIVE") = {}
  /\ frame[h].pc \in Queueing =>
       /\ frame[h].todo \subseteq Pending
       /\ HowMany("ACTIVE") + Cardinality(frame[h].todo) <= batch
  /\ frame[h].pc = "settle" => frame[h].seen = Now

BatchInv == ~ overlapped => HowMany("ACTIVE") <= batch /\ \A h \in Handlers : BatchAt(h)

\* A command exists for a pending target only between its INSERT and the UPDATE
\* of the target's row.
OnceInv ==
  ~ overlapped /\ crashes = 0 /\ faults = 0 =>
    /\ \A c, d \in Commands : owner[c] = owner[d] => c = d
    /\ \A t \in Pending : Serves(t) => \E h \in Handlers : frame[h].pc = "link" /\ t = NextOf(h)

\* Counts that are not the targets' are some result's to correct that its agent
\* has not seen accepted.
Current == counts = [done |-> HowMany("COMPLETED"), failed |-> HowMany("FAILED")]
Due(c)  == outcome[c] # "none" /\ c \notin acked /\ Linked(c) # {}
CountAt(h) ==
  /\ faults = 0 /\ frame[h].pc \in {"batch", "pick"} \union Queueing => Current
  /\ frame[h].pc \in Advancing => frame[h].cmd \notin acked
  /\ frame[h].pc \in {"mark", "sum", "settle"} => Linked(frame[h].cmd) # {}

CountInv ==
  ~ overlapped =>
    /\ faults = 0 => Current \/ \E c \in Commands : Due(c)
    /\ \A h \in Handlers : CountAt(h)

\* The end of a rollout is what the rows of its targets say.
EndInv ==
  ~ overlapped =>
    /\ \A h \in Handlers : frame[h].pc \in {"pick"} \union Queueing => rollout = "RUNNING"
    /\ rollout = "COMPLETED" => InState("ACTIVE") = {} /\ Pending = {} /\ HowMany("FAILED") <= maxFail
    /\ rollout = "FAILED" => HowMany("FAILED") > maxFail

IndInv ==
  /\ TypeOK /\ LinkInv /\ FrameInv /\ StartInv /\ SeenInv /\ VerdictIsHonest /\ InOrdinalOrder
  /\ AloneInv /\ BatchInv /\ OnceInv /\ CountInv /\ EndInv

(***************************************************************************)
(* The shapes of a step: what it does to the frame of its handler.         *)
(***************************************************************************)
Others(h)  == frame' \in [Handlers -> Frame] /\ \A g \in Handlers : g # h => frame'[g] = frame[g]
SameCmd(h) == frame'[h].cmd = frame[h].cmd /\ frame'[h].out = frame[h].out /\ frame'[h].awaited = frame[h].awaited
SameJob(h) == frame'[h].todo = frame[h].todo /\ frame'[h].new = frame[h].new
Goes(h, at) == Others(h) /\ SameCmd(h) /\ SameJob(h) /\ frame'[h].pc = at /\ frame'[h].seen = frame[h].seen
Ends(h)    == /\ Others(h) /\ frame'[h] = Idle
              /\ acked' = acked \/ (frame[h].awaited /\ acked' = acked \union {frame[h].cmd})
Picks(h)   == Others(h) /\ SameCmd(h) /\ frame'[h].pc = "queue" /\ frame'[h].todo = FirstPending(batch)
              /\ frame'[h].new = frame[h].new
Queues(h)  == Others(h) /\ SameCmd(h) /\ frame'[h].pc = "link" /\ frame'[h].todo = frame[h].todo
              /\ frame'[h].new = Len(owner) + 1
Links(h)   == Others(h) /\ SameCmd(h) /\ frame'[h].pc = "queue" /\ frame'[h].todo = frame[h].todo \ {NextOf(h)}
              /\ frame'[h].new = 0
Posts(h, c, o) == Others(h) /\ SameJob(h) /\ frame'[h].pc = "lookup" /\ frame'[h].cmd = c /\ frame'[h].out = o
                  /\ frame'[h].awaited
Sums(h)    == Others(h) /\ SameCmd(h) /\ SameJob(h) /\ frame'[h].pc = "settle" /\ frame'[h].seen = Now
GoesOn(h)  == Others(h) /\ SameCmd(h) /\ SameJob(h) /\ frame'[h].pc = "batch"
Leaves(h)  == /\ Others(h) /\ SameJob(h) /\ frame'[h].pc = frame[h].pc /\ frame'[h].cmd = frame[h].cmd
              /\ frame'[h].out = frame[h].out /\ frame'[h].seen = frame[h].seen /\ ~ frame'[h].awaited

\* The targets are finitely many, and so are those in a state.
LEMMA TargetsFinite ==
  /\ IsFiniteSet(Targets) /\ Cardinality(Targets) = N
  /\ \A S \in SUBSET Targets : IsFiniteSet(S) /\ Cardinality(S) \in 0..N
<1>1. IsFiniteSet(Targets) /\ Cardinality(Targets) = N
  BY FS_Interval, RolloutAssumption DEF Targets
<1>2. ASSUME NEW S \in SUBSET Targets PROVE IsFiniteSet(S) /\ Cardinality(S) \in 0..N
  <2>1. IsFiniteSet(S) /\ Cardinality(S) <= N
    BY <1>1, FS_Subset
  <2>2. Cardinality(S) \in Nat
    BY <2>1, FS_CardinalityType
  <2>3. QED
    BY <2>1, <2>2, RolloutAssumption
<1>3. QED
  BY <1>1, <1>2

\* Fewer targets are fewer, and none are none.
LEMMA Fewer ==
  ASSUME NEW S \in SUBSET Targets, NEW T \in SUBSET Targets
  PROVE  /\ S \subseteq T => Cardinality(S) <= Cardinality(T)
         /\ Cardinality(S) = 0 <=> S = {}
         /\ \A t \in S : Cardinality(S \ {t}) = Cardinality(S) - 1
         /\ \A t \in Targets : Cardinality(S \union {t}) <= Cardinality(S) + 1
<1>1. IsFiniteSet(S) /\ IsFiniteSet(T) /\ Cardinality(S) \in Nat /\ Cardinality(T) \in Nat
  BY TargetsFinite, RolloutAssumption
<1>2. S \subseteq T => Cardinality(S) <= Cardinality(T)
  BY <1>1, FS_Subset
<1>3. Cardinality(S) = 0 <=> S = {}
  BY <1>1, FS_EmptySet
<1>4. \A t \in S : Cardinality(S \ {t}) = Cardinality(S) - 1
  BY <1>1, FS_RemoveElement
<1>5. ASSUME NEW t \in Targets PROVE Cardinality(S \union {t}) <= Cardinality(S) + 1
  <2>1. Cardinality(S \union {t}) = Cardinality(S) \/ Cardinality(S \union {t}) = Cardinality(S) + 1
    BY <1>1, FS_AddElement
  <2>2. QED
    BY <1>1, <2>1
<1>6. QED
  BY <1>2, <1>3, <1>4, <1>5

\* The frame of a handler and its fields.
LEMMA FrameTyped ==
  ASSUME TypeOK, NEW h \in Handlers
  PROVE  /\ frame[h] \in Frame /\ frame[h].pc \in Points /\ frame[h].cmd \in Nat /\ frame[h].out \in Ended
         /\ frame[h].awaited \in BOOLEAN /\ frame[h].seen \in Tally /\ frame[h].todo \subseteq Targets
         /\ frame[h].new \in Nat
<1>1. frame[h] \in Frame
  BY DEF TypeOK
<1>2. frame[h].pc \in Points /\ frame[h].out \in Ended
  BY <1>1 DEF Frame
<1>3. frame[h].cmd \in Nat /\ frame[h].new \in Nat
  BY <1>1 DEF Frame
<1>4. frame[h].awaited \in BOOLEAN
  BY <1>1 DEF Frame
<1>5. frame[h].seen \in Tally
  BY <1>1 DEF Frame
<1>6. frame[h].todo \subseteq Targets
  BY <1>1 DEF Frame
<1>7. QED
  BY <1>1, <1>2, <1>3, <1>4, <1>5, <1>6

\* The idle frame.
LEMMA IdleIs ==
  /\ Idle \in Frame /\ Idle.pc = "idle" /\ Idle.cmd = 0 /\ ~ Idle.awaited /\ Idle.todo = {} /\ Idle.new = 0
<1>1. Untold \in Tally
  BY RolloutAssumption DEF Untold, Tally
<1>2. QED
  BY <1>1 DEF Idle, Frame, Points, Ended

\* Setting the frame of a handler leaves the others alone.
LEMMA SetFrame ==
  ASSUME TypeOK, NEW h \in Handlers, NEW f \in Frame, frame' = [frame EXCEPT ![h] = f]
  PROVE  Others(h) /\ frame'[h] = f
BY DEF TypeOK, Others

\* The counts of the targets are numbers of targets.
LEMMA NowTyped == Now \in Tally
<1>1. \A s : HowMany(s) \in 0..N
  BY TargetsFinite DEF HowMany
<1>2. QED
  BY <1>1 DEF Now, Tally

\* What the values that handlers write are.
LEMMA Written ==
  ASSUME TypeOK
  PROVE  /\ FirstPending(batch) \subseteq Targets /\ Len(owner) + 1 \in Nat /\ Now \in Tally /\ Untold \in Tally
         /\ {"queue", "link", "lookup", "settle", "batch"} \subseteq Points
<1>1. FirstPending(batch) \subseteq Targets
  BY DEF FirstPending, Pending
<1>2. Len(owner) + 1 \in Nat
  BY DEF TypeOK
<1>3. Untold \in Tally
  BY RolloutAssumption DEF Untold, Tally
<1>4. QED
  BY <1>1, <1>2, <1>3, NowTyped DEF Points

\* A handler goes to another statement.
LEMMA Went ==
  ASSUME TypeOK, NEW h \in Handlers, NEW at \in Points,
         frame' = [frame EXCEPT ![h].pc = at]
  PROVE  Goes(h, at)
<1> DEFINE f == [frame[h] EXCEPT !.pc = at]
<1>1. f \in Frame
  BY FrameTyped, Written DEF Frame
<1>2. f.pc = at
  BY FrameTyped DEF Frame
<1>3. f.cmd = frame[h].cmd
  BY FrameTyped DEF Frame
<1>4. f.out = frame[h].out
  BY FrameTyped DEF Frame
<1>5. f.awaited = frame[h].awaited
  BY FrameTyped DEF Frame
<1>6. f.seen = frame[h].seen
  BY FrameTyped DEF Frame
<1>7. f.todo = frame[h].todo
  BY FrameTyped DEF Frame
<1>8. f.new = frame[h].new
  BY FrameTyped DEF Frame
<1>9. frame' = [frame EXCEPT ![h] = f]
  BY DEF TypeOK
<1> HIDE DEF f
<1>10. QED
  BY <1>1, <1>2, <1>3, <1>4, <1>5, <1>6, <1>7, <1>8, <1>9, SetFrame DEF Goes, SameCmd, SameJob

\* ... takes a batch,
LEMMA Picked ==
  ASSUME TypeOK, NEW h \in Handlers,
         frame' = [frame EXCEPT ![h].pc = "queue", ![h].todo = FirstPending(batch)]
  PROVE  Picks(h)
<1> DEFINE f == [frame[h] EXCEPT !.pc = "queue", !.todo = FirstPending(batch)]
<1>1. f \in Frame
  BY FrameTyped, Written DEF Frame
<1>2. f.pc = "queue"
  BY FrameTyped DEF Frame
<1>3. f.cmd = frame[h].cmd
  BY FrameTyped DEF Frame
<1>4. f.out = frame[h].out
  BY FrameTyped DEF Frame
<1>5. f.awaited = frame[h].awaited
  BY FrameTyped DEF Frame
<1>6. f.todo = FirstPending(batch)
  BY FrameTyped DEF Frame
<1>7. f.new = frame[h].new
  BY FrameTyped DEF Frame
<1>8. frame' = [frame EXCEPT ![h] = f]
  BY DEF TypeOK
<1> HIDE DEF f
<1>9. QED
  BY <1>1, <1>2, <1>3, <1>4, <1>5, <1>6, <1>7, <1>8, SetFrame DEF Picks, SameCmd, SameJob

\* ... has made a command,
LEMMA Queued ==
  ASSUME TypeOK, NEW h \in Handlers,
         frame' = [frame EXCEPT ![h].pc = "link", ![h].new = Len(owner) + 1]
  PROVE  Queues(h)
<1> DEFINE f == [frame[h] EXCEPT !.pc = "link", !.new = Len(owner) + 1]
<1>1. f \in Frame
  BY FrameTyped, Written DEF Frame
<1>2. f.pc = "link"
  BY FrameTyped DEF Frame
<1>3. f.cmd = frame[h].cmd
  BY FrameTyped DEF Frame
<1>4. f.out = frame[h].out
  BY FrameTyped DEF Frame
<1>5. f.awaited = frame[h].awaited
  BY FrameTyped DEF Frame
<1>6. f.todo = frame[h].todo
  BY FrameTyped DEF Frame
<1>7. f.new = Len(owner) + 1
  BY FrameTyped DEF Frame
<1>8. frame' = [frame EXCEPT ![h] = f]
  BY DEF TypeOK
<1> HIDE DEF f
<1>9. QED
  BY <1>1, <1>2, <1>3, <1>4, <1>5, <1>6, <1>7, <1>8, SetFrame DEF Queues, SameCmd, SameJob

\* ... has one target less to do,
LEMMA Unlisted ==
  ASSUME TypeOK, NEW h \in Handlers,
         frame' = [frame EXCEPT ![h].pc = "queue", ![h].todo = frame[h].todo \ {NextOf(h)}, ![h].new = 0]
  PROVE  Links(h)
<1> DEFINE f == [frame[h] EXCEPT !.pc = "queue", !.todo = frame[h].todo \ {NextOf(h)}, !.new = 0]
<1>1. f \in Frame
  BY FrameTyped, Written DEF Frame
<1>2. f.pc = "queue"
  BY FrameTyped DEF Frame
<1>3. f.cmd = frame[h].cmd
  BY FrameTyped DEF Frame
<1>4. f.out = frame[h].out
  BY FrameTyped DEF Frame
<1>5. f.awaited = frame[h].awaited
  BY FrameTyped DEF Frame
<1>6. f.todo = frame[h].todo \ {NextOf(h)}
  BY FrameTyped DEF Frame
<1>7. f.new = 0
  BY FrameTyped DEF Frame
<1>8. frame' = [frame EXCEPT ![h] = f]
  BY DEF TypeOK
<1> HIDE DEF f
<1>9. QED
  BY <1>1, <1>2, <1>3, <1>4, <1>5, <1>6, <1>7, <1>8, SetFrame DEF Links, SameCmd, SameJob

\* ... starts with a result,
LEMMA Posted ==
  ASSUME TypeOK, NEW h \in Handlers, NEW c \in Nat, NEW o \in Ended,
         frame' = [frame EXCEPT ![h].pc = "lookup", ![h].cmd = c, ![h].out = o, ![h].awaited = TRUE]
  PROVE  Posts(h, c, o)
<1> DEFINE f == [frame[h] EXCEPT !.pc = "lookup", !.cmd = c, !.out = o, !.awaited = TRUE]
<1>1. f \in Frame
  BY FrameTyped, Written DEF Frame
<1>2. f.pc = "lookup"
  BY FrameTyped DEF Frame
<1>3. f.cmd = c
  BY FrameTyped DEF Frame
<1>4. f.out = o
  BY FrameTyped DEF Frame
<1>5. f.awaited = TRUE
  BY FrameTyped DEF Frame
<1>6. f.todo = frame[h].todo
  BY FrameTyped DEF Frame
<1>7. f.new = frame[h].new
  BY FrameTyped DEF Frame
<1>8. frame' = [frame EXCEPT ![h] = f]
  BY DEF TypeOK
<1> HIDE DEF f
<1>9. QED
  BY <1>1, <1>2, <1>3, <1>4, <1>5, <1>6, <1>7, <1>8, SetFrame DEF Posts, SameCmd, SameJob

\* ... has read the sums,
LEMMA Summed ==
  ASSUME TypeOK, NEW h \in Handlers,
         frame' = [frame EXCEPT ![h].pc = "settle", ![h].seen = Now]
  PROVE  Sums(h)
<1> DEFINE f == [frame[h] EXCEPT !.pc = "settle", !.seen = Now]
<1>1. f \in Frame
  BY FrameTyped, Written DEF Frame
<1>2. f.pc = "settle"
  BY FrameTyped DEF Frame
<1>3. f.cmd = frame[h].cmd
  BY FrameTyped DEF Frame
<1>4. f.out = frame[h].out
  BY FrameTyped DEF Frame
<1>5. f.awaited = frame[h].awaited
  BY FrameTyped DEF Frame
<1>6. f.seen = Now
  BY FrameTyped DEF Frame
<1>7. f.todo = frame[h].todo
  BY FrameTyped DEF Frame
<1>8. f.new = frame[h].new
  BY FrameTyped DEF Frame
<1>9. frame' = [frame EXCEPT ![h] = f]
  BY DEF TypeOK
<1> HIDE DEF f
<1>10. QED
  BY <1>1, <1>2, <1>3, <1>4, <1>5, <1>6, <1>7, <1>8, <1>9, SetFrame DEF Sums, SameCmd, SameJob

\* ... asks for the next batch,
LEMMA WentOn ==
  ASSUME TypeOK, NEW h \in Handlers,
         frame' = [frame EXCEPT ![h].pc = "batch", ![h].seen = Untold]
  PROVE  GoesOn(h)
<1> DEFINE f == [frame[h] EXCEPT !.pc = "batch", !.seen = Untold]
<1>1. f \in Frame
  BY FrameTyped, Written DEF Frame
<1>2. f.pc = "batch"
  BY FrameTyped DEF Frame
<1>3. f.cmd = frame[h].cmd
  BY FrameTyped DEF Frame
<1>4. f.out = frame[h].out
  BY FrameTyped DEF Frame
<1>5. f.awaited = frame[h].awaited
  BY FrameTyped DEF Frame
<1>6. f.todo = frame[h].todo
  BY FrameTyped DEF Frame
<1>7. f.new = frame[h].new
  BY FrameTyped DEF Frame
<1>8. frame' = [frame EXCEPT ![h] = f]
  BY DEF TypeOK
<1> HIDE DEF f
<1>9. QED
  BY <1>1, <1>2, <1>3, <1>4, <1>5, <1>6, <1>7, <1>8, SetFrame DEF GoesOn, SameCmd, SameJob

\* ... or is no longer waited for.
LEMMA Left ==
  ASSUME TypeOK, NEW h \in Handlers,
         frame' = [frame EXCEPT ![h].awaited = FALSE]
  PROVE  Leaves(h)
<1> DEFINE f == [frame[h] EXCEPT !.awaited = FALSE]
<1>1. f \in Frame
  BY FrameTyped, Written DEF Frame
<1>2. f.pc = frame[h].pc
  BY FrameTyped DEF Frame
<1>3. f.cmd = frame[h].cmd
  BY FrameTyped DEF Frame
<1>4. f.out = frame[h].out
  BY FrameTyped DEF Frame
<1>5. f.awaited = FALSE
  BY FrameTyped DEF Frame
<1>6. f.seen = frame[h].seen
  BY FrameTyped DEF Frame
<1>7. f.todo = frame[h].todo
  BY FrameTyped DEF Frame
<1>8. f.new = frame[h].new
  BY FrameTyped DEF Frame
<1>9. frame' = [frame EXCEPT ![h] = f]
  BY DEF TypeOK
<1> HIDE DEF f
<1>10. QED
  BY <1>1, <1>2, <1>3, <1>4, <1>5, <1>6, <1>7, <1>8, <1>9, SetFrame DEF Leaves, SameCmd, SameJob

\* Finishing makes a handler idle and tells its agent.
LEMMA Finished ==
  ASSUME TypeOK, NEW h \in Handlers, Finish(h)
  PROVE  Ends(h)
<1>1. Others(h) /\ frame'[h] = Idle
  BY IdleIs, SetFrame DEF Finish
<1>2. QED
  BY <1>1 DEF Ends, Finish

\* What each step does to the handler that takes it.
LEMMA StepMoves ==
  ASSUME TypeOK, NEW h \in Handlers
  PROVE  /\ CreateRollout(h) =>
            Goes(h, "batch")
         /\ SelectRollout(h) =>
            \/ rollout = "RUNNING" /\ Goes(h, "pick") /\ acked' = acked
            \/ rollout # "RUNNING" /\ Ends(h)
         /\ PickBatch(h) =>
            \/ Pending = {} /\ Ends(h)
            \/ Pending # {} /\ Picks(h) /\ acked' = acked
         /\ QueueCommand(h) =>
            Queues(h)
         /\ LinkTarget(h) =>
            \/ frame[h].todo = {NextOf(h)} /\ Ends(h)
            \/ frame[h].todo # {NextOf(h)} /\ Links(h) /\ acked' = acked
         /\ LookupRollout(h) =>
            \/ Linked(frame[h].cmd) = {} /\ Ends(h)
            \/ Linked(frame[h].cmd) # {} /\ Goes(h, "mark") /\ acked' = acked
         /\ MarkTarget(h) =>
            Goes(h, "sum")
         /\ SumTargets(h) =>
            Sums(h)
         /\ EndRollout(h) =>
            Ends(h)
         /\ GoOn(h) =>
            \/ frame[h].seen.active = 0 /\ GoesOn(h) /\ acked' = acked
            \/ frame[h].seen.active # 0 /\ Ends(h)
         /\ StatementFails(h) =>
            Ends(h)
         /\ GiveUp(h) =>
            Leaves(h)
<1>1. ASSUME CreateRollout(h) PROVE Goes(h, "batch")
  BY <1>1, Went DEF GoTo, Points, CreateRollout
<1>2. ASSUME SelectRollout(h)
      PROVE  \/ rollout = "RUNNING" /\ Goes(h, "pick") /\ acked' = acked
             \/ rollout # "RUNNING" /\ Ends(h)
  BY <1>2, Went, Finished DEF GoTo, Points, SelectRollout
<1>3. ASSUME PickBatch(h)
      PROVE  \/ Pending = {} /\ Ends(h)
             \/ Pending # {} /\ Picks(h) /\ acked' = acked
  BY <1>3, Picked, Finished DEF PickBatch
<1>4. ASSUME QueueCommand(h) PROVE Queues(h)
  BY <1>4, Queued DEF QueueCommand
<1>5. ASSUME LinkTarget(h)
      PROVE  \/ frame[h].todo = {NextOf(h)} /\ Ends(h)
             \/ frame[h].todo # {NextOf(h)} /\ Links(h) /\ acked' = acked
  BY <1>5, Unlisted, Finished DEF LinkTarget
<1>6. ASSUME LookupRollout(h)
      PROVE  \/ Linked(frame[h].cmd) = {} /\ Ends(h)
             \/ Linked(frame[h].cmd) # {} /\ Goes(h, "mark") /\ acked' = acked
  BY <1>6, Went, Finished DEF GoTo, Points, LookupRollout
<1>7. ASSUME MarkTarget(h) PROVE Goes(h, "sum")
  BY <1>7, Went DEF GoTo, Points, MarkTarget
<1>8. ASSUME SumTargets(h) PROVE Sums(h)
  BY <1>8, Summed DEF SumTargets, Now
<1>9. ASSUME EndRollout(h) PROVE Ends(h)
  BY <1>9, Finished DEF EndRollout
<1>10. ASSUME GoOn(h)
      PROVE  \/ frame[h].seen.active = 0 /\ GoesOn(h) /\ acked' = acked
             \/ frame[h].seen.active # 0 /\ Ends(h)
  BY <1>10, WentOn, Finished DEF GoOn
<1>11. ASSUME StatementFails(h) PROVE Ends(h)
  BY <1>11, Finished DEF StatementFails
<1>12. ASSUME GiveUp(h) PROVE Leaves(h)
  BY <1>12, Left DEF GiveUp
<1>13. QED
  BY <1>1, <1>2, <1>3, <1>4, <1>5, <1>6, <1>7, <1>8, <1>9, <1>10, <1>11, <1>12

\* A result that is posted again is the same.
LEMMA PostMoves ==
  ASSUME TypeOK, NEW h \in Handlers, NEW c \in 1..Len(owner), CompleteCommand(h, c)
  PROVE  /\ c \in Commands /\ c # 0 /\ c \notin acked
         /\ \E o \in Ended : /\ Posts(h, c, o)
                             /\ outcome' = [outcome EXCEPT ![c] = o]
                             /\ outcome[c] \in {"none", o}
<1>1. c \in Commands /\ c # 0 /\ c \in Nat
  BY DEF CompleteCommand, TypeOK
<1>2. PICK o \in IF outcome[c] = "none" THEN Ended ELSE {outcome[c]} :
        /\ outcome' = [outcome EXCEPT ![c] = o]
        /\ frame' = [frame EXCEPT ![h].pc = "lookup", ![h].cmd = c, ![h].out = o, ![h].awaited = TRUE]
  BY DEF CompleteCommand
<1>3. o \in Ended /\ outcome[c] \in {"none", o}
  BY <1>1, <1>2 DEF TypeOK
<1>4. Posts(h, c, o)
  BY <1>1, <1>2, <1>3, Posted
<1>5. QED
  BY <1>1, <1>2, <1>3, <1>4 DEF CompleteCommand

(***************************************************************************)
(* Types.                                                                  *)
(***************************************************************************)
TableType ==
  /\ rollout \in {"ABSENT", "RUNNING"} \union Ended
  /\ batch \in 0..N /\ maxFail \in Nat
  /\ counts \in [done : 0..N, failed : 0..N]
  /\ target \in [Targets -> {"PENDING", "ACTIVE"} \union Ended]
CommandType ==
  /\ link \in [Targets -> {0} \union Commands]
  /\ owner \in Seq(Targets)
  /\ outcome \in [Commands -> {"none"} \union Ended]
  /\ acked \subseteq Commands
FrameType ==
  /\ frame \in [Handlers -> Frame]
  /\ \A h \in Handlers :
       /\ frame[h].cmd \in {0} \union Commands /\ frame[h].new \in {0} \union Commands
       /\ frame[h].pc \in {"queue", "link"} => frame[h].todo # {}
BudgetType ==
  /\ overlapped \in BOOLEAN /\ orphaned \in BOOLEAN
  /\ crashes \in Nat /\ faults \in Nat /\ givenUp \in Nat
  /\ crashes + faults + givenUp <= MaxTroubles

\* TypeOK, in parts.
LEMMA TypeParts == TypeOK <=> TableType /\ CommandType /\ FrameType /\ BudgetType
BY DEF TypeOK, TableType, CommandType, FrameType, BudgetType

\* The commands are numbered from 1.
LEMMA CommandsAre ==
  ASSUME TypeOK
  PROVE  /\ Commands = 1..Len(owner) /\ Len(owner) \in Nat /\ 0 \notin Commands
         /\ \A c \in Commands : owner[c] \in Targets
BY DEF TypeOK, Commands

\* Outcomes are a sequence, as long as that of the commands.
LEMMA OutcomesAre ==
  ASSUME TypeOK
  PROVE  outcome \in Seq({"none"} \union Ended) /\ Len(outcome) = Len(owner)
<1> DEFINE S == {"none"} \union Ended
<1>1. outcome \in [1..Len(owner) -> S] /\ Len(owner) \in Nat
  BY CommandsAre DEF TypeOK
<1> HIDE DEF S
<1>2. outcome \in Seq(S) /\ Len(outcome) = Len(owner)
  BY <1>1
<1>3. QED
  BY <1>2 DEF S

\* One more command.
LEMMA Appended ==
  ASSUME TypeOK, NEW t \in Targets, owner' = Append(owner, t)
  PROVE  /\ owner' \in Seq(Targets) /\ Len(owner') = Len(owner) + 1
         /\ Commands' = Commands \union {Len(owner) + 1} /\ Len(owner) + 1 \notin Commands
         /\ \A c \in Commands : owner'[c] = owner[c]
         /\ owner'[Len(owner) + 1] = t
BY DEF TypeOK, Commands

\* A set of numbers that is not empty has a least one.
LEMMA Least ==
  ASSUME NEW S \in SUBSET Nat, S # {}
  PROVE  \E x \in S : \A y \in S : x <= y
<1> DEFINE R == OpToRel(<, Nat)
<1>1. IsWellFoundedOn(R, Nat)
  BY NatLessThanWellFounded
<1>2. \A x, y \in Nat : y < x => <<y, x>> \in R
  BY DEF OpToRel
<1>3. PICK x \in S : \A y \in S : <<y, x>> \notin R
  <2> HIDE DEF R
  <2>1. QED
    BY <1>1, WFMin
<1>4. ASSUME NEW y \in S PROVE x <= y
  <2>1. x \in Nat /\ y \in Nat /\ ~ (y < x)
    BY <1>2, <1>3
  <2>2. QED
    BY <2>1
<1>5. QED
  BY <1>4

\* NextOf is the first of the targets that a handler has still to do.
LEMMA NextIs ==
  ASSUME TypeOK, NEW h \in Handlers, frame[h].todo # {}
  PROVE  NextOf(h) \in frame[h].todo /\ NextOf(h) \in Targets /\ \A u \in frame[h].todo : NextOf(h) <= u
<1>1. frame[h].todo \in SUBSET Nat /\ frame[h].todo \subseteq Targets
  BY FrameTyped DEF Targets
<1>2. QED
  BY <1>1, Least DEF NextOf

\* The tables keep their types.
LEMMA TableStep ==
  ASSUME IndInv, Next
  PROVE  TableType'
<1>1. ASSUME NEW h \in Handlers, CreateRollout(h) PROVE TableType'
  <2>1. batch' \in 0..N
    BY <1>1, RolloutAssumption DEF CreateRollout
  <2>2. QED
    BY <1>1, <2>1, RolloutAssumption, TypeParts DEF IndInv, CreateRollout, TableType
<1>2. ASSUME NEW h \in Handlers, LinkTarget(h) PROVE TableType'
  BY <1>2, TypeParts DEF IndInv, LinkTarget, TableType, table
<1>3. ASSUME NEW h \in Handlers, MarkTarget(h) PROVE TableType'
  BY <1>3, FrameTyped, TypeParts DEF IndInv, MarkTarget, TableType, table
<1>4. ASSUME NEW h \in Handlers, EndRollout(h) PROVE TableType'
  <2>1. counts' \in [done : 0..N, failed : 0..N]
    BY <1>4, FrameTyped DEF EndRollout, Counted, Tally, IndInv
  <2>2. QED
    BY <1>4, <2>1, TypeParts DEF IndInv, EndRollout, TableType
<1>5. ASSUME NEW h \in Handlers, GoOn(h) PROVE TableType'
  <2>1. counts' \in [done : 0..N, failed : 0..N]
    BY <1>5, FrameTyped, TypeParts DEF GoOn, Counted, Tally, IndInv, TableType
  <2>2. QED
    BY <1>5, <2>1, TypeParts DEF IndInv, GoOn, TableType
<1>6. CASE UNCHANGED <<table, target>>
  BY <1>6, TypeParts DEF IndInv, TableType, table
<1>7. QED
  BY <1>1, <1>2, <1>3, <1>4, <1>5, <1>6 DEF Next, Statement, Post, SelectRollout, PickBatch, QueueCommand,
     LookupRollout, SumTargets, StatementFails, GiveUp, CompleteCommand, Crash, table, agents, budget

\* Only a result that was posted is acknowledged.
LEMMA Acks ==
  ASSUME TypeOK, FrameInv, NEW h \in Handlers, Ends(h) \/ acked' = acked
  PROVE  acked' \subseteq Commands
<1>1. acked \subseteq Commands
  BY DEF TypeOK
<1>2. CASE Ends(h)
  <2>1. frame[h].awaited => frame[h].cmd \in Commands
    BY FrameTyped DEF FrameInv, Knows, TypeOK
  <2>2. QED
    BY <1>1, <1>2, <2>1 DEF Ends
<1>3. QED
  BY <1>1, <1>2

\* Commands, outcomes and acknowledgements are of commands.
LEMMA CommandStep ==
  ASSUME IndInv, Next
  PROVE  CommandType'
<1>1. ASSUME NEW h \in Handlers, SelectRollout(h) PROVE CommandType'
  <2>1. acked' \subseteq Commands
    BY <1>1, StepMoves, Acks DEF IndInv
  <2>2. QED
    BY <1>1, <2>1, TypeParts DEF IndInv, SelectRollout, CommandType, Commands
<1>2. ASSUME NEW h \in Handlers, PickBatch(h) PROVE CommandType'
  <2>1. acked' \subseteq Commands
    BY <1>2, StepMoves, Acks DEF IndInv
  <2>2. QED
    BY <1>2, <2>1, TypeParts DEF IndInv, PickBatch, CommandType, Commands
<1>3. ASSUME NEW h \in Handlers, QueueCommand(h) PROVE CommandType'
  <2>1. frame[h].todo # {} /\ owner' = Append(owner, NextOf(h)) /\ outcome' = Append(outcome, "none")
    BY <1>3 DEF IndInv, FrameInv, Follows, Queueing, QueueCommand
  <2>2. owner' \in Seq(Targets) /\ Commands' = Commands \union {Len(owner) + 1}
    BY <2>1, NextIs, Appended DEF IndInv
  <2>3. outcome' \in [Commands' -> {"none"} \union Ended]
    <3>1. outcome \in Seq({"none"} \union Ended) /\ Len(outcome) = Len(owner)
      BY OutcomesAre DEF IndInv
    <3>2. outcome' \in Seq({"none"} \union Ended) /\ Len(outcome') = Len(owner) + 1
      BY <2>1, <3>1
    <3>3. Commands' = 1..(Len(owner) + 1)
      BY <2>2, CommandsAre DEF IndInv
    <3>4. QED
      BY <3>2, <3>3
  <2>4. QED
    BY <1>3, <2>2, <2>3, TypeParts DEF IndInv, QueueCommand, CommandType
<1>4. ASSUME NEW h \in Handlers, LinkTarget(h) PROVE CommandType'
  <2>1. acked' \subseteq Commands
    BY <1>4, StepMoves, Acks DEF IndInv
  <2>2. frame[h].new \in {0} \union Commands
    BY DEF IndInv, TypeOK
  <2>3. QED
    BY <1>4, <2>1, <2>2, TypeParts DEF IndInv, LinkTarget, CommandType, Commands
<1>5. ASSUME NEW h \in Handlers, LookupRollout(h) PROVE CommandType'
  <2>1. acked' \subseteq Commands
    BY <1>5, StepMoves, Acks DEF IndInv
  <2>2. QED
    BY <1>5, <2>1, TypeParts DEF IndInv, LookupRollout, CommandType, Commands
<1>6. ASSUME NEW h \in Handlers, EndRollout(h) PROVE CommandType'
  <2>1. acked' \subseteq Commands
    BY <1>6, StepMoves, Acks DEF IndInv
  <2>2. QED
    BY <1>6, <2>1, TypeParts DEF IndInv, EndRollout, CommandType, Commands
<1>7. ASSUME NEW h \in Handlers, GoOn(h) PROVE CommandType'
  <2>1. acked' \subseteq Commands
    BY <1>7, StepMoves, Acks DEF IndInv
  <2>2. QED
    BY <1>7, <2>1, TypeParts DEF IndInv, GoOn, CommandType, Commands
<1>8. ASSUME NEW h \in Handlers, StatementFails(h) PROVE CommandType'
  <2>1. acked' \subseteq Commands
    BY <1>8, StepMoves, Acks DEF IndInv
  <2>2. QED
    BY <1>8, <2>1, TypeParts DEF IndInv, StatementFails, CommandType, Commands
<1>9. ASSUME NEW h \in Handlers, NEW c \in 1..Len(owner), CompleteCommand(h, c) PROVE CommandType'
  <2>1. PICK o \in Ended : outcome' = [outcome EXCEPT ![c] = o]
    BY <1>9, PostMoves DEF IndInv
  <2>2. QED
    BY <1>9, <2>1, TypeParts DEF IndInv, CompleteCommand, CommandType, Commands
<1>10. CASE UNCHANGED <<link, agents>>
  BY <1>10, TypeParts DEF IndInv, CommandType, Commands, agents
<1>11. QED
  BY <1>1, <1>2, <1>3, <1>4, <1>5, <1>6, <1>7, <1>8, <1>9, <1>10 DEF Next, Statement, Post, CreateRollout,
     MarkTarget, SumTargets, GiveUp, Crash, table, agents, budget

\* Commands stay, and so does what they gave.
Grows ==
  /\ Commands \subseteq Commands'
  /\ \A c \in Commands : owner'[c] = owner[c]
  /\ \A c \in Commands : outcome[c] # "none" => outcome'[c] = outcome[c]

\* No step takes a command or a result back.
LEMMA History ==
  ASSUME IndInv, Next
  PROVE  Grows
<1>1. ASSUME NEW h \in Handlers, QueueCommand(h) PROVE Grows
  <2>1. frame[h].todo # {} /\ owner' = Append(owner, NextOf(h)) /\ outcome' = Append(outcome, "none")
    BY <1>1 DEF IndInv, FrameInv, Follows, Queueing, QueueCommand
  <2>2. Commands \subseteq Commands' /\ \A c \in Commands : owner'[c] = owner[c]
    BY <2>1, NextIs, Appended DEF IndInv
  <2>3. outcome \in Seq({"none"} \union Ended) /\ Len(outcome) = Len(owner)
    BY OutcomesAre DEF IndInv
  <2>4. \A c \in Commands : outcome'[c] = outcome[c]
    BY <2>1, <2>3, CommandsAre DEF IndInv
  <2>5. QED
    BY <2>2, <2>4 DEF Grows
<1>2. ASSUME NEW h \in Handlers, NEW c \in 1..Len(owner), CompleteCommand(h, c) PROVE Grows
  <2>1. PICK o \in Ended : outcome' = [outcome EXCEPT ![c] = o] /\ outcome[c] \in {"none", o}
    BY <1>2, PostMoves DEF IndInv
  <2>2. \A d \in Commands : outcome[d] # "none" => outcome'[d] = outcome[d]
    BY <2>1 DEF IndInv, TypeOK
  <2>3. QED
    BY <1>2, <2>2 DEF CompleteCommand, Grows, Commands
<1>3. CASE UNCHANGED <<owner, outcome>>
  BY <1>3 DEF Grows, Commands
<1>4. QED
  BY <1>1, <1>2, <1>3 DEF Next, Statement, Post, CreateRollout, SelectRollout, PickBatch, LinkTarget,
     LookupRollout, MarkTarget, SumTargets, EndRollout, GoOn, StatementFails, GiveUp, Crash, table, agents,
     budget

\* What has been asked for and what has happened stays so.
LEMMA Monotone ==
  ASSUME Grows
  PROVE  /\ \A t \in Targets : Serves(t) => Serves(t)'
         /\ \A t \in Targets : \A o \in Ended : Gave(t, o) => Gave(t, o)'
         /\ Broken \subseteq Broken' /\ Missed' \subseteq Missed
<1>1. ASSUME NEW t \in Targets, Serves(t) PROVE Serves(t)'
  BY <1>1 DEF Grows, Serves
<1>2. ASSUME NEW t \in Targets, NEW o \in Ended, Gave(t, o) PROVE Gave(t, o)'
  BY <1>2 DEF Grows, Gave, Ended
<1>3. Broken \subseteq Broken' /\ Missed' \subseteq Missed
  BY <1>2 DEF Broken, Missed, Ended, Targets
<1>4. QED
  BY <1>1, <1>2, <1>3

\* A batch is not empty when a target is pending.
LEMMA FirstIs ==
  ASSUME TypeOK, Pending # {}, batch # 0
  PROVE  FirstPending(batch) # {}
<1>1. Pending \in SUBSET Nat /\ Pending \subseteq Targets
  BY DEF Pending, Targets
<1>2. PICK t \in Pending : \A u \in Pending : t <= u
  BY <1>1, Least
<1>3. {u \in Pending : u < t} = {}
  <2>1. ASSUME NEW u \in Pending PROVE ~ (u < t)
    <3>1. u \in Nat /\ t \in Nat /\ t <= u
      BY <1>1, <1>2
    <3>2. QED
      BY <3>1
  <2>2. QED
    BY <2>1
<1>4. batch \in Nat /\ 0 < batch
  BY RolloutAssumption DEF TypeOK
<1>5. QED
  BY <1>2, <1>3, <1>4, FS_EmptySet DEF FirstPending

\* The step of one handler keeps the frames well typed if its own is.
LEMMA FrameOf ==
  ASSUME TypeOK, Commands \subseteq Commands', NEW h \in Handlers, Others(h),
         frame'[h].cmd \in {0} \union Commands', frame'[h].new \in {0} \union Commands',
         frame'[h].pc \in {"queue", "link"} => frame'[h].todo # {}
  PROVE  FrameType'
<1>1. ASSUME NEW g \in Handlers
      PROVE  /\ frame'[g].cmd \in {0} \union Commands' /\ frame'[g].new \in {0} \union Commands'
             /\ frame'[g].pc \in {"queue", "link"} => frame'[g].todo # {}
  <2>1. CASE g = h
    BY <2>1
  <2>2. CASE g # h
    BY <2>2 DEF Others, TypeOK
  <2>3. QED
    BY <2>1, <2>2
<1>2. frame' \in [Handlers -> Frame]
  BY DEF Others
<1>3. QED
  BY <1>1, <1>2 DEF FrameType, Commands

\* The frames keep their types.
LEMMA FrameTypeStep ==
  ASSUME IndInv, Next
  PROVE  FrameType'
<1>1. ASSUME NEW h \in Handlers, CreateRollout(h) PROVE FrameType'
  <2>1. Commands \subseteq Commands' /\ frame[h].cmd \in {0} \union Commands /\ frame[h].new \in {0} \union Commands
    BY History DEF IndInv, TypeOK, Grows
  <2>2. QED
    BY <1>1, <2>1, StepMoves, FrameOf, IdleIs DEF IndInv, Goes, Ends, SameCmd, SameJob, GoesOn, Sums, Leaves
<1>2. ASSUME NEW h \in Handlers, SelectRollout(h) PROVE FrameType'
  <2>1. Commands \subseteq Commands' /\ frame[h].cmd \in {0} \union Commands /\ frame[h].new \in {0} \union Commands
    BY History DEF IndInv, TypeOK, Grows
  <2>2. QED
    BY <1>2, <2>1, StepMoves, FrameOf, IdleIs DEF IndInv, Goes, Ends, SameCmd, SameJob, GoesOn, Sums, Leaves
<1>3. ASSUME NEW h \in Handlers, PickBatch(h) PROVE FrameType'
  <2>1. Commands \subseteq Commands' /\ frame[h].cmd \in {0} \union Commands /\ frame[h].new \in {0} \union Commands
    BY History DEF IndInv, TypeOK, Grows
  <2>2. Ends(h) \/ (Pending # {} /\ Picks(h))
    BY <1>3, StepMoves DEF IndInv
  <2>3. Pending # {} => FirstPending(batch) # {}
    BY <1>3, FirstIs DEF IndInv, StartInv, PickBatch
  <2>4. QED
    BY <2>1, <2>2, <2>3, FrameOf, IdleIs DEF IndInv, Ends, Picks, SameCmd
<1>4. ASSUME NEW h \in Handlers, QueueCommand(h) PROVE FrameType'
  <2>1. Commands \subseteq Commands' /\ frame[h].cmd \in {0} \union Commands /\ frame[h].new \in {0} \union Commands
    BY History DEF IndInv, TypeOK, Grows
  <2>2. frame[h].todo # {} /\ owner' = Append(owner, NextOf(h))
    BY <1>4 DEF IndInv, FrameInv, Follows, Queueing, QueueCommand
  <2>3. Len(owner) + 1 \in Commands'
    BY <2>2, NextIs, Appended DEF IndInv
  <2>4. QED
    BY <1>4, <2>1, <2>2, <2>3, StepMoves, FrameOf DEF IndInv, Queues, SameCmd
<1>5. ASSUME NEW h \in Handlers, LinkTarget(h) PROVE FrameType'
  <2>1. Commands \subseteq Commands' /\ frame[h].cmd \in {0} \union Commands /\ frame[h].new \in {0} \union Commands
    BY History DEF IndInv, TypeOK, Grows
  <2>2. Ends(h) \/ (frame[h].todo # {NextOf(h)} /\ Links(h))
    BY <1>5, StepMoves DEF IndInv
  <2>3. frame[h].todo # {} /\ NextOf(h) \in frame[h].todo
    BY <1>5, NextIs DEF IndInv, FrameInv, Follows, Queueing, LinkTarget
  <2>4. QED
    BY <2>1, <2>2, <2>3, FrameOf, IdleIs DEF IndInv, Ends, Links, SameCmd
<1>6. ASSUME NEW h \in Handlers, LookupRollout(h) PROVE FrameType'
  <2>1. Commands \subseteq Commands' /\ frame[h].cmd \in {0} \union Commands /\ frame[h].new \in {0} \union Commands
    BY History DEF IndInv, TypeOK, Grows
  <2>2. QED
    BY <1>6, <2>1, StepMoves, FrameOf, IdleIs DEF IndInv, Goes, Ends, SameCmd, SameJob, GoesOn, Sums, Leaves
<1>7. ASSUME NEW h \in Handlers, MarkTarget(h) PROVE FrameType'
  <2>1. Commands \subseteq Commands' /\ frame[h].cmd \in {0} \union Commands /\ frame[h].new \in {0} \union Commands
    BY History DEF IndInv, TypeOK, Grows
  <2>2. QED
    BY <1>7, <2>1, StepMoves, FrameOf, IdleIs DEF IndInv, Goes, Ends, SameCmd, SameJob, GoesOn, Sums, Leaves
<1>8. ASSUME NEW h \in Handlers, SumTargets(h) PROVE FrameType'
  <2>1. Commands \subseteq Commands' /\ frame[h].cmd \in {0} \union Commands /\ frame[h].new \in {0} \union Commands
    BY History DEF IndInv, TypeOK, Grows
  <2>2. QED
    BY <1>8, <2>1, StepMoves, FrameOf, IdleIs DEF IndInv, Goes, Ends, SameCmd, SameJob, GoesOn, Sums, Leaves
<1>9. ASSUME NEW h \in Handlers, EndRollout(h) PROVE FrameType'
  <2>1. Commands \subseteq Commands' /\ frame[h].cmd \in {0} \union Commands /\ frame[h].new \in {0} \union Commands
    BY History DEF IndInv, TypeOK, Grows
  <2>2. QED
    BY <1>9, <2>1, StepMoves, FrameOf, IdleIs DEF IndInv, Goes, Ends, SameCmd, SameJob, GoesOn, Sums, Leaves
<1>10. ASSUME NEW h \in Handlers, GoOn(h) PROVE FrameType'
  <2>1. Commands \subseteq Commands' /\ frame[h].cmd \in {0} \union Commands /\ frame[h].new \in {0} \union Commands
    BY History DEF IndInv, TypeOK, Grows
  <2>2. QED
    BY <1>10, <2>1, StepMoves, FrameOf, IdleIs DEF IndInv, Goes, Ends, SameCmd, SameJob, GoesOn, Sums, Leaves
<1>11. ASSUME NEW h \in Handlers, StatementFails(h) PROVE FrameType'
  <2>1. Commands \subseteq Commands' /\ frame[h].cmd \in {0} \union Commands /\ frame[h].new \in {0} \union Commands
    BY History DEF IndInv, TypeOK, Grows
  <2>2. QED
    BY <1>11, <2>1, StepMoves, FrameOf, IdleIs DEF IndInv, Goes, Ends, SameCmd, SameJob, GoesOn, Sums, Leaves
<1>12. ASSUME NEW h \in Handlers, GiveUp(h) PROVE FrameType'
  <2>1. Commands \subseteq Commands' /\ frame[h].cmd \in {0} \union Commands /\ frame[h].new \in {0} \union Commands
    BY History DEF IndInv, TypeOK, Grows
  <2>2. frame[h].pc \in {"queue", "link"} => frame[h].todo # {}
    BY DEF IndInv, TypeOK
  <2>3. QED
    BY <1>12, <2>1, <2>2, StepMoves, FrameOf DEF IndInv, SameJob, Leaves
<1>13. ASSUME NEW h \in Handlers, NEW c \in 1..Len(owner), CompleteCommand(h, c) PROVE FrameType'
  <2>1. Commands \subseteq Commands' /\ frame[h].cmd \in {0} \union Commands /\ frame[h].new \in {0} \union Commands
    BY History DEF IndInv, TypeOK, Grows
  <2>2. c \in Commands /\ \E o \in Ended : Posts(h, c, o)
    BY <1>13, PostMoves DEF IndInv
  <2>3. QED
    BY <2>1, <2>2, FrameOf DEF IndInv, Posts, SameJob
<1>14. CASE Crash
  BY <1>14, IdleIs DEF Crash, FrameType, agents, Commands
<1>15. QED
  BY <1>1, <1>2, <1>3, <1>4, <1>5, <1>6, <1>7, <1>8, <1>9, <1>10, <1>11, <1>12, <1>13, <1>14 DEF Next,
     Statement, Post

\* The bounds hold.
LEMMA BudgetStep ==
  ASSUME IndInv, Next
  PROVE  BudgetType'
<1>1. ASSUME NEW h \in Handlers, GoOn(h) PROVE BudgetType'
  BY <1>1, TypeParts, RolloutAssumption DEF IndInv, GoOn, BudgetType, Trouble
<1>2. ASSUME NEW h \in Handlers, StatementFails(h) PROVE BudgetType'
  BY <1>2, TypeParts, RolloutAssumption DEF IndInv, StatementFails, BudgetType, Trouble
<1>3. ASSUME NEW h \in Handlers, GiveUp(h) PROVE BudgetType'
  BY <1>3, TypeParts, RolloutAssumption DEF IndInv, GiveUp, BudgetType, Trouble
<1>4. ASSUME NEW h \in Handlers, NEW c \in 1..Len(owner), CompleteCommand(h, c) PROVE BudgetType'
  BY <1>4, TypeParts DEF IndInv, CompleteCommand, BudgetType, budget
<1>5. CASE Crash
  BY <1>5, TypeParts, RolloutAssumption DEF IndInv, Crash, BudgetType, Trouble
<1>6. CASE UNCHANGED <<overlapped, orphaned, budget>>
  BY <1>6, TypeParts DEF IndInv, BudgetType, budget
<1>7. QED
  BY <1>1, <1>2, <1>3, <1>4, <1>5, <1>6 DEF Next, Statement, Post, CreateRollout, SelectRollout, PickBatch,
     QueueCommand, LinkTarget, LookupRollout, MarkTarget, SumTargets, EndRollout, table, agents, budget

\* Every variable keeps its type.
LEMMA TypeStep ==
  ASSUME IndInv, Next
  PROVE  TypeOK'
<1>1. TableType' /\ CommandType' /\ FrameType' /\ BudgetType'
  BY TableStep, CommandStep, FrameTypeStep, BudgetStep
<1>2. QED
  BY <1>1 DEF TypeOK, TableType, CommandType, FrameType, BudgetType

(***************************************************************************)
(* The parts that hold however the handlers overlap.                       *)
(***************************************************************************)

\* New commands and results leave the rows of the targets true.
LEMMA LinkKept ==
  ASSUME IndInv, Grows, UNCHANGED <<target, link>>
  PROVE  LinkInv'
<1>1. ASSUME NEW t \in Targets
      PROVE  /\ target[t] = "PENDING" \/ link[t] # 0
             /\ link[t] # 0 => owner'[link[t]] = t
             /\ target[t] \in Ended => outcome'[link[t]] = target[t]
  <2>1. link[t] # 0 => link[t] \in Commands
    BY DEF IndInv, TypeOK
  <2>2. target[t] \in Ended => outcome[link[t]] = target[t] /\ link[t] # 0 /\ outcome[link[t]] # "none"
    BY DEF IndInv, LinkInv, Ended
  <2>3. QED
    BY <2>1, <2>2 DEF IndInv, LinkInv, Grows
<1>2. QED
  BY <1>1 DEF LinkInv

\* The rows of the targets stay true.
LEMMA LinkStep ==
  ASSUME IndInv, Next
  PROVE  LinkInv'
<1>1. ASSUME NEW h \in Handlers, QueueCommand(h) PROVE LinkInv'
  <2>1. Grows /\ UNCHANGED <<target, link>>
    BY <1>1, History DEF QueueCommand
  <2>2. QED
    BY <2>1, LinkKept
<1>2. ASSUME NEW h \in Handlers, LinkTarget(h) PROVE LinkInv'
  <2>1. NextOf(h) \in Targets /\ frame[h].new \in Commands /\ owner[frame[h].new] = NextOf(h)
    BY <1>2, NextIs DEF IndInv, FrameInv, Follows, Queueing, LinkTarget, TypeOK
  <2>2. /\ UNCHANGED <<owner, outcome>>
        /\ link' = [link EXCEPT ![NextOf(h)] = frame[h].new]
        /\ target' = [target EXCEPT ![NextOf(h)] = "ACTIVE"]
    BY <1>2 DEF LinkTarget
  <2>3. frame[h].new # 0
    BY <2>1, CommandsAre DEF IndInv
  <2>4. ASSUME NEW t \in Targets
        PROVE  /\ target'[t] = "PENDING" \/ link'[t] # 0
               /\ link'[t] # 0 => owner[link'[t]] = t
               /\ target'[t] \in Ended => outcome[link'[t]] = target'[t]
    <3>1. CASE t = NextOf(h)
      <4>1. link'[t] = frame[h].new /\ target'[t] = "ACTIVE"
        BY <2>2, <3>1 DEF IndInv, TypeOK
      <4>2. QED
        BY <2>1, <2>3, <3>1, <4>1 DEF Ended
    <3>2. CASE t # NextOf(h)
      <4>1. link'[t] = link[t] /\ target'[t] = target[t]
        BY <2>2, <3>2 DEF IndInv, TypeOK
      <4>2. QED
        BY <4>1 DEF IndInv, LinkInv
    <3>3. QED
      BY <3>1, <3>2
  <2>5. QED
    BY <2>2, <2>4 DEF LinkInv
<1>3. ASSUME NEW h \in Handlers, MarkTarget(h) PROVE LinkInv'
  <2>1. outcome[frame[h].cmd] = frame[h].out /\ frame[h].cmd # 0
    BY <1>3 DEF IndInv, FrameInv, Knows, Advancing, MarkTarget
  <2>2. UNCHANGED <<link, owner, outcome>>
    BY <1>3 DEF MarkTarget, agents
  <2>3. ASSUME NEW t \in Targets
        PROVE  /\ target'[t] = "PENDING" \/ link[t] # 0
               /\ target'[t] \in Ended => outcome[link[t]] = target'[t]
    BY <2>1, <1>3 DEF IndInv, LinkInv, Linked, MarkTarget
  <2>4. QED
    BY <2>2, <2>3 DEF IndInv, LinkInv
<1>4. ASSUME NEW h \in Handlers, NEW c \in 1..Len(owner), CompleteCommand(h, c) PROVE LinkInv'
  <2>1. Grows /\ UNCHANGED <<target, link>>
    BY <1>4, History DEF CompleteCommand
  <2>2. QED
    BY <2>1, LinkKept
<1>5. CASE UNCHANGED <<target, link, owner, outcome>>
  BY <1>5 DEF IndInv, LinkInv
<1>6. QED
  BY <1>1, <1>2, <1>3, <1>4, <1>5 DEF Next, Statement, Post, CreateRollout, SelectRollout, PickBatch,
     LookupRollout, SumTargets, EndRollout, GoOn, StatementFails, GiveUp, Crash, table, agents, budget

\* The step of one handler keeps what the others know.
LEMMA KnowsOf ==
  ASSUME IndInv, Grows, NEW h \in Handlers, Others(h), Knows(h)', Follows(h)'
  PROVE  FrameInv'
<1>1. ASSUME NEW g \in Handlers, g # h PROVE Knows(g)' /\ Follows(g)'
  <2>1. frame'[g] = frame[g] /\ NextOf(g)' = NextOf(g)
    BY <1>1 DEF Others, NextOf
  <2>2. Knows(g) /\ Follows(g)
    BY DEF IndInv, FrameInv
  <2>3. Knows(g)'
    <3>1. frame[g].cmd # 0 => frame[g].cmd \in Commands /\ outcome[frame[g].cmd] # "none"
      BY <2>2, FrameTyped DEF IndInv, TypeOK, Knows, Ended
    <3>2. QED
      BY <2>1, <2>2, <3>1 DEF Knows, Grows
  <2>4. Follows(g)'
    <3>1. frame[g].new # 0 => frame[g].new \in Commands
      BY DEF IndInv, TypeOK
    <3>2. frame[g].todo \subseteq Targets
      BY FrameTyped DEF IndInv
    <3>3. \A t \in Targets : Serves(t) => Serves(t)'
      BY Monotone
    <3>4. frame'[g].pc = "link" => frame'[g].new # 0 /\ owner'[frame'[g].new] = NextOf(g)'
      BY <2>1, <2>2, <3>1 DEF Follows, Grows
    <3>5. frame'[g].pc \in Queueing =>
            /\ frame'[g].todo # {}
            /\ \A u \in frame'[g].todo, t \in Targets : t < u => t \in frame'[g].todo \/ Serves(t)'
      BY <2>1, <2>2, <3>2, <3>3 DEF Follows
    <3>6. QED
      BY <3>4, <3>5 DEF Follows, Targets, Queueing
  <2>5. QED
    BY <2>3, <2>4
<1>2. QED
  BY <1>1 DEF FrameInv

\* A handler that goes on with its command, and not with a batch.
LEMMA KnowsStill ==
  ASSUME IndInv, Grows, NEW h \in Handlers, SameCmd(h), frame'[h].pc # "idle",
         frame'[h].pc \in Advancing => frame[h].pc \in Advancing
  PROVE  Knows(h)'
<1>1. Knows(h)
  BY DEF IndInv, FrameInv
<1>2. frame[h].cmd # 0 => frame[h].cmd \in Commands /\ outcome[frame[h].cmd] # "none"
  BY <1>1, FrameTyped DEF IndInv, TypeOK, Knows, Ended
<1>3. frame[h].cmd # 0 => outcome'[frame[h].cmd] = frame[h].out
  BY <1>1, <1>2 DEF Knows, Grows
<1>4. frame'[h].cmd = frame[h].cmd /\ frame'[h].out = frame[h].out /\ frame'[h].awaited = frame[h].awaited
  BY DEF SameCmd
<1>5. QED
  BY <1>1, <1>3, <1>4 DEF Knows

\* A handler without a command or a batch knows all it must.
LEMMA IdleKnows ==
  ASSUME NEW h \in Handlers, frame'[h] = Idle
  PROVE  Knows(h)' /\ Follows(h)'
BY IdleIs DEF Knows, Follows, Advancing, Queueing

\* The first pending targets come before the others.
LEMMA FirstBefore ==
  ASSUME TypeOK, NEW u \in FirstPending(batch), NEW t \in Pending, t < u
  PROVE  t \in FirstPending(batch)
<1>1. Pending \subseteq Targets /\ Pending \subseteq Nat /\ t \in Nat /\ u \in Nat
  BY DEF Pending, Targets, FirstPending
<1>2. {v \in Pending : v < t} \subseteq {v \in Pending : v < u}
  <2>1. ASSUME NEW v \in Pending, v < t PROVE v < u
    <3>1. v \in Nat
      BY <1>1
    <3>2. QED
      BY <1>1, <2>1, <3>1
  <2>2. QED
    BY <2>1
<1>3. Cardinality({v \in Pending : v < t}) <= Cardinality({v \in Pending : v < u})
  BY <1>1, <1>2, Fewer
<1>4. Cardinality({v \in Pending : v < t}) \in Nat /\ Cardinality({v \in Pending : v < u}) \in Nat /\ batch \in Nat
  <2>1. {v \in Pending : v < t} \in SUBSET Targets /\ {v \in Pending : v < u} \in SUBSET Targets
    BY <1>1
  <2>2. QED
    BY <2>1, TargetsFinite, RolloutAssumption DEF TypeOK
<1>5. QED
  BY <1>3, <1>4 DEF FirstPending

\* What the handlers know stays true.
LEMMA FrameStep ==
  ASSUME IndInv, Next
  PROVE  FrameInv'
<1>1. ASSUME NEW h \in Handlers, CreateRollout(h) PROVE FrameInv'
  <2>1. Grows
    BY History
  <2>2. Others(h) /\ SameCmd(h) /\ frame'[h].pc = "batch"
    BY <1>1, StepMoves DEF IndInv, Goes
  <2>3. Knows(h)'
    BY <2>1, <2>2, KnowsStill DEF Advancing
  <2>4. Follows(h)'
    BY <2>2 DEF Follows, Queueing
  <2>5. QED
    BY <2>1, <2>2, <2>3, <2>4, KnowsOf
<1>2. ASSUME NEW h \in Handlers, SelectRollout(h) PROVE FrameInv'
  <2>1. Grows
    BY History
  <2>2. CASE Ends(h)
    BY <2>1, <2>2, IdleKnows, KnowsOf DEF Ends
  <2>3. CASE Goes(h, "pick")
    <3>1. Knows(h)'
      BY <2>1, <2>3, KnowsStill DEF Advancing, Goes
    <3>2. Follows(h)'
      BY <2>3 DEF Follows, Queueing, Goes
    <3>3. QED
      BY <2>1, <2>3, <3>1, <3>2, KnowsOf DEF Goes
  <2>4. QED
    BY <1>2, <2>2, <2>3, StepMoves DEF IndInv
<1>3. ASSUME NEW h \in Handlers, PickBatch(h) PROVE FrameInv'
  <2>1. Grows
    BY History
  <2>2. CASE Ends(h)
    BY <2>1, <2>2, IdleKnows, KnowsOf DEF Ends
  <2>3. CASE Pending # {} /\ Picks(h)
    <3>1. Knows(h)'
      BY <2>1, <2>3, KnowsStill DEF Advancing, Picks
    <3>2. FirstPending(batch) # {}
      BY <1>3, <2>3, FirstIs DEF IndInv, StartInv, PickBatch
    <3>3. ASSUME NEW u \in FirstPending(batch), NEW t \in Targets, t < u
          PROVE  t \in FirstPending(batch) \/ Serves(t)'
      <4>1. CASE target[t] = "PENDING"
        <5>1. t \in Pending /\ TypeOK
          BY <4>1 DEF Pending, IndInv
        <5>2. QED
          BY <3>3, <5>1, FirstBefore
      <4>2. CASE target[t] # "PENDING"
        <5>1. link[t] \in Commands /\ owner[link[t]] = t
          BY <4>2 DEF IndInv, LinkInv, TypeOK
        <5>2. QED
          BY <2>1, <5>1, Monotone DEF Serves
      <4>3. QED
        BY <4>1, <4>2
    <3>4. Follows(h)'
      <4>1. frame'[h].todo = FirstPending(batch) /\ frame'[h].pc # "link"
        BY <2>3 DEF Picks
      <4>2. QED
        BY <3>2, <3>3, <4>1 DEF Follows, Queueing, Targets
    <3>5. QED
      BY <2>1, <2>3, <3>1, <3>4, KnowsOf DEF Picks
  <2>4. QED
    BY <1>3, <2>2, <2>3, StepMoves DEF IndInv
<1>4. ASSUME NEW h \in Handlers, QueueCommand(h) PROVE FrameInv'
  <2>1. Grows
    BY History
  <2>2. Queues(h) /\ owner' = Append(owner, NextOf(h))
    BY <1>4, StepMoves DEF IndInv, QueueCommand
  <2>3. Knows(h)'
    BY <2>1, <2>2, KnowsStill DEF Advancing, Queues
  <2>4. Follows(h) /\ frame[h].pc = "queue" /\ frame[h].todo # {}
    BY <1>4 DEF IndInv, FrameInv, Follows, Queueing, QueueCommand
  <2>5. /\ frame'[h].todo = frame[h].todo /\ NextOf(h)' = NextOf(h)
        /\ frame'[h].new = Len(owner) + 1 /\ frame'[h].pc = "link"
    BY <2>2 DEF Queues, NextOf
  <2>6. owner'[Len(owner) + 1] = NextOf(h)
    BY <2>2, <2>4, NextIs, Appended DEF IndInv
  <2>7. Len(owner) + 1 # 0
    BY CommandsAre DEF IndInv
  <2>8. frame[h].todo \subseteq Targets /\ \A t \in Targets : Serves(t) => Serves(t)'
    BY <2>1, FrameTyped, Monotone DEF IndInv
  <2>9. \A u \in frame'[h].todo, t \in Targets : t < u => t \in frame'[h].todo \/ Serves(t)'
    BY <2>4, <2>5, <2>8 DEF Follows, Queueing
  <2>10. Follows(h)'
    BY <2>4, <2>5, <2>6, <2>7, <2>9 DEF Follows, Targets
  <2>11. QED
    BY <2>1, <2>2, <2>3, <2>10, KnowsOf DEF Queues
<1>5. ASSUME NEW h \in Handlers, LinkTarget(h) PROVE FrameInv'
  <2>1. Grows
    BY History
  <2>2. CASE Ends(h)
    BY <2>1, <2>2, IdleKnows, KnowsOf DEF Ends
  <2>3. CASE frame[h].todo # {NextOf(h)} /\ Links(h)
    <3>1. Knows(h)'
      BY <2>1, <2>3, KnowsStill DEF Advancing, Links
    <3>2. Follows(h) /\ frame[h].pc = "link" /\ frame[h].todo # {}
      BY <1>5 DEF IndInv, FrameInv, Follows, Queueing, LinkTarget
    <3>3. frame[h].new \in Commands /\ owner[frame[h].new] = NextOf(h)
      BY <3>2 DEF Follows, IndInv, TypeOK
    <3>4. frame'[h].todo = frame[h].todo \ {NextOf(h)} /\ frame'[h].pc = "queue"
      BY <2>3 DEF Links
    <3>5. frame[h].todo \subseteq Targets /\ \A t \in Targets : Serves(t) => Serves(t)'
      BY <2>1, FrameTyped, Monotone DEF IndInv
    <3>6. \A u \in frame'[h].todo, t \in Targets : t < u => t \in frame'[h].todo \/ Serves(t)'
      <4>1. Serves(NextOf(h))
        BY <3>3 DEF Serves
      <4>2. \A u \in frame[h].todo, t \in Targets : t < u => t \in frame[h].todo \/ Serves(t)
        BY <3>2 DEF Follows, Queueing
      <4>3. QED
        BY <3>4, <3>5, <4>1, <4>2
    <3>7. frame'[h].todo # {}
      BY <2>3, <3>2, <3>4, NextIs DEF IndInv
    <3>8. Follows(h)'
      BY <3>4, <3>6, <3>7 DEF Follows, Targets
    <3>9. QED
      BY <2>1, <2>3, <3>1, <3>8, KnowsOf DEF Links
  <2>4. QED
    BY <1>5, <2>2, <2>3, StepMoves DEF IndInv
<1>6. ASSUME NEW h \in Handlers, LookupRollout(h) PROVE FrameInv'
  <2>1. Grows
    BY History
  <2>2. CASE Ends(h)
    BY <2>1, <2>2, IdleKnows, KnowsOf DEF Ends
  <2>3. CASE Goes(h, "mark")
    <3>1. frame[h].pc \in Advancing
      BY <1>6 DEF Advancing, LookupRollout
    <3>2. Knows(h)'
      BY <2>1, <2>3, <3>1, KnowsStill DEF Goes
    <3>3. Follows(h)'
      BY <2>3 DEF Follows, Queueing, Goes
    <3>4. QED
      BY <2>1, <2>3, <3>2, <3>3, KnowsOf DEF Goes
  <2>4. QED
    BY <1>6, <2>2, <2>3, StepMoves DEF IndInv
<1>7. ASSUME NEW h \in Handlers, MarkTarget(h) PROVE FrameInv'
  <2>1. Grows
    BY History
  <2>2. Others(h) /\ SameCmd(h) /\ frame'[h].pc \notin Queueing \union {"idle"}
    BY <1>7, StepMoves DEF IndInv, Queueing, Goes
  <2>3. frame[h].pc \in Advancing
    BY <1>7 DEF Advancing, MarkTarget
  <2>4. Knows(h)'
    BY <2>1, <2>2, <2>3, KnowsStill
  <2>5. Follows(h)'
    BY <2>2 DEF Follows, Queueing
  <2>6. QED
    BY <2>1, <2>2, <2>4, <2>5, KnowsOf
<1>8. ASSUME NEW h \in Handlers, SumTargets(h) PROVE FrameInv'
  <2>1. Grows
    BY History
  <2>2. Others(h) /\ SameCmd(h) /\ frame'[h].pc \notin Queueing \union {"idle"}
    BY <1>8, StepMoves DEF IndInv, Queueing, Sums
  <2>3. frame[h].pc \in Advancing
    BY <1>8 DEF Advancing, SumTargets
  <2>4. Knows(h)'
    BY <2>1, <2>2, <2>3, KnowsStill
  <2>5. Follows(h)'
    BY <2>2 DEF Follows, Queueing
  <2>6. QED
    BY <2>1, <2>2, <2>4, <2>5, KnowsOf
<1>9. ASSUME NEW h \in Handlers, EndRollout(h) PROVE FrameInv'
  <2>1. Grows
    BY History
  <2>2. Ends(h)
    BY <1>9, StepMoves DEF IndInv
  <2>3. QED
    BY <2>1, <2>2, IdleKnows, KnowsOf DEF Ends
<1>10. ASSUME NEW h \in Handlers, GoOn(h) PROVE FrameInv'
  <2>1. Grows
    BY History
  <2>2. CASE Ends(h)
    BY <2>1, <2>2, IdleKnows, KnowsOf DEF Ends
  <2>3. CASE GoesOn(h)
    <3>1. Knows(h)'
      BY <2>1, <2>3, KnowsStill DEF Advancing, GoesOn
    <3>2. Follows(h)'
      BY <2>3 DEF Follows, Queueing, GoesOn
    <3>3. QED
      BY <2>1, <2>3, <3>1, <3>2, KnowsOf DEF GoesOn
  <2>4. QED
    BY <1>10, <2>2, <2>3, StepMoves DEF IndInv
<1>11. ASSUME NEW h \in Handlers, StatementFails(h) PROVE FrameInv'
  <2>1. Grows
    BY History
  <2>2. Ends(h)
    BY <1>11, StepMoves DEF IndInv
  <2>3. QED
    BY <2>1, <2>2, IdleKnows, KnowsOf DEF Ends
<1>12. ASSUME NEW h \in Handlers, GiveUp(h) PROVE FrameInv'
  <2>1. Grows
    BY History
  <2>2. Leaves(h) /\ Knows(h) /\ Follows(h) /\ frame[h].awaited
    BY <1>12, StepMoves DEF IndInv, FrameInv, GiveUp
  <2>3. UNCHANGED <<owner, outcome>> /\ NextOf(h)' = NextOf(h)
    BY <1>12, <2>2 DEF GiveUp, agents, Leaves, SameJob, NextOf
  <2>4. Knows(h)'
    BY <2>2, <2>3 DEF Leaves, Knows
  <2>5. Follows(h)'
    BY <2>2, <2>3 DEF Leaves, SameJob, Follows, Serves, Commands
  <2>6. QED
    BY <2>1, <2>2, <2>4, <2>5, KnowsOf DEF Leaves
<1>13. ASSUME NEW h \in Handlers, NEW c \in 1..Len(owner), CompleteCommand(h, c) PROVE FrameInv'
  <2>1. Grows
    BY History
  <2>2. PICK o \in Ended : Posts(h, c, o) /\ outcome' = [outcome EXCEPT ![c] = o]
    BY <1>13, PostMoves DEF IndInv
  <2>3. c \in Commands /\ c # 0
    BY <1>13, PostMoves DEF IndInv
  <2>4. outcome'[c] = o
    BY <2>2, <2>3 DEF IndInv, TypeOK
  <2>5. Knows(h)'
    BY <2>2, <2>3, <2>4 DEF Posts, Knows
  <2>6. Follows(h)'
    BY <2>2 DEF Posts, Follows, Queueing
  <2>7. QED
    BY <2>1, <2>2, <2>5, <2>6, KnowsOf DEF Posts
<1>14. CASE Crash
  <2>1. ASSUME NEW h \in Handlers PROVE Knows(h)' /\ Follows(h)'
    BY <1>14, IdleKnows DEF Crash
  <2>2. QED
    BY <2>1 DEF FrameInv
<1>15. QED
  BY <1>1, <1>2, <1>3, <1>4, <1>5, <1>6, <1>7, <1>8, <1>9, <1>10, <1>11, <1>12, <1>13, <1>14 DEF Next,
     Statement, Post

\* Before the rollout is created nothing else can be done.
LEMMA NothingYet ==
  ASSUME IndInv, rollout = "ABSENT", Next
  PROVE  \/ \E h \in Handlers : CreateRollout(h)
         \/ Crash
<1>1. owner = <<>> /\ 1..Len(owner) = {} /\ \A h \in Handlers : frame[h].pc = "idle" /\ ~ frame[h].awaited
  BY DEF IndInv, StartInv, FrameInv, Knows
<1>2. QED
  BY <1>1 DEF Next, Statement, Post, SelectRollout, PickBatch, QueueCommand, LinkTarget, LookupRollout,
     MarkTarget, SumTargets, EndRollout, GoOn, StatementFails, GiveUp

\* Once it is created the rollout stays, with what was asked for.
LEMMA Asked ==
  ASSUME IndInv, rollout # "ABSENT", Next
  PROVE  rollout' # "ABSENT" /\ batch' = batch /\ maxFail' = maxFail
BY DEF Next, Statement, Post, CreateRollout, SelectRollout, PickBatch, QueueCommand, LinkTarget, LookupRollout,
   MarkTarget, SumTargets, EndRollout, GoOn, StatementFails, GiveUp, CompleteCommand, Crash, table, Ended

\* The INSERT of the rollout stays the first step.
LEMMA StartStep ==
  ASSUME IndInv, Next
  PROVE  StartInv'
<1>1. CASE rollout # "ABSENT"
  BY <1>1, Asked DEF IndInv, StartInv
<1>2. ASSUME NEW h \in Handlers, CreateRollout(h) PROVE StartInv'
  <2>1. rollout' # "ABSENT" /\ batch' # 0
    BY <1>2, RolloutAssumption DEF CreateRollout
  <2>2. QED
    BY <2>1 DEF StartInv
<1>3. CASE rollout = "ABSENT" /\ Crash
  BY <1>3, IdleIs DEF IndInv, StartInv, Crash, table, agents
<1>4. QED
  BY <1>1, <1>2, <1>3, NothingYet

\* What the rows of the targets say has happened.
LEMMA RowsAreTrue ==
  ASSUME TypeOK, LinkInv
  PROVE  /\ \A t \in Targets : target[t] \in Ended => Gave(t, target[t])
         /\ HowMany("FAILED") <= Cardinality(Broken)
         /\ HowMany("ACTIVE") = 0 /\ HowMany("PENDING") = 0 =>
              /\ \A t \in Targets : Gave(t, "COMPLETED") \/ Gave(t, "FAILED")
              /\ Cardinality(Missed) <= HowMany("FAILED")
<1>1. ASSUME NEW t \in Targets, target[t] \in Ended PROVE Gave(t, target[t])
  <2>1. link[t] \in Commands /\ owner[link[t]] = t /\ outcome[link[t]] = target[t]
    BY <1>1 DEF LinkInv, TypeOK, Ended
  <2>2. QED
    BY <2>1 DEF Gave
<1>2. Broken \in SUBSET Targets /\ Missed \in SUBSET Targets /\ \A x : InState(x) \in SUBSET Targets
  BY DEF Broken, Missed, InState
<1>3. \A x : HowMany(x) = Cardinality(InState(x))
  BY DEF HowMany, InState
<1>4. HowMany("FAILED") <= Cardinality(Broken)
  <2>1. InState("FAILED") \subseteq Broken
    BY <1>1 DEF InState, Broken, Ended
  <2>2. QED
    BY <1>2, <1>3, <2>1, Fewer
<1>5. ASSUME HowMany("ACTIVE") = 0, HowMany("PENDING") = 0
      PROVE  /\ \A t \in Targets : Gave(t, "COMPLETED") \/ Gave(t, "FAILED")
             /\ Cardinality(Missed) <= HowMany("FAILED")
  <2>1. InState("ACTIVE") = {} /\ InState("PENDING") = {}
    BY <1>2, <1>3, <1>5, Fewer
  <2>2. \A t \in Targets : target[t] \in Ended
    BY <2>1 DEF InState, TypeOK
  <2>3. \A t \in Targets : Gave(t, "COMPLETED") \/ Gave(t, "FAILED")
    BY <1>1, <2>2 DEF Ended
  <2>4. Missed \subseteq InState("FAILED")
    BY <1>1, <2>2 DEF Missed, InState, Ended
  <2>5. QED
    BY <1>2, <1>3, <2>3, <2>4, Fewer
<1>6. QED
  BY <1>1, <1>4, <1>5

\* What has happened goes on being so, whatever the sums said.
LEMMA SeenOf ==
  ASSUME IndInv, Grows, NEW h \in Handlers, frame[h].pc = "settle"
  PROVE  /\ frame[h].seen.failed <= Cardinality(Broken')
         /\ frame[h].seen.active = 0 /\ frame[h].seen.pending = 0 =>
              /\ \A t \in Targets : Gave(t, "COMPLETED")' \/ Gave(t, "FAILED")'
              /\ Cardinality(Missed') <= frame[h].seen.failed
<1>1. Broken \in SUBSET Targets /\ Missed \in SUBSET Targets /\ Broken' \in SUBSET Targets /\ Missed' \in SUBSET Targets
  BY DEF Broken, Missed, Targets
<1>2. Cardinality(Broken) <= Cardinality(Broken') /\ Cardinality(Missed') <= Cardinality(Missed)
  BY <1>1, Monotone, Fewer
<1>3. /\ Cardinality(Broken) \in Nat /\ Cardinality(Broken') \in Nat
      /\ Cardinality(Missed) \in Nat /\ Cardinality(Missed') \in Nat
  BY <1>1, TargetsFinite, RolloutAssumption
<1>4. frame[h].seen.failed \in Nat
  BY FrameTyped, RolloutAssumption DEF IndInv, Tally
<1>5. frame[h].seen.failed <= Cardinality(Broken')
  BY <1>2, <1>3, <1>4 DEF IndInv, SeenInv
<1>6. ASSUME frame[h].seen.active = 0, frame[h].seen.pending = 0
      PROVE  /\ \A t \in Targets : Gave(t, "COMPLETED")' \/ Gave(t, "FAILED")'
             /\ Cardinality(Missed') <= frame[h].seen.failed
  <2>1. \A t \in Targets : Gave(t, "COMPLETED") \/ Gave(t, "FAILED")
    BY <1>6 DEF IndInv, SeenInv
  <2>2. Cardinality(Missed) <= frame[h].seen.failed
    BY <1>6 DEF IndInv, SeenInv
  <2>3. \A t \in Targets : Gave(t, "COMPLETED")' \/ Gave(t, "FAILED")'
    BY <2>1, Monotone DEF Ended
  <2>4. QED
    BY <1>2, <1>3, <1>4, <2>2, <2>3
<1>7. QED
  BY <1>5, <1>6

\* A handler that settles has just read the sums, or had read them before.
Settling(g) ==
  frame'[g].pc = "settle" =>
    \/ frame[g].pc = "settle" /\ frame'[g].seen = frame[g].seen
    \/ frame'[g].seen = Now /\ UNCHANGED <<target, link, owner, outcome>>

\* A handler that goes on to settle a rollout has just counted its targets.
LEMMA Settles ==
  ASSUME IndInv, Next, NEW g \in Handlers
  PROVE  Settling(g)
<1>1. ASSUME NEW h \in Handlers, CreateRollout(h)
      PROVE  Settling(g)
  BY <1>1, StepMoves, IdleIs DEF Settling, IndInv, Others, Goes
<1>2. ASSUME NEW h \in Handlers, SelectRollout(h)
      PROVE  Settling(g)
  BY <1>2, StepMoves, IdleIs DEF Settling, IndInv, Others, Goes, Ends
<1>3. ASSUME NEW h \in Handlers, PickBatch(h)
      PROVE  Settling(g)
  BY <1>3, StepMoves, IdleIs DEF Settling, IndInv, Others, Picks, Ends
<1>4. ASSUME NEW h \in Handlers, QueueCommand(h)
      PROVE  Settling(g)
  BY <1>4, StepMoves, IdleIs DEF Settling, IndInv, Others, Queues
<1>5. ASSUME NEW h \in Handlers, LinkTarget(h)
      PROVE  Settling(g)
  BY <1>5, StepMoves, IdleIs DEF Settling, IndInv, Others, Links, Ends
<1>6. ASSUME NEW h \in Handlers, LookupRollout(h)
      PROVE  Settling(g)
  BY <1>6, StepMoves, IdleIs DEF Settling, IndInv, Others, Goes, Ends
<1>7. ASSUME NEW h \in Handlers, MarkTarget(h)
      PROVE  Settling(g)
  BY <1>7, StepMoves, IdleIs DEF Settling, IndInv, Others, Goes
<1>8. ASSUME NEW h \in Handlers, SumTargets(h)
      PROVE  Settling(g)
  <2>1. Sums(h) /\ UNCHANGED <<target, link, owner, outcome>>
    BY <1>8, StepMoves DEF IndInv, SumTargets, agents
  <2>2. QED
    BY <2>1 DEF Settling, Sums, Others
<1>9. ASSUME NEW h \in Handlers, EndRollout(h)
      PROVE  Settling(g)
  BY <1>9, StepMoves, IdleIs DEF Settling, IndInv, Others, Ends
<1>10. ASSUME NEW h \in Handlers, GoOn(h)
      PROVE  Settling(g)
  BY <1>10, StepMoves, IdleIs DEF Settling, IndInv, Others, Ends, GoesOn
<1>11. ASSUME NEW h \in Handlers, StatementFails(h)
      PROVE  Settling(g)
  BY <1>11, StepMoves, IdleIs DEF Settling, IndInv, Others, Ends
<1>12. ASSUME NEW h \in Handlers, GiveUp(h)
      PROVE  Settling(g)
  BY <1>12, StepMoves, IdleIs DEF Settling, IndInv, Others, Leaves
<1>13. ASSUME NEW h \in Handlers, NEW c \in 1..Len(owner), CompleteCommand(h, c)
      PROVE  Settling(g)
  BY <1>13, PostMoves DEF Settling, IndInv, Others, Posts
<1>14. ASSUME Crash PROVE Settling(g)
  BY <1>14, IdleIs DEF Settling, Crash
<1>15. QED
  BY <1>1, <1>2, <1>3, <1>4, <1>5, <1>6, <1>7, <1>8, <1>9, <1>10, <1>11, <1>12, <1>13, <1>14 DEF Next,
     Statement, Post

\* Sums that were read stay true of what has happened.
LEMMA SeenStep ==
  ASSUME IndInv, Next
  PROVE  SeenInv'
<1>1. Grows
  BY History
<1>2. ASSUME NEW g \in Handlers, frame'[g].pc = "settle"
      PROVE  /\ frame'[g].seen.failed <= Cardinality(Broken')
             /\ frame'[g].seen.active = 0 /\ frame'[g].seen.pending = 0 =>
                  /\ \A t \in Targets : Gave(t, "COMPLETED")' \/ Gave(t, "FAILED")'
                  /\ Cardinality(Missed') <= frame'[g].seen.failed
  <2>1. CASE frame[g].pc = "settle" /\ frame'[g].seen = frame[g].seen
    BY <1>1, <2>1, SeenOf
  <2>2. CASE frame'[g].seen = Now /\ UNCHANGED <<target, link, owner, outcome>>
    <3>1. Broken' = Broken /\ Missed' = Missed /\ \A t \in Targets, o \in Ended : Gave(t, o)' <=> Gave(t, o)
      BY <2>2 DEF Broken, Missed, Gave, Commands, Targets
    <3>2. /\ frame'[g].seen.failed = HowMany("FAILED") /\ frame'[g].seen.active = HowMany("ACTIVE")
          /\ frame'[g].seen.pending = HowMany("PENDING")
      BY <2>2 DEF Now
    <3>3. TypeOK /\ LinkInv
      BY DEF IndInv
    <3>4. "COMPLETED" \in Ended /\ "FAILED" \in Ended
      BY DEF Ended
    <3>5. QED
      BY <3>1, <3>2, <3>3, <3>4, RowsAreTrue
  <2>3. QED
    BY <1>2, <2>1, <2>2, Settles DEF Settling
<1>3. QED
  BY <1>2 DEF SeenInv, Targets

\* The promise, in terms of the sets that the proof is about.
LEMMA HonestIs ==
  ASSUME rollout' = "FAILED" => Cardinality(Broken') > maxFail',
         rollout' = "COMPLETED" => /\ \A t \in Targets : Gave(t, "COMPLETED")' \/ Gave(t, "FAILED")'
                                   /\ Cardinality(Missed') <= maxFail'
  PROVE  VerdictIsHonest'
BY DEF VerdictIsHonest, CompletionIsHonest, FailureIsHonest, Broken, Missed, Targets

\* The end of the rollout is what has happened.
LEMMA VerdictStep ==
  ASSUME IndInv, Next
  PROVE  VerdictIsHonest'
<1>1. ASSUME NEW h \in Handlers, CreateRollout(h) PROVE VerdictIsHonest'
  BY <1>1 DEF CreateRollout, VerdictIsHonest, CompletionIsHonest, FailureIsHonest
<1>2. ASSUME NEW h \in Handlers, EndRollout(h) PROVE VerdictIsHonest'
  <2>1. frame[h].pc = "settle" /\ rollout' = Verdict(frame[h].seen) /\ UNCHANGED <<maxFail, owner, outcome>>
    BY <1>2 DEF EndRollout
  <2>2. Grows
    BY History
  <2>3. Broken' \in SUBSET Targets /\ Missed' \in SUBSET Targets
    BY DEF Broken, Missed, Targets
  <2>4. Cardinality(Broken') \in Nat /\ Cardinality(Missed') \in Nat /\ maxFail \in Nat /\ frame[h].seen.failed \in Nat
    BY <2>3, TargetsFinite, FrameTyped, RolloutAssumption DEF IndInv, TypeOK, Tally
  <2>5. rollout' = "FAILED" => Cardinality(Broken') > maxFail
    <3>1. rollout' = "FAILED" => frame[h].seen.failed > maxFail
      BY <2>1 DEF Verdict
    <3>2. QED
      BY <2>1, <2>2, <2>4, <3>1, SeenOf
  <2>6. ASSUME rollout' = "COMPLETED"
        PROVE  /\ \A t \in Targets : Gave(t, "COMPLETED")' \/ Gave(t, "FAILED")'
               /\ Cardinality(Missed') <= maxFail
    <3>1. ~ (frame[h].seen.failed > maxFail) /\ frame[h].seen.active = 0 /\ frame[h].seen.pending = 0
      BY <2>1, <2>6 DEF Verdict
    <3>2. QED
      BY <2>1, <2>2, <2>4, <3>1, SeenOf
  <2>7. QED
    BY <2>1, <2>5, <2>6, HonestIs
<1>3. CASE UNCHANGED rollout
  <2>1. CASE rollout = "ABSENT"
    BY <1>3, <2>1 DEF VerdictIsHonest, CompletionIsHonest, FailureIsHonest
  <2>2. CASE rollout # "ABSENT"
    <3>1. maxFail' = maxFail /\ Grows
      BY <2>2, Asked, History
    <3>2. /\ Broken \in SUBSET Targets /\ Missed \in SUBSET Targets
          /\ Broken' \in SUBSET Targets /\ Missed' \in SUBSET Targets
      BY DEF Broken, Missed, Targets
    <3>3. Cardinality(Broken) <= Cardinality(Broken') /\ Cardinality(Missed') <= Cardinality(Missed)
      BY <3>1, <3>2, Monotone, Fewer
    <3>4. /\ Cardinality(Broken) \in Nat /\ Cardinality(Broken') \in Nat
          /\ Cardinality(Missed) \in Nat /\ Cardinality(Missed') \in Nat /\ maxFail \in Nat
      BY <3>2, TargetsFinite, RolloutAssumption DEF IndInv, TypeOK
    <3>5. rollout = "FAILED" => Cardinality(Broken) > maxFail
      BY DEF IndInv, VerdictIsHonest, FailureIsHonest, Broken
    <3>6. rollout = "COMPLETED" => Cardinality(Missed) <= maxFail
      BY DEF IndInv, VerdictIsHonest, CompletionIsHonest, Missed
    <3>7. rollout = "COMPLETED" => \A t \in Targets : Gave(t, "COMPLETED") \/ Gave(t, "FAILED")
      BY DEF IndInv, VerdictIsHonest, CompletionIsHonest
    <3>8. rollout = "COMPLETED" => \A t \in Targets : Gave(t, "COMPLETED")' \/ Gave(t, "FAILED")'
      BY <3>1, <3>7, Monotone DEF Ended
    <3>9. QED
      BY <1>3, <3>1, <3>3, <3>4, <3>5, <3>6, <3>8, HonestIs
  <2>3. QED
    BY <2>1, <2>2
<1>4. QED
  BY <1>1, <1>2, <1>3 DEF Next, Statement, Post, SelectRollout, PickBatch, QueueCommand, LinkTarget,
     LookupRollout, MarkTarget, SumTargets, GoOn, StatementFails, GiveUp, CompleteCommand, Crash, table,
     agents, budget

\* The targets are taken in order.
LEMMA OrderStep ==
  ASSUME IndInv, Next
  PROVE  InOrdinalOrder'
<1>1. ASSUME NEW h \in Handlers, QueueCommand(h) PROVE InOrdinalOrder'
  <2>1. owner' = Append(owner, NextOf(h)) /\ frame[h].todo # {} /\ frame[h].pc \in Queueing
    BY <1>1 DEF IndInv, FrameInv, Follows, Queueing, QueueCommand
  <2>2. NextOf(h) \in frame[h].todo /\ NextOf(h) \in Targets /\ \A u \in frame[h].todo : NextOf(h) <= u
    BY <2>1, NextIs DEF IndInv
  <2>3. /\ Commands' = Commands \union {Len(owner) + 1} /\ owner'[Len(owner) + 1] = NextOf(h)
        /\ \A c \in Commands : owner'[c] = owner[c]
    BY <2>1, <2>2, Appended DEF IndInv
  <2>4. ASSUME NEW t \in Targets, t < NextOf(h) PROVE Serves(t)
    <3>1. t \in frame[h].todo \/ Serves(t)
      BY <2>1, <2>2, <2>4 DEF IndInv, FrameInv, Follows
    <3>2. t \notin frame[h].todo
      <4>1. t \in Nat /\ NextOf(h) \in Nat
        BY <2>2 DEF Targets
      <4>2. QED
        BY <2>2, <2>4, <4>1
    <3>3. QED
      BY <3>1, <3>2
  <2>5. ASSUME NEW c \in Commands', NEW t \in Targets, t < owner'[c] PROVE Serves(t)
    BY <2>3, <2>4, <2>5 DEF IndInv, InOrdinalOrder, Serves
  <2>6. \A t \in Targets : Serves(t) => Serves(t)'
    BY History, Monotone
  <2>7. QED
    BY <2>5, <2>6 DEF InOrdinalOrder, Serves, Targets
<1>2. CASE UNCHANGED owner
  BY <1>2 DEF IndInv, InOrdinalOrder, Commands, Targets
<1>3. QED
  BY <1>1, <1>2 DEF Next, Statement, Post, CreateRollout, SelectRollout, PickBatch, LinkTarget,
     LookupRollout, MarkTarget, SumTargets, EndRollout, GoOn, StatementFails, GiveUp, CompleteCommand,
     Crash, table, agents, budget

(***************************************************************************)
(* The parts about a rollout whose handlers have not overlapped.           *)
(***************************************************************************)

\* A step of h, and what it is when no other handler is at work.
Moves(h) ==
  \/ CreateRollout(h) \/ Statement(h) \/ StatementFails(h) \/ GiveUp(h)
  \/ \E c \in 1..Len(owner) : CompleteCommand(h, c)
Only(h) ==
  /\ Others(h) /\ ~ overlapped
  /\ \A g \in Handlers : g # h => frame[g].pc = "idle" /\ frame'[g].pc = "idle"

\* Every step is a handler's or a stop of the server.
LEMMA Movers == Next => Crash \/ \E h \in Handlers : Moves(h)
BY DEF Next, Moves, Post

\* As long as no handlers overlap, the one that takes a step is the only one.
LEMMA OnlyOne ==
  ASSUME IndInv, NEW h \in Handlers, Moves(h), ~ overlapped'
  PROVE  Only(h)
<1>1. Others(h)
  <2>1. CASE \E c \in 1..Len(owner) : CompleteCommand(h, c)
    BY <2>1, PostMoves DEF IndInv, Posts
  <2>2. CASE CreateRollout(h) \/ Statement(h) \/ StatementFails(h) \/ GiveUp(h)
    BY <2>2, StepMoves DEF IndInv, Statement, Goes, Ends, Picks, Queues, Links, Sums, GoesOn, Leaves
  <2>3. QED
    BY <2>1, <2>2 DEF Moves
<1>2. ~ overlapped /\ \A g \in Handlers : g # h => frame[g].pc = "idle"
  <2>1. CASE CreateRollout(h)
    BY <2>1 DEF IndInv, StartInv, CreateRollout
  <2>2. CASE \E c \in 1..Len(owner) : CompleteCommand(h, c)
    BY <2>2 DEF CompleteCommand, Alone
  <2>3. CASE Statement(h) \/ StatementFails(h) \/ GiveUp(h)
    <3>1. ~ overlapped
      BY <2>3 DEF Statement, SelectRollout, PickBatch, QueueCommand, LinkTarget, LookupRollout, MarkTarget,
         SumTargets, EndRollout, GoOn, StatementFails, GiveUp
    <3>2. frame[h].pc # "idle"
      BY <2>3 DEF Statement, SelectRollout, PickBatch, QueueCommand, LinkTarget, LookupRollout, MarkTarget,
         SumTargets, EndRollout, GoOn, StatementFails, GiveUp, IndInv, FrameInv, Knows
    <3>3. QED
      BY <3>1, <3>2 DEF IndInv, AloneInv
  <2>4. QED
    BY <2>1, <2>2, <2>3 DEF Moves
<1>3. QED
  BY <1>1, <1>2 DEF Only, Others

\* The handlers do not get to be two without overlapping.
LEMMA AloneStep ==
  ASSUME IndInv, Next
  PROVE  AloneInv'
<1>1. ASSUME NEW h \in Handlers, Moves(h) PROVE AloneInv'
  BY <1>1, OnlyOne DEF AloneInv, Only
<1>2. CASE Crash
  BY <1>2, IdleIs DEF Crash, AloneInv
<1>3. QED
  BY <1>1, <1>2, Movers

\* Rows that no step touches are counted as before.
LEMMA RowsSame ==
  ASSUME UNCHANGED target
  PROVE  /\ \A x : HowMany(x)' = HowMany(x) /\ InState(x)' = InState(x)
         /\ Pending' = Pending /\ Now' = Now /\ (UNCHANGED counts => (Current' <=> Current))
<1>1. ASSUME NEW x PROVE HowMany(x)' = HowMany(x) /\ InState(x)' = InState(x)
  BY DEF HowMany, InState, Targets
<1>2. Pending' = Pending
  BY DEF Pending, Targets
<1>3. Now' = Now
  BY <1>1 DEF Now
<1>4. UNCHANGED counts => (Current' <=> Current)
  BY <1>1 DEF Current
<1>5. QED
  BY <1>1, <1>2, <1>3, <1>4

\* How many there are in a state is how large a set of targets is.
LEMMA Many ==
  /\ \A x : HowMany(x) = Cardinality(InState(x)) /\ InState(x) \in SUBSET Targets /\ HowMany(x) \in 0..N
  /\ Pending = InState("PENDING")
<1>1. ASSUME NEW x PROVE HowMany(x) = Cardinality(InState(x)) /\ InState(x) \in SUBSET Targets
  BY DEF HowMany, InState
<1>2. ASSUME NEW x PROVE HowMany(x) \in 0..N
  BY <1>1, TargetsFinite
<1>3. QED
  BY <1>1, <1>2 DEF Pending, InState

\* The UPDATE of the row of a pending target.
LEMMA LinkMoves ==
  ASSUME IndInv, ~ overlapped, NEW h \in Handlers, LinkTarget(h)
  PROVE  /\ NextOf(h) \in frame[h].todo /\ NextOf(h) \in Pending /\ frame[h].todo \subseteq Pending
         /\ target' = [target EXCEPT ![NextOf(h)] = "ACTIVE"]
         /\ Pending' = Pending \ {NextOf(h)}
         /\ InState("ACTIVE")' = InState("ACTIVE") \union {NextOf(h)}
         /\ \A x \in Ended : HowMany(x)' = HowMany(x)
<1>1. NextOf(h) \in frame[h].todo /\ NextOf(h) \in Targets
  BY NextIs DEF IndInv, FrameInv, Follows, Queueing, LinkTarget
<1>2. frame[h].todo \subseteq Pending
  BY DEF IndInv, BatchInv, BatchAt, Queueing, LinkTarget
<1>3. target' = [target EXCEPT ![NextOf(h)] = "ACTIVE"]
  BY DEF LinkTarget
<1>4. /\ target[NextOf(h)] = "PENDING" /\ target'[NextOf(h)] = "ACTIVE"
      /\ \A t \in Targets : t # NextOf(h) => target'[t] = target[t]
  BY <1>1, <1>2, <1>3 DEF Pending, IndInv, TypeOK
<1>5. Pending' = Pending \ {NextOf(h)}
  BY <1>1, <1>4 DEF Pending, Targets
<1>6. InState("ACTIVE")' = InState("ACTIVE") \union {NextOf(h)}
  BY <1>1, <1>4 DEF InState, Targets
<1>7. ASSUME NEW x \in Ended PROVE HowMany(x)' = HowMany(x)
  <2>1. {t \in Targets : target'[t] = x} = {t \in Targets : target[t] = x}
    BY <1>4 DEF Ended
  <2>2. QED
    BY <2>1 DEF HowMany, Targets
<1>8. QED
  BY <1>1, <1>2, <1>3, <1>5, <1>6, <1>7

\* The UPDATE of the rows of a result: none begins to be at work, and a target
\* that had ended has ended as before.
LEMMA MarkMoves ==
  ASSUME IndInv, NEW h \in Handlers, MarkTarget(h)
  PROVE  /\ Pending' \subseteq Pending /\ InState("ACTIVE")' \subseteq InState("ACTIVE")
         /\ \A t \in Targets : target[t] \in Ended => target'[t] = target[t]
<1>1. frame[h].out \in Ended /\ frame[h].cmd # 0 /\ outcome[frame[h].cmd] = frame[h].out
  BY FrameTyped DEF IndInv, FrameInv, Knows, Advancing, MarkTarget
<1>2. \A t \in Targets : target'[t] = IF link[t] = frame[h].cmd THEN frame[h].out ELSE target[t]
  BY DEF MarkTarget, Linked
<1>3. \A t \in Targets : target[t] \in Ended => outcome[link[t]] = target[t]
  BY DEF IndInv, LinkInv
<1>4. Pending' \subseteq Pending /\ InState("ACTIVE")' \subseteq InState("ACTIVE")
  BY <1>1, <1>2 DEF Pending, InState, Targets, Ended
<1>5. QED
  BY <1>1, <1>2, <1>3, <1>4

\* The step of the only handler keeps the batch if that of its own fits.
LEMMA BatchOf ==
  ASSUME NEW h \in Handlers, ~ overlapped' => Only(h) /\ HowMany("ACTIVE")' <= batch' /\ BatchAt(h)'
  PROVE  BatchInv'
<1>1. ASSUME ~ overlapped', NEW g \in Handlers, g # h PROVE BatchAt(g)'
  <2>1. frame'[g].pc = "idle"
    BY <1>1 DEF Only
  <2>2. QED
    BY <2>1 DEF BatchAt, Queueing
<1>2. QED
  BY <1>1 DEF BatchInv

\* A set of bounded numbers that is not empty has a greatest one.
LEMMA Greatest ==
  ASSUME NEW S \in SUBSET (0..N), S # {}
  PROVE  \E x \in S : \A y \in S : y <= x
<1> DEFINE T == {n \in Nat : \A y \in S : y <= n}
<1>1. T \in SUBSET Nat /\ N \in T
  BY RolloutAssumption
<1>2. PICK m \in T : \A n \in T : m <= n
  <2> HIDE DEF T
  <2>1. QED
    BY <1>1, Least
<1>3. m \in Nat /\ \A y \in S : y <= m
  BY <1>2
<1>4. m \in S
  <2>1. SUFFICES ASSUME m \notin S PROVE FALSE
    OBVIOUS
  <2>2. \A y \in S : y \in Nat /\ y < m
    BY <1>3, <2>1, RolloutAssumption
  <2>3. m # 0 /\ m - 1 \in Nat
    <3>1. PICK y \in S : TRUE
      OBVIOUS
    <3>2. y \in Nat /\ y < m
      BY <2>2, <3>1
    <3>3. QED
      BY <1>3, <3>2
  <2>4. \A y \in S : y <= m - 1
    BY <1>3, <2>2
  <2>5. m - 1 \in T
    BY <2>3, <2>4
  <2>6. QED
    BY <1>2, <1>3, <2>5
<1>5. QED
  BY <1>3, <1>4

\* The first n of the pending targets are at most n.
LEMMA FirstFits ==
  ASSUME TypeOK
  PROVE  Cardinality(FirstPending(batch)) <= batch
<1> DEFINE B == FirstPending(batch)
<1>1. B \subseteq Pending /\ B \in SUBSET Targets /\ Pending \in SUBSET Targets /\ batch \in Nat
  BY RolloutAssumption DEF FirstPending, Pending, TypeOK
<1>2. Cardinality(B) \in Nat
  BY <1>1, TargetsFinite, RolloutAssumption
<1>3. CASE B = {}
  BY <1>1, <1>3, FS_EmptySet
<1>4. CASE B # {}
  <2>1. PICK m \in B : \A u \in B : u <= m
    <3>1. B \in SUBSET (0..N)
      BY <1>1 DEF Targets
    <3> HIDE DEF B
    <3>2. QED
      BY <1>4, <3>1, Greatest
  <2>2. B \ {m} \subseteq {u \in Pending : u < m}
    <3>1. ASSUME NEW u \in B, u # m PROVE u < m
      <4>1. u \in Nat /\ m \in Nat /\ u <= m
        BY <1>1, <2>1 DEF Targets
      <4>2. QED
        BY <3>1, <4>1
    <3>2. QED
      BY <1>1, <3>1
  <2>3. {u \in Pending : u < m} \in SUBSET Targets /\ B \ {m} \in SUBSET Targets
    BY <1>1
  <2>4. Cardinality({u \in Pending : u < m}) < batch
    BY DEF FirstPending
  <2>5. Cardinality(B \ {m}) <= Cardinality({u \in Pending : u < m})
    BY <2>2, <2>3, Fewer
  <2>6. Cardinality(B \ {m}) = Cardinality(B) - 1
    BY <1>1, Fewer
  <2>7. Cardinality({u \in Pending : u < m}) \in Nat /\ Cardinality(B \ {m}) \in Nat
    BY <2>3, TargetsFinite, RolloutAssumption
  <2>8. QED
    BY <1>1, <1>2, <2>4, <2>5, <2>6, <2>7
<1>5. QED
  BY <1>3, <1>4

\* No more than a batch is at work.
LEMMA BatchStep ==
  ASSUME IndInv, Next
  PROVE  BatchInv'
<1>1. ASSUME NEW h \in Handlers, CreateRollout(h) PROVE BatchInv'
  <2>1. SUFFICES ASSUME ~ overlapped' PROVE Only(h) /\ HowMany("ACTIVE")' <= batch' /\ BatchAt(h)'
    BY BatchOf
  <2>2. Only(h) /\ HowMany("ACTIVE") <= batch /\ BatchAt(h)
    BY <1>1, <2>1, OnlyOne DEF Moves, Statement, Only, IndInv, BatchInv
  <2>3. target' = target /\ batch' \in Nat /\ batch' # 0 /\ Goes(h, "batch")
    BY <1>1, StepMoves, RolloutAssumption DEF IndInv, CreateRollout
  <2>4. InState("ACTIVE")' = {}
    BY <1>1, <2>3 DEF IndInv, StartInv, CreateRollout, InState, Targets
  <2>5. HowMany("ACTIVE")' = Cardinality(InState("ACTIVE")')
    BY DEF HowMany, InState
  <2>6. HowMany("ACTIVE")' <= batch'
    BY <2>3, <2>4, <2>5, FS_EmptySet
  <2>7. BatchAt(h)'
    BY <2>3, <2>4 DEF BatchAt, Queueing, Goes
  <2>8. QED
    BY <2>2, <2>6, <2>7
<1>2. ASSUME NEW h \in Handlers, SelectRollout(h) PROVE BatchInv'
  <2>1. SUFFICES ASSUME ~ overlapped' PROVE Only(h) /\ HowMany("ACTIVE")' <= batch' /\ BatchAt(h)'
    BY BatchOf
  <2>2. Only(h) /\ HowMany("ACTIVE") <= batch /\ BatchAt(h)
    BY <1>2, <2>1, OnlyOne DEF Moves, Statement, Only, IndInv, BatchInv
  <2>3. UNCHANGED <<target, batch>>
    BY <1>2 DEF SelectRollout, table
  <2>4. HowMany("ACTIVE")' <= batch' /\ \A x : InState(x)' = InState(x)
    BY <2>2, <2>3, RowsSame
  <2>5. BatchAt(h)'
    BY <1>2, <2>2, <2>4, StepMoves, IdleIs DEF IndInv, SelectRollout, BatchAt, Queueing, Goes, Ends
  <2>6. QED
    BY <2>2, <2>4, <2>5
<1>3. ASSUME NEW h \in Handlers, PickBatch(h) PROVE BatchInv'
  <2>1. SUFFICES ASSUME ~ overlapped' PROVE Only(h) /\ HowMany("ACTIVE")' <= batch' /\ BatchAt(h)'
    BY BatchOf
  <2>2. Only(h) /\ HowMany("ACTIVE") <= batch /\ BatchAt(h)
    BY <1>3, <2>1, OnlyOne DEF Moves, Statement, Only, IndInv, BatchInv
  <2>3. UNCHANGED <<target, batch>>
    BY <1>3 DEF PickBatch, table
  <2>4. HowMany("ACTIVE")' <= batch' /\ \A x : InState(x)' = InState(x)
    BY <2>2, <2>3, RowsSame
  <2>5. CASE Ends(h)
    BY <2>2, <2>4, <2>5, IdleIs DEF Ends, BatchAt, Queueing
  <2>6. CASE Picks(h)
    <3>1. frame'[h].pc = "queue" /\ frame'[h].todo = FirstPending(batch)
      BY <2>6 DEF Picks
    <3>2. FirstPending(batch) \subseteq Pending /\ Pending' = Pending
      BY <2>3, RowsSame DEF FirstPending
    <3>3. HowMany("ACTIVE") = 0
      BY <1>3, <2>2, Many, FS_EmptySet DEF BatchAt, PickBatch
    <3>4. Cardinality(FirstPending(batch)) <= batch
      BY FirstFits DEF IndInv
    <3>5. Cardinality(FirstPending(batch)) \in Nat
      BY TargetsFinite, Written, RolloutAssumption DEF IndInv
    <3>6. HowMany("ACTIVE")' + Cardinality(frame'[h].todo) <= batch'
      BY <2>3, <3>1, <3>3, <3>4, <3>5, RowsSame
    <3>7. BatchAt(h)'
      BY <3>1, <3>2, <3>6 DEF BatchAt
    <3>8. QED
      BY <2>2, <2>4, <3>7
  <2>7. QED
    BY <1>3, <2>5, <2>6, StepMoves DEF IndInv
<1>4. ASSUME NEW h \in Handlers, QueueCommand(h) PROVE BatchInv'
  <2>1. SUFFICES ASSUME ~ overlapped' PROVE Only(h) /\ HowMany("ACTIVE")' <= batch' /\ BatchAt(h)'
    BY BatchOf
  <2>2. Only(h) /\ HowMany("ACTIVE") <= batch /\ BatchAt(h)
    BY <1>4, <2>1, OnlyOne DEF Moves, Statement, Only, IndInv, BatchInv
  <2>3. UNCHANGED <<target, batch>>
    BY <1>4 DEF QueueCommand, table
  <2>4. HowMany("ACTIVE")' <= batch' /\ \A x : InState(x)' = InState(x)
    BY <2>2, <2>3, RowsSame
  <2>5. frame'[h].pc = "link" /\ frame'[h].todo = frame[h].todo /\ frame[h].pc \in Queueing /\ Pending' = Pending
    BY <1>4, <2>3, StepMoves, RowsSame DEF IndInv, Queues, QueueCommand, Queueing
  <2>6. HowMany("ACTIVE")' = HowMany("ACTIVE")
    BY <2>3, RowsSame
  <2>7. BatchAt(h)'
    BY <2>2, <2>3, <2>5, <2>6 DEF BatchAt
  <2>8. QED
    BY <2>2, <2>4, <2>7
<1>5. ASSUME NEW h \in Handlers, LinkTarget(h) PROVE BatchInv'
  <2>1. SUFFICES ASSUME ~ overlapped' PROVE Only(h) /\ HowMany("ACTIVE")' <= batch' /\ BatchAt(h)'
    BY BatchOf
  <2>2. Only(h) /\ HowMany("ACTIVE") <= batch /\ BatchAt(h)
    BY <1>5, <2>1, OnlyOne DEF Moves, Statement, Only, IndInv, BatchInv
  <2>3. batch' = batch /\ batch \in Nat
    BY <1>5, RolloutAssumption DEF LinkTarget, table, IndInv, TypeOK
  <2>4. /\ NextOf(h) \in frame[h].todo /\ NextOf(h) \in Pending /\ frame[h].todo \subseteq Pending
        /\ Pending' = Pending \ {NextOf(h)} /\ InState("ACTIVE")' = InState("ACTIVE") \union {NextOf(h)}
    BY <1>5, <2>2, LinkMoves DEF Only
  <2>5. HowMany("ACTIVE") + Cardinality(frame[h].todo) <= batch
    BY <1>5, <2>2 DEF BatchAt, Queueing, LinkTarget
  <2>6. HowMany("ACTIVE")' <= HowMany("ACTIVE") + 1
    <3>1. HowMany("ACTIVE")' = Cardinality(InState("ACTIVE")')
      BY DEF HowMany, InState
    <3>2. NextOf(h) \in Targets
      BY <2>4 DEF Pending
    <3>3. QED
      BY <2>4, <3>1, <3>2, Many, Fewer
  <2>7. Cardinality(frame[h].todo \ {NextOf(h)}) = Cardinality(frame[h].todo) - 1
    BY <2>4, FrameTyped, Fewer DEF IndInv
  <2>8. Cardinality(frame[h].todo) \in Nat /\ Cardinality(frame[h].todo \ {NextOf(h)}) \in Nat
    <3>1. frame[h].todo \in SUBSET Targets /\ frame[h].todo \ {NextOf(h)} \in SUBSET Targets
      BY FrameTyped DEF IndInv
    <3>2. QED
      BY <3>1, TargetsFinite, RolloutAssumption
  <2>9. HowMany("ACTIVE") \in Nat /\ HowMany("ACTIVE")' \in Nat
    <3>1. HowMany("ACTIVE")' = Cardinality({t \in Targets : target'[t] = "ACTIVE"})
      BY DEF HowMany, Targets
    <3>2. QED
      BY <3>1, Many, TargetsFinite, RolloutAssumption
  <2>10. /\ HowMany("ACTIVE")' <= batch'
         /\ HowMany("ACTIVE")' + Cardinality(frame[h].todo \ {NextOf(h)}) <= batch'
    BY <2>3, <2>5, <2>6, <2>7, <2>8, <2>9
  <2>11. CASE Ends(h)
    BY <2>2, <2>10, <2>11, IdleIs DEF Ends, BatchAt, Queueing
  <2>12. CASE Links(h)
    <3>1. frame'[h].pc = "queue" /\ frame'[h].todo = frame[h].todo \ {NextOf(h)}
      BY <2>12 DEF Links
    <3>2. BatchAt(h)'
      BY <2>4, <2>10, <3>1 DEF BatchAt
    <3>3. QED
      BY <2>2, <2>10, <3>2
  <2>13. QED
    BY <1>5, <2>11, <2>12, StepMoves DEF IndInv
<1>6. ASSUME NEW h \in Handlers, LookupRollout(h) PROVE BatchInv'
  <2>1. SUFFICES ASSUME ~ overlapped' PROVE Only(h) /\ HowMany("ACTIVE")' <= batch' /\ BatchAt(h)'
    BY BatchOf
  <2>2. Only(h) /\ HowMany("ACTIVE") <= batch /\ BatchAt(h)
    BY <1>6, <2>1, OnlyOne DEF Moves, Statement, Only, IndInv, BatchInv
  <2>3. UNCHANGED <<target, batch>>
    BY <1>6 DEF LookupRollout, table
  <2>4. HowMany("ACTIVE")' <= batch' /\ \A x : InState(x)' = InState(x)
    BY <2>2, <2>3, RowsSame
  <2>5. BatchAt(h)'
    BY <1>6, <2>2, <2>4, StepMoves, IdleIs DEF IndInv, LookupRollout, BatchAt, Queueing, Goes, Ends
  <2>6. QED
    BY <2>2, <2>4, <2>5
<1>7. ASSUME NEW h \in Handlers, MarkTarget(h) PROVE BatchInv'
  <2>1. SUFFICES ASSUME ~ overlapped' PROVE Only(h) /\ HowMany("ACTIVE")' <= batch' /\ BatchAt(h)'
    BY BatchOf
  <2>2. Only(h) /\ HowMany("ACTIVE") <= batch /\ BatchAt(h)
    BY <1>7, <2>1, OnlyOne DEF Moves, Statement, Only, IndInv, BatchInv
  <2>3. batch' = batch /\ batch \in Nat
    BY <1>7, RolloutAssumption DEF MarkTarget, table, IndInv, TypeOK
  <2>4. HowMany("ACTIVE")' <= HowMany("ACTIVE") /\ HowMany("ACTIVE")' \in Nat /\ HowMany("ACTIVE") \in Nat
    <3>1. HowMany("ACTIVE")' = Cardinality(InState("ACTIVE")')
      BY DEF HowMany, InState
    <3>2. InState("ACTIVE")' \subseteq InState("ACTIVE")
      BY <1>7, MarkMoves
    <3>3. InState("ACTIVE") \in SUBSET Targets /\ InState("ACTIVE")' \in SUBSET Targets
      BY <3>2, Many
    <3>4. QED
      BY <3>1, <3>2, <3>3, Many, Fewer, TargetsFinite, RolloutAssumption
  <2>5. BatchAt(h)'
    BY <1>7, StepMoves DEF IndInv, Goes, BatchAt, Queueing
  <2>6. QED
    BY <2>2, <2>3, <2>4, <2>5
<1>8. ASSUME NEW h \in Handlers, SumTargets(h) PROVE BatchInv'
  <2>1. SUFFICES ASSUME ~ overlapped' PROVE Only(h) /\ HowMany("ACTIVE")' <= batch' /\ BatchAt(h)'
    BY BatchOf
  <2>2. Only(h) /\ HowMany("ACTIVE") <= batch /\ BatchAt(h)
    BY <1>8, <2>1, OnlyOne DEF Moves, Statement, Only, IndInv, BatchInv
  <2>3. UNCHANGED <<target, batch>>
    BY <1>8 DEF SumTargets, table
  <2>4. HowMany("ACTIVE")' <= batch' /\ \A x : InState(x)' = InState(x)
    BY <2>2, <2>3, RowsSame
  <2>5. frame'[h].pc = "settle" /\ frame'[h].seen = Now /\ Now' = Now
    BY <1>8, <2>3, StepMoves, RowsSame DEF IndInv, Sums
  <2>6. BatchAt(h)'
    BY <2>5 DEF BatchAt, Queueing
  <2>7. QED
    BY <2>2, <2>4, <2>6
<1>9. ASSUME NEW h \in Handlers, EndRollout(h) PROVE BatchInv'
  <2>1. SUFFICES ASSUME ~ overlapped' PROVE Only(h) /\ HowMany("ACTIVE")' <= batch' /\ BatchAt(h)'
    BY BatchOf
  <2>2. Only(h) /\ HowMany("ACTIVE") <= batch /\ BatchAt(h)
    BY <1>9, <2>1, OnlyOne DEF Moves, Statement, Only, IndInv, BatchInv
  <2>3. UNCHANGED <<target, batch>>
    BY <1>9 DEF EndRollout, table
  <2>4. HowMany("ACTIVE")' <= batch' /\ \A x : InState(x)' = InState(x)
    BY <2>2, <2>3, RowsSame
  <2>5. BatchAt(h)'
    BY <1>9, <2>2, <2>4, StepMoves, IdleIs DEF IndInv, EndRollout, BatchAt, Queueing, Ends
  <2>6. QED
    BY <2>2, <2>4, <2>5
<1>10. ASSUME NEW h \in Handlers, GoOn(h) PROVE BatchInv'
  <2>1. SUFFICES ASSUME ~ overlapped' PROVE Only(h) /\ HowMany("ACTIVE")' <= batch' /\ BatchAt(h)'
    BY BatchOf
  <2>2. Only(h) /\ HowMany("ACTIVE") <= batch /\ BatchAt(h)
    BY <1>10, <2>1, OnlyOne DEF Moves, Statement, Only, IndInv, BatchInv
  <2>3. UNCHANGED <<target, batch>>
    BY <1>10 DEF GoOn, table
  <2>4. HowMany("ACTIVE")' <= batch' /\ \A x : InState(x)' = InState(x)
    BY <2>2, <2>3, RowsSame
  <2>5. CASE Ends(h)
    BY <2>2, <2>4, <2>5, IdleIs DEF Ends, BatchAt, Queueing
  <2>6. CASE frame[h].seen.active = 0 /\ GoesOn(h)
    <3>1. frame[h].seen = Now
      BY <1>10, <2>2 DEF BatchAt, GoOn
    <3>2. HowMany("ACTIVE") = 0
      BY <2>6, <3>1 DEF Now
    <3>3. InState("ACTIVE") = {}
      BY <3>2, Many, Fewer
    <3>4. BatchAt(h)'
      BY <2>4, <2>6, <3>3 DEF GoesOn, BatchAt, Queueing
    <3>5. QED
      BY <2>2, <2>4, <3>4
  <2>7. QED
    BY <1>10, <2>5, <2>6, StepMoves DEF IndInv
<1>11. ASSUME NEW h \in Handlers, StatementFails(h) PROVE BatchInv'
  <2>1. SUFFICES ASSUME ~ overlapped' PROVE Only(h) /\ HowMany("ACTIVE")' <= batch' /\ BatchAt(h)'
    BY BatchOf
  <2>2. Only(h) /\ HowMany("ACTIVE") <= batch /\ BatchAt(h)
    BY <1>11, <2>1, OnlyOne DEF Moves, Statement, Only, IndInv, BatchInv
  <2>3. UNCHANGED <<target, batch>>
    BY <1>11 DEF StatementFails, table
  <2>4. HowMany("ACTIVE")' <= batch' /\ \A x : InState(x)' = InState(x)
    BY <2>2, <2>3, RowsSame
  <2>5. BatchAt(h)'
    BY <1>11, <2>2, <2>4, StepMoves, IdleIs DEF IndInv, StatementFails, BatchAt, Queueing, Ends
  <2>6. QED
    BY <2>2, <2>4, <2>5
<1>12. ASSUME NEW h \in Handlers, GiveUp(h) PROVE BatchInv'
  <2>1. SUFFICES ASSUME ~ overlapped' PROVE Only(h) /\ HowMany("ACTIVE")' <= batch' /\ BatchAt(h)'
    BY BatchOf
  <2>2. Only(h) /\ HowMany("ACTIVE") <= batch /\ BatchAt(h)
    BY <1>12, <2>1, OnlyOne DEF Moves, Statement, Only, IndInv, BatchInv
  <2>3. UNCHANGED <<target, batch>>
    BY <1>12 DEF GiveUp, table
  <2>4. HowMany("ACTIVE")' <= batch' /\ \A x : InState(x)' = InState(x)
    BY <2>2, <2>3, RowsSame
  <2>5. frame'[h].pc = frame[h].pc /\ frame'[h].todo = frame[h].todo /\ frame'[h].seen = frame[h].seen
    BY <1>12, StepMoves DEF IndInv, Leaves, SameJob
  <2>6. BatchAt(h)'
    BY <2>2, <2>3, <2>4, <2>5, RowsSame DEF BatchAt
  <2>7. QED
    BY <2>2, <2>4, <2>6
<1>13. ASSUME NEW h \in Handlers, NEW c \in 1..Len(owner), CompleteCommand(h, c) PROVE BatchInv'
  <2>1. SUFFICES ASSUME ~ overlapped' PROVE Only(h) /\ HowMany("ACTIVE")' <= batch' /\ BatchAt(h)'
    BY BatchOf
  <2>2. Only(h) /\ HowMany("ACTIVE") <= batch /\ BatchAt(h)
    BY <1>13, <2>1, OnlyOne DEF Moves, Statement, Only, IndInv, BatchInv
  <2>3. UNCHANGED <<target, batch>>
    BY <1>13 DEF CompleteCommand, table
  <2>4. HowMany("ACTIVE")' <= batch' /\ \A x : InState(x)' = InState(x)
    BY <2>2, <2>3, RowsSame
  <2>5. BatchAt(h)'
    BY <1>13, PostMoves DEF IndInv, Posts, BatchAt, Queueing
  <2>6. QED
    BY <2>2, <2>4, <2>5
<1>14. CASE Crash
  <2>1. UNCHANGED <<target, batch, overlapped>> /\ \A g \in Handlers : frame'[g].pc = "idle"
    BY <1>14, IdleIs DEF Crash, table
  <2>2. \A g \in Handlers : BatchAt(g)'
    BY <2>1 DEF BatchAt, Queueing
  <2>3. HowMany("ACTIVE")' = HowMany("ACTIVE")
    BY <2>1, RowsSame
  <2>4. QED
    BY <2>1, <2>2, <2>3 DEF IndInv, BatchInv
<1>15. QED
  BY <1>1, <1>2, <1>3, <1>4, <1>5, <1>6, <1>7, <1>8, <1>9, <1>10, <1>11, <1>12, <1>13, <1>14 DEF Next,
     Statement, Post

\* A target that is pending has no command unless the handler is about to say so.
LEMMA NoneYet ==
  ASSUME IndInv, NEW h \in Handlers, Only(h), crashes = 0, faults = 0, frame[h].pc # "link"
  PROVE  /\ \A t \in Pending : ~ Serves(t)
         /\ \A c, d \in Commands : owner[c] = owner[d] => c = d
<1>1. \A g \in Handlers : frame[g].pc # "link"
  BY DEF Only
<1>2. QED
  BY <1>1 DEF IndInv, OnceInv, Only

\* Nothing is asked for twice as long as no command is added and no row is pending again.
LEMMA OnceKept ==
  ASSUME (\A t \in Pending : ~ Serves(t)) /\ (\A c, d \in Commands : owner[c] = owner[d] => c = d),
         Pending' \subseteq Pending, UNCHANGED owner
  PROVE  OnceInv'
BY DEF OnceInv, Serves, Commands

\* No target is given a second command.
LEMMA OnceStep ==
  ASSUME IndInv, Next
  PROVE  OnceInv'
<1>1. ASSUME NEW h \in Handlers, CreateRollout(h) PROVE OnceInv'
  <2>1. SUFFICES ASSUME ~ overlapped', crashes' = 0, faults' = 0 PROVE OnceInv'
    BY DEF OnceInv
  <2>2. Only(h) /\ crashes = 0 /\ faults = 0
    BY <1>1, <2>1, OnlyOne DEF Moves, Statement, IndInv, TypeOK, CreateRollout, budget
  <2>3. UNCHANGED <<target, owner>> /\ frame[h].pc # "link"
    BY <1>1 DEF CreateRollout, agents
  <2>4. QED
    BY <2>2, <2>3, NoneYet, OnceKept, RowsSame
<1>2. ASSUME NEW h \in Handlers, SelectRollout(h) PROVE OnceInv'
  <2>1. SUFFICES ASSUME ~ overlapped', crashes' = 0, faults' = 0 PROVE OnceInv'
    BY DEF OnceInv
  <2>2. Only(h) /\ crashes = 0 /\ faults = 0
    BY <1>2, <2>1, OnlyOne DEF Moves, Statement, IndInv, TypeOK, SelectRollout, budget
  <2>3. UNCHANGED <<target, owner>> /\ frame[h].pc # "link"
    BY <1>2 DEF SelectRollout, agents
  <2>4. QED
    BY <2>2, <2>3, NoneYet, OnceKept, RowsSame
<1>3. ASSUME NEW h \in Handlers, PickBatch(h) PROVE OnceInv'
  <2>1. SUFFICES ASSUME ~ overlapped', crashes' = 0, faults' = 0 PROVE OnceInv'
    BY DEF OnceInv
  <2>2. Only(h) /\ crashes = 0 /\ faults = 0
    BY <1>3, <2>1, OnlyOne DEF Moves, Statement, IndInv, TypeOK, PickBatch, budget
  <2>3. UNCHANGED <<target, owner>> /\ frame[h].pc # "link"
    BY <1>3 DEF PickBatch, agents
  <2>4. QED
    BY <2>2, <2>3, NoneYet, OnceKept, RowsSame
<1>4. ASSUME NEW h \in Handlers, QueueCommand(h) PROVE OnceInv'
  <2>1. SUFFICES ASSUME ~ overlapped', crashes' = 0, faults' = 0 PROVE OnceInv'
    BY DEF OnceInv
  <2>2. Only(h) /\ crashes = 0 /\ faults = 0
    BY <1>4, <2>1, OnlyOne DEF Moves, Statement, IndInv, TypeOK, QueueCommand, budget
  <2>3. owner' = Append(owner, NextOf(h)) /\ UNCHANGED target /\ frame[h].pc = "queue"
    BY <1>4 DEF QueueCommand
  <2>4. NextOf(h) \in Pending /\ NextOf(h) \in Targets
    BY <2>2, <2>3, NextIs DEF IndInv, FrameInv, Follows, Queueing, BatchInv, BatchAt, Only
  <2>5. (\A t \in Pending : ~ Serves(t)) /\ \A c, d \in Commands : owner[c] = owner[d] => c = d
    BY <2>2, <2>3, NoneYet
  <2>6. /\ Commands' = Commands \union {Len(owner) + 1} /\ owner'[Len(owner) + 1] = NextOf(h)
        /\ \A c \in Commands : owner'[c] = owner[c] /\ owner[c] # NextOf(h)
    BY <2>3, <2>4, <2>5, Appended DEF IndInv, Serves
  <2>7. \A c, d \in Commands' : owner'[c] = owner'[d] => c = d
    BY <2>5, <2>6
  <2>8. frame'[h].pc = "link" /\ NextOf(h)' = NextOf(h) /\ Pending' = Pending
    BY <1>4, <2>3, StepMoves, RowsSame DEF IndInv, Queues, NextOf
  <2>9. ASSUME NEW t \in Pending', Serves(t)' PROVE t = NextOf(h)'
    <3>1. PICK d \in Commands' : owner'[d] = t
      BY <2>9 DEF Serves
    <3>2. d \notin Commands
      BY <2>5, <2>6, <2>8, <3>1 DEF Serves
    <3>3. QED
      BY <2>6, <2>8, <3>1, <3>2
  <2>10. QED
    BY <2>7, <2>8, <2>9 DEF OnceInv
<1>5. ASSUME NEW h \in Handlers, LinkTarget(h) PROVE OnceInv'
  <2>1. SUFFICES ASSUME ~ overlapped', crashes' = 0, faults' = 0 PROVE OnceInv'
    BY DEF OnceInv
  <2>2. Only(h) /\ crashes = 0 /\ faults = 0
    BY <1>5, <2>1, OnlyOne DEF Moves, Statement, IndInv, TypeOK, LinkTarget, budget
  <2>3. UNCHANGED owner /\ Pending' = Pending \ {NextOf(h)}
    BY <1>5, <2>2, LinkMoves DEF LinkTarget, Only
  <2>4. \A t \in Pending : Serves(t) => t = NextOf(h)
    BY <2>2 DEF IndInv, OnceInv, Only
  <2>5. \A c, d \in Commands : owner[c] = owner[d] => c = d
    BY <2>2 DEF IndInv, OnceInv, Only
  <2>6. QED
    BY <2>3, <2>4, <2>5 DEF OnceInv, Serves, Commands
<1>6. ASSUME NEW h \in Handlers, LookupRollout(h) PROVE OnceInv'
  <2>1. SUFFICES ASSUME ~ overlapped', crashes' = 0, faults' = 0 PROVE OnceInv'
    BY DEF OnceInv
  <2>2. Only(h) /\ crashes = 0 /\ faults = 0
    BY <1>6, <2>1, OnlyOne DEF Moves, Statement, IndInv, TypeOK, LookupRollout, budget
  <2>3. UNCHANGED <<target, owner>> /\ frame[h].pc # "link"
    BY <1>6 DEF LookupRollout, agents
  <2>4. QED
    BY <2>2, <2>3, NoneYet, OnceKept, RowsSame
<1>7. ASSUME NEW h \in Handlers, MarkTarget(h) PROVE OnceInv'
  <2>1. SUFFICES ASSUME ~ overlapped', crashes' = 0, faults' = 0 PROVE OnceInv'
    BY DEF OnceInv
  <2>2. Only(h) /\ crashes = 0 /\ faults = 0
    BY <1>7, <2>1, OnlyOne DEF Moves, Statement, IndInv, TypeOK, MarkTarget, budget
  <2>3. UNCHANGED owner /\ frame[h].pc # "link" /\ Pending' \subseteq Pending
    BY <1>7, MarkMoves DEF MarkTarget, agents
  <2>4. QED
    BY <2>2, <2>3, NoneYet, OnceKept
<1>8. ASSUME NEW h \in Handlers, SumTargets(h) PROVE OnceInv'
  <2>1. SUFFICES ASSUME ~ overlapped', crashes' = 0, faults' = 0 PROVE OnceInv'
    BY DEF OnceInv
  <2>2. Only(h) /\ crashes = 0 /\ faults = 0
    BY <1>8, <2>1, OnlyOne DEF Moves, Statement, IndInv, TypeOK, SumTargets, budget
  <2>3. UNCHANGED <<target, owner>> /\ frame[h].pc # "link"
    BY <1>8 DEF SumTargets, agents
  <2>4. QED
    BY <2>2, <2>3, NoneYet, OnceKept, RowsSame
<1>9. ASSUME NEW h \in Handlers, EndRollout(h) PROVE OnceInv'
  <2>1. SUFFICES ASSUME ~ overlapped', crashes' = 0, faults' = 0 PROVE OnceInv'
    BY DEF OnceInv
  <2>2. Only(h) /\ crashes = 0 /\ faults = 0
    BY <1>9, <2>1, OnlyOne DEF Moves, Statement, IndInv, TypeOK, EndRollout, budget
  <2>3. UNCHANGED <<target, owner>> /\ frame[h].pc # "link"
    BY <1>9 DEF EndRollout, agents
  <2>4. QED
    BY <2>2, <2>3, NoneYet, OnceKept, RowsSame
<1>10. ASSUME NEW h \in Handlers, GoOn(h) PROVE OnceInv'
  <2>1. SUFFICES ASSUME ~ overlapped', crashes' = 0, faults' = 0 PROVE OnceInv'
    BY DEF OnceInv
  <2>2. Only(h) /\ crashes = 0 /\ faults = 0
    BY <1>10, <2>1, OnlyOne DEF Moves, Statement, IndInv, TypeOK, GoOn, budget
  <2>3. UNCHANGED <<target, owner>> /\ frame[h].pc # "link"
    BY <1>10 DEF GoOn, agents
  <2>4. QED
    BY <2>2, <2>3, NoneYet, OnceKept, RowsSame
<1>11. ASSUME NEW h \in Handlers, StatementFails(h) PROVE OnceInv'
  BY <1>11 DEF StatementFails, OnceInv, IndInv, TypeOK
<1>12. ASSUME NEW h \in Handlers, GiveUp(h) PROVE OnceInv'
  <2>1. SUFFICES ASSUME ~ overlapped', crashes' = 0, faults' = 0 PROVE OnceInv'
    BY DEF OnceInv
  <2>2. Only(h) /\ crashes = 0 /\ faults = 0
    BY <1>12, <2>1, OnlyOne DEF Moves, Statement, IndInv, TypeOK, GiveUp, budget
  <2>3. UNCHANGED <<target, owner>> /\ Pending' = Pending /\ Commands' = Commands
    BY <1>12, RowsSame DEF GiveUp, agents, Commands
  <2>4. \A g \in Handlers : frame'[g].pc = frame[g].pc /\ NextOf(g)' = NextOf(g)
    BY <1>12, <2>2, StepMoves DEF IndInv, Leaves, SameJob, Others, NextOf
  <2>5. /\ \A c, d \in Commands : owner[c] = owner[d] => c = d
        /\ \A t \in Pending : Serves(t) => \E g \in Handlers : frame[g].pc = "link" /\ t = NextOf(g)
    BY <2>2 DEF IndInv, OnceInv, Only
  <2>6. QED
    BY <2>3, <2>4, <2>5 DEF OnceInv, Serves
<1>13. ASSUME NEW h \in Handlers, NEW c \in 1..Len(owner), CompleteCommand(h, c) PROVE OnceInv'
  <2>1. SUFFICES ASSUME ~ overlapped', crashes' = 0, faults' = 0 PROVE OnceInv'
    BY DEF OnceInv
  <2>2. Only(h) /\ crashes = 0 /\ faults = 0
    BY <1>13, <2>1, OnlyOne DEF Moves, Statement, IndInv, TypeOK, CompleteCommand, budget
  <2>3. UNCHANGED <<target, owner>> /\ frame[h].pc # "link"
    BY <1>13 DEF CompleteCommand
  <2>4. QED
    BY <2>2, <2>3, NoneYet, OnceKept, RowsSame
<1>14. CASE Crash
  BY <1>14 DEF Crash, OnceInv, IndInv, TypeOK
<1>15. QED
  BY <1>1, <1>2, <1>3, <1>4, <1>5, <1>6, <1>7, <1>8, <1>9, <1>10, <1>11, <1>12, <1>13, <1>14 DEF Next,
     Statement, Post

\* The step of the only handler keeps the counts due if its own are.
LEMMA CountOf ==
  ASSUME NEW h \in Handlers,
         ~ overlapped' => /\ Only(h) /\ CountAt(h)'
                          /\ faults' = 0 => Current' \/ \E c \in Commands' : Due(c)'
  PROVE  CountInv'
<1>1. ASSUME ~ overlapped', NEW g \in Handlers, g # h PROVE CountAt(g)'
  <2>1. frame'[g].pc = "idle"
    BY <1>1 DEF Only
  <2>2. QED
    BY <2>1 DEF CountAt, Queueing, Advancing
<1>2. QED
  BY <1>1 DEF CountInv

\* What is due stays so until it is acknowledged, if the rows point to it as before.
LEMMA DueStays ==
  ASSUME IndInv, Grows, UNCHANGED link, NEW c \in Commands, Due(c), c \notin acked'
  PROVE  c \in Commands' /\ Due(c)'
BY DEF Due, Grows, Linked, Targets

\* Counts that are not right are some result's to correct.
LEMMA CountStep ==
  ASSUME IndInv, Next
  PROVE  CountInv'
<1>1. ASSUME NEW h \in Handlers, CreateRollout(h) PROVE CountInv'
  <2>1. SUFFICES ASSUME ~ overlapped'
                PROVE  /\ Only(h) /\ CountAt(h)'
                       /\ faults' = 0 => Current' \/ \E c \in Commands' : Due(c)'
    BY CountOf
  <2>2. Only(h) /\ CountAt(h) /\ (faults = 0 => Current \/ \E c \in Commands : Due(c))
    BY <1>1, <2>1, OnlyOne DEF Moves, Statement, Only, IndInv, CountInv
  <2>3. Grows
    BY History
  <2>4. frame'[h].pc = "batch" /\ UNCHANGED <<target, counts>>
    BY <1>1, StepMoves DEF IndInv, Goes, CreateRollout
  <2>5. Current
    <3>1. InState("COMPLETED") = {} /\ InState("FAILED") = {}
      BY <1>1 DEF IndInv, StartInv, CreateRollout, InState
    <3>2. HowMany("COMPLETED") = 0 /\ HowMany("FAILED") = 0
      BY <3>1, Many, FS_EmptySet
    <3>3. counts = [done |-> 0, failed |-> 0]
      BY <1>1 DEF IndInv, StartInv, CreateRollout
    <3>4. QED
      BY <3>2, <3>3 DEF Current
  <2>6. Current'
    BY <2>4, <2>5, RowsSame
  <2>7. QED
    BY <2>2, <2>4, <2>6 DEF CountAt, Advancing
<1>2. ASSUME NEW h \in Handlers, SelectRollout(h) PROVE CountInv'
  <2>1. SUFFICES ASSUME ~ overlapped'
                PROVE  /\ Only(h) /\ CountAt(h)'
                       /\ faults' = 0 => Current' \/ \E c \in Commands' : Due(c)'
    BY CountOf
  <2>2. Only(h) /\ CountAt(h) /\ (faults = 0 => Current \/ \E c \in Commands : Due(c))
    BY <1>2, <2>1, OnlyOne DEF Moves, Statement, Only, IndInv, CountInv
  <2>3. Grows
    BY History
  <2>4. UNCHANGED <<target, counts, faults>> /\ frame[h].pc \in {"batch", "pick"} \union Queueing
    BY <1>2 DEF SelectRollout, table, budget, Queueing
  <2>5. faults' = 0 => Current'
    BY <2>2, <2>4, RowsSame DEF CountAt
  <2>6. frame'[h].pc \in {"idle", "batch", "pick"} \union Queueing
    BY <1>2, StepMoves, IdleIs DEF IndInv, Goes, Ends, Queueing
  <2>7. CountAt(h)'
    BY <2>5, <2>6 DEF CountAt, Advancing, Queueing
  <2>8. QED
    BY <2>2, <2>5, <2>7
<1>3. ASSUME NEW h \in Handlers, PickBatch(h) PROVE CountInv'
  <2>1. SUFFICES ASSUME ~ overlapped'
                PROVE  /\ Only(h) /\ CountAt(h)'
                       /\ faults' = 0 => Current' \/ \E c \in Commands' : Due(c)'
    BY CountOf
  <2>2. Only(h) /\ CountAt(h) /\ (faults = 0 => Current \/ \E c \in Commands : Due(c))
    BY <1>3, <2>1, OnlyOne DEF Moves, Statement, Only, IndInv, CountInv
  <2>3. Grows
    BY History
  <2>4. UNCHANGED <<target, counts, faults>> /\ frame[h].pc \in {"batch", "pick"} \union Queueing
    BY <1>3 DEF PickBatch, table, budget, Queueing
  <2>5. faults' = 0 => Current'
    BY <2>2, <2>4, RowsSame DEF CountAt
  <2>6. frame'[h].pc \in {"idle", "batch", "pick"} \union Queueing
    BY <1>3, StepMoves, IdleIs DEF IndInv, Picks, Ends, Queueing
  <2>7. CountAt(h)'
    BY <2>5, <2>6 DEF CountAt, Advancing, Queueing
  <2>8. QED
    BY <2>2, <2>5, <2>7
<1>4. ASSUME NEW h \in Handlers, QueueCommand(h) PROVE CountInv'
  <2>1. SUFFICES ASSUME ~ overlapped'
                PROVE  /\ Only(h) /\ CountAt(h)'
                       /\ faults' = 0 => Current' \/ \E c \in Commands' : Due(c)'
    BY CountOf
  <2>2. Only(h) /\ CountAt(h) /\ (faults = 0 => Current \/ \E c \in Commands : Due(c))
    BY <1>4, <2>1, OnlyOne DEF Moves, Statement, Only, IndInv, CountInv
  <2>3. Grows
    BY History
  <2>4. UNCHANGED <<target, counts, faults>> /\ frame[h].pc \in {"batch", "pick"} \union Queueing
    BY <1>4 DEF QueueCommand, table, budget, Queueing
  <2>5. faults' = 0 => Current'
    BY <2>2, <2>4, RowsSame DEF CountAt
  <2>6. frame'[h].pc \in {"idle", "batch", "pick"} \union Queueing
    BY <1>4, StepMoves, IdleIs DEF IndInv, Queues, Queueing
  <2>7. CountAt(h)'
    BY <2>5, <2>6 DEF CountAt, Advancing, Queueing
  <2>8. QED
    BY <2>2, <2>5, <2>7
<1>5. ASSUME NEW h \in Handlers, LinkTarget(h) PROVE CountInv'
  <2>1. SUFFICES ASSUME ~ overlapped'
                PROVE  /\ Only(h) /\ CountAt(h)'
                       /\ faults' = 0 => Current' \/ \E c \in Commands' : Due(c)'
    BY CountOf
  <2>2. Only(h) /\ CountAt(h) /\ (faults = 0 => Current \/ \E c \in Commands : Due(c))
    BY <1>5, <2>1, OnlyOne DEF Moves, Statement, Only, IndInv, CountInv
  <2>3. Grows
    BY History
  <2>4. UNCHANGED <<counts, faults>> /\ frame[h].pc \in Queueing
    BY <1>5 DEF LinkTarget, table, budget, Queueing
  <2>5. HowMany("COMPLETED")' = HowMany("COMPLETED") /\ HowMany("FAILED")' = HowMany("FAILED")
    BY <1>5, <2>2, LinkMoves DEF Only, Ended
  <2>6. faults' = 0 => Current'
    BY <2>2, <2>4, <2>5 DEF CountAt, Current
  <2>7. frame'[h].pc \in {"idle", "queue"}
    BY <1>5, StepMoves, IdleIs DEF IndInv, Links, Ends
  <2>8. CountAt(h)'
    BY <2>6, <2>7 DEF CountAt, Advancing, Queueing
  <2>9. QED
    BY <2>2, <2>6, <2>8
<1>6. ASSUME NEW h \in Handlers, LookupRollout(h) PROVE CountInv'
  <2>1. SUFFICES ASSUME ~ overlapped'
                PROVE  /\ Only(h) /\ CountAt(h)'
                       /\ faults' = 0 => Current' \/ \E c \in Commands' : Due(c)'
    BY CountOf
  <2>2. Only(h) /\ CountAt(h) /\ (faults = 0 => Current \/ \E c \in Commands : Due(c))
    BY <1>6, <2>1, OnlyOne DEF Moves, Statement, Only, IndInv, CountInv
  <2>3. Grows
    BY History
  <2>4. UNCHANGED <<target, counts, faults, link>> /\ frame[h].pc = "lookup"
    BY <1>6 DEF LookupRollout, table, budget
  <2>5. Current' <=> Current
    BY <2>4, RowsSame
  <2>6. CASE Linked(frame[h].cmd) = {} /\ Ends(h)
    <3>1. \A c \in Commands : Due(c) => c \notin acked'
      BY <2>6 DEF Due, Ends
    <3>2. CountAt(h)'
      BY <2>6, IdleIs DEF Ends, CountAt, Advancing, Queueing
    <3>3. QED
      BY <2>2, <2>3, <2>4, <2>5, <3>1, <3>2, DueStays
  <2>7. CASE Linked(frame[h].cmd) # {} /\ Goes(h, "mark") /\ acked' = acked
    <3>1. frame[h].cmd \notin acked /\ frame'[h].cmd = frame[h].cmd /\ frame'[h].pc = "mark"
      BY <2>2, <2>4, <2>7 DEF CountAt, Advancing, Goes, SameCmd
    <3>2. CountAt(h)'
      BY <2>4, <2>7, <3>1 DEF CountAt, Queueing, Linked, Targets
    <3>3. \A c \in Commands : Due(c) => c \notin acked'
      BY <2>7 DEF Due
    <3>4. QED
      BY <2>2, <2>3, <2>4, <2>5, <3>2, <3>3, DueStays
  <2>8. QED
    BY <1>6, <2>6, <2>7, StepMoves DEF IndInv
<1>7. ASSUME NEW h \in Handlers, MarkTarget(h) PROVE CountInv'
  <2>1. SUFFICES ASSUME ~ overlapped'
                PROVE  /\ Only(h) /\ CountAt(h)'
                       /\ faults' = 0 => Current' \/ \E c \in Commands' : Due(c)'
    BY CountOf
  <2>2. Only(h) /\ CountAt(h) /\ (faults = 0 => Current \/ \E c \in Commands : Due(c))
    BY <1>7, <2>1, OnlyOne DEF Moves, Statement, Only, IndInv, CountInv
  <2>3. Grows
    BY History
  <2>4. UNCHANGED <<link, outcome, owner, acked>> /\ frame[h].pc = "mark"
    BY <1>7 DEF MarkTarget, agents
  <2>5. frame'[h].pc = "sum" /\ frame'[h].cmd = frame[h].cmd
    BY <1>7, StepMoves DEF IndInv, Goes, SameCmd
  <2>6. frame[h].cmd \notin acked /\ Linked(frame[h].cmd) # {}
    BY <2>2, <2>4 DEF CountAt, Advancing
  <2>7. frame[h].cmd \in Commands /\ outcome[frame[h].cmd] \in Ended
    BY <2>4, FrameTyped DEF IndInv, FrameInv, Knows, Advancing, TypeOK
  <2>8. CountAt(h)'
    BY <2>4, <2>5, <2>6 DEF CountAt, Queueing, Linked, Targets
  <2>9. Due(frame[h].cmd)
    BY <2>6, <2>7 DEF Due, Ended
  <2>10. QED
    BY <2>2, <2>3, <2>4, <2>6, <2>7, <2>8, <2>9, DueStays
<1>8. ASSUME NEW h \in Handlers, SumTargets(h) PROVE CountInv'
  <2>1. SUFFICES ASSUME ~ overlapped'
                PROVE  /\ Only(h) /\ CountAt(h)'
                       /\ faults' = 0 => Current' \/ \E c \in Commands' : Due(c)'
    BY CountOf
  <2>2. Only(h) /\ CountAt(h) /\ (faults = 0 => Current \/ \E c \in Commands : Due(c))
    BY <1>8, <2>1, OnlyOne DEF Moves, Statement, Only, IndInv, CountInv
  <2>3. Grows
    BY History
  <2>4. UNCHANGED <<target, counts, faults, link, acked>> /\ frame[h].pc = "sum"
    BY <1>8 DEF SumTargets, agents, table, budget
  <2>5. frame'[h].pc = "settle" /\ frame'[h].cmd = frame[h].cmd
    BY <1>8, StepMoves DEF IndInv, Sums, SameCmd
  <2>6. CountAt(h)'
    BY <2>2, <2>4, <2>5 DEF CountAt, Queueing, Advancing, Linked, Targets
  <2>7. \A c \in Commands : Due(c) => c \notin acked'
    BY <2>4 DEF Due
  <2>8. Current' <=> Current
    BY <2>4, RowsSame
  <2>9. QED
    BY <2>2, <2>3, <2>4, <2>6, <2>7, <2>8, DueStays
<1>9. ASSUME NEW h \in Handlers, EndRollout(h) PROVE CountInv'
  <2>1. SUFFICES ASSUME ~ overlapped'
                PROVE  /\ Only(h) /\ CountAt(h)'
                       /\ faults' = 0 => Current' \/ \E c \in Commands' : Due(c)'
    BY CountOf
  <2>2. Only(h) /\ CountAt(h) /\ (faults = 0 => Current \/ \E c \in Commands : Due(c))
    BY <1>9, <2>1, OnlyOne DEF Moves, Statement, Only, IndInv, CountInv
  <2>3. Grows
    BY History
  <2>4. UNCHANGED target /\ counts' = Counted(frame[h].seen) /\ frame[h].pc = "settle" /\ Ends(h)
    BY <1>9, StepMoves DEF IndInv, EndRollout
  <2>5. frame[h].seen = Now
    BY <2>2, <2>4 DEF IndInv, BatchInv, BatchAt, Only
  <2>6. Current'
    BY <2>4, <2>5, RowsSame DEF Current, Counted, Now
  <2>7. CountAt(h)'
    BY <2>4, IdleIs DEF Ends, CountAt, Advancing, Queueing
  <2>8. QED
    BY <2>2, <2>6, <2>7
<1>10. ASSUME NEW h \in Handlers, GoOn(h) PROVE CountInv'
  <2>1. SUFFICES ASSUME ~ overlapped'
                PROVE  /\ Only(h) /\ CountAt(h)'
                       /\ faults' = 0 => Current' \/ \E c \in Commands' : Due(c)'
    BY CountOf
  <2>2. Only(h) /\ CountAt(h) /\ (faults = 0 => Current \/ \E c \in Commands : Due(c))
    BY <1>10, <2>1, OnlyOne DEF Moves, Statement, Only, IndInv, CountInv
  <2>3. Grows
    BY History
  <2>4. UNCHANGED target /\ frame[h].pc = "settle" /\ frame'[h].pc \in {"idle", "batch"}
    BY <1>10, StepMoves, IdleIs DEF IndInv, GoOn, Ends, GoesOn
  <2>5. frame[h].seen = Now
    BY <2>2, <2>4 DEF IndInv, BatchInv, BatchAt, Only
  <2>6. faults' = 0 => Current'
    <3>1. CASE counts' = Counted(frame[h].seen)
      BY <2>4, <2>5, <3>1, RowsSame DEF Current, Counted, Now
    <3>2. CASE faults' = faults + 1
      BY <3>2 DEF IndInv, TypeOK
    <3>3. QED
      BY <1>10, <3>1, <3>2 DEF GoOn
  <2>7. CountAt(h)'
    BY <2>4, <2>6 DEF CountAt, Advancing, Queueing
  <2>8. QED
    BY <2>2, <2>6, <2>7
<1>11. ASSUME NEW h \in Handlers, StatementFails(h) PROVE CountInv'
  <2>1. SUFFICES ASSUME ~ overlapped'
                PROVE  /\ Only(h) /\ CountAt(h)'
                       /\ faults' = 0 => Current' \/ \E c \in Commands' : Due(c)'
    BY CountOf
  <2>2. Only(h) /\ CountAt(h) /\ (faults = 0 => Current \/ \E c \in Commands : Due(c))
    BY <1>11, <2>1, OnlyOne DEF Moves, Statement, Only, IndInv, CountInv
  <2>3. Grows
    BY History
  <2>4. faults' # 0 /\ Ends(h)
    BY <1>11, StepMoves DEF IndInv, StatementFails, TypeOK
  <2>5. CountAt(h)'
    BY <2>4, IdleIs DEF Ends, CountAt, Advancing, Queueing
  <2>6. QED
    BY <2>2, <2>4, <2>5
<1>12. ASSUME NEW h \in Handlers, GiveUp(h) PROVE CountInv'
  <2>1. SUFFICES ASSUME ~ overlapped'
                PROVE  /\ Only(h) /\ CountAt(h)'
                       /\ faults' = 0 => Current' \/ \E c \in Commands' : Due(c)'
    BY CountOf
  <2>2. Only(h) /\ CountAt(h) /\ (faults = 0 => Current \/ \E c \in Commands : Due(c))
    BY <1>12, <2>1, OnlyOne DEF Moves, Statement, Only, IndInv, CountInv
  <2>3. Grows
    BY History
  <2>4. UNCHANGED <<target, counts, faults, link, acked>>
    BY <1>12 DEF GiveUp, agents, table
  <2>5. frame'[h].pc = frame[h].pc /\ frame'[h].cmd = frame[h].cmd
    BY <1>12, StepMoves DEF IndInv, Leaves
  <2>6. Current' <=> Current
    BY <2>4, RowsSame
  <2>7. CountAt(h)'
    BY <2>2, <2>4, <2>5, <2>6 DEF CountAt, Queueing, Advancing, Linked, Targets
  <2>8. \A c \in Commands : Due(c) => c \notin acked'
    BY <2>4 DEF Due
  <2>9. QED
    BY <2>2, <2>3, <2>4, <2>6, <2>7, <2>8, DueStays
<1>13. ASSUME NEW h \in Handlers, NEW c \in 1..Len(owner), CompleteCommand(h, c) PROVE CountInv'
  <2>1. SUFFICES ASSUME ~ overlapped'
                PROVE  /\ Only(h) /\ CountAt(h)'
                       /\ faults' = 0 => Current' \/ \E d \in Commands' : Due(d)'
    BY CountOf
  <2>2. Only(h) /\ CountAt(h) /\ (faults = 0 => Current \/ \E d \in Commands : Due(d))
    BY <1>13, <2>1, OnlyOne DEF Moves, Statement, Only, IndInv, CountInv
  <2>3. Grows
    BY History
  <2>4. UNCHANGED <<target, counts, faults, link, acked>>
    BY <1>13 DEF CompleteCommand, table, budget
  <2>5. frame'[h].pc = "lookup" /\ frame'[h].cmd = c /\ c \notin acked
    BY <1>13, PostMoves DEF IndInv, Posts
  <2>6. Current' <=> Current
    BY <2>4, RowsSame
  <2>7. CountAt(h)'
    BY <2>4, <2>5 DEF CountAt, Queueing, Advancing
  <2>8. \A d \in Commands : Due(d) => d \notin acked'
    BY <2>4 DEF Due
  <2>9. QED
    BY <2>2, <2>3, <2>4, <2>6, <2>7, <2>8, DueStays
<1>14. CASE Crash
  <2>1. UNCHANGED <<target, counts, faults, link, acked, overlapped>> /\ \A g \in Handlers : frame'[g].pc = "idle"
    BY <1>14, IdleIs DEF Crash, table, agents
  <2>2. \A g \in Handlers : CountAt(g)'
    BY <2>1 DEF CountAt, Queueing, Advancing
  <2>3. (Current' <=> Current) /\ Grows
    BY <2>1, RowsSame, History
  <2>4. \A d \in Commands : Due(d) => d \notin acked'
    BY <2>1 DEF Due
  <2>5. ~ overlapped /\ faults = 0 => Current' \/ \E d \in Commands' : Due(d)'
    BY <2>1, <2>3, <2>4, DueStays DEF IndInv, CountInv
  <2>6. QED
    BY <2>1, <2>2, <2>5 DEF CountInv
<1>15. QED
  BY <1>1, <1>2, <1>3, <1>4, <1>5, <1>6, <1>7, <1>8, <1>9, <1>10, <1>11, <1>12, <1>13, <1>14 DEF Next,
     Statement, Post

\* The end that a handler writes is the one that the rows show.
LEMMA EndIs ==
  ASSUME IndInv, ~ overlapped, NEW h \in Handlers, EndRollout(h)
  PROVE  /\ rollout' = Verdict(Now) /\ rollout' \in Ended
         /\ rollout' = "COMPLETED" => InState("ACTIVE") = {} /\ Pending = {} /\ HowMany("FAILED") <= maxFail
         /\ rollout' = "FAILED" => HowMany("FAILED") > maxFail
         /\ rollout \in Ended => rollout' = rollout
<1>1. rollout' = Verdict(Now) /\ rollout' \in Ended
  BY DEF IndInv, BatchInv, BatchAt, EndRollout
<1>2. HowMany("FAILED") \in Nat /\ maxFail \in Nat
  BY Many, RolloutAssumption DEF IndInv, TypeOK
<1>3. /\ Now.failed = HowMany("FAILED") /\ Now.active = HowMany("ACTIVE") /\ Now.pending = HowMany("PENDING")
      /\ HowMany("ACTIVE") = 0 <=> InState("ACTIVE") = {}
      /\ HowMany("PENDING") = 0 <=> Pending = {}
  BY Many, Fewer DEF Now
<1>4. rollout' = "FAILED" => HowMany("FAILED") > maxFail
  BY <1>1, <1>3 DEF Verdict
<1>5. rollout' = "COMPLETED" => InState("ACTIVE") = {} /\ Pending = {} /\ HowMany("FAILED") <= maxFail
  BY <1>1, <1>2, <1>3 DEF Verdict
<1>6. rollout = "COMPLETED" => rollout' = "COMPLETED"
  BY <1>1, <1>2, <1>3 DEF Verdict, IndInv, EndInv
<1>7. rollout = "FAILED" => rollout' = "FAILED"
  BY <1>1, <1>3 DEF Verdict, IndInv, EndInv
<1>8. QED
  BY <1>1, <1>4, <1>5, <1>6, <1>7 DEF Ended

\* The step of the only handler keeps the end true.
LEMMA EndOf ==
  ASSUME NEW h \in Handlers,
         ~ overlapped' =>
           /\ Only(h) /\ (frame'[h].pc \in {"pick"} \union Queueing => rollout' = "RUNNING")
           /\ rollout' = "COMPLETED" => InState("ACTIVE")' = {} /\ Pending' = {} /\ HowMany("FAILED")' <= maxFail'
           /\ rollout' = "FAILED" => HowMany("FAILED")' > maxFail'
  PROVE  EndInv'
<1>1. ASSUME ~ overlapped', NEW g \in Handlers, g # h, frame'[g].pc \in {"pick"} \union Queueing PROVE FALSE
  BY <1>1 DEF Only, Queueing
<1>2. QED
  BY <1>1 DEF EndInv, Queueing

\* The end of the rollout stays what the rows say.
LEMMA EndStep ==
  ASSUME IndInv, Next
  PROVE  EndInv'
<1>1. ASSUME NEW h \in Handlers, CreateRollout(h) PROVE EndInv'
  <2>1. SUFFICES ASSUME ~ overlapped'
                PROVE  /\ Only(h) /\ (frame'[h].pc \in {"pick"} \union Queueing => rollout' = "RUNNING")
                       /\ rollout' = "COMPLETED" =>
                            InState("ACTIVE")' = {} /\ Pending' = {} /\ HowMany("FAILED")' <= maxFail'
                       /\ rollout' = "FAILED" => HowMany("FAILED")' > maxFail'
    BY EndOf
  <2>2. Only(h) /\ ~ overlapped /\ (frame[h].pc \in {"pick"} \union Queueing => rollout = "RUNNING")
    BY <1>1, <2>1, OnlyOne DEF Moves, Statement, Only, IndInv, EndInv
  <2>3. /\ rollout = "COMPLETED" => InState("ACTIVE") = {} /\ Pending = {} /\ HowMany("FAILED") <= maxFail
        /\ rollout = "FAILED" => HowMany("FAILED") > maxFail
    BY <2>2 DEF IndInv, EndInv
  <2>4. QED
    BY <1>1, <2>2 DEF CreateRollout
<1>2. ASSUME NEW h \in Handlers, SelectRollout(h) PROVE EndInv'
  <2>1. SUFFICES ASSUME ~ overlapped'
                PROVE  /\ Only(h) /\ (frame'[h].pc \in {"pick"} \union Queueing => rollout' = "RUNNING")
                       /\ rollout' = "COMPLETED" =>
                            InState("ACTIVE")' = {} /\ Pending' = {} /\ HowMany("FAILED")' <= maxFail'
                       /\ rollout' = "FAILED" => HowMany("FAILED")' > maxFail'
    BY EndOf
  <2>2. Only(h) /\ ~ overlapped /\ (frame[h].pc \in {"pick"} \union Queueing => rollout = "RUNNING")
    BY <1>2, <2>1, OnlyOne DEF Moves, Statement, Only, IndInv, EndInv
  <2>3. /\ rollout = "COMPLETED" => InState("ACTIVE") = {} /\ Pending = {} /\ HowMany("FAILED") <= maxFail
        /\ rollout = "FAILED" => HowMany("FAILED") > maxFail
    BY <2>2 DEF IndInv, EndInv
  <2>4. UNCHANGED <<target, rollout, maxFail>>
    BY <1>2 DEF SelectRollout, table
  <2>5. frame'[h].pc \in {"pick"} \union Queueing => rollout = "RUNNING"
    BY <1>2, <2>2, StepMoves, IdleIs DEF IndInv, SelectRollout, Goes, Ends, Queueing
  <2>6. QED
    BY <2>2, <2>3, <2>4, <2>5, RowsSame
<1>3. ASSUME NEW h \in Handlers, PickBatch(h) PROVE EndInv'
  <2>1. SUFFICES ASSUME ~ overlapped'
                PROVE  /\ Only(h) /\ (frame'[h].pc \in {"pick"} \union Queueing => rollout' = "RUNNING")
                       /\ rollout' = "COMPLETED" =>
                            InState("ACTIVE")' = {} /\ Pending' = {} /\ HowMany("FAILED")' <= maxFail'
                       /\ rollout' = "FAILED" => HowMany("FAILED")' > maxFail'
    BY EndOf
  <2>2. Only(h) /\ ~ overlapped /\ (frame[h].pc \in {"pick"} \union Queueing => rollout = "RUNNING")
    BY <1>3, <2>1, OnlyOne DEF Moves, Statement, Only, IndInv, EndInv
  <2>3. /\ rollout = "COMPLETED" => InState("ACTIVE") = {} /\ Pending = {} /\ HowMany("FAILED") <= maxFail
        /\ rollout = "FAILED" => HowMany("FAILED") > maxFail
    BY <2>2 DEF IndInv, EndInv
  <2>4. UNCHANGED <<target, rollout, maxFail>>
    BY <1>3 DEF PickBatch, table
  <2>5. frame'[h].pc \in {"pick"} \union Queueing => rollout = "RUNNING"
    BY <1>3, <2>2, StepMoves, IdleIs DEF IndInv, PickBatch, Picks, Ends, Queueing
  <2>6. QED
    BY <2>2, <2>3, <2>4, <2>5, RowsSame
<1>4. ASSUME NEW h \in Handlers, QueueCommand(h) PROVE EndInv'
  <2>1. SUFFICES ASSUME ~ overlapped'
                PROVE  /\ Only(h) /\ (frame'[h].pc \in {"pick"} \union Queueing => rollout' = "RUNNING")
                       /\ rollout' = "COMPLETED" =>
                            InState("ACTIVE")' = {} /\ Pending' = {} /\ HowMany("FAILED")' <= maxFail'
                       /\ rollout' = "FAILED" => HowMany("FAILED")' > maxFail'
    BY EndOf
  <2>2. Only(h) /\ ~ overlapped /\ (frame[h].pc \in {"pick"} \union Queueing => rollout = "RUNNING")
    BY <1>4, <2>1, OnlyOne DEF Moves, Statement, Only, IndInv, EndInv
  <2>3. /\ rollout = "COMPLETED" => InState("ACTIVE") = {} /\ Pending = {} /\ HowMany("FAILED") <= maxFail
        /\ rollout = "FAILED" => HowMany("FAILED") > maxFail
    BY <2>2 DEF IndInv, EndInv
  <2>4. UNCHANGED <<target, rollout, maxFail>>
    BY <1>4 DEF QueueCommand, table
  <2>5. frame'[h].pc \in {"pick"} \union Queueing => rollout = "RUNNING"
    BY <1>4, <2>2, StepMoves, IdleIs DEF IndInv, QueueCommand, Queues, Queueing
  <2>6. QED
    BY <2>2, <2>3, <2>4, <2>5, RowsSame
<1>5. ASSUME NEW h \in Handlers, LinkTarget(h) PROVE EndInv'
  <2>1. SUFFICES ASSUME ~ overlapped'
                PROVE  /\ Only(h) /\ (frame'[h].pc \in {"pick"} \union Queueing => rollout' = "RUNNING")
                       /\ rollout' = "COMPLETED" =>
                            InState("ACTIVE")' = {} /\ Pending' = {} /\ HowMany("FAILED")' <= maxFail'
                       /\ rollout' = "FAILED" => HowMany("FAILED")' > maxFail'
    BY EndOf
  <2>2. Only(h) /\ ~ overlapped /\ (frame[h].pc \in {"pick"} \union Queueing => rollout = "RUNNING")
    BY <1>5, <2>1, OnlyOne DEF Moves, Statement, Only, IndInv, EndInv
  <2>3. /\ rollout = "COMPLETED" => InState("ACTIVE") = {} /\ Pending = {} /\ HowMany("FAILED") <= maxFail
        /\ rollout = "FAILED" => HowMany("FAILED") > maxFail
    BY <2>2 DEF IndInv, EndInv
  <2>4. rollout' = "RUNNING"
    BY <1>5, <2>2 DEF LinkTarget, table, Queueing
  <2>5. QED
    BY <2>2, <2>4
<1>6. ASSUME NEW h \in Handlers, LookupRollout(h) PROVE EndInv'
  <2>1. SUFFICES ASSUME ~ overlapped'
                PROVE  /\ Only(h) /\ (frame'[h].pc \in {"pick"} \union Queueing => rollout' = "RUNNING")
                       /\ rollout' = "COMPLETED" =>
                            InState("ACTIVE")' = {} /\ Pending' = {} /\ HowMany("FAILED")' <= maxFail'
                       /\ rollout' = "FAILED" => HowMany("FAILED")' > maxFail'
    BY EndOf
  <2>2. Only(h) /\ ~ overlapped /\ (frame[h].pc \in {"pick"} \union Queueing => rollout = "RUNNING")
    BY <1>6, <2>1, OnlyOne DEF Moves, Statement, Only, IndInv, EndInv
  <2>3. /\ rollout = "COMPLETED" => InState("ACTIVE") = {} /\ Pending = {} /\ HowMany("FAILED") <= maxFail
        /\ rollout = "FAILED" => HowMany("FAILED") > maxFail
    BY <2>2 DEF IndInv, EndInv
  <2>4. UNCHANGED <<target, rollout, maxFail>>
    BY <1>6 DEF LookupRollout, table
  <2>5. frame'[h].pc \in {"pick"} \union Queueing => rollout = "RUNNING"
    BY <1>6, <2>2, StepMoves, IdleIs DEF IndInv, LookupRollout, Goes, Ends, Queueing
  <2>6. QED
    BY <2>2, <2>3, <2>4, <2>5, RowsSame
<1>7. ASSUME NEW h \in Handlers, MarkTarget(h) PROVE EndInv'
  <2>1. SUFFICES ASSUME ~ overlapped'
                PROVE  /\ Only(h) /\ (frame'[h].pc \in {"pick"} \union Queueing => rollout' = "RUNNING")
                       /\ rollout' = "COMPLETED" =>
                            InState("ACTIVE")' = {} /\ Pending' = {} /\ HowMany("FAILED")' <= maxFail'
                       /\ rollout' = "FAILED" => HowMany("FAILED")' > maxFail'
    BY EndOf
  <2>2. Only(h) /\ ~ overlapped /\ (frame[h].pc \in {"pick"} \union Queueing => rollout = "RUNNING")
    BY <1>7, <2>1, OnlyOne DEF Moves, Statement, Only, IndInv, EndInv
  <2>3. /\ rollout = "COMPLETED" => InState("ACTIVE") = {} /\ Pending = {} /\ HowMany("FAILED") <= maxFail
        /\ rollout = "FAILED" => HowMany("FAILED") > maxFail
    BY <2>2 DEF IndInv, EndInv
  <2>4. UNCHANGED <<rollout, maxFail>> /\ frame'[h].pc = "sum"
    BY <1>7, StepMoves DEF IndInv, MarkTarget, table, Goes
  <2>5. /\ Pending' \subseteq Pending /\ InState("ACTIVE")' \subseteq InState("ACTIVE")
        /\ \A t \in Targets : target[t] \in Ended => target'[t] = target[t]
    BY <1>7, MarkMoves
  <2>6. InState("FAILED") \subseteq InState("FAILED")'
    BY <2>5 DEF InState, Ended, Targets
  <2>7. InState("FAILED") \in SUBSET Targets /\ InState("FAILED")' \in SUBSET Targets
    BY DEF InState, Targets
  <2>8. HowMany("FAILED") <= HowMany("FAILED")'
    <3>1. HowMany("FAILED")' = Cardinality(InState("FAILED")')
      BY DEF HowMany, InState
    <3>2. QED
      BY <2>6, <2>7, <3>1, Many, Fewer
  <2>9. HowMany("FAILED") \in Nat /\ HowMany("FAILED")' \in Nat /\ maxFail \in Nat
    <3>1. HowMany("FAILED")' = Cardinality(InState("FAILED")')
      BY DEF HowMany, InState
    <3>2. QED
      BY <2>7, <3>1, Many, TargetsFinite, RolloutAssumption DEF IndInv, TypeOK
  <2>10. rollout = "COMPLETED" => HowMany("FAILED")' = HowMany("FAILED")
    <3>1. ASSUME rollout = "COMPLETED" PROVE InState("FAILED")' = InState("FAILED")
      <4>1. \A t \in Targets : target[t] \in Ended
        BY <2>3, <3>1 DEF InState, Pending, IndInv, TypeOK
      <4>2. QED
        BY <2>5, <4>1 DEF InState, Targets
    <3>2. HowMany("FAILED")' = Cardinality(InState("FAILED")')
      BY DEF HowMany, InState
    <3>3. QED
      BY <3>1, <3>2, Many
  <2>11. rollout = "FAILED" => HowMany("FAILED")' > maxFail
    BY <2>3, <2>8, <2>9
  <2>12. QED
    BY <2>2, <2>3, <2>4, <2>5, <2>10, <2>11 DEF Queueing
<1>8. ASSUME NEW h \in Handlers, SumTargets(h) PROVE EndInv'
  <2>1. SUFFICES ASSUME ~ overlapped'
                PROVE  /\ Only(h) /\ (frame'[h].pc \in {"pick"} \union Queueing => rollout' = "RUNNING")
                       /\ rollout' = "COMPLETED" =>
                            InState("ACTIVE")' = {} /\ Pending' = {} /\ HowMany("FAILED")' <= maxFail'
                       /\ rollout' = "FAILED" => HowMany("FAILED")' > maxFail'
    BY EndOf
  <2>2. Only(h) /\ ~ overlapped /\ (frame[h].pc \in {"pick"} \union Queueing => rollout = "RUNNING")
    BY <1>8, <2>1, OnlyOne DEF Moves, Statement, Only, IndInv, EndInv
  <2>3. /\ rollout = "COMPLETED" => InState("ACTIVE") = {} /\ Pending = {} /\ HowMany("FAILED") <= maxFail
        /\ rollout = "FAILED" => HowMany("FAILED") > maxFail
    BY <2>2 DEF IndInv, EndInv
  <2>4. UNCHANGED <<target, rollout, maxFail>>
    BY <1>8 DEF SumTargets, table
  <2>5. frame'[h].pc \in {"pick"} \union Queueing => rollout = "RUNNING"
    BY <1>8, <2>2, StepMoves, IdleIs DEF IndInv, SumTargets, Sums, Queueing
  <2>6. QED
    BY <2>2, <2>3, <2>4, <2>5, RowsSame
<1>9. ASSUME NEW h \in Handlers, EndRollout(h) PROVE EndInv'
  <2>1. SUFFICES ASSUME ~ overlapped'
                PROVE  /\ Only(h) /\ (frame'[h].pc \in {"pick"} \union Queueing => rollout' = "RUNNING")
                       /\ rollout' = "COMPLETED" =>
                            InState("ACTIVE")' = {} /\ Pending' = {} /\ HowMany("FAILED")' <= maxFail'
                       /\ rollout' = "FAILED" => HowMany("FAILED")' > maxFail'
    BY EndOf
  <2>2. Only(h) /\ ~ overlapped /\ (frame[h].pc \in {"pick"} \union Queueing => rollout = "RUNNING")
    BY <1>9, <2>1, OnlyOne DEF Moves, Statement, Only, IndInv, EndInv
  <2>3. /\ rollout = "COMPLETED" => InState("ACTIVE") = {} /\ Pending = {} /\ HowMany("FAILED") <= maxFail
        /\ rollout = "FAILED" => HowMany("FAILED") > maxFail
    BY <2>2 DEF IndInv, EndInv
  <2>4. UNCHANGED <<target, maxFail>> /\ frame'[h].pc = "idle"
    BY <1>9, StepMoves, IdleIs DEF IndInv, EndRollout, Ends
  <2>5. QED
    BY <1>9, <2>2, <2>4, EndIs, RowsSame DEF Queueing
<1>10. ASSUME NEW h \in Handlers, GoOn(h) PROVE EndInv'
  <2>1. SUFFICES ASSUME ~ overlapped'
                PROVE  /\ Only(h) /\ (frame'[h].pc \in {"pick"} \union Queueing => rollout' = "RUNNING")
                       /\ rollout' = "COMPLETED" =>
                            InState("ACTIVE")' = {} /\ Pending' = {} /\ HowMany("FAILED")' <= maxFail'
                       /\ rollout' = "FAILED" => HowMany("FAILED")' > maxFail'
    BY EndOf
  <2>2. Only(h) /\ ~ overlapped /\ (frame[h].pc \in {"pick"} \union Queueing => rollout = "RUNNING")
    BY <1>10, <2>1, OnlyOne DEF Moves, Statement, Only, IndInv, EndInv
  <2>3. /\ rollout = "COMPLETED" => InState("ACTIVE") = {} /\ Pending = {} /\ HowMany("FAILED") <= maxFail
        /\ rollout = "FAILED" => HowMany("FAILED") > maxFail
    BY <2>2 DEF IndInv, EndInv
  <2>4. UNCHANGED <<target, rollout, maxFail>>
    BY <1>10 DEF GoOn, table
  <2>5. frame'[h].pc \in {"pick"} \union Queueing => rollout = "RUNNING"
    BY <1>10, <2>2, StepMoves, IdleIs DEF IndInv, GoOn, GoesOn, Ends, Queueing
  <2>6. QED
    BY <2>2, <2>3, <2>4, <2>5, RowsSame
<1>11. ASSUME NEW h \in Handlers, StatementFails(h) PROVE EndInv'
  <2>1. SUFFICES ASSUME ~ overlapped'
                PROVE  /\ Only(h) /\ (frame'[h].pc \in {"pick"} \union Queueing => rollout' = "RUNNING")
                       /\ rollout' = "COMPLETED" =>
                            InState("ACTIVE")' = {} /\ Pending' = {} /\ HowMany("FAILED")' <= maxFail'
                       /\ rollout' = "FAILED" => HowMany("FAILED")' > maxFail'
    BY EndOf
  <2>2. Only(h) /\ ~ overlapped /\ (frame[h].pc \in {"pick"} \union Queueing => rollout = "RUNNING")
    BY <1>11, <2>1, OnlyOne DEF Moves, Statement, Only, IndInv, EndInv
  <2>3. /\ rollout = "COMPLETED" => InState("ACTIVE") = {} /\ Pending = {} /\ HowMany("FAILED") <= maxFail
        /\ rollout = "FAILED" => HowMany("FAILED") > maxFail
    BY <2>2 DEF IndInv, EndInv
  <2>4. UNCHANGED <<target, rollout, maxFail>>
    BY <1>11 DEF StatementFails, table
  <2>5. frame'[h].pc \in {"pick"} \union Queueing => rollout = "RUNNING"
    BY <1>11, <2>2, StepMoves, IdleIs DEF IndInv, StatementFails, Ends, Queueing
  <2>6. QED
    BY <2>2, <2>3, <2>4, <2>5, RowsSame
<1>12. ASSUME NEW h \in Handlers, GiveUp(h) PROVE EndInv'
  <2>1. SUFFICES ASSUME ~ overlapped'
                PROVE  /\ Only(h) /\ (frame'[h].pc \in {"pick"} \union Queueing => rollout' = "RUNNING")
                       /\ rollout' = "COMPLETED" =>
                            InState("ACTIVE")' = {} /\ Pending' = {} /\ HowMany("FAILED")' <= maxFail'
                       /\ rollout' = "FAILED" => HowMany("FAILED")' > maxFail'
    BY EndOf
  <2>2. Only(h) /\ ~ overlapped /\ (frame[h].pc \in {"pick"} \union Queueing => rollout = "RUNNING")
    BY <1>12, <2>1, OnlyOne DEF Moves, Statement, Only, IndInv, EndInv
  <2>3. /\ rollout = "COMPLETED" => InState("ACTIVE") = {} /\ Pending = {} /\ HowMany("FAILED") <= maxFail
        /\ rollout = "FAILED" => HowMany("FAILED") > maxFail
    BY <2>2 DEF IndInv, EndInv
  <2>4. UNCHANGED <<target, rollout, maxFail>>
    BY <1>12 DEF GiveUp, table
  <2>5. frame'[h].pc \in {"pick"} \union Queueing => rollout = "RUNNING"
    BY <1>12, <2>2, StepMoves, IdleIs DEF IndInv, GiveUp, Leaves, Queueing
  <2>6. QED
    BY <2>2, <2>3, <2>4, <2>5, RowsSame
<1>13. ASSUME NEW h \in Handlers, NEW c \in 1..Len(owner), CompleteCommand(h, c) PROVE EndInv'
  <2>1. SUFFICES ASSUME ~ overlapped'
                PROVE  /\ Only(h) /\ (frame'[h].pc \in {"pick"} \union Queueing => rollout' = "RUNNING")
                       /\ rollout' = "COMPLETED" =>
                            InState("ACTIVE")' = {} /\ Pending' = {} /\ HowMany("FAILED")' <= maxFail'
                       /\ rollout' = "FAILED" => HowMany("FAILED")' > maxFail'
    BY EndOf
  <2>2. Only(h) /\ ~ overlapped /\ (frame[h].pc \in {"pick"} \union Queueing => rollout = "RUNNING")
    BY <1>13, <2>1, OnlyOne DEF Moves, Statement, Only, IndInv, EndInv
  <2>3. /\ rollout = "COMPLETED" => InState("ACTIVE") = {} /\ Pending = {} /\ HowMany("FAILED") <= maxFail
        /\ rollout = "FAILED" => HowMany("FAILED") > maxFail
    BY <2>2 DEF IndInv, EndInv
  <2>4. UNCHANGED <<target, rollout, maxFail>>
    BY <1>13 DEF CompleteCommand, table
  <2>5. frame'[h].pc \in {"pick"} \union Queueing => rollout = "RUNNING"
    BY <1>13, <2>2, PostMoves, IdleIs DEF IndInv, CompleteCommand, Posts, Queueing
  <2>6. QED
    BY <2>2, <2>3, <2>4, <2>5, RowsSame
<1>14. CASE Crash
  <2>1. UNCHANGED <<target, rollout, maxFail, overlapped>> /\ \A g \in Handlers : frame'[g].pc = "idle"
    BY <1>14, IdleIs DEF Crash, table
  <2>2. QED
    BY <2>1, RowsSame DEF IndInv, EndInv, Queueing
<1>15. QED
  BY <1>1, <1>2, <1>3, <1>4, <1>5, <1>6, <1>7, <1>8, <1>9, <1>10, <1>11, <1>12, <1>13, <1>14 DEF Next,
     Statement, Post

(***************************************************************************)
(* The theorems.                                                           *)
(***************************************************************************)

\* The invariant holds before the rollout is created.
LEMMA InitHolds == Init => IndInv
<1> SUFFICES ASSUME Init PROVE IndInv
  OBVIOUS
<1>1. /\ rollout = "ABSENT" /\ owner = <<>> /\ Commands = {} /\ counts = [done |-> 0, failed |-> 0]
      /\ \A t \in Targets : target[t] = "PENDING" /\ link[t] = 0
      /\ \A h \in Handlers : frame[h] = Idle
  BY DEF Init, Commands
<1>2. TypeOK
  <2>1. outcome \in [Commands -> {"none"} \union Ended] /\ owner \in Seq(Targets)
    BY DEF Init, Commands
  <2>2. frame \in [Handlers -> Frame]
    BY IdleIs DEF Init
  <2>3. /\ target \in [Targets -> {"PENDING", "ACTIVE"} \union Ended]
        /\ link \in [Targets -> {0} \union Commands]
    BY DEF Init
  <2>4. counts \in [done : 0..N, failed : 0..N] /\ batch \in 0..N
    BY RolloutAssumption DEF Init
  <2>5. \A h \in Handlers : /\ frame[h].cmd \in {0} \union Commands /\ frame[h].new \in {0} \union Commands
                            /\ frame[h].pc \in {"queue", "link"} => frame[h].todo # {}
    BY <1>1, IdleIs
  <2>6. acked \subseteq Commands /\ maxFail \in Nat /\ rollout \in {"ABSENT", "RUNNING"} \union Ended
    BY DEF Init
  <2>7. overlapped \in BOOLEAN /\ orphaned \in BOOLEAN
    BY DEF Init
  <2>8. crashes = 0 /\ faults = 0 /\ givenUp = 0 /\ 0 <= MaxTroubles
    BY RolloutAssumption DEF Init
  <2>9. QED
    BY <2>1, <2>2, <2>3, <2>4, <2>5, <2>6, <2>7, <2>8 DEF TypeOK
<1>3. InState("ACTIVE") = {} /\ InState("COMPLETED") = {} /\ InState("FAILED") = {}
  BY <1>1 DEF InState
<1>4. HowMany("ACTIVE") = 0 /\ HowMany("COMPLETED") = 0 /\ HowMany("FAILED") = 0
  BY <1>3, Many, FS_EmptySet
<1>5. LinkInv /\ FrameInv
  BY <1>1, IdleIs DEF LinkInv, FrameInv, Knows, Follows, Advancing, Queueing, Ended
<1>6. StartInv /\ SeenInv /\ AloneInv
  BY <1>1, IdleIs DEF StartInv, SeenInv, AloneInv
<1>7. VerdictIsHonest /\ InOrdinalOrder
  BY <1>1 DEF VerdictIsHonest, CompletionIsHonest, FailureIsHonest, InOrdinalOrder
<1>8. BatchInv
  BY <1>1, <1>4, IdleIs DEF Init, BatchInv, BatchAt, Queueing
<1>9. OnceInv
  BY <1>1 DEF OnceInv, Serves
<1>10. CountInv
  BY <1>1, <1>4, IdleIs DEF CountInv, CountAt, Current, Advancing, Queueing
<1>11. EndInv
  BY <1>1, IdleIs DEF EndInv, Queueing
<1>12. QED
  BY <1>2, <1>5, <1>6, <1>7, <1>8, <1>9, <1>10, <1>11 DEF IndInv

\* Every step keeps the invariant.
LEMMA NextHolds ==
  ASSUME IndInv, Next
  PROVE  IndInv'
<1>1. TypeOK' /\ LinkInv' /\ FrameInv' /\ StartInv' /\ SeenInv'
  BY TypeStep, LinkStep, FrameStep, StartStep, SeenStep
<1>2. VerdictIsHonest' /\ InOrdinalOrder' /\ AloneInv' /\ BatchInv'
  BY VerdictStep, OrderStep, AloneStep, BatchStep
<1>3. OnceInv' /\ CountInv' /\ EndInv'
  BY OnceStep, CountStep, EndStep
<1>4. QED
  BY <1>1, <1>2, <1>3 DEF IndInv

\* ... and so does a step that changes nothing.
LEMMA StutterHolds ==
  ASSUME IndInv, UNCHANGED vars
  PROVE  IndInv'
<1>1. /\ UNCHANGED <<rollout, batch, maxFail, counts, target, link, owner, outcome, acked, frame, overlapped>>
      /\ UNCHANGED <<orphaned, crashes, faults, givenUp>>
  BY DEF vars, table, agents, budget
<1>2. /\ \A x : HowMany(x)' = HowMany(x) /\ InState(x)' = InState(x)
      /\ Pending' = Pending /\ Now' = Now /\ (Current' <=> Current) /\ Targets' = Targets
  BY <1>1, RowsSame DEF Targets
<1>3. Commands' = Commands /\ \A h \in Handlers : NextOf(h)' = NextOf(h)
  BY <1>1 DEF Commands, NextOf
<1>4. \A t \in Targets : (Serves(t)' <=> Serves(t)) /\ \A o \in Ended : Gave(t, o)' <=> Gave(t, o)
  BY <1>1, <1>3 DEF Serves, Gave
<1>5. Broken' = Broken /\ Missed' = Missed /\ \A c \in Commands : Due(c)' <=> Due(c)
  BY <1>1, <1>4 DEF Broken, Missed, Due, Linked, Targets, Ended
<1>6. TypeOK' /\ LinkInv' /\ StartInv'
  BY <1>1, <1>3 DEF IndInv, TypeOK, LinkInv, StartInv, Targets
<1>7. FrameInv'
  BY <1>1, <1>3, <1>4, <1>2, FrameTyped DEF IndInv, FrameInv, Knows, Follows
<1>8. SeenInv'
  BY <1>1, <1>2, <1>4, <1>5 DEF IndInv, SeenInv, Ended
<1>9. VerdictIsHonest' /\ InOrdinalOrder' /\ AloneInv'
  <2>1. VerdictIsHonest'
    BY <1>1, <1>3 DEF IndInv, VerdictIsHonest, CompletionIsHonest, FailureIsHonest, Gave, Targets
  <2>2. InOrdinalOrder' /\ AloneInv'
    BY <1>1, <1>3 DEF IndInv, InOrdinalOrder, AloneInv, Targets
  <2>3. QED
    BY <2>1, <2>2
<1>10. BatchInv'
  BY <1>1, <1>2 DEF IndInv, BatchInv, BatchAt
<1>11. OnceInv'
  BY <1>1, <1>2, <1>3, <1>4 DEF IndInv, OnceInv, Pending
<1>12. CountInv'
  BY <1>1, <1>2, <1>3, <1>5 DEF IndInv, CountInv, CountAt, Linked
<1>13. EndInv'
  BY <1>1, <1>2 DEF IndInv, EndInv
<1>14. QED
  BY <1>6, <1>7, <1>8, <1>9, <1>10, <1>11, <1>12, <1>13 DEF IndInv

\* The inductive invariant holds in every state of every behaviour.
LEMMA Inductive == Spec => []IndInv
<1>1. IndInv /\ [Next]_vars => IndInv'
  BY NextHolds, StutterHolds
<1>2. QED
  BY InitHolds, <1>1, PTL DEF Spec

\* Every variable of the tables, the handlers and the agents keeps its type.
THEOREM Typed == Spec => []TypeOK
<1>1. IndInv => TypeOK
  BY DEF IndInv
<1>2. QED
  BY <1>1, Inductive, PTL

\* The end that fleet_rollouts shows is what happened on the agents, however
\* the handlers of results overlapped, failed and stopped: the sums that
\* advanceRollout decides by may be old, but what they say has happened.
THEOREM Honest == Spec => []VerdictIsHonest
<1>1. IndInv => VerdictIsHonest
  BY DEF IndInv
<1>2. QED
  BY <1>1, Inductive, PTL

\* queueRolloutBatch works through the group by ordinal whatever happens, in
\* batches as long as no handlers overlap, and once as long as nothing fails
\* between the INSERT of a command and the UPDATE of the target's row.
THEOREM Batches == Spec => []BatchesInOrder
<1>1. IndInv => BatchesInOrder
  <2>1. IndInv => WithinBatch
    BY DEF IndInv, BatchInv, WithinBatch
  <2>2. IndInv => OncePerTarget
    BY RolloutAssumption DEF IndInv, OnceInv, OncePerTarget, TypeOK
  <2>3. QED
    BY <2>1, <2>2 DEF IndInv, BatchesInOrder
<1>2. QED
  BY <1>1, Inductive, PTL

\* Once every result was accepted the counts of the rollout are right: a result
\* whose counts were lost is posted again and advanceRollout repairs them.
THEOREM CountsAreRight == Spec => []CountsSettle
<1>1. IndInv => CountsSettle
  <2>1. ASSUME IndInv, ~ overlapped, ~ (faults > 0) PROVE Current \/ \E c \in Commands : Due(c)
    BY <2>1 DEF IndInv, CountInv, TypeOK
  <2>2. QED
    BY <2>1 DEF CountsSettle, Current, Due
<1>2. QED
  BY <1>1, Inductive, PTL

\* A late or repeated result changes neither the end of a rollout nor starts a
\* command for it, as long as no handlers overlap.
THEOREM Final == Spec => EndIsFinal
<1>1. ASSUME IndInv, Next, ~ overlapped', rollout \in Ended PROVE rollout' = rollout /\ owner' = owner
  <2>1. ASSUME NEW h \in Handlers, EndRollout(h) PROVE rollout' = rollout /\ owner' = owner
    BY <1>1, <2>1, EndIs DEF EndRollout
  <2>2. ASSUME NEW h \in Handlers, QueueCommand(h) PROVE FALSE
    BY <1>1, <2>2 DEF IndInv, EndInv, Queueing, QueueCommand, Ended
  <2>3. ASSUME NEW h \in Handlers, CreateRollout(h) PROVE FALSE
    BY <1>1, <2>3 DEF CreateRollout, Ended
  <2>4. CASE UNCHANGED <<rollout, owner>>
    BY <2>4
  <2>5. QED
    BY <1>1, <2>1, <2>2, <2>3, <2>4 DEF Next, Statement, Post, SelectRollout, PickBatch, LinkTarget,
       LookupRollout, MarkTarget, SumTargets, GoOn, StatementFails, GiveUp, CompleteCommand, Crash, table, agents
<1>2. IndInv /\ [Next]_vars => [~overlapped' /\ rollout \in Ended => rollout' = rollout /\ owner' = owner]_vars
  BY <1>1
<1>3. QED
  BY <1>2, Inductive, PTL DEF Spec, EndIsFinal
===============================================================================
