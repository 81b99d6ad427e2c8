------------------------ MODULE UpstreamWorkerProofs ------------------------
(***************************************************************************)
(* Proofs about the relay thread and its capture worker, for any queue     *)
(* capacity, burst, drain limit and number of packets.                     *)
(***************************************************************************)
EXTENDS UpstreamWorker, TLAPS

(* The packet the worker holds has been counted, and the relay only takes a  *)
(* packet its budget allows.                                                 *)
Bounded ==
  /\ wpc = "reserved" => captured # 0
  /\ rpc = "taken" => drained < DrainLimit

QueueInv == TypeOK /\ DepthExact /\ Bounded

(* The two threads' steps, one by one. *)
LEMMA Steps ==
  ASSUME Next
  PROVE  \/ WorkerCommand \/ StartBurst \/ Capture \/ TrySend \/ DropNewest \/ CommitSlot
         \/ NotifyRelay \/ CaptureFails \/ NotifyFailure \/ EndBurst \/ WorkerWoken
         \/ PollTimeout \/ CallReconcile \/ ReceiveReply \/ CheckShutdown \/ StartDrain
         \/ TakePacket \/ RecordDequeued \/ QueueEmpty \/ BudgetExhausted \/ TakeSnapshot
         \/ Decide \/ Wake \/ SendShutdown \/ ReceiveStopReply \/ Join \/ LoopFails
         \/ WakeOtherwise \/ RequestShutdown \/ NotifyShutdown \/ UNCHANGED vars
BY DEF Next, WorkerThread, RelayThread, Returned

(* At the start the queue is empty and its depth 0. *)
LEMMA QueueInit == Init => QueueInv
<1> SUFFICES ASSUME Init PROVE QueueInv
  OBVIOUS
<1> USE BoundsAssumption DEF Init
<1>1. SharedType
  BY DEF SharedType
<1>2. RelayType
  BY DEF RelayType
<1>3. WorkerType
  BY DEF WorkerType
<1>4. FlagType
  BY Zenon DEF FlagType
<1>5. DepthExact /\ Bounded
  BY DEF DepthExact, Bounded, InHand, Uncounted
<1> QED
  BY <1>1, <1>2, <1>3, <1>4, <1>5 DEF QueueInv, TypeOK

(* A command is taken out of the channel by the worker alone. *)
LEMMA HandleCommandType ==
  ASSUME TypeOK, HandleCommand
  PROVE  /\ commands' \in Seq(Command)
         /\ reply' \in {"ok", "error"}
         /\ active' \subseteq Subscription
         /\ stuck' \subseteq Subscription
         /\ wpc' \in {"exited", "commands"}
<1>1. Head(commands) \in Command /\ commands' \in Seq(Command)
  BY DEF TypeOK, SharedType, HandleCommand
<1>2. Head(commands).subscriptions \subseteq Subscription
  BY <1>1 DEF Command
<1> QED
  BY <1>1, <1>2 DEF TypeOK, WorkerType, HandleCommand, Reconcile

(* The depth counter stays exact in every step of either thread. *)
LEMMA DepthStep ==
  ASSUME QueueInv, [Next]_vars
  PROVE  DepthExact' /\ Bounded'
<1> USE BoundsAssumption DEF QueueInv, TypeOK, SharedType, RelayType, WorkerType, DepthExact,
        Bounded, InHand, Uncounted, shared, relayVars, workerVars, burstVars
<1>0. CASE UNCHANGED vars
  BY <1>0 DEF vars
<1>1. CASE WorkerCommand
  BY <1>1, HandleCommandType DEF WorkerCommand, HandleCommand
<1>2. CASE StartBurst
  BY <1>2 DEF StartBurst
<1>3. CASE Capture
  BY <1>3 DEF Capture
<1>4. CASE TrySend
  <2>1. captured \in 1..MaxPackets
    BY <1>4 DEF TrySend
  <2>2. Len(Append(queue, captured)) = Len(queue) + 1
    BY <2>1
  <2>3. CASE Len(queue) < Capacity
    BY <1>4, <2>2, <2>3 DEF TrySend
  <2>4. CASE ~(Len(queue) < Capacity)
    BY <1>4, <2>4 DEF TrySend
  <2> QED
    BY <2>3, <2>4
<1>5. CASE DropNewest
  BY <1>5 DEF DropNewest
<1>6. CASE CommitSlot
  BY <1>6 DEF CommitSlot
<1>7. CASE NotifyRelay
  BY <1>7 DEF NotifyRelay
<1>8. CASE CaptureFails
  BY <1>8 DEF CaptureFails
<1>9. CASE NotifyFailure
  BY <1>9 DEF NotifyFailure
<1>10. CASE EndBurst
  BY <1>10 DEF EndBurst
<1>11. CASE WorkerWoken
  BY <1>11, HandleCommandType DEF WorkerWoken, HandleCommand
<1>12. CASE PollTimeout
  BY <1>12 DEF PollTimeout
<1>13. CASE CallReconcile
  BY <1>13 DEF CallReconcile, Exited, Command
<1>14. CASE ReceiveReply
  BY <1>14 DEF ReceiveReply, Exited
<1>15. CASE CheckShutdown
  BY <1>15 DEF CheckShutdown, Leave
<1>16. CASE StartDrain
  BY <1>16 DEF StartDrain, Leave
<1>17. CASE TakePacket
  BY <1>17 DEF TakePacket
<1>18. CASE RecordDequeued
  BY <1>18 DEF RecordDequeued
<1>19. CASE QueueEmpty
  BY <1>19 DEF QueueEmpty, Leave, Exited
<1>20. CASE BudgetExhausted
  BY <1>20 DEF BudgetExhausted
<1>21. CASE TakeSnapshot
  BY <1>21 DEF TakeSnapshot
<1>22. CASE Decide
  BY <1>22 DEF Decide, Leave
<1>23. CASE Wake
  BY <1>23 DEF Wake
<1>24. CASE SendShutdown
  BY <1>24 DEF SendShutdown, Exited, Command
<1>25. CASE ReceiveStopReply
  BY <1>25 DEF ReceiveStopReply, Exited
<1>26. CASE Join
  BY <1>26 DEF Join, Exited
<1>27. CASE LoopFails
  BY <1>27 DEF LoopFails, Leave
<1>28. CASE WakeOtherwise
  BY <1>28 DEF WakeOtherwise
<1>29. CASE RequestShutdown
  BY <1>29 DEF RequestShutdown
<1>30. CASE NotifyShutdown
  BY <1>30 DEF NotifyShutdown
<1> QED
  BY Steps, <1>0, <1>1, <1>2, <1>3, <1>4, <1>5, <1>6, <1>7, <1>8, <1>9, <1>10, <1>11, <1>12, <1>13, <1>14, <1>15, <1>16, <1>17, <1>18, <1>19, <1>20, <1>21, <1>22, <1>23, <1>24, <1>25, <1>26, <1>27, <1>28, <1>29, <1>30

(* Sending a command keeps the command channel well formed. *)
LEMMA AppendCommand ==
  ASSUME SharedType, NEW desired \in SUBSET Subscription
  PROVE  /\ Append(commands, [shutdown |-> FALSE, subscriptions |-> desired]) \in Seq(Command)
         /\ Append(commands, [shutdown |-> TRUE, subscriptions |-> {}]) \in Seq(Command)
<1>1. [shutdown |-> FALSE, subscriptions |-> desired] \in Command
  BY Zenon DEF Command
<1>2. [shutdown |-> TRUE, subscriptions |-> {}] \in Command
  BY DEF Command
<1> QED
  BY <1>1, <1>2 DEF SharedType

(* What the threads share stays well formed. *)
LEMMA SharedStep ==
  ASSUME QueueInv, [Next]_vars
  PROVE  SharedType'
<1> USE BoundsAssumption DEF QueueInv, TypeOK, SharedType, RelayType, WorkerType, DepthExact, Bounded,
        InHand, Uncounted,
        shared, relayVars, workerVars, burstVars
<1>0. CASE UNCHANGED vars
  BY <1>0 DEF vars
<1>1. CASE WorkerCommand
  BY <1>1, HandleCommandType DEF WorkerCommand, HandleCommand
<1>2. CASE StartBurst
  BY <1>2 DEF StartBurst
<1>3. CASE Capture
  BY <1>3 DEF Capture
<1>4. CASE TrySend
  <2>1. captured \in 1..MaxPackets
    BY <1>4 DEF TrySend
  <2>2. Append(queue, captured) \in Seq(1..MaxPackets)
    BY <2>1
  <2>3. queue' \in Seq(1..MaxPackets)
    BY <1>4, <2>2 DEF TrySend
  <2> QED
    BY <1>4, <2>3 DEF TrySend
<1>5. CASE DropNewest
  BY <1>5 DEF DropNewest
<1>6. CASE CommitSlot
  BY <1>6 DEF CommitSlot
<1>7. CASE NotifyRelay
  BY <1>7 DEF NotifyRelay
<1>8. CASE CaptureFails
  BY <1>8 DEF CaptureFails
<1>9. CASE NotifyFailure
  BY <1>9 DEF NotifyFailure
<1>10. CASE EndBurst
  BY <1>10 DEF EndBurst
<1>11. CASE WorkerWoken
  BY <1>11, HandleCommandType DEF WorkerWoken, HandleCommand
<1>12. CASE PollTimeout
  BY <1>12 DEF PollTimeout
<1>13. CASE CallReconcile
  <2>1. commands' \in Seq(Command)
    BY <1>13, AppendCommand DEF CallReconcile
  <2> QED
    BY <1>13, <2>1 DEF CallReconcile
<1>14. CASE ReceiveReply
  BY <1>14 DEF ReceiveReply, Exited
<1>15. CASE CheckShutdown
  BY <1>15 DEF CheckShutdown, Leave
<1>16. CASE StartDrain
  BY <1>16 DEF StartDrain, Leave
<1>17. CASE TakePacket
  BY <1>17 DEF TakePacket
<1>18. CASE RecordDequeued
  BY <1>18 DEF RecordDequeued
<1>19. CASE QueueEmpty
  BY <1>19 DEF QueueEmpty, Leave, Exited
<1>20. CASE BudgetExhausted
  BY <1>20 DEF BudgetExhausted
<1>21. CASE TakeSnapshot
  BY <1>21 DEF TakeSnapshot
<1>22. CASE Decide
  BY <1>22 DEF Decide, Leave
<1>23. CASE Wake
  BY <1>23 DEF Wake
<1>24. CASE SendShutdown
  <2>1. commands' \in Seq(Command)
    BY <1>24, AppendCommand DEF SendShutdown
  <2> QED
    BY <1>24, <2>1 DEF SendShutdown
<1>25. CASE ReceiveStopReply
  BY <1>25 DEF ReceiveStopReply, Exited
<1>26. CASE Join
  BY <1>26 DEF Join, Exited
<1>27. CASE LoopFails
  BY <1>27 DEF LoopFails, Leave
<1>28. CASE WakeOtherwise
  BY <1>28 DEF WakeOtherwise
<1>29. CASE RequestShutdown
  BY <1>29 DEF RequestShutdown
<1>30. CASE NotifyShutdown
  BY <1>30 DEF NotifyShutdown
<1> QED
  BY Steps, <1>0, <1>1, <1>2, <1>3, <1>4, <1>5, <1>6, <1>7, <1>8, <1>9, <1>10, <1>11, <1>12, <1>13, <1>14, <1>15, <1>16, <1>17, <1>18, <1>19, <1>20, <1>21, <1>22, <1>23, <1>24, <1>25, <1>26, <1>27, <1>28, <1>29, <1>30

(* So does the relay thread's own state. *)
LEMMA RelayStep ==
  ASSUME QueueInv, [Next]_vars
  PROVE  RelayType'
<1> USE BoundsAssumption DEF QueueInv, TypeOK, SharedType, RelayType, Bounded,
        shared, relayVars, workerVars, burstVars
<1>0. CASE UNCHANGED vars
  BY <1>0 DEF vars
<1>1. CASE WorkerCommand
  BY <1>1 DEF WorkerCommand, HandleCommand
<1>2. CASE StartBurst
  BY <1>2 DEF StartBurst
<1>3. CASE Capture
  BY <1>3 DEF Capture
<1>4. CASE TrySend
  BY <1>4 DEF TrySend
<1>5. CASE DropNewest
  BY <1>5 DEF DropNewest
<1>6. CASE CommitSlot
  BY <1>6 DEF CommitSlot
<1>7. CASE NotifyRelay
  BY <1>7 DEF NotifyRelay
<1>8. CASE CaptureFails
  BY <1>8 DEF CaptureFails
<1>9. CASE NotifyFailure
  BY <1>9 DEF NotifyFailure
<1>10. CASE EndBurst
  BY <1>10 DEF EndBurst
<1>11. CASE WorkerWoken
  BY <1>11 DEF WorkerWoken, HandleCommand
<1>12. CASE PollTimeout
  BY <1>12 DEF PollTimeout
<1>13. CASE CallReconcile
  BY <1>13 DEF CallReconcile, Exited, Command
<1>14. CASE ReceiveReply
  BY <1>14 DEF ReceiveReply, Exited
<1>15. CASE CheckShutdown
  BY <1>15 DEF CheckShutdown, Leave
<1>16. CASE StartDrain
  BY <1>16 DEF StartDrain, Leave
<1>17. CASE TakePacket
  BY <1>17 DEF TakePacket
<1>18. CASE RecordDequeued
  BY <1>18 DEF RecordDequeued
<1>19. CASE QueueEmpty
  BY <1>19 DEF QueueEmpty, Leave, Exited
<1>20. CASE BudgetExhausted
  BY <1>20 DEF BudgetExhausted
<1>21. CASE TakeSnapshot
  BY <1>21 DEF TakeSnapshot
<1>22. CASE Decide
  BY <1>22 DEF Decide, Leave
<1>23. CASE Wake
  BY <1>23 DEF Wake
<1>24. CASE SendShutdown
  BY <1>24 DEF SendShutdown, Exited, Command
<1>25. CASE ReceiveStopReply
  BY <1>25 DEF ReceiveStopReply, Exited
<1>26. CASE Join
  BY <1>26 DEF Join, Exited
<1>27. CASE LoopFails
  BY <1>27 DEF LoopFails, Leave
<1>28. CASE WakeOtherwise
  BY <1>28 DEF WakeOtherwise
<1>29. CASE RequestShutdown
  BY <1>29 DEF RequestShutdown
<1>30. CASE NotifyShutdown
  BY <1>30 DEF NotifyShutdown
<1> QED
  BY Steps, <1>0, <1>1, <1>2, <1>3, <1>4, <1>5, <1>6, <1>7, <1>8, <1>9, <1>10, <1>11, <1>12, <1>13, <1>14, <1>15, <1>16, <1>17, <1>18, <1>19, <1>20, <1>21, <1>22, <1>23, <1>24, <1>25, <1>26, <1>27, <1>28, <1>29, <1>30

(* So does the worker's. *)
LEMMA WorkerStep ==
  ASSUME QueueInv, [Next]_vars
  PROVE  WorkerType'
<1> USE BoundsAssumption DEF QueueInv, TypeOK, SharedType, WorkerType,
        shared, relayVars, workerVars, burstVars
<1>0. CASE UNCHANGED vars
  BY <1>0 DEF vars
<1>1. CASE WorkerCommand
  BY <1>1, HandleCommandType DEF WorkerCommand, HandleCommand
<1>2. CASE StartBurst
  BY <1>2 DEF StartBurst
<1>3. CASE Capture
  BY <1>3 DEF Capture
<1>4. CASE TrySend
  BY <1>4 DEF TrySend
<1>5. CASE DropNewest
  BY <1>5 DEF DropNewest
<1>6. CASE CommitSlot
  BY <1>6 DEF CommitSlot
<1>7. CASE NotifyRelay
  BY <1>7 DEF NotifyRelay
<1>8. CASE CaptureFails
  BY <1>8 DEF CaptureFails
<1>9. CASE NotifyFailure
  BY <1>9 DEF NotifyFailure
<1>10. CASE EndBurst
  BY <1>10 DEF EndBurst
<1>11. CASE WorkerWoken
  BY <1>11, HandleCommandType DEF WorkerWoken, HandleCommand
<1>12. CASE PollTimeout
  BY <1>12 DEF PollTimeout
<1>13. CASE CallReconcile
  BY <1>13 DEF CallReconcile, Exited, Command
<1>14. CASE ReceiveReply
  BY <1>14 DEF ReceiveReply, Exited
<1>15. CASE CheckShutdown
  BY <1>15 DEF CheckShutdown, Leave
<1>16. CASE StartDrain
  BY <1>16 DEF StartDrain, Leave
<1>17. CASE TakePacket
  BY <1>17 DEF TakePacket
<1>18. CASE RecordDequeued
  BY <1>18 DEF RecordDequeued
<1>19. CASE QueueEmpty
  BY <1>19 DEF QueueEmpty, Leave, Exited
<1>20. CASE BudgetExhausted
  BY <1>20 DEF BudgetExhausted
<1>21. CASE TakeSnapshot
  BY <1>21 DEF TakeSnapshot
<1>22. CASE Decide
  BY <1>22 DEF Decide, Leave
<1>23. CASE Wake
  BY <1>23 DEF Wake
<1>24. CASE SendShutdown
  BY <1>24 DEF SendShutdown, Exited, Command
<1>25. CASE ReceiveStopReply
  BY <1>25 DEF ReceiveStopReply, Exited
<1>26. CASE Join
  BY <1>26 DEF Join, Exited
<1>27. CASE LoopFails
  BY <1>27 DEF LoopFails, Leave
<1>28. CASE WakeOtherwise
  BY <1>28 DEF WakeOtherwise
<1>29. CASE RequestShutdown
  BY <1>29 DEF RequestShutdown
<1>30. CASE NotifyShutdown
  BY <1>30 DEF NotifyShutdown
<1> QED
  BY Steps, <1>0, <1>1, <1>2, <1>3, <1>4, <1>5, <1>6, <1>7, <1>8, <1>9, <1>10, <1>11, <1>12, <1>13, <1>14, <1>15, <1>16, <1>17, <1>18, <1>19, <1>20, <1>21, <1>22, <1>23, <1>24, <1>25, <1>26, <1>27, <1>28, <1>29, <1>30

(* And the flags stay flags. *)
LEMMA FlagStep ==
  ASSUME QueueInv, [Next]_vars
  PROVE  FlagType'
<1> USE BoundsAssumption DEF QueueInv, TypeOK, FlagType,
        shared, relayVars, workerVars, burstVars
<1>0. CASE UNCHANGED vars
  BY <1>0 DEF vars
<1>1. CASE WorkerCommand
  BY <1>1, HandleCommandType DEF WorkerCommand, HandleCommand
<1>2. CASE StartBurst
  BY <1>2 DEF StartBurst
<1>3. CASE Capture
  BY <1>3 DEF Capture
<1>4. CASE TrySend
  BY <1>4 DEF TrySend
<1>5. CASE DropNewest
  BY <1>5 DEF DropNewest
<1>6. CASE CommitSlot
  BY <1>6 DEF CommitSlot
<1>7. CASE NotifyRelay
  BY <1>7 DEF NotifyRelay
<1>8. CASE CaptureFails
  BY <1>8 DEF CaptureFails
<1>9. CASE NotifyFailure
  BY <1>9 DEF NotifyFailure
<1>10. CASE EndBurst
  BY <1>10 DEF EndBurst
<1>11. CASE WorkerWoken
  BY <1>11, HandleCommandType DEF WorkerWoken, HandleCommand
<1>12. CASE PollTimeout
  BY <1>12 DEF PollTimeout
<1>13. CASE CallReconcile
  BY <1>13 DEF CallReconcile, Exited, Command
<1>14. CASE ReceiveReply
  BY <1>14 DEF ReceiveReply, Exited
<1>15. CASE CheckShutdown
  BY <1>15 DEF CheckShutdown, Leave
<1>16. CASE StartDrain
  BY <1>16 DEF StartDrain, Leave
<1>17. CASE TakePacket
  BY <1>17 DEF TakePacket
<1>18. CASE RecordDequeued
  BY <1>18 DEF RecordDequeued
<1>19. CASE QueueEmpty
  BY <1>19 DEF QueueEmpty, Leave, Exited
<1>20. CASE BudgetExhausted
  BY <1>20 DEF BudgetExhausted
<1>21. CASE TakeSnapshot
  BY <1>21 DEF TakeSnapshot
<1>22. CASE Decide
  BY <1>22 DEF Decide, Leave
<1>23. CASE Wake
  BY <1>23 DEF Wake
<1>24. CASE SendShutdown
  BY <1>24 DEF SendShutdown, Exited, Command
<1>25. CASE ReceiveStopReply
  BY <1>25 DEF ReceiveStopReply, Exited
<1>26. CASE Join
  BY <1>26 DEF Join, Exited
<1>27. CASE LoopFails
  BY <1>27 DEF LoopFails, Leave
<1>28. CASE WakeOtherwise
  BY <1>28 DEF WakeOtherwise
<1>29. CASE RequestShutdown
  BY <1>29 DEF RequestShutdown
<1>30. CASE NotifyShutdown
  BY <1>30 DEF NotifyShutdown
<1> QED
  BY Steps, <1>0, <1>1, <1>2, <1>3, <1>4, <1>5, <1>6, <1>7, <1>8, <1>9, <1>10, <1>11, <1>12, <1>13, <1>14, <1>15, <1>16, <1>17, <1>18, <1>19, <1>20, <1>21, <1>22, <1>23, <1>24, <1>25, <1>26, <1>27, <1>28, <1>29, <1>30

(* The type and depth invariant is inductive. *)
LEMMA QueueStep ==
  ASSUME QueueInv, [Next]_vars
  PROVE  QueueInv'
BY DepthStep, SharedStep, RelayStep, WorkerStep, FlagStep DEF QueueInv, TypeOK

(* The relay thread and the worker keep every variable within its type. *)
THEOREM WorkerTypeInvariant == Spec => []TypeOK
<1>1. QueueInv => TypeOK
  BY DEF QueueInv
<1> QED
  BY <1>1, QueueInit, QueueStep, PTL DEF Spec

(* The depth counter of upstream_worker.rs is exact: it counts the queue and *)
(* the packets in the two threads' hands, for every interleaving.            *)
THEOREM DepthInvariant == Spec => []DepthExact
<1>1. QueueInv => DepthExact
  BY DEF QueueInv
<1> QED
  BY <1>1, QueueInit, QueueStep, PTL DEF Spec
-----------------------------------------------------------------------------
(* The high-water mark.                                                    *)

(* The channel holds no more than its capacity. *)
MarkInv == Len(queue) <= Capacity /\ HighWaterBounded

(* Only sending and taking change the queue, and only a commit the mark. *)
LEMMA MarkFrame ==
  ASSUME Next, ~TrySend, ~TakePacket, ~CommitSlot
  PROVE  UNCHANGED <<queue, highWater>>
<1> USE DEF shared
<1>1. CASE WorkerCommand
  BY <1>1 DEF WorkerCommand, HandleCommand
<1>2. CASE StartBurst
  BY <1>2 DEF StartBurst
<1>3. CASE Capture
  BY <1>3 DEF Capture
<1>4. CASE DropNewest
  BY <1>4 DEF DropNewest
<1>5. CASE NotifyRelay
  BY <1>5 DEF NotifyRelay
<1>6. CASE CaptureFails
  BY <1>6 DEF CaptureFails
<1>7. CASE NotifyFailure
  BY <1>7 DEF NotifyFailure
<1>8. CASE EndBurst
  BY <1>8 DEF EndBurst
<1>9. CASE WorkerWoken
  BY <1>9 DEF WorkerWoken, HandleCommand
<1>10. CASE PollTimeout
  BY <1>10 DEF PollTimeout
<1>11. CASE CallReconcile
  BY <1>11 DEF CallReconcile
<1>12. CASE ReceiveReply
  BY <1>12 DEF ReceiveReply
<1>13. CASE CheckShutdown
  BY <1>13 DEF CheckShutdown
<1>14. CASE StartDrain
  BY <1>14 DEF StartDrain
<1>15. CASE RecordDequeued
  BY <1>15 DEF RecordDequeued
<1>16. CASE QueueEmpty
  BY <1>16 DEF QueueEmpty
<1>17. CASE BudgetExhausted
  BY <1>17 DEF BudgetExhausted
<1>18. CASE TakeSnapshot
  BY <1>18 DEF TakeSnapshot
<1>19. CASE Decide
  BY <1>19 DEF Decide
<1>20. CASE Wake
  BY <1>20 DEF Wake
<1>21. CASE SendShutdown
  BY <1>21 DEF SendShutdown
<1>22. CASE ReceiveStopReply
  BY <1>22 DEF ReceiveStopReply
<1>23. CASE Join
  BY <1>23 DEF Join
<1>24. CASE LoopFails
  BY <1>24 DEF LoopFails
<1>25. CASE WakeOtherwise
  BY <1>25 DEF WakeOtherwise
<1>26. CASE RequestShutdown
  BY <1>26 DEF RequestShutdown
<1>27. CASE NotifyShutdown
  BY <1>27 DEF NotifyShutdown
<1>28. CASE UNCHANGED vars
  BY <1>28 DEF vars
<1> QED
  BY Steps, <1>1, <1>2, <1>3, <1>4, <1>5, <1>6, <1>7, <1>8, <1>9, <1>10, <1>11, <1>12, <1>13, <1>14, <1>15, <1>16, <1>17, <1>18, <1>19, <1>20, <1>21, <1>22, <1>23, <1>24, <1>25, <1>26, <1>27, <1>28

(* A packet goes into the queue only where there is room, and the mark is at  *)
(* most the depth at the commit, when the worker has no slot in hand.         *)
LEMMA MarkStep ==
  ASSUME QueueInv, MarkInv, [Next]_vars
  PROVE  MarkInv'
<1> USE BoundsAssumption DEF MarkInv, HighWaterBounded
<1>0. queue \in Seq(1..MaxPackets) /\ highWater \in Nat /\ depth \in Nat /\ Capacity \in Nat
  BY DEF QueueInv, TypeOK, SharedType
<1>1. CASE TrySend
  <2>1. captured \in 1..MaxPackets
    BY <1>1 DEF TrySend, QueueInv, Bounded, TypeOK, WorkerType
  <2> QED
    BY <1>0, <1>1, <2>1 DEF TrySend
<1>2. CASE TakePacket
  <2>1. queue # <<>> /\ queue' = Tail(queue) /\ highWater' = highWater
    BY <1>2 DEF TakePacket
  <2>2. Len(queue') = Len(queue) - 1
    BY <1>0, <2>1
  <2> QED
    BY <1>0, <2>1, <2>2
<1>3. CASE CommitSlot
  <2>1. depth <= Capacity + 1
    BY <1>0, <1>3 DEF CommitSlot, QueueInv, DepthExact, InHand, Uncounted
  <2>2. reservedDepth \in Nat
    BY DEF QueueInv, TypeOK, WorkerType
  <2>3. queue' = queue /\ (highWater' = highWater \/ (highWater' <= depth /\ highWater' \in Nat))
    BY <1>0, <1>3, <2>2 DEF CommitSlot
  <2> QED
    BY <1>0, <2>1, <2>3
<1>4. CASE Next /\ ~TrySend /\ ~TakePacket /\ ~CommitSlot
  BY <1>4, MarkFrame
<1>5. CASE UNCHANGED vars
  BY <1>5 DEF vars, shared
<1> QED
  BY <1>1, <1>2, <1>3, <1>4, <1>5

(* The high-water mark of upstream_worker.rs is at most one more than the     *)
(* queue can hold, for any capacity and interleaving.                         *)
THEOREM HighWaterInvariant == Spec => []HighWaterBounded
<1>1. Init => MarkInv
  BY BoundsAssumption DEF Init, MarkInv, HighWaterBounded
<1>2. MarkInv => HighWaterBounded
  BY DEF MarkInv
<1> QED
  BY <1>1, <1>2, QueueInit, QueueStep, MarkStep, PTL DEF Spec
-----------------------------------------------------------------------------
(* Wakeups.                                                                *)

(* Is the relay asleep, or has it seen all it looks at before it sleeps? *)
Settled == rpc = "wait" \/ (rpc = "decide" /\ ~busy)

(* The worker found the depth at 0 and will notify. *)
Waking == wasEmpty /\ wpc \in {"reserved", "sent", "notify"}

(* Once the relay has read a depth of 0, whoever raises it notifies; and a   *)
(* packet whose slot was the first finds room, so that it is sent.           *)
WakeInv ==
  /\ Settled => depth = 0 \/ notified \/ failure \/ Waking
  /\ wpc = "reserved" /\ wasEmpty => queue = <<>>

(* At depth 0 there is nothing to take. *)
LEMMA EmptyQueue ==
  ASSUME QueueInv, depth = 0
  PROVE  queue = <<>>
<1>1. queue \in Seq(1..MaxPackets) /\ Len(queue) \in Nat
  BY DEF QueueInv, TypeOK, SharedType
<1>2. InHand \in Nat /\ Uncounted \in Nat
  BY DEF InHand, Uncounted
<1>3. Len(queue) = 0
  BY <1>1, <1>2 DEF QueueInv, DepthExact
<1> QED
  BY <1>1, <1>3

(* No step of either thread leaves the relay settled without a wakeup due. *)
LEMMA WakeStep ==
  ASSUME QueueInv, WakeInv, [Next]_vars
  PROVE  WakeInv'
<1> USE BoundsAssumption DEF QueueInv, TypeOK, SharedType, RelayType, WorkerType, DepthExact, InHand,
        Uncounted, Settled, Waking, WakeInv,
        shared, relayVars, workerVars, burstVars
<1>0. CASE UNCHANGED vars
  BY <1>0 DEF vars
<1>1. CASE WorkerCommand
  BY <1>1 DEF WorkerCommand, HandleCommand
<1>2. CASE StartBurst
  BY <1>2 DEF StartBurst
<1>3. CASE Capture
  <2>1. wpc' = "reserved" /\ UNCHANGED <<queue, notified, failure, rpc, busy>>
    BY <1>3 DEF Capture
  <2>2. CASE depth = 0
    <3>1. wasEmpty'
      BY <1>3, <2>2 DEF Capture
    <3>2. queue = <<>>
      BY <2>2, EmptyQueue
    <3> QED
      BY <2>1, <3>1, <3>2
  <2>3. CASE depth # 0
    <3>1. ~wasEmpty'
      BY <1>3, <2>3 DEF Capture
    <3>2. ~Waking
      BY <1>3 DEF Capture
    <3> QED
      BY <2>1, <2>3, <3>1, <3>2
  <2> QED
    BY <2>2, <2>3
<1>4. CASE TrySend
  BY <1>4 DEF TrySend
<1>5. CASE DropNewest
  BY <1>5 DEF DropNewest
<1>6. CASE CommitSlot
  BY <1>6 DEF CommitSlot
<1>7. CASE NotifyRelay
  BY <1>7 DEF NotifyRelay
<1>8. CASE CaptureFails
  BY <1>8 DEF CaptureFails
<1>9. CASE NotifyFailure
  BY <1>9 DEF NotifyFailure
<1>10. CASE EndBurst
  BY <1>10 DEF EndBurst
<1>11. CASE WorkerWoken
  BY <1>11 DEF WorkerWoken, HandleCommand
<1>12. CASE PollTimeout
  BY <1>12 DEF PollTimeout
<1>13. CASE CallReconcile
  BY <1>13 DEF CallReconcile, Exited, Command
<1>14. CASE ReceiveReply
  BY <1>14 DEF ReceiveReply, Exited
<1>15. CASE CheckShutdown
  BY <1>15 DEF CheckShutdown, Leave
<1>16. CASE StartDrain
  BY <1>16 DEF StartDrain, Leave
<1>17. CASE TakePacket
  BY <1>17 DEF TakePacket
<1>18. CASE RecordDequeued
  BY <1>18 DEF RecordDequeued
<1>19. CASE QueueEmpty
  BY <1>19 DEF QueueEmpty, Leave, Exited
<1>20. CASE BudgetExhausted
  BY <1>20 DEF BudgetExhausted
<1>21. CASE TakeSnapshot
  BY <1>21 DEF TakeSnapshot
<1>22. CASE Decide
  BY <1>22 DEF Decide, Leave
<1>23. CASE Wake
  BY <1>23 DEF Wake
<1>24. CASE SendShutdown
  BY <1>24 DEF SendShutdown, Exited, Command
<1>25. CASE ReceiveStopReply
  BY <1>25 DEF ReceiveStopReply, Exited
<1>26. CASE Join
  BY <1>26 DEF Join, Exited
<1>27. CASE LoopFails
  BY <1>27 DEF LoopFails, Leave
<1>28. CASE WakeOtherwise
  BY <1>28 DEF WakeOtherwise
<1>29. CASE RequestShutdown
  BY <1>29 DEF RequestShutdown
<1>30. CASE NotifyShutdown
  BY <1>30 DEF NotifyShutdown
<1> QED
  BY Steps, <1>0, <1>1, <1>2, <1>3, <1>4, <1>5, <1>6, <1>7, <1>8, <1>9, <1>10, <1>11, <1>12, <1>13, <1>14, <1>15, <1>16, <1>17, <1>18, <1>19, <1>20, <1>21, <1>22, <1>23, <1>24, <1>25, <1>26, <1>27, <1>28, <1>29, <1>30

(* The relay never sleeps on a queued packet without a notification pending  *)
(* or on its way: run_worker's notify on the first packet and run_relay's    *)
(* look at the depth together lose no wakeup, in any interleaving.           *)
THEOREM WakeupInvariant == Spec => []NoLostWakeup
<1>1. Init => WakeInv
  BY DEF Init, WakeInv, Settled
<1>2. QueueInv /\ WakeInv => NoLostWakeup
  BY DEF QueueInv, TypeOK, SharedType, DepthExact, InHand, Uncounted, WakeInv, Settled,
         Waking, NoLostWakeup
<1> QED
  BY <1>1, <1>2, QueueInit, QueueStep, WakeStep, PTL DEF Spec
-----------------------------------------------------------------------------
(* Commands.                                                               *)

(* While the worker lives, a command in the channel is the one the relay is  *)
(* waiting on; it is alone, unanswered, and asks for what the relay asked.   *)
CommandInv ==
  ~Exited /\ commands # <<>> =>
    /\ commands = <<Head(commands)>>
    /\ Head(commands).subscriptions = asked
    /\ Head(commands).shutdown <=> rpc = "stopReply"
    /\ rpc \in {"reply", "stopReply"}
    /\ reply = "none"

LEMMA OneCommand ==
  ASSUME NEW seq, NEW command, seq = <<command>>
  PROVE  Head(seq) = command /\ seq = <<Head(seq)>>
<1>1. Head(<<command>>) = command
  OBVIOUS
<1> QED
  BY <1>1

LEMMA LastCommand ==
  ASSUME CommandInv, ~Exited, HandleCommand
  PROVE  commands' = <<>>
<1>1. commands = <<Head(commands)>> /\ commands' = Tail(commands)
  BY DEF CommandInv, HandleCommand
<1>2. \A c : Tail(<<c>>) = <<>>
  OBVIOUS
<1> QED
  BY <1>1, <1>2

(* Commands are sent one at a time and waited for (WorkerHandle::reconcile, stop). *)
LEMMA CommandStep ==
  ASSUME QueueInv, CommandInv, [Next]_vars
  PROVE  CommandInv'
<1> USE DEF QueueInv, TypeOK, SharedType, CommandInv, Exited,
        shared, relayVars, workerVars, burstVars
<1>0. CASE UNCHANGED vars
  BY <1>0 DEF vars
<1>1. CASE WorkerCommand
  <2>1. commands' = <<>>
    BY <1>1, LastCommand DEF WorkerCommand
  <2> QED
    BY <2>1
<1>2. CASE StartBurst
  BY <1>2 DEF StartBurst
<1>3. CASE Capture
  BY <1>3 DEF Capture
<1>4. CASE TrySend
  BY <1>4 DEF TrySend
<1>5. CASE DropNewest
  BY <1>5 DEF DropNewest
<1>6. CASE CommitSlot
  BY <1>6 DEF CommitSlot
<1>7. CASE NotifyRelay
  BY <1>7 DEF NotifyRelay
<1>8. CASE CaptureFails
  BY <1>8 DEF CaptureFails
<1>9. CASE NotifyFailure
  BY <1>9 DEF NotifyFailure
<1>10. CASE EndBurst
  BY <1>10 DEF EndBurst
<1>11. CASE WorkerWoken
  <2>1. commands' = <<>>
    BY <1>11, LastCommand DEF WorkerWoken
  <2> QED
    BY <2>1
<1>12. CASE PollTimeout
  BY <1>12 DEF PollTimeout
<1>13. CASE CallReconcile
  <2>1. CASE failure \/ Exited
    BY <1>13, <2>1 DEF CallReconcile
  <2>2. CASE ~failure /\ ~Exited
    <3>1. commands = <<>>
      BY <1>13, <2>2 DEF CallReconcile
    <3>2. PICK desired \in SUBSET Subscription :
            /\ asked' = desired
            /\ commands' = Append(commands, [shutdown |-> FALSE, subscriptions |-> desired])
      BY <1>13, <2>2 DEF CallReconcile
    <3>3. commands' = <<[shutdown |-> FALSE, subscriptions |-> desired]>>
      BY <3>1, <3>2
    <3>4. reply' = "none" /\ rpc' = "reply"
      BY <1>13, <2>2 DEF CallReconcile
    <3> DEFINE command == [shutdown |-> FALSE, subscriptions |-> desired]
    <3>5. commands' = <<Head(commands')>> /\ Head(commands') = command
      BY <3>3, OneCommand
    <3>6. command.subscriptions = desired /\ ~command.shutdown
      OBVIOUS
    <3> HIDE DEF command
    <3> QED
      BY <3>2, <3>4, <3>5, <3>6
  <2> QED
    BY <2>1, <2>2
<1>14. CASE ReceiveReply
  BY <1>14 DEF ReceiveReply, Exited
<1>15. CASE CheckShutdown
  BY <1>15 DEF CheckShutdown, Leave
<1>16. CASE StartDrain
  BY <1>16 DEF StartDrain, Leave
<1>17. CASE TakePacket
  BY <1>17 DEF TakePacket
<1>18. CASE RecordDequeued
  BY <1>18 DEF RecordDequeued
<1>19. CASE QueueEmpty
  BY <1>19 DEF QueueEmpty, Leave, Exited
<1>20. CASE BudgetExhausted
  BY <1>20 DEF BudgetExhausted
<1>21. CASE TakeSnapshot
  BY <1>21 DEF TakeSnapshot
<1>22. CASE Decide
  BY <1>22 DEF Decide, Leave
<1>23. CASE Wake
  BY <1>23 DEF Wake
<1>24. CASE SendShutdown
  <2>1. CASE Exited
    BY <1>24, <2>1 DEF SendShutdown
  <2>2. CASE ~Exited
    <3>1. commands = <<>>
      BY <1>24, <2>2 DEF SendShutdown
    <3>2. commands' = Append(commands, [shutdown |-> TRUE, subscriptions |-> {}])
      BY <1>24, <2>2 DEF SendShutdown
    <3>3. commands' = <<[shutdown |-> TRUE, subscriptions |-> {}]>>
      BY <3>1, <3>2
    <3>4. asked' = {} /\ reply' = "none" /\ rpc' = "stopReply"
      BY <1>24, <2>2 DEF SendShutdown
    <3> DEFINE command == [shutdown |-> TRUE, subscriptions |-> {}]
    <3>5. commands' = <<Head(commands')>> /\ Head(commands') = command
      BY <3>3, OneCommand
    <3>6. command.subscriptions = {} /\ command.shutdown
      OBVIOUS
    <3> HIDE DEF command
    <3> QED
      BY <3>4, <3>5, <3>6
  <2> QED
    BY <2>1, <2>2
<1>25. CASE ReceiveStopReply
  BY <1>25 DEF ReceiveStopReply, Exited
<1>26. CASE Join
  BY <1>26 DEF Join, Exited
<1>27. CASE LoopFails
  BY <1>27 DEF LoopFails, Leave
<1>28. CASE WakeOtherwise
  BY <1>28 DEF WakeOtherwise
<1>29. CASE RequestShutdown
  BY <1>29 DEF RequestShutdown
<1>30. CASE NotifyShutdown
  BY <1>30 DEF NotifyShutdown
<1> QED
  BY Steps, <1>0, <1>1, <1>2, <1>3, <1>4, <1>5, <1>6, <1>7, <1>8, <1>9, <1>10, <1>11, <1>12, <1>13, <1>14, <1>15, <1>16, <1>17, <1>18, <1>19, <1>20, <1>21, <1>22, <1>23, <1>24, <1>25, <1>26, <1>27, <1>28, <1>29, <1>30

(* The native subscriptions change only while the relay thread waits for the *)
(* answer, and to what it asked for: to the relay a reconcile is one step.   *)
THEOREM ReconcileIsSynchronous == Spec => ReconcileSynchronous
<1> DEFINE Step == active' # active =>
                     /\ rpc \in {"reply", "stopReply"}
                     /\ asked \subseteq active' /\ active' = asked \cup stuck'
<1>1. Init => CommandInv
  BY DEF Init, CommandInv
<1>2. ASSUME CommandInv, ~Exited, HandleCommand, active' # active
      PROVE  Step
  <2>1. Head(commands).subscriptions = asked /\ rpc \in {"reply", "stopReply"}
    BY <1>2 DEF CommandInv, HandleCommand
  <2> QED
    BY <1>2, <2>1 DEF HandleCommand, Reconcile
<1>3. QueueInv /\ CommandInv /\ [Next]_vars => [Step]_vars
  <2> SUFFICES ASSUME CommandInv, [Next]_vars, active' # active
               PROVE  Step
    OBVIOUS
  <2>1. WorkerCommand \/ WorkerWoken
    BY Steps DEF StartBurst, Capture, TrySend, DropNewest, CommitSlot, NotifyRelay,
       CaptureFails, NotifyFailure, EndBurst, PollTimeout, CallReconcile, ReceiveReply,
       CheckShutdown, StartDrain, TakePacket, RecordDequeued, QueueEmpty, BudgetExhausted,
       TakeSnapshot, Decide, Wake, SendShutdown, ReceiveStopReply, Join, LoopFails,
       WakeOtherwise, RequestShutdown, NotifyShutdown, vars, workerVars
  <2>2. ~Exited /\ HandleCommand
    BY <2>1 DEF WorkerCommand, WorkerWoken, Exited
  <2> QED
    BY <1>2, <2>2
<1> QED
  BY <1>1, <1>3, QueueInit, QueueStep, CommandStep, PTL DEF Spec, ReconcileSynchronous
-----------------------------------------------------------------------------
(* Shutdown.                                                               *)

(* The worker only ends with a failure on record or because it was told to;  *)
(* a Shutdown that was answered has cleared the subscriptions.               *)
ShutdownInv ==
  /\ wpc = "failed" => failure
  /\ rpc = "stopReply" => asked = {}
  /\ Exited => failure \/ rpc \in {"stopReply", "join", "returned"}
  /\ rpc = "stopReply" /\ reply = "ok" => Exited /\ active = stuck
  /\ rpc = "join" => failure \/ result # "ok" \/ (Exited /\ active = stuck)
  /\ rpc = "returned" => Exited /\ (result = "ok" => active = stuck /\ ~failure)

(* A handled command is the one the relay waits for.  The worker ends with   *)
(* it exactly when the relay is stopping, and has then left all it could.    *)
LEMMA CommandHandled ==
  ASSUME CommandInv, ShutdownInv, ~Exited, HandleCommand
  PROVE  /\ rpc \in {"reply", "stopReply"}
         /\ rpc = "stopReply" <=> wpc' = "exited"
         /\ rpc = "stopReply" /\ reply' = "ok" => active' = stuck'
<1>1. /\ rpc \in {"reply", "stopReply"}
      /\ Head(commands).subscriptions = asked
      /\ Head(commands).shutdown <=> rpc = "stopReply"
  BY DEF CommandInv, HandleCommand
<1>2. rpc = "stopReply" <=> wpc' = "exited"
  <2>1. CASE rpc = "stopReply"
    BY <1>1, <2>1 DEF HandleCommand
  <2>2. CASE rpc # "stopReply"
    BY <1>1, <2>2 DEF HandleCommand
  <2> QED
    BY <2>1, <2>2
<1>3. ASSUME rpc = "stopReply", reply' = "ok"
      PROVE  active' = stuck'
  <2>1. asked = {}
    BY <1>3 DEF ShutdownInv
  <2> QED
    BY <1>1, <1>3, <2>1 DEF HandleCommand, Reconcile
<1> QED
  BY <1>1, <1>2, <1>3

(* No step of either thread breaks that. *)
LEMMA ShutdownStep ==
  ASSUME QueueInv, CommandInv, ShutdownInv, [Next]_vars
  PROVE  ShutdownInv'
<1> USE DEF QueueInv, TypeOK, SharedType, CommandInv, ShutdownInv, Exited,
        shared, relayVars, workerVars, burstVars
<1>0. CASE UNCHANGED vars
  BY <1>0 DEF vars
<1>1. CASE WorkerCommand
  <2>1. ~Exited /\ HandleCommand
    BY <1>1 DEF WorkerCommand
  <2>2. UNCHANGED <<rpc, asked, failure, result>> /\ wpc' \in {"exited", "commands"}
    BY <1>1 DEF WorkerCommand, HandleCommand
  <2> QED
    BY <2>1, <2>2, CommandHandled
<1>2. CASE StartBurst
  BY <1>2 DEF StartBurst
<1>3. CASE Capture
  BY <1>3 DEF Capture
<1>4. CASE TrySend
  BY <1>4 DEF TrySend
<1>5. CASE DropNewest
  BY <1>5 DEF DropNewest
<1>6. CASE CommitSlot
  BY <1>6 DEF CommitSlot
<1>7. CASE NotifyRelay
  BY <1>7 DEF NotifyRelay
<1>8. CASE CaptureFails
  BY <1>8 DEF CaptureFails
<1>9. CASE NotifyFailure
  BY <1>9 DEF NotifyFailure
<1>10. CASE EndBurst
  BY <1>10 DEF EndBurst
<1>11. CASE WorkerWoken
  <2>1. ~Exited /\ HandleCommand
    BY <1>11 DEF WorkerWoken
  <2>2. UNCHANGED <<rpc, asked, failure, result>> /\ wpc' \in {"exited", "commands"}
    BY <1>11 DEF WorkerWoken, HandleCommand
  <2> QED
    BY <2>1, <2>2, CommandHandled
<1>12. CASE PollTimeout
  BY <1>12 DEF PollTimeout
<1>13. CASE CallReconcile
  BY <1>13 DEF CallReconcile, Exited, Command
<1>14. CASE ReceiveReply
  BY <1>14 DEF ReceiveReply, Exited
<1>15. CASE CheckShutdown
  BY <1>15 DEF CheckShutdown, Leave
<1>16. CASE StartDrain
  BY <1>16 DEF StartDrain, Leave
<1>17. CASE TakePacket
  BY <1>17 DEF TakePacket
<1>18. CASE RecordDequeued
  BY <1>18 DEF RecordDequeued
<1>19. CASE QueueEmpty
  BY <1>19 DEF QueueEmpty, Leave, Exited
<1>20. CASE BudgetExhausted
  BY <1>20 DEF BudgetExhausted
<1>21. CASE TakeSnapshot
  BY <1>21 DEF TakeSnapshot
<1>22. CASE Decide
  BY <1>22 DEF Decide, Leave
<1>23. CASE Wake
  BY <1>23 DEF Wake
<1>24. CASE SendShutdown
  BY <1>24 DEF SendShutdown, Exited, Command
<1>25. CASE ReceiveStopReply
  BY <1>25 DEF ReceiveStopReply, Exited
<1>26. CASE Join
  BY <1>26 DEF Join, Exited
<1>27. CASE LoopFails
  BY <1>27 DEF LoopFails, Leave
<1>28. CASE WakeOtherwise
  BY <1>28 DEF WakeOtherwise
<1>29. CASE RequestShutdown
  BY <1>29 DEF RequestShutdown
<1>30. CASE NotifyShutdown
  BY <1>30 DEF NotifyShutdown
<1> QED
  BY Steps, <1>0, <1>1, <1>2, <1>3, <1>4, <1>5, <1>6, <1>7, <1>8, <1>9, <1>10, <1>11, <1>12, <1>13, <1>14, <1>15, <1>16, <1>17, <1>18, <1>19, <1>20, <1>21, <1>22, <1>23, <1>24, <1>25, <1>26, <1>27, <1>28, <1>29, <1>30

(* run_relay returns without an error only after the worker has ended and    *)
(* has left every subscription it could, whatever made the loop end.         *)
THEOREM ShutdownIsClean == Spec => []CleanShutdown
<1>1. Init => CommandInv /\ ShutdownInv
  BY DEF Init, CommandInv, ShutdownInv, Exited
<1>2. ShutdownInv => CleanShutdown
  BY DEF ShutdownInv, CleanShutdown
<1> QED
  BY <1>1, <1>2, QueueInit, QueueStep, CommandStep, ShutdownStep, PTL DEF Spec
-----------------------------------------------------------------------------
(* Packets.                                                                *)

(* What is queued was captured after what was taken and before what is in    *)
(* the worker's hand.                                                        *)
AccountInv ==
  /\ captured = taken + dropped + Len(queue) + InHand
  /\ lastTaken <= captured - InHand
  /\ \A m \in 1..Len(queue) : lastTaken < queue[m] /\ queue[m] <= captured - InHand
  /\ \A m, n \in 1..Len(queue) : m < n => queue[m] < queue[n]

(* Packets are kept in order and accounted for by every step. *)
LEMMA AccountStep ==
  ASSUME QueueInv, AccountInv, [Next]_vars
  PROVE  AccountInv'
<1> USE DEF shared, relayVars, workerVars, burstVars
<1>0. /\ queue \in Seq(1..MaxPackets) /\ Len(queue) \in Nat
      /\ captured \in Nat /\ dropped \in Nat /\ taken \in Nat /\ lastTaken \in Nat
      /\ InHand \in {0, 1} /\ MaxPackets \in Nat
  BY BoundsAssumption DEF QueueInv, TypeOK, SharedType, RelayType, WorkerType, InHand
<1>1. CASE Capture
  <2>1. InHand = 0 /\ InHand' = 1 /\ captured' = captured + 1
    BY <1>1 DEF Capture, InHand
  <2>2. UNCHANGED <<queue, dropped, taken, lastTaken>>
    BY <1>1 DEF Capture
  <2> QED
    BY <1>0, <2>1, <2>2 DEF AccountInv
<1>2. CASE TrySend /\ Len(queue) < Capacity
  <2>1. InHand = 1 /\ InHand' = 0 /\ UNCHANGED <<captured, dropped, taken, lastTaken>>
    BY <1>2 DEF TrySend, InHand
  <2>2. queue' = Append(queue, captured)
    BY <1>2 DEF TrySend
  <2>3. captured \in 1..MaxPackets
    BY <1>2, <1>0 DEF TrySend, QueueInv, Bounded, TypeOK, WorkerType
  <2>4. /\ Len(queue') = Len(queue) + 1
        /\ \A m \in 1..Len(queue) : queue'[m] = queue[m]
        /\ queue'[Len(queue) + 1] = captured
    BY <1>0, <2>2, <2>3
  <2>5. \A m \in 1..Len(queue) : queue[m] \in Nat
    BY <1>0
  <2>6. \A m \in 1..Len(queue') :
          lastTaken' < queue'[m] /\ queue'[m] <= captured' - InHand'
    BY <1>0, <2>1, <2>4, <2>5 DEF AccountInv
  <2>7. \A m, n \in 1..Len(queue') : m < n => queue'[m] < queue'[n]
    <3> SUFFICES ASSUME NEW m \in 1..Len(queue'), NEW n \in 1..Len(queue'), m < n
                 PROVE  queue'[m] < queue'[n]
      OBVIOUS
    <3>1. m \in 1..Len(queue) /\ queue'[m] = queue[m]
      BY <1>0, <2>4
    <3>2. CASE n \in 1..Len(queue)
      <4>1. queue[m] < queue[n] /\ queue'[n] = queue[n]
        BY <2>4, <3>1, <3>2 DEF AccountInv
      <4> QED
        BY <3>1, <4>1
    <3>3. CASE n = Len(queue) + 1
      <4>1. queue[m] <= captured - 1 /\ queue[m] \in Nat
        BY <2>1, <2>5, <3>1 DEF AccountInv
      <4>2. queue'[n] = captured
        BY <2>4, <3>3
      <4>3. captured \in Nat
        BY <1>0
      <4> QED
        BY <3>1, <4>1, <4>2, <4>3
    <3>4. PICK len \in Nat : len = Len(queue) /\ n \in 1..(len + 1)
      BY <1>0, <2>4
    <3>5. n \in 1..len \/ n = len + 1
      BY <3>4
    <3> QED
      BY <3>2, <3>3, <3>4, <3>5
  <2> QED
    BY <1>0, <2>1, <2>4, <2>6, <2>7 DEF AccountInv
<1>3. CASE DropNewest
  <2>1. InHand = 1 /\ InHand' = 0 /\ dropped' = dropped + 1
    BY <1>3 DEF DropNewest, InHand
  <2>2. UNCHANGED <<queue, captured, taken, lastTaken>>
    BY <1>3 DEF DropNewest
  <2>3. \A m \in 1..Len(queue) : queue[m] \in Nat
    BY <1>0
  <2> QED
    BY <1>0, <2>1, <2>2, <2>3 DEF AccountInv
<1>4. CASE TakePacket
  <2>1. /\ queue # <<>> /\ queue' = Tail(queue)
        /\ taken' = taken + 1 /\ lastTaken' = queue[1]
        /\ UNCHANGED <<captured, dropped>> /\ InHand' = InHand
    BY <1>0, <1>4 DEF TakePacket, InHand
  <2>2. /\ Len(queue) > 0
        /\ Len(queue') = Len(queue) - 1
        /\ \A m \in 1..Len(queue') : queue'[m] = queue[m + 1]
    BY <1>0, <2>1
  <2>3. \A m \in 1..Len(queue) : queue[m] \in Nat
    BY <1>0
  <2>4. 1 \in 1..Len(queue) /\ \A m \in 1..Len(queue') : m + 1 \in 1..Len(queue)
    BY <1>0, <2>2
  <2>5. \A m \in 1..Len(queue') :
          lastTaken' < queue'[m] /\ queue'[m] <= captured' - InHand'
    BY <1>0, <2>1, <2>2, <2>3, <2>4 DEF AccountInv
  <2>6. \A m, n \in 1..Len(queue') : m < n => queue'[m] < queue'[n]
    <3> SUFFICES ASSUME NEW m \in 1..Len(queue'), NEW n \in 1..Len(queue'), m < n
                 PROVE  queue'[m] < queue'[n]
      OBVIOUS
    <3>1. m + 1 \in 1..Len(queue) /\ n + 1 \in 1..Len(queue) /\ m + 1 < n + 1
      BY <1>0, <2>2
    <3>2. queue[m + 1] < queue[n + 1]
      BY <3>1 DEF AccountInv
    <3> QED
      BY <2>2, <3>2
  <2> QED
    BY <1>0, <2>1, <2>2, <2>4, <2>5, <2>6 DEF AccountInv
<1>5. CASE UNCHANGED <<queue, captured, dropped, taken, lastTaken>> /\ InHand' = InHand
  BY <1>5 DEF AccountInv
<1> DEFINE Same == UNCHANGED <<queue, captured, dropped, taken, lastTaken>> /\ InHand' = InHand
<1>6. /\ StartBurst \/ CommitSlot \/ NotifyRelay \/ CaptureFails \/ NotifyFailure => Same
      /\ EndBurst \/ WorkerCommand \/ WorkerWoken \/ PollTimeout => Same
      /\ TrySend => Len(queue) < Capacity \/ Same
  BY DEF StartBurst, TrySend, CommitSlot, NotifyRelay, CaptureFails, NotifyFailure, EndBurst,
     WorkerCommand, WorkerWoken, HandleCommand, PollTimeout, InHand
<1>7. /\ CallReconcile \/ ReceiveReply \/ CheckShutdown \/ StartDrain \/ RecordDequeued => Same
      /\ QueueEmpty \/ BudgetExhausted \/ TakeSnapshot \/ Decide \/ Wake => Same
  BY DEF CallReconcile, ReceiveReply, CheckShutdown, StartDrain, RecordDequeued, QueueEmpty,
     BudgetExhausted, TakeSnapshot, Decide, Wake, InHand
<1>8. /\ SendShutdown \/ ReceiveStopReply \/ Join \/ LoopFails \/ WakeOtherwise => Same
      /\ RequestShutdown \/ NotifyShutdown \/ UNCHANGED vars => Same
  BY DEF SendShutdown, ReceiveStopReply, Join, LoopFails, WakeOtherwise, RequestShutdown,
     NotifyShutdown, vars, InHand
<1> HIDE DEF Same
<1>9. Capture \/ (TrySend /\ Len(queue) < Capacity) \/ DropNewest \/ TakePacket \/ Same
  BY Steps, <1>6, <1>7, <1>8
<1> QED
  BY <1>1, <1>2, <1>3, <1>4, <1>5, <1>9 DEF Same

(* No captured packet is lost without being counted as a drop, and the relay *)
(* takes packets in the order of their capture.                              *)
THEOREM AccountingInvariant == Spec => []PacketsAccounted
<1>1. Init => AccountInv
  BY DEF Init, AccountInv, InHand
<1>2. QueueInv /\ AccountInv => PacketsAccounted
  <2> SUFFICES ASSUME QueueInv, AccountInv PROVE PacketsAccounted
    OBVIOUS
  <2>1. queue # <<>> => 1 \in 1..Len(queue) /\ Head(queue) = queue[1]
    BY DEF QueueInv, TypeOK, SharedType
  <2> QED
    BY <2>1 DEF AccountInv, PacketsAccounted
<1> QED
  BY <1>1, <1>2, QueueInit, QueueStep, AccountStep, PTL DEF Spec

(* Both counters of the queue are right, at every step of either thread       *)
(* (reserve_queue_slot, commit_queue_slot, record_dequeued).                  *)
THEOREM QueueIsCounted == Spec => []QueueCounted
<1>1. DepthExact /\ HighWaterBounded => QueueCounted
  BY DEF QueueCounted
<1>. QED  BY <1>1, DepthInvariant, HighWaterInvariant, PTL

(* Subscriptions change at the relay's word only, and a clean end leaves none *)
(* (handle_command, WorkerHandle::stop).                                      *)
THEOREM SubscriptionsAreOwned == Spec => SubscriptionsOwned
  BY ShutdownIsClean, ReconcileIsSynchronous, PTL DEF SubscriptionsOwned
=============================================================================
