--------------------------- MODULE UpstreamWorker ---------------------------
(***************************************************************************)
(* The relay thread and the upstream capture worker: upstream_worker.rs    *)
(* and the loop of daemon::run_relay as far as it uses the worker.  The    *)
(* threads share the bounded packet queue, its depth counter, the failure  *)
(* slot, the command channel and the poller's notification flag.  Every    *)
(* step touches shared state at most once in a way the other thread can    *)
(* see; what a thread does alone is part of such a step.                   *)
(*                                                                         *)
(* Packets are numbered in the order of their capture.  The channels are   *)
(* closed by the worker's exit only: the relay joins the thread before it  *)
(* drops its own ends, so the worker never sees a disconnect.              *)
(***************************************************************************)
EXTENDS Integers, Sequences

CONSTANTS Subscription, \* native subscriptions
          Capacity,     \* UPSTREAM_PACKET_QUEUE_CAPACITY
          Burst,        \* MAX_CAPTURE_BURST
          DrainLimit,   \* MAX_RELAY_DATA_DRAIN
          MaxCalls,     \* reconciles in one pass: MAX_CONTROL_DRAIN and the prune
          MaxPackets,   \* bound: packets that arrive
          NotifyFails   \* may Poller::notify fail?

ASSUME BoundsAssumption ==
         /\ Capacity \in Nat \ {0}
         /\ Burst \in Nat \ {0}
         /\ DrainLimit \in Nat \ {0}
         /\ MaxCalls \in Nat
         /\ MaxPackets \in Nat
         /\ NotifyFails \in BOOLEAN

VARIABLES
  queue,         \* the packet channel
  depth,         \* counters.queue_depth
  highWater,     \* counters.queue_high_water
  notified,      \* a notification is pending in the poller
  failure,       \* has a failure been recorded?
  commands,      \* the command channel
  reply,         \* the response channel of the call in progress
  signal,        \* ShutdownSignal: none, requested, or requested and notified
  rpc,           \* where the relay thread is
  calls,         \* reconciles called in this pass
  asked,         \* the subscriptions last asked for
  drained,       \* RelayWorkBudget.packets
  busy,          \* is another pass due without waiting?
  result,        \* how run_relay ends
  wpc,           \* where the worker is
  handled,       \* handled_command
  received,      \* packets in this burst
  wasEmpty,      \* what reserve_queue_slot returned
  reservedDepth,
  active,        \* UpstreamManager.active
  stuck,         \* active subscriptions whose leave failed in the last reconcile
  captured,      \* counters.accepted_packets
  dropped,       \* counters.queue_drops
  taken,         \* packets the relay has taken off the queue
  lastTaken      \* the last of them

shared == <<queue, depth, highWater, notified, failure, commands, reply, signal>>
relayVars == <<rpc, calls, asked, drained, busy, result, taken, lastTaken>>
burstVars == <<handled, received, wasEmpty, reservedDepth>>
workerVars == <<wpc, burstVars, active, stuck, captured, dropped>>
vars == <<shared, relayVars, workerVars>>

Command == [shutdown : BOOLEAN, subscriptions : SUBSET Subscription]

SharedType ==
  /\ queue \in Seq(1..MaxPackets)
  /\ depth \in Nat /\ highWater \in Nat
  /\ commands \in Seq(Command)
  /\ reply \in {"none", "ok", "error"}
  /\ signal \in {"none", "requested", "notified"}

RelayType ==
  /\ rpc \in {"top", "control", "reply", "drain", "taken", "snapshot", "decide", "wait",
              "stop", "stopReply", "join", "returned"}
  /\ calls \in 0..MaxCalls
  /\ asked \subseteq Subscription
  /\ drained \in 0..DrainLimit
  /\ result \in {"running", "ok", "error"}
  /\ taken \in Nat /\ lastTaken \in 0..MaxPackets

WorkerType ==
  /\ wpc \in {"commands", "capture", "reserved", "full", "sent", "notify", "block",
              "failed", "exited"}
  /\ received \in 0..Burst
  /\ reservedDepth \in Nat
  /\ active \subseteq Subscription /\ stuck \subseteq Subscription
  /\ captured \in 0..MaxPackets /\ dropped \in Nat

FlagType ==
  /\ notified \in BOOLEAN /\ failure \in BOOLEAN
  /\ busy \in BOOLEAN
  /\ handled \in BOOLEAN /\ wasEmpty \in BOOLEAN

TypeOK == SharedType /\ RelayType /\ WorkerType /\ FlagType

(* spawn_worker, and run_relay up to its loop. *)
Init ==
  /\ queue = <<>> /\ depth = 0 /\ highWater = 0
  /\ notified = FALSE /\ failure = FALSE
  /\ commands = <<>> /\ reply = "none" /\ signal = "none"
  /\ rpc = "top" /\ calls = 0 /\ asked = {} /\ drained = 0 /\ busy = FALSE
  /\ result = "running"
  /\ wpc = "commands" /\ handled = FALSE /\ received = 0
  /\ wasEmpty = FALSE /\ reservedDepth = 0
  /\ active = {} /\ stuck = {}
  /\ captured = 0 /\ dropped = 0 /\ taken = 0 /\ lastTaken = 0
-----------------------------------------------------------------------------
(* The worker.                                                             *)

Exited == wpc = "exited"

(* UpstreamManager::reconcile: all missing subscriptions are joined or none; *)
(* then the stale ones are left, except those whose leave fails.             *)
Reconcile(desired) ==
  \/ /\ desired \ active # {}
     /\ reply' = "error"
     /\ UNCHANGED <<active, stuck>>
  \/ \E failed \in SUBSET (active \ desired) :
       /\ reply' = "ok"
       /\ active' = desired \cup failed
       /\ stuck' = failed

(* handle_command: a Shutdown is a reconcile with nothing, and the last. *)
HandleCommand ==
  LET command == Head(commands)
  IN  /\ commands # <<>>
      /\ commands' = Tail(commands)
      /\ Reconcile(command.subscriptions)
      /\ wpc' = IF command.shutdown THEN "exited" ELSE "commands"

(* The top of the worker's loop: all waiting commands, then a burst. *)
WorkerCommand ==
  /\ wpc = "commands"
  /\ HandleCommand
  /\ handled' = TRUE
  /\ UNCHANGED <<queue, depth, highWater, notified, failure, signal, relayVars,
                 received, wasEmpty, reservedDepth, captured, dropped>>

StartBurst ==
  /\ wpc = "commands" /\ commands = <<>>
  /\ wpc' = "capture"
  /\ received' = 0
  /\ UNCHANGED <<shared, relayVars, handled, wasEmpty, reservedDepth,
                 active, stuck, captured, dropped>>

(* A packet is received and a queue slot reserved for it. *)
Capture ==
  /\ wpc = "capture" /\ received < Burst
  /\ active # {} /\ captured < MaxPackets
  /\ captured' = captured + 1
  /\ received' = received + 1
  /\ wasEmpty' = (depth = 0)
  /\ reservedDepth' = depth + 1
  /\ depth' = depth + 1
  /\ wpc' = "reserved"
  /\ UNCHANGED <<queue, highWater, notified, failure, commands, reply, signal, relayVars,
                 handled, active, stuck, dropped>>

TrySend ==
  /\ wpc = "reserved"
  /\ IF Len(queue) < Capacity
     THEN queue' = Append(queue, captured) /\ wpc' = "sent"
     ELSE wpc' = "full" /\ UNCHANGED queue
  /\ UNCHANGED <<depth, highWater, notified, failure, commands, reply, signal, relayVars,
                 burstVars, active, stuck, captured, dropped>>

(* Mutant: the slot of a packet that did not fit stays reserved. *)
DropNewestKeepsSlot ==
  /\ wpc = "full"
  /\ dropped' = dropped + 1
  /\ wpc' = "capture"
  /\ UNCHANGED <<queue, depth, highWater, notified, failure, commands, reply, signal,
                 relayVars, burstVars, active, stuck, captured>>

(* Mutant: the drop is not counted. *)
DropNewestUncounted ==
  /\ wpc = "full"
  /\ depth' = depth - 1
  /\ wpc' = "capture"
  /\ UNCHANGED <<queue, highWater, notified, failure, commands, reply, signal,
                 relayVars, burstVars, active, stuck, captured, dropped>>

(* The queue is full: the slot is released, the drop counted. *)
DropNewest ==
  /\ wpc = "full"
  /\ depth' = depth - 1
  /\ dropped' = dropped + 1
  /\ wpc' = "capture"
  /\ UNCHANGED <<queue, highWater, notified, failure, commands, reply, signal,
                 relayVars, burstVars, active, stuck, captured>>

(* commit_queue_slot. *)
CommitSlot ==
  LET seen == IF reservedDepth < depth THEN reservedDepth ELSE depth
  IN  /\ wpc = "sent"
      /\ highWater' = IF highWater < seen THEN seen ELSE highWater
      /\ wpc' = IF wasEmpty THEN "notify" ELSE "capture"
      /\ UNCHANGED <<queue, depth, notified, failure, commands, reply, signal, relayVars,
                     burstVars, active, stuck, captured, dropped>>

(* Mutant: the first packet wakes nobody. *)
NotifyRelaySilent ==
  /\ wpc = "notify"
  /\ wpc' = "capture"
  /\ UNCHANGED <<shared, relayVars, burstVars, active, stuck, captured, dropped>>

(* The first packet of an empty queue wakes the relay.  If that fails, the   *)
(* failure is recorded and the thread ends.                                  *)
NotifyRelay ==
  /\ wpc = "notify"
  /\ \/ notified' = TRUE /\ wpc' = "capture" /\ UNCHANGED failure
     \/ /\ NotifyFails
        /\ failure' = TRUE /\ wpc' = "exited" /\ UNCHANGED notified
  /\ UNCHANGED <<queue, depth, highWater, commands, reply, signal, relayVars,
                 burstVars, active, stuck, captured, dropped>>

(* Receiving fails: the failure is recorded, the relay woken, the thread     *)
(* ends.                                                                     *)
CaptureFails ==
  /\ wpc = "capture" /\ received < Burst
  /\ active # {}
  /\ failure' = TRUE
  /\ wpc' = "failed"
  /\ UNCHANGED <<queue, depth, highWater, notified, commands, reply, signal, relayVars,
                 burstVars, active, stuck, captured, dropped>>

(* Mutant: nobody is told of the failure. *)
NotifyFailureSilent ==
  /\ wpc = "failed"
  /\ wpc' = "exited"
  /\ UNCHANGED <<shared, relayVars, burstVars, active, stuck, captured, dropped>>

NotifyFailure ==
  /\ wpc = "failed"
  /\ notified' = TRUE \/ (NotifyFails /\ UNCHANGED notified)
  /\ wpc' = "exited"
  /\ UNCHANGED <<queue, depth, highWater, failure, commands, reply, signal, relayVars,
                 burstVars, active, stuck, captured, dropped>>

(* Nothing to receive, the burst or its millisecond used up.  After a burst  *)
(* or a command the loop starts over, otherwise the worker waits.            *)
EndBurst ==
  /\ wpc = "capture"
  /\ wpc' = IF received # 0 \/ handled THEN "commands" ELSE "block"
  /\ handled' = FALSE
  /\ UNCHANGED <<shared, relayVars, received, wasEmpty, reservedDepth,
                 active, stuck, captured, dropped>>

(* Waiting for a command, with a timeout only if there is something to poll. *)
WorkerWoken ==
  /\ wpc = "block"
  /\ HandleCommand
  /\ UNCHANGED <<queue, depth, highWater, notified, failure, signal, relayVars,
                 burstVars, captured, dropped>>

PollTimeout ==
  /\ wpc = "block"
  /\ active # {}
  /\ wpc' = "commands"
  /\ UNCHANGED <<shared, relayVars, burstVars, active, stuck, captured, dropped>>
-----------------------------------------------------------------------------
(* The relay.                                                              *)

(* The loop ends: the worker is stopped, whatever the reason. *)
Leave(outcome) == rpc' = "stop" /\ result' = outcome

(* Mutant: the relay does not wait for the answer. *)
CallReconcileAsync ==
  /\ rpc = "control" /\ calls < MaxCalls
  /\ calls' = calls + 1
  /\ \E desired \in SUBSET Subscription :
       IF failure \/ Exited
       THEN UNCHANGED <<rpc, asked, commands, reply>>
       ELSE /\ asked' = desired
            /\ commands' = Append(commands, [shutdown |-> FALSE, subscriptions |-> desired])
            /\ UNCHANGED <<rpc, reply>>
  /\ UNCHANGED <<queue, depth, highWater, notified, failure, signal,
                 drained, busy, result, taken, lastTaken, workerVars>>

(* WorkerHandle::reconcile, called for a datagram or a prune.  A failure is  *)
(* reported to the caller, which carries on.                                 *)
CallReconcile ==
  /\ rpc = "control" /\ calls < MaxCalls
  /\ calls' = calls + 1
  /\ \E desired \in SUBSET Subscription :
       IF failure \/ Exited
       THEN UNCHANGED <<rpc, asked, commands, reply>>
       ELSE /\ asked' = desired
            /\ commands' = Append(commands, [shutdown |-> FALSE, subscriptions |-> desired])
            /\ reply' = "none"
            /\ rpc' = "reply"
  /\ UNCHANGED <<queue, depth, highWater, notified, failure, signal,
                 drained, busy, result, taken, lastTaken, workerVars>>

(* The answer, or the news that the worker is gone and the command with it. *)
ReceiveReply ==
  /\ rpc = "reply"
  /\ reply # "none" \/ Exited
  /\ rpc' = "control"
  /\ UNCHANGED <<shared, calls, asked, drained, busy, result, taken, lastTaken, workerVars>>

(* The top of the loop: shutdown.requested(). *)
CheckShutdown ==
  /\ rpc = "top"
  /\ IF signal # "none" THEN Leave("ok") ELSE rpc' = "control" /\ UNCHANGED result
  /\ calls' = 0
  /\ UNCHANGED <<shared, asked, drained, busy, taken, lastTaken, workerVars>>

(* Errors of the tunnel socket and of the poller end the loop. *)
LoopFails ==
  /\ rpc \in {"control", "wait"}
  /\ Leave("error")
  /\ UNCHANGED <<shared, calls, asked, drained, busy, taken, lastTaken, workerVars>>

(* check_failure, then the packets. *)
StartDrain ==
  /\ rpc = "control"
  /\ IF failure THEN Leave("error") ELSE rpc' = "drain" /\ UNCHANGED result
  /\ drained' = 0
  /\ UNCHANGED <<shared, calls, asked, busy, taken, lastTaken, workerVars>>

(* WorkerHandle::try_recv returns a packet. *)
TakePacket ==
  /\ rpc = "drain" /\ drained < DrainLimit
  /\ queue # <<>>
  /\ queue' = Tail(queue)
  /\ taken' = taken + 1
  /\ lastTaken' = Head(queue)
  /\ rpc' = "taken"
  /\ UNCHANGED <<depth, highWater, notified, failure, commands, reply, signal,
                 calls, asked, drained, busy, result, workerVars>>

(* record_dequeued, and the packet is forwarded. *)
RecordDequeued ==
  /\ rpc = "taken"
  /\ depth' = depth - 1
  /\ drained' = drained + 1
  /\ rpc' = "drain"
  /\ UNCHANGED <<queue, highWater, notified, failure, commands, reply, signal,
                 calls, asked, busy, result, taken, lastTaken, workerVars>>

(* No packet: the drain is over, or the worker is. *)
QueueEmpty ==
  /\ rpc = "drain" /\ drained < DrainLimit
  /\ queue = <<>>
  /\ IF failure \/ Exited THEN Leave("error") ELSE rpc' = "snapshot" /\ UNCHANGED result
  /\ busy' = FALSE
  /\ UNCHANGED <<shared, calls, asked, drained, taken, lastTaken, workerVars>>

(* The budget is used up: the packets, or the two milliseconds after the     *)
(* first packet.                                                             *)
BudgetExhausted ==
  /\ rpc = "drain" /\ drained # 0
  /\ busy' = TRUE
  /\ rpc' = "snapshot"
  /\ UNCHANGED <<shared, calls, asked, drained, result, taken, lastTaken, workerVars>>

(* Mutant: the queue's depth does not keep the relay from waiting. *)
TakeSnapshotIgnored ==
  /\ rpc = "snapshot"
  /\ busy' \in {busy, TRUE}
  /\ rpc' = "decide"
  /\ UNCHANGED <<shared, calls, asked, drained, result, taken, lastTaken, workerVars>>

(* snapshot().  A pass that used up its control budget is busy too. *)
TakeSnapshot ==
  /\ rpc = "snapshot"
  /\ busy' \in {busy \/ depth # 0, TRUE}
  /\ rpc' = "decide"
  /\ UNCHANGED <<shared, calls, asked, drained, result, taken, lastTaken, workerVars>>

(* check_failure again; then another pass, or Poller::wait. *)
Decide ==
  /\ rpc = "decide"
  /\ IF failure THEN Leave("error")
     ELSE rpc' = (IF busy THEN "top" ELSE "wait") /\ UNCHANGED result
  /\ UNCHANGED <<shared, calls, asked, drained, busy, taken, lastTaken, workerVars>>

(* Poller::wait returns for a notification, which it consumes, ... *)
Wake ==
  /\ rpc = "wait" /\ notified
  /\ notified' = FALSE
  /\ rpc' = "top"
  /\ UNCHANGED <<queue, depth, highWater, failure, commands, reply, signal,
                 calls, asked, drained, busy, result, taken, lastTaken, workerVars>>

(* ... or for a datagram or its timeout. *)
WakeOtherwise ==
  /\ rpc = "wait" /\ ~notified
  /\ rpc' = "top"
  /\ UNCHANGED <<shared, calls, asked, drained, busy, result, taken, lastTaken, workerVars>>

(* WorkerHandle::stop. *)
SendShutdown ==
  /\ rpc = "stop"
  /\ IF Exited THEN rpc' = "join" /\ UNCHANGED <<asked, commands, reply>>
     ELSE /\ asked' = {}
          /\ commands' = Append(commands, [shutdown |-> TRUE, subscriptions |-> {}])
          /\ reply' = "none"
          /\ rpc' = "stopReply"
  /\ UNCHANGED <<queue, depth, highWater, notified, failure, signal,
                 calls, drained, busy, result, taken, lastTaken, workerVars>>

ReceiveStopReply ==
  /\ rpc = "stopReply"
  /\ reply # "none" \/ Exited
  /\ rpc' = "join"
  /\ result' = IF reply = "ok" THEN result ELSE "error"
  /\ UNCHANGED <<shared, calls, asked, drained, busy, taken, lastTaken, workerVars>>

Join ==
  /\ rpc = "join"
  /\ Exited
  /\ rpc' = "returned"
  /\ result' = IF failure THEN "error" ELSE result
  /\ UNCHANGED <<shared, calls, asked, drained, busy, taken, lastTaken, workerVars>>
-----------------------------------------------------------------------------
(* The signal handler. *)

RequestShutdown ==
  /\ signal = "none"
  /\ signal' = "requested"
  /\ UNCHANGED <<queue, depth, highWater, notified, failure, commands, reply,
                 relayVars, workerVars>>

NotifyShutdown ==
  /\ signal = "requested"
  /\ signal' = "notified"
  /\ notified' = TRUE \/ (NotifyFails /\ UNCHANGED notified)
  /\ UNCHANGED <<queue, depth, highWater, failure, commands, reply, relayVars, workerVars>>
-----------------------------------------------------------------------------
WorkerThread ==
  \/ WorkerCommand \/ StartBurst \/ Capture \/ TrySend \/ DropNewest \/ CommitSlot
  \/ NotifyRelay \/ CaptureFails \/ NotifyFailure \/ EndBurst \/ WorkerWoken \/ PollTimeout

RelayThread ==
  \/ CallReconcile \/ ReceiveReply \/ CheckShutdown \/ StartDrain \/ TakePacket
  \/ RecordDequeued \/ QueueEmpty \/ BudgetExhausted \/ TakeSnapshot \/ Decide \/ Wake
  \/ SendShutdown \/ ReceiveStopReply \/ Join

Returned == rpc = "returned" /\ UNCHANGED vars

Next ==
  \/ WorkerThread \/ RelayThread
  \/ LoopFails \/ WakeOtherwise
  \/ RequestShutdown \/ NotifyShutdown
  \/ Returned

Spec == Init /\ [][Next]_vars

(* Both threads and the signal handler are scheduled.  Nothing is assumed of *)
(* the timeout of Poller::wait, or of datagrams.                             *)
FairSpec == Spec /\ WF_vars(WorkerThread) /\ WF_vars(RelayThread) /\ WF_vars(NotifyShutdown)
-----------------------------------------------------------------------------
(* Properties.                                                             *)

(* The packet, if any, that the worker has yet to queue or drop, and the one *)
(* that the relay has yet to count.                                          *)
InHand == IF wpc \in {"reserved", "full"} THEN 1 ELSE 0
Uncounted == IF rpc = "taken" THEN 1 ELSE 0

(* The depth counter is the queue's length, but for the slot the worker has  *)
(* reserved and not yet filled or released and the packet the relay has      *)
(* taken and not yet counted: it never underflows, and is 0 only when there  *)
(* is nothing to take (reserve_queue_slot, release_queue_slot and            *)
(* record_dequeued, with their debug assertions).                            *)
DepthExact ==
  depth = Len(queue) + InHand + Uncounted

(* The high-water mark exceeds the queue's capacity by one at most, though    *)
(* it is taken from two readings of the depth: by the packet that the relay   *)
(* has taken and not yet counted (commit_queue_slot).                         *)
HighWaterBounded == highWater <= Capacity + 1

(* The relay never sleeps on a packet: whenever it is waiting and the queue  *)
(* is not empty, a notification is pending or on its way, unless notifying   *)
(* has failed and was recorded (run_worker, run_relay).                      *)
NoLostWakeup ==
  rpc = "wait" /\ queue # <<>> =>
    notified \/ failure \/ (wasEmpty /\ wpc \in {"sent", "notify"})

(* Every captured packet is queued, taken, in hand or counted as dropped,    *)
(* and packets are taken in the order of their capture.                      *)
PacketsAccounted ==
  /\ captured = taken + dropped + Len(queue) + InHand
  /\ \A m, n \in 1..Len(queue) : m < n => queue[m] < queue[n]
  /\ queue # <<>> => lastTaken < Head(queue)

(* The native subscriptions only change while the relay waits for exactly    *)
(* that, so that to the relay thread a reconcile is one step ("joins, leaves *)
(* and capture cannot race").                                                *)
ReconcileSynchronous ==
  [][active' # active =>
       rpc \in {"reply", "stopReply"} /\ asked \subseteq active' /\ active' = asked \cup stuck']_vars

(* When run_relay returns without an error, no subscription is left but      *)
(* those whose leave failed, and the thread is gone (WorkerHandle::stop).    *)
CleanShutdown ==
  rpc = "returned" => Exited /\ (result = "ok" => active = stuck /\ ~failure)

(* A queued packet is taken, unless the relay ends: the wakeup for a queue   *)
(* that was empty is enough, no timer is needed.                             *)
PacketsDrained ==
  \A p \in 1..MaxPackets :
    (\E n \in 1..Len(queue) : queue[n] = p) ~>
      (lastTaken >= p \/ rpc \in {"stop", "stopReply", "join", "returned"})

(* A failed worker ends the relay, though the relay may be asleep, or        *)
(* waiting for an answer that will not come (receive_failure_is_propagated_  *)
(* and_wakes_the_relay tests the first half).                                *)
FailureEndsRelay == failure ~> rpc = "returned"

(* A shutdown request ends the relay, whatever both threads are doing.       *)
ShutdownEndsRelay == (signal # "none") ~> rpc = "returned"

(* The two counters of the queue say how full it is, whatever the threads do  *)
(* between reading and writing them (QueueStats).                             *)
QueueCounted == DepthExact /\ HighWaterBounded

(* The subscriptions belong to the worker: they change at the relay's word    *)
(* and no other time, and a clean end leaves none (handle_command, stop).     *)
SubscriptionsOwned == []CleanShutdown /\ ReconcileSynchronous

(* Whatever ends the relay, it does end: a failure of the worker, or a        *)
(* request to shut down, at any moment (run_relay).                           *)
RelayEnds == FailureEndsRelay /\ ShutdownEndsRelay
=============================================================================
