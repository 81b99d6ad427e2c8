------------------------- MODULE DriadGatewayProofs -------------------------
(***************************************************************************)
(* The tunnels of the DRIAD gateway, the pool of lookup threads and the    *)
(* ownership of their answers, for any number of sources, tunnels, workers *)
(* and threads.                                                            *)
(***************************************************************************)
EXTENDS DriadGateway, WellFoundedInduction, FiniteSetTheorems, TLAPS

Stage == {"none", "resolving", "sent", "dropped"}

ThreadType == thread \in [Thread -> [stage : Stage, source : Nat, age : Nat]]

Holding == {t \in Thread : thread[t].stage \in {"resolving", "sent"}}

(* Inductive: the threads that hold a permit are counted, and no more of them. *)
PoolInv == ThreadType /\ PoolExact

(* The types of the threads at the start, and the pool is empty. *)
LEMMA PoolInit == Init => PoolInv
<1>. SUFFICES ASSUME Init PROVE PoolInv
  OBVIOUS
<1>1. ThreadType
  BY DEF Init, ThreadType, NoThread, Stage
<1>2. {t \in Thread : thread[t].stage \in {"resolving", "sent"}} = {}
  BY DEF Init, NoThread
<1>3. Cardinality({}) = 0
  BY FS_EmptySet
<1>4. active = 0
  BY DEF Init
<1>5. active = Cardinality({t \in Thread : thread[t].stage \in {"resolving", "sent"}})
  BY <1>2, <1>3, <1>4
<1>6. active <= MaxWorkers
  BY <1>4, PoolAssumption
<1>. QED  BY <1>1, <1>5, <1>6 DEF PoolInv, PoolExact

(* A step that leaves the threads' stages and the count alone keeps it. *)
LEMMA PoolSame ==
  ASSUME PoolInv, ThreadType', active' = active,
         \A t \in Thread : thread'[t].stage = thread[t].stage
  PROVE  PoolInv'
<1>1. {t \in Thread : thread[t].stage \in {"resolving", "sent"}}'
        = {t \in Thread : thread[t].stage \in {"resolving", "sent"}}
  OBVIOUS
<1>. QED  BY <1>1 DEF PoolInv, PoolExact

(* PollStart takes a permit for a thread that held none. *)
LEMMA PoolStart ==
  ASSUME PoolInv, NEW s \in Source, PollStart(s)
  PROVE  PoolInv'
<1>1. PICK t \in Thread :
        /\ thread[t].stage = "none"
        /\ thread' = [thread EXCEPT ![t] = [stage |-> "resolving", source |-> s, age |-> 0]]
  BY DEF PollStart
<1>2. ThreadType'
  BY <1>1, PoolAssumption DEF PoolInv, ThreadType, Stage, Source
<1>3. Holding' = Holding \cup {t} /\ t \notin Holding
  BY <1>1 DEF PoolInv, ThreadType, Holding
<1>4. IsFiniteSet(Holding)
  BY PoolAssumption, FS_Subset DEF Holding
<1>5. Cardinality(Holding') = Cardinality(Holding) + 1
  BY <1>3, <1>4, FS_AddElement
<1>6. active = Cardinality(Holding) /\ Cardinality(Holding) \in Nat
  BY <1>4, FS_CardinalityType DEF PoolInv, PoolExact, Holding
<1>7. active' = active + 1 /\ active < MaxWorkers
  BY DEF PollStart
<1>8. active' = Cardinality(Holding') /\ active' <= MaxWorkers
  BY <1>5, <1>6, <1>7, PoolAssumption
<1>. QED  BY <1>2, <1>8 DEF PoolInv, PoolExact, Holding

(* A thread that held a permit, and does not any more, has returned it. *)
LEMMA PoolRelease ==
  ASSUME PoolInv, NEW t \in Thread, t \in Holding, ThreadType',
         Holding' = Holding \ {t}, active' = active - 1
  PROVE  PoolInv'
<1>1. IsFiniteSet(Holding)
  BY PoolAssumption, FS_Subset DEF Holding
<1>2. Cardinality(Holding') = Cardinality(Holding) - 1
  BY <1>1, FS_RemoveElement
<1>3. active = Cardinality(Holding) /\ Cardinality(Holding) \in Nat /\ active <= MaxWorkers
  BY <1>1, FS_CardinalityType DEF PoolInv, PoolExact, Holding
<1>4. active' = Cardinality(Holding') /\ active' <= MaxWorkers
  BY <1>2, <1>3, PoolAssumption
<1>. QED  BY <1>4 DEF PoolInv, PoolExact, Holding

(* The steps of a lookup thread: sending keeps the permit, stopping and        *)
(* exiting return it once (DriadWorkerPermit::drop).                           *)
LEMMA PoolThread ==
  ASSUME PoolInv, NEW t \in Thread, ThreadStep(t)
  PROVE  PoolInv'
<1>0. ThreadType
  BY DEF PoolInv
<1>1. CASE Send(t)
  <2>1. thread' = [thread EXCEPT ![t].stage = "sent"] /\ thread[t].stage = "resolving" /\ active' = active
    BY <1>1 DEF Send
  <2>2. ThreadType'
    BY <1>0, <2>1 DEF ThreadType, Stage
  <2>3. {u \in Thread : thread[u].stage \in {"resolving", "sent"}}'
          = {u \in Thread : thread[u].stage \in {"resolving", "sent"}}
    BY <1>0, <2>1 DEF ThreadType
  <2>. QED  BY <2>1, <2>2, <2>3 DEF PoolInv, PoolExact
<1>2. CASE Stop(t)
  <2>1. thread' = [thread EXCEPT ![t].stage = "dropped"] /\ thread[t].stage = "resolving" /\ active' = active - 1
    BY <1>2 DEF Stop
  <2>2. ThreadType'
    BY <1>0, <2>1 DEF ThreadType, Stage
  <2>3. t \in Holding /\ Holding' = Holding \ {t}
    BY <1>0, <2>1 DEF ThreadType, Holding
  <2>. QED  BY <2>1, <2>2, <2>3, PoolRelease
<1>3. CASE Exit(t)
  <2>1. thread' = [thread EXCEPT ![t] = NoThread]
    BY <1>3 DEF Exit
  <2>2. ThreadType'
    BY <1>0, <2>1 DEF ThreadType, Stage, NoThread
  <2>3. CASE thread[t].stage = "sent"
    <3>1. active' = active - 1
      BY <1>3, <2>3 DEF Exit
    <3>2. t \in Holding /\ Holding' = Holding \ {t}
      BY <1>0, <2>1, <2>3 DEF ThreadType, Holding, NoThread
    <3>. QED  BY <2>2, <3>1, <3>2, PoolRelease
  <2>4. CASE thread[t].stage = "dropped"
    <3>1. active' = active
      BY <1>3, <2>4 DEF Exit
    <3>2. {u \in Thread : thread[u].stage \in {"resolving", "sent"}}'
            = {u \in Thread : thread[u].stage \in {"resolving", "sent"}}
      BY <1>0, <2>1, <2>4 DEF ThreadType, NoThread
    <3>. QED  BY <2>2, <3>1, <3>2 DEF PoolInv, PoolExact
  <2>. QED  BY <1>3, <2>3, <2>4 DEF Exit
<1>. QED  BY <1>1, <1>2, <1>3 DEF ThreadStep

(* Time makes threads older and changes no stage. *)
LEMMA PoolTick == PoolInv /\ Tick => PoolInv'
<1>. SUFFICES ASSUME PoolInv, Tick PROVE PoolInv'
  OBVIOUS
<1>1. /\ thread' = [t \in Thread |-> IF thread[t].stage = "none" THEN NoThread
                                     ELSE [thread[t] EXCEPT !.age = @ + 1]]
      /\ active' = active
  BY DEF Tick
<1>2. ThreadType
  BY DEF PoolInv
<1>3. ThreadType'
  BY <1>1, <1>2 DEF ThreadType, NoThread, Stage
<1>4. \A t \in Thread : thread'[t].stage = thread[t].stage
  BY <1>1, <1>2 DEF ThreadType, NoThread
<1>. QED  BY <1>1, <1>3, <1>4, PoolSame

(* However lookups fail, stop or outlive their tunnels, the pool counts the    *)
(* threads that hold a permit, and they are never more than max_dns_workers    *)
(* (DriadWorkerPool).                                                          *)
THEOREM PoolKept == Spec => []PoolExact
<1>1. Init => PoolInv
  BY PoolInit
<1>2. PoolInv /\ [Next]_vars => PoolInv'
  <2>. SUFFICES ASSUME PoolInv, [Next]_vars PROVE PoolInv'
    OBVIOUS
  <2>1. CASE UNCHANGED <<thread, active>>
    <3>1. ThreadType' /\ active' = active /\ \A t \in Thread : thread'[t].stage = thread[t].stage
      BY <2>1 DEF PoolInv, ThreadType
    <3>. QED  BY <3>1, PoolSame
  <2>2. CASE Tick
    BY <2>2, PoolTick
  <2>3. ASSUME NEW s \in Source, Poll(s) PROVE PoolInv'
    <3>1. CASE PollStart(s)
      BY <3>1, PoolStart
    <3>2. CASE PassBy(s) \/ PollPending(s) \/ PollIdle(s) \/ PollSpawnFails(s)
      BY <3>2, <2>1 DEF PassBy, PollPending, PollIdle, PollSpawnFails
    <3>. QED  BY <2>3, <3>1, <3>2 DEF Poll
  <2>4. ASSUME NEW t \in Thread, ThreadStep(t) PROVE PoolInv'
    BY <2>4, PoolThread
  <2>5. CASE LoopTop \/ Shutdown \/ Finished \/ UNCHANGED vars
    BY <2>5, <2>1 DEF LoopTop, Shutdown, Finished, vars
  <2>. QED  BY <2>2, <2>3, <2>4, <2>5 DEF Next
<1>3. PoolInv => PoolExact
  BY DEF PoolInv
<1>. QED  BY <1>1, <1>2, <1>3, PTL DEF Spec
-----------------------------------------------------------------------------
(* Whose lookup a tunnel waits on.                                         *)

IsTunnel(u) ==
  /\ u = [report |-> u.report, next |-> u.next, pending |-> u.pending]
  /\ u.pending \subseteq Thread

TunnelType ==
  /\ tunnels = [s \in DOMAIN tunnels |-> tunnels[s]]
  /\ \A s \in DOMAIN tunnels : IsTunnel(tunnels[s])

(* Inductive: an orphaned thread still runs, so that no tunnel is given it. *)
OwnInv ==
  /\ ThreadType
  /\ TunnelType
  /\ \A t \in orphan : t \in Thread /\ thread[t].stage # "none"
  /\ LookupIsOwn

(* DriadRefreshState::new: a new tunnel waits on nothing. *)
LEMMA NewTunnelType == ASSUME NEW report PROVE IsTunnel(NewTunnel(report)) /\ NewTunnel(report).pending = {}
  BY DEF IsTunnel, NewTunnel

(* At the start no tunnel waits and no thread is orphaned. *)
LEMMA OwnInit == Init => OwnInv
<1>. SUFFICES ASSUME Init PROVE OwnInv
  OBVIOUS
<1>1. ThreadType
  BY PoolInit DEF PoolInv
<1>2. PICK D, reports : tunnels = [s \in D |-> NewTunnel(reports[s])]
  BY DEF Init
<1>3. TunnelType /\ \A s \in DOMAIN tunnels : tunnels[s].pending = {}
  BY <1>2, NewTunnelType DEF TunnelType
<1>. QED  BY <1>1, <1>3 DEF OwnInv, LookupIsOwn, Init

(* A step after which tunnels wait on no more threads than before, and that   *)
(* starts no thread, keeps the ownership.                                     *)
LEMMA OwnShrinks ==
  ASSUME OwnInv, ThreadType', TunnelType',
         \A s \in DOMAIN tunnels' : \A t \in tunnels'[s].pending :
           s \in DOMAIN tunnels /\ t \in tunnels[s].pending /\ t \notin orphan',
         \A t \in Thread : thread'[t].stage # "none" =>
           thread[t].stage # "none" /\ thread'[t].source = thread[t].source,
         \A t \in orphan' : t \in Thread /\ thread'[t].stage # "none"
  PROVE  OwnInv'
<1>1. LookupIsOwn'
  <2>. SUFFICES ASSUME NEW s \in DOMAIN tunnels', NEW t \in tunnels'[s].pending
                PROVE  /\ t \notin orphan'
                       /\ thread'[t].stage # "none" => thread'[t].source = s
                       /\ \A r \in DOMAIN tunnels' \ {s} : t \notin tunnels'[r].pending
    BY DEF LookupIsOwn
  <2>1. s \in DOMAIN tunnels /\ t \in tunnels[s].pending /\ t \notin orphan'
    OBVIOUS
  <2>2. t \in Thread
    BY <2>1 DEF OwnInv, TunnelType, IsTunnel
  <2>3. /\ thread[t].stage # "none" => thread[t].source = s
        /\ \A r \in DOMAIN tunnels \ {s} : t \notin tunnels[r].pending
    BY <2>1 DEF OwnInv, LookupIsOwn
  <2>. QED  BY <2>1, <2>2, <2>3
<1>. QED  BY <1>1 DEF OwnInv

(* Tunnels after a lookup was settled (DriadRefreshState::schedule_success,   *)
(* schedule_failure): the one concerned waits on nothing.                     *)
LEMMA Scheduled ==
  ASSUME TunnelType, NEW s \in DOMAIN tunnels, NEW answer, Schedule(s, answer)
  PROVE  /\ TunnelType' /\ DOMAIN tunnels' = DOMAIN tunnels
         /\ \A r \in DOMAIN tunnels' : tunnels'[r].pending \subseteq tunnels[r].pending
<1>1. PICK ticks : tunnels' = [tunnels EXCEPT ![s].next = ticks, ![s].pending = {}]
  BY DEF Schedule, Wait
<1>2. tunnels[s] = [report |-> tunnels[s].report, next |-> tunnels[s].next, pending |-> tunnels[s].pending]
  BY DEF TunnelType, IsTunnel
<1>3. DOMAIN tunnels' = DOMAIN tunnels /\ tunnels' = [r \in DOMAIN tunnels' |-> tunnels'[r]]
  BY <1>1
<1>4. tunnels'[s] = [report |-> tunnels[s].report, next |-> ticks, pending |-> {}]
  BY <1>1, <1>2
<1>5. \A r \in DOMAIN tunnels \ {s} : tunnels'[r] = tunnels[r]
  BY <1>1
<1>6. \A r \in DOMAIN tunnels' : IsTunnel(tunnels'[r]) /\ tunnels'[r].pending \subseteq tunnels[r].pending
  <2>. SUFFICES ASSUME NEW r \in DOMAIN tunnels'
                PROVE  IsTunnel(tunnels'[r]) /\ tunnels'[r].pending \subseteq tunnels[r].pending
    OBVIOUS
  <2>1. CASE r = s
    BY <1>4, <2>1 DEF IsTunnel
  <2>2. CASE r # s
    BY <1>3, <1>5, <2>2 DEF TunnelType
  <2>. QED  BY <2>1, <2>2
<1>. QED  BY <1>3, <1>6 DEF TunnelType

(* reconcile_driad_tunnels: a kept tunnel waits on what it waited on, and a    *)
(* lookup no tunnel waits on any more is orphaned.                             *)
LEMMA OwnReconcile == OwnInv /\ LoopTop => OwnInv'
<1>. SUFFICES ASSUME OwnInv, LoopTop PROVE OwnInv'
  OBVIOUS
<1>1. PICK interests \in Interests : tunnels' = Reconcile(Reports(interests))
  BY DEF LoopTop
<1>2. PICK reports : reports = Reports(interests)
  OBVIOUS
<1>3. PICK kept, added :
        /\ kept = DOMAIN tunnels \cap DOMAIN reports
        /\ tunnels' = [s \in kept \cup added |->
             IF s \in kept THEN [tunnels[s] EXCEPT !.report = reports[s]] ELSE NewTunnel(reports[s])]
  BY <1>1, <1>2 DEF Reconcile
<1>4. DOMAIN tunnels' = kept \cup added /\ tunnels' = [s \in DOMAIN tunnels' |-> tunnels'[s]]
  BY <1>3
<1>5. ASSUME NEW s \in kept
      PROVE  s \in DOMAIN tunnels /\ IsTunnel(tunnels'[s]) /\ tunnels'[s].pending = tunnels[s].pending
  <2>1. s \in DOMAIN tunnels /\ IsTunnel(tunnels[s])
    BY <1>3 DEF OwnInv, TunnelType
  <2>2. tunnels'[s] = [tunnels[s] EXCEPT !.report = reports[s]]
    BY <1>3
  <2>3. tunnels'[s] = [report |-> reports[s], next |-> tunnels[s].next, pending |-> tunnels[s].pending]
    BY <2>1, <2>2 DEF IsTunnel
  <2>. QED  BY <2>1, <2>3 DEF IsTunnel
<1>6. ASSUME NEW s \in DOMAIN tunnels', s \notin kept
      PROVE  IsTunnel(tunnels'[s]) /\ tunnels'[s].pending = {}
  <2>1. tunnels'[s] = NewTunnel(reports[s])
    BY <1>3, <1>4, <1>6
  <2>. QED  BY <2>1, NewTunnelType
<1>7. TunnelType'
  BY <1>4, <1>5, <1>6 DEF TunnelType
<1>8. PICK gone : /\ gone = Pending(tunnels) \ Pending(tunnels')
                  /\ orphan' = orphan \cup {t \in gone : thread[t].stage # "none"}
  BY DEF LoopTop
<1>9. thread' = thread
  BY DEF LoopTop
<1>10. \A s \in DOMAIN tunnels' : \A t \in tunnels'[s].pending :
         s \in DOMAIN tunnels /\ t \in tunnels[s].pending /\ t \notin orphan'
  <2>. SUFFICES ASSUME NEW s \in DOMAIN tunnels', NEW t \in tunnels'[s].pending
                PROVE  s \in DOMAIN tunnels /\ t \in tunnels[s].pending /\ t \notin orphan'
    OBVIOUS
  <2>1. s \in DOMAIN tunnels /\ t \in tunnels[s].pending
    BY <1>5, <1>6
  <2>2. t \notin orphan
    BY <2>1 DEF OwnInv, LookupIsOwn
  <2>3. t \in Pending(tunnels')
    BY DEF Pending
  <2>. QED  BY <2>1, <2>2, <2>3, <1>8
<1>11. Pending(tunnels) \subseteq Thread
  BY DEF OwnInv, TunnelType, IsTunnel, Pending
<1>12. \A t \in orphan' : t \in Thread /\ thread'[t].stage # "none"
  BY <1>8, <1>9, <1>11 DEF OwnInv
<1>13. ThreadType'
  BY <1>9 DEF OwnInv, ThreadType
<1>14. \A t \in Thread : thread'[t].stage # "none" =>
         thread[t].stage # "none" /\ thread'[t].source = thread[t].source
  BY <1>9
<1>. QED  BY <1>7, <1>10, <1>12, <1>13, <1>14, OwnShrinks

(* DriadRefreshState::poll starts a lookup in a thread that nobody waits on.   *)
LEMMA OwnStart ==
  ASSUME OwnInv, NEW s \in Source, PollStart(s)
  PROVE  OwnInv'
<1>1. PICK t \in Thread :
        /\ thread[t].stage = "none" /\ t \notin Pending(tunnels)
        /\ thread' = [thread EXCEPT ![t] = [stage |-> "resolving", source |-> s, age |-> 0]]
        /\ tunnels' = [tunnels EXCEPT ![s].pending = {t}]
  BY DEF PollStart
<1>2. s \in DOMAIN tunnels /\ orphan' = orphan /\ IsTunnel(tunnels[s])
  BY DEF PollStart, OwnInv, TunnelType
<1>3. ThreadType'
  BY <1>1, PoolAssumption DEF OwnInv, ThreadType, Stage, Source
<1>4. DOMAIN tunnels' = DOMAIN tunnels /\ tunnels' = [r \in DOMAIN tunnels' |-> tunnels'[r]]
  BY <1>1
<1>5. tunnels'[s] = [report |-> tunnels[s].report, next |-> tunnels[s].next, pending |-> {t}]
  BY <1>1, <1>2 DEF IsTunnel
<1>6. \A r \in DOMAIN tunnels \ {s} : tunnels'[r] = tunnels[r]
  BY <1>1
<1>7. TunnelType'
  <2>. SUFFICES ASSUME NEW r \in DOMAIN tunnels' PROVE IsTunnel(tunnels'[r])
    BY <1>4 DEF TunnelType
  <2>1. CASE r = s
    BY <1>5, <2>1 DEF IsTunnel
  <2>2. CASE r # s
    BY <1>4, <1>6, <2>2 DEF OwnInv, TunnelType
  <2>. QED  BY <2>1, <2>2
<1>8. \A u \in Thread \ {t} : thread'[u] = thread[u]
  BY <1>1 DEF OwnInv, ThreadType
<1>9. thread'[t].stage = "resolving" /\ thread'[t].source = s
  BY <1>1 DEF OwnInv, ThreadType
<1>10. t \notin orphan
  BY <1>1 DEF OwnInv
<1>11. \A u \in orphan' : u \in Thread /\ thread'[u].stage # "none"
  BY <1>2, <1>8, <1>10 DEF OwnInv
<1>12. \A r \in DOMAIN tunnels : t \notin tunnels[r].pending
  BY <1>1 DEF Pending
<1>13. ASSUME NEW r \in DOMAIN tunnels', NEW u \in tunnels'[r].pending
       PROVE  /\ u \notin orphan'
              /\ thread'[u].stage # "none" => thread'[u].source = r
              /\ \A q \in DOMAIN tunnels' \ {r} : u \notin tunnels'[q].pending
  <2>1. CASE r = s
    <3>1. u = t
      BY <1>5, <2>1
    <3>. QED  BY <3>1, <2>1, <1>2, <1>4, <1>6, <1>9, <1>10, <1>12
  <2>2. CASE r # s
    <3>1. r \in DOMAIN tunnels /\ u \in tunnels[r].pending
      BY <1>4, <1>6, <2>2
    <3>2. u # t /\ u \in Thread
      BY <3>1, <1>12 DEF OwnInv, TunnelType, IsTunnel
    <3>3. u \notin orphan /\ (thread[u].stage # "none" => thread[u].source = r)
            /\ \A q \in DOMAIN tunnels \ {r} : u \notin tunnels[q].pending
      BY <3>1 DEF OwnInv, LookupIsOwn
    <3>4. \A q \in DOMAIN tunnels' \ {r} : u \notin tunnels'[q].pending
      BY <3>2, <3>3, <1>4, <1>5, <1>6
    <3>. QED  BY <3>2, <3>3, <3>4, <1>2, <1>8
  <2>. QED  BY <2>1, <2>2
<1>. QED  BY <1>3, <1>7, <1>11, <1>13 DEF OwnInv, LookupIsOwn

(* A step of the loop that settles a lookup, or does nothing, starts none.     *)
LEMMA OwnSettled ==
  ASSUME OwnInv, NEW s \in Source, PassBy(s) \/ PollPending(s) \/ PollIdle(s) \/ PollSpawnFails(s)
  PROVE  OwnInv'
<1>1. thread' = thread /\ orphan' = orphan
  BY DEF PassBy, PollPending, PollIdle, PollSpawnFails
<1>2. /\ TunnelType' /\ DOMAIN tunnels' = DOMAIN tunnels
      /\ \A r \in DOMAIN tunnels' : tunnels'[r].pending \subseteq tunnels[r].pending
  <2>1. CASE tunnels' = tunnels
    BY <2>1 DEF OwnInv, TunnelType
  <2>2. ASSUME NEW answer, s \in DOMAIN tunnels, Schedule(s, answer)
        PROVE  /\ TunnelType' /\ DOMAIN tunnels' = DOMAIN tunnels
               /\ \A r \in DOMAIN tunnels' : tunnels'[r].pending \subseteq tunnels[r].pending
    BY <2>2, Scheduled DEF OwnInv
  <2>3. CASE PollPending(s)
    BY <2>1, <2>2, <2>3 DEF PollPending
  <2>4. CASE PollSpawnFails(s)
    BY <2>2, <2>4 DEF PollSpawnFails
  <2>. QED  BY <2>1, <2>3, <2>4 DEF PassBy, PollIdle
<1>3. ThreadType'
  BY <1>1 DEF OwnInv, ThreadType
<1>4. \A r \in DOMAIN tunnels' : \A t \in tunnels'[r].pending :
        r \in DOMAIN tunnels /\ t \in tunnels[r].pending /\ t \notin orphan'
  BY <1>1, <1>2 DEF OwnInv, LookupIsOwn
<1>5. \A t \in orphan' : t \in Thread /\ thread'[t].stage # "none"
  BY <1>1 DEF OwnInv
<1>6. \A t \in Thread : thread'[t].stage # "none" =>
        thread[t].stage # "none" /\ thread'[t].source = thread[t].source
  BY <1>1
<1>. QED  BY <1>2, <1>3, <1>4, <1>5, <1>6, OwnShrinks

(* A thread that sends or stops keeps its source, one that exits is nobody's.  *)
LEMMA OwnThread ==
  ASSUME OwnInv, NEW t \in Thread, ThreadStep(t)
  PROVE  OwnInv'
<1>0. ThreadType
  BY DEF OwnInv
<1>1. tunnels' = tunnels
  BY DEF ThreadStep, Send, Stop, Exit
<1>2. TunnelType'
  BY <1>1 DEF OwnInv, TunnelType
<1>3. CASE Send(t) \/ Stop(t)
  <2>1. PICK stage \in {"sent", "dropped"} : thread' = [thread EXCEPT ![t].stage = stage]
    BY <1>3 DEF Send, Stop
  <2>2. thread[t].stage = "resolving" /\ orphan' = orphan
    BY <1>3 DEF Send, Stop
  <2>3. ThreadType'
    BY <1>0, <2>1 DEF ThreadType, Stage
  <2>4. \A u \in Thread : /\ thread'[u].source = thread[u].source
                          /\ thread'[u].stage # "none" <=> thread[u].stage # "none"
    BY <1>0, <2>1, <2>2 DEF ThreadType
  <2>. QED  BY <1>1, <1>2, <2>2, <2>3, <2>4, OwnShrinks DEF OwnInv, LookupIsOwn
<1>4. CASE Exit(t)
  <2>1. thread' = [thread EXCEPT ![t] = NoThread] /\ orphan' = orphan \ {t}
    BY <1>4 DEF Exit
  <2>2. ThreadType'
    BY <1>0, <2>1 DEF ThreadType, Stage, NoThread
  <2>3. thread'[t].stage = "none" /\ \A u \in Thread \ {t} : thread'[u] = thread[u]
    BY <1>0, <2>1 DEF ThreadType, NoThread
  <2>. QED  BY <1>1, <1>2, <2>1, <2>2, <2>3, OwnShrinks DEF OwnInv, LookupIsOwn
<1>. QED  BY <1>3, <1>4 DEF ThreadStep

(* Time changes neither who waits nor who is waited on. *)
LEMMA OwnTick == OwnInv /\ Tick => OwnInv'
<1>. SUFFICES ASSUME OwnInv, Tick PROVE OwnInv'
  OBVIOUS
<1>1. /\ DOMAIN tunnels' = DOMAIN tunnels /\ tunnels' = [s \in DOMAIN tunnels' |-> tunnels'[s]]
      /\ orphan' = orphan
  BY DEF Tick
<1>2. ASSUME NEW s \in DOMAIN tunnels
      PROVE  IsTunnel(tunnels'[s]) /\ tunnels'[s].pending = tunnels[s].pending
  <2>1. PICK ticks : tunnels'[s] = [tunnels[s] EXCEPT !.next = ticks]
    BY DEF Tick
  <2>2. IsTunnel(tunnels[s])
    BY DEF OwnInv, TunnelType
  <2>3. tunnels'[s] = [report |-> tunnels[s].report, next |-> ticks, pending |-> tunnels[s].pending]
    BY <2>1, <2>2 DEF IsTunnel
  <2>. QED  BY <2>2, <2>3 DEF IsTunnel
<1>3. TunnelType'
  BY <1>1, <1>2 DEF TunnelType
<1>4. ThreadType' /\ \A t \in Thread : /\ thread'[t].stage = thread[t].stage
                                       /\ thread'[t].stage # "none" => thread'[t].source = thread[t].source
  BY DEF Tick, OwnInv, ThreadType, NoThread, Stage
<1>. QED  BY <1>1, <1>2, <1>3, <1>4, OwnShrinks DEF OwnInv, LookupIsOwn

(* A tunnel never takes the answer of another source's lookup, nor of one that *)
(* an earlier tunnel of its source started (DriadRefreshState.pending).        *)
THEOREM AnswersOwn == Spec => []LookupIsOwn
<1>1. Init => OwnInv
  BY OwnInit
<1>2. OwnInv /\ [Next]_vars => OwnInv'
  <2>. SUFFICES ASSUME OwnInv, [Next]_vars PROVE OwnInv'
    OBVIOUS
  <2>1. CASE LoopTop
    BY <2>1, OwnReconcile
  <2>2. CASE Shutdown
    <3>1. DOMAIN tunnels' = {} /\ tunnels' = [s \in DOMAIN tunnels' |-> tunnels'[s]]
            /\ thread' = thread /\ orphan' = orphan
      BY <2>2 DEF Shutdown
    <3>. QED  BY <3>1 DEF OwnInv, ThreadType, TunnelType, LookupIsOwn
  <2>3. CASE Finished \/ UNCHANGED vars
    BY <2>3 DEF Finished, vars, OwnInv, ThreadType, TunnelType, LookupIsOwn
  <2>4. CASE Tick
    BY <2>4, OwnTick
  <2>5. ASSUME NEW s \in Source, Poll(s) PROVE OwnInv'
    BY <2>5, OwnStart, OwnSettled DEF Poll
  <2>6. ASSUME NEW t \in Thread, ThreadStep(t) PROVE OwnInv'
    BY <2>6, OwnThread
  <2>. QED  BY <2>1, <2>2, <2>3, <2>4, <2>5, <2>6 DEF Next
<1>3. OwnInv => LookupIsOwn
  BY DEF OwnInv
<1>. QED  BY <1>1, <1>2, <1>3, PTL DEF Spec
-----------------------------------------------------------------------------
(* Which sources have a tunnel.                                            *)

(* A set of natural numbers, not empty, has a least element, and if it is     *)
(* bounded a greatest one.                                                    *)
LEMMA Least ==
  ASSUME NEW S \in SUBSET Nat, S # {}
  PROVE  \E x \in S : \A y \in S : x <= y
<1>. DEFINE R == {xy \in Nat \X Nat : xy[1] < xy[2]}
<1>1. IsWellFoundedOn(R, Nat)
  BY NatLessThanWellFounded, Zenon DEF OpToRel
<1>2. \A x, y \in Nat : <<y, x>> \notin R => x <= y
  OBVIOUS
<1>. HIDE DEF R
<1>3. \E x \in S : \A y \in S : ~ (<<y, x>> \in R)
  BY <1>1, WFMin
<1>. QED  BY <1>2, <1>3

LEMMA Greatest ==
  ASSUME NEW S \in SUBSET Source, S # {}
  PROVE  \E x \in S : \A y \in S : y <= x
<1>. DEFINE T == {Sources - x : x \in S}
<1>0. Sources \in Nat /\ \A x \in S : x \in Nat /\ x <= Sources
  BY PoolAssumption DEF Source
<1>1. T \in SUBSET Nat /\ T # {}
  BY <1>0
<1>. HIDE DEF T
<1>2. PICK m \in T : \A y \in T : m <= y
  BY <1>1, Least
<1>3. PICK x \in S : m = Sources - x
  BY <1>2 DEF T
<1>4. \A y \in S : Sources - x <= Sources - y
  BY <1>2, <1>3 DEF T
<1>. QED  BY <1>0, <1>3, <1>4

(* The first k of a set of sources: k of them, or all. *)
LEMMA FirstFew ==
  ASSUME NEW S \in SUBSET Source, NEW k \in Nat
  PROVE  LET T == {s \in S : Cardinality({r \in S : r < s}) < k}
         IN  /\ IsFiniteSet(T) /\ Cardinality(T) <= k
             /\ Cardinality(T) < k => T = S
<1>. DEFINE Before(s) == {r \in S : r < s}
            T == {s \in S : Cardinality(Before(s)) < k}
<1>0. Sources \in Nat /\ \A x \in S : x \in Nat
  BY PoolAssumption DEF Source
<1>1. IsFiniteSet(S)
  <2>1. IsFiniteSet(Source)
    BY <1>0, FS_Interval DEF Source
  <2>. QED  BY <2>1, FS_Subset
<1>2. IsFiniteSet(T) /\ T \subseteq S
  BY <1>1, FS_Subset
<1>3. \A s \in S : IsFiniteSet(Before(s)) /\ Cardinality(Before(s)) \in Nat
  <2>. SUFFICES ASSUME NEW s \in S PROVE IsFiniteSet(Before(s)) /\ Cardinality(Before(s)) \in Nat
    OBVIOUS
  <2>1. Before(s) \subseteq S
    OBVIOUS
  <2>2. IsFiniteSet(Before(s))
    BY <1>1, <2>1, FS_Subset
  <2>. QED  BY <2>2, FS_CardinalityType
<1>4. Cardinality(T) \in Nat
  BY <1>2, FS_CardinalityType
<1>5. Cardinality(T) <= k
  <2>1. CASE T = {}
    <3>1. Cardinality({}) = 0
      BY FS_EmptySet
    <3>. HIDE DEF T
    <3>. QED  BY <2>1, <3>1
  <2>2. CASE T # {}
    <3>1. PICK m \in T : \A y \in T : y <= m
      BY <1>2, <2>2, Greatest
    <3>2. T \subseteq Before(m) \cup {m}
      <4>. SUFFICES ASSUME NEW x \in T, x # m PROVE x \in Before(m)
        OBVIOUS
      <4>1. x \in S /\ m \in S /\ x <= m
        BY <1>0, <3>1
      <4>2. x \in Nat /\ m \in Nat
        BY <1>0, <4>1
      <4>3. x < m
        BY <4>1, <4>2
      <4>. QED  BY <4>1, <4>3
    <3>3. m \in S /\ m \notin Before(m) /\ Cardinality(Before(m)) < k
      BY <1>0, <3>1
    <3>. HIDE DEF T, Before
    <3>4. IsFiniteSet(Before(m) \cup {m}) /\ Cardinality(Before(m) \cup {m}) = Cardinality(Before(m)) + 1
      BY <1>3, <3>3, FS_AddElement
    <3>5. Cardinality(T) <= Cardinality(Before(m) \cup {m})
      BY <3>2, <3>4, FS_Subset
    <3>. QED  BY <1>3, <1>4, <3>3, <3>4, <3>5
  <2>. QED  BY <2>1, <2>2
<1>6. ASSUME Cardinality(T) < k PROVE T = S
  <2>. SUFFICES ASSUME S \ T # {} PROVE FALSE
    BY <1>2
  <2>1. PICK m \in S \ T : \A y \in S \ T : m <= y
    <3>1. S \ T \in SUBSET Nat
      BY <1>0
    <3>. QED  BY <3>1, Least
  <2>2. Before(m) \subseteq T
    BY <1>0, <2>1
  <2>3. ~(Cardinality(Before(m)) < k)
    BY <2>1
  <2>. HIDE DEF T, Before
  <2>4. Cardinality(Before(m)) <= Cardinality(T)
    BY <1>2, <2>2, FS_Subset
  <2>. QED  BY <1>3, <1>4, <1>6, <2>1, <2>3, <2>4
<1>. QED  BY <1>2, <1>5, <1>6

(* desired_driad_reports: groups that can be served, for sources there are. *)
LEMMA ReportsType ==
  ASSUME NEW interests \in Interests
  PROVE  /\ DOMAIN Reports(interests) \subseteq Source
         /\ \A s \in DOMAIN Reports(interests) : Reports(interests)[s] \in SUBSET SsmGroup
  BY InterestsAssumption DEF Reports

(* reconcile_driad_tunnels: with the kept tunnels the new ones fill the room, *)
(* or every source has one.                                                   *)
LEMMA RoomFilled ==
  ASSUME NEW D \in SUBSET Source, NEW kept \in SUBSET D, Cardinality(kept) <= MaxTunnels
  PROVE  LET new == D \ kept
             added == {s \in new : Cardinality({r \in new : r < s}) < MaxTunnels - Cardinality(kept)}
         IN  /\ Cardinality(kept \cup added) <= MaxTunnels
             /\ Cardinality(kept \cup added) < MaxTunnels => kept \cup added = D
<1>. DEFINE new == D \ kept
            k == MaxTunnels - Cardinality(kept)
            added == {s \in new : Cardinality({r \in new : r < s}) < k}
<1>1. IsFiniteSet(kept)
  <2>1. IsFiniteSet(Source)
    BY PoolAssumption, FS_Interval DEF Source
  <2>2. kept \in SUBSET Source
    OBVIOUS
  <2>. QED  BY <2>1, <2>2, FS_Subset
<1>2. Cardinality(kept) \in Nat /\ k \in Nat
  BY <1>1, FS_CardinalityType, PoolAssumption
<1>3. new \in SUBSET Source /\ added \subseteq new /\ kept \cap added = {}
  OBVIOUS
<1>. HIDE DEF k
<1>4. IsFiniteSet(added) /\ Cardinality(added) <= k /\ (Cardinality(added) < k => added = new)
  <2>. HIDE DEF new
  <2>. QED  BY <1>2, <1>3, FirstFew
<1>5. kept \cup new = D
  OBVIOUS
<1>. HIDE DEF added, new
<1>6. Cardinality(added) \in Nat
  BY <1>4, FS_CardinalityType
<1>7. Cardinality(kept \cup added) = Cardinality(kept) + Cardinality(added)
  <2>1. Cardinality(kept \cup added) = Cardinality(kept) + Cardinality(added) - Cardinality(kept \cap added)
    BY <1>1, <1>4, FS_Union
  <2>2. Cardinality(kept \cap added) = 0
    BY <1>3, FS_EmptySet
  <2>. QED  BY <1>2, <1>6, <2>1, <2>2
<1>8. Cardinality(kept \cup added) <= MaxTunnels
  BY <1>2, <1>4, <1>6, <1>7, PoolAssumption DEF k
<1>9. Cardinality(kept \cup added) < MaxTunnels => Cardinality(added) < k
  BY <1>2, <1>6, <1>7, PoolAssumption DEF k
<1>10. Cardinality(kept \cup added) < MaxTunnels => kept \cup added = D
  BY <1>4, <1>5, <1>9
<1>. QED  BY <1>8, <1>10 DEF added, new, k

Tunnel == [report : SUBSET SsmGroup, next : Nat, pending : Optional(Thread)]

LEMMA NewTunnelRight ==
  ASSUME NEW report \in SUBSET SsmGroup
  PROVE  NewTunnel(report) \in Tunnel /\ NewTunnel(report).report = report
  BY DEF NewTunnel, Tunnel, Optional

(* What the tunnels are to be like, for the reports that are wanted. *)
Match(ts, reports) ==
  /\ ts \in [DOMAIN ts -> Tunnel]
  /\ DOMAIN ts \subseteq DOMAIN reports
  /\ Cardinality(DOMAIN ts) <= MaxTunnels
  /\ Cardinality(DOMAIN ts) < MaxTunnels => DOMAIN ts = DOMAIN reports
  /\ \A s \in DOMAIN ts : ts[s].report = reports[s]

(* At the start, and whenever interests change, the tunnels come to match. *)
LEMMA InitMatch == Init => Match(tunnels, Reports(wanted))
<1>. SUFFICES ASSUME Init PROVE Match(tunnels, Reports(wanted))
  OBVIOUS
<1>1. wanted \in Interests
  BY DEF Init
<1>2. PICK reports : reports = Reports(wanted)
  OBVIOUS
<1>3. DOMAIN reports \in SUBSET Source /\ \A s \in DOMAIN reports : reports[s] \in SUBSET SsmGroup
  BY <1>1, <1>2, ReportsType
<1>. DEFINE D == DOMAIN reports
            new == D \ {}
            added == {s \in new : Cardinality({r \in new : r < s}) < MaxTunnels - Cardinality({})}
            first == {s \in D : Cardinality({r \in D : r < s}) < MaxTunnels}
<1>4. Cardinality({}) = 0
  BY FS_EmptySet
<1>5. /\ Cardinality({} \cup added) <= MaxTunnels
      /\ Cardinality({} \cup added) < MaxTunnels => {} \cup added = D
  <2>1. {} \in SUBSET D /\ Cardinality({}) <= MaxTunnels
    BY <1>4, PoolAssumption
  <2>. HIDE DEF D
  <2>. QED  BY <1>3, <2>1, RoomFilled DEF D
<1>6. {} \cup added = first
  <2>1. new = D
    OBVIOUS
  <2>2. MaxTunnels - Cardinality({}) = MaxTunnels
    BY <1>4, PoolAssumption
  <2>. HIDE DEF new, D
  <2>. QED  BY <2>1, <2>2
<1>7. tunnels = [s \in first |-> NewTunnel(reports[s])]
  BY <1>2 DEF Init
<1>8. Cardinality(first) <= MaxTunnels /\ (Cardinality(first) < MaxTunnels => first = D) /\ first \subseteq D
  BY <1>5, <1>6
<1>. HIDE DEF first
<1>9. DOMAIN tunnels = first /\ \A s \in first : tunnels[s] \in Tunnel /\ tunnels[s].report = reports[s]
  BY <1>3, <1>7, <1>8, NewTunnelRight
<1>10. tunnels \in [DOMAIN tunnels -> Tunnel]
  BY <1>7, <1>9
<1>. QED  BY <1>2, <1>8, <1>9, <1>10 DEF Match

LEMMA ReconcileMatch ==
  ASSUME tunnels \in [DOMAIN tunnels -> Tunnel], DOMAIN tunnels \subseteq Source,
         Cardinality(DOMAIN tunnels) <= MaxTunnels, NEW interests \in Interests
  PROVE  Match(Reconcile(Reports(interests)), Reports(interests))
<1>1. PICK reports : reports = Reports(interests)
  OBVIOUS
<1>2. DOMAIN reports \in SUBSET Source /\ \A s \in DOMAIN reports : reports[s] \in SUBSET SsmGroup
  BY <1>1, ReportsType
<1>. DEFINE D == DOMAIN reports
            kept == DOMAIN tunnels \cap D
            new == D \ kept
            added == {s \in new : Cardinality({r \in new : r < s}) < MaxTunnels - Cardinality(kept)}
            after == Reconcile(reports)
<1>3. after = [s \in kept \cup added |->
                 IF s \in kept THEN [tunnels[s] EXCEPT !.report = reports[s]] ELSE NewTunnel(reports[s])]
  BY DEF Reconcile
<1>. HIDE DEF after
<1>4. Cardinality(kept) <= MaxTunnels
  <2>1. IsFiniteSet(DOMAIN tunnels)
    <3>1. IsFiniteSet(Source)
      BY PoolAssumption, FS_Interval DEF Source
    <3>. QED  BY <3>1, FS_Subset
  <2>2. kept \in SUBSET DOMAIN tunnels
    OBVIOUS
  <2>. HIDE DEF kept
  <2>3. IsFiniteSet(kept) /\ Cardinality(kept) <= Cardinality(DOMAIN tunnels)
    BY <2>1, <2>2, FS_Subset
  <2>. QED  BY <2>1, <2>3, FS_CardinalityType, PoolAssumption
<1>5. kept \in SUBSET D /\ kept \subseteq DOMAIN tunnels
  OBVIOUS
<1>. HIDE DEF D, kept
<1>6. Cardinality(kept \cup added) <= MaxTunnels /\ (Cardinality(kept \cup added) < MaxTunnels => kept \cup added = D)
  BY <1>2, <1>4, <1>5, RoomFilled DEF D
<1>7. kept \cup added \subseteq D
  BY <1>5
<1>. HIDE DEF added, new
<1>8. ASSUME NEW s \in kept PROVE after[s] \in Tunnel /\ after[s].report = reports[s]
  <2>1. after[s] = [tunnels[s] EXCEPT !.report = reports[s]]
    BY <1>3
  <2>2. tunnels[s] \in Tunnel /\ reports[s] \in SUBSET SsmGroup
    BY <1>2, <1>5 DEF D
  <2>. QED  BY <2>1, <2>2 DEF Tunnel
<1>9. ASSUME NEW s \in added \ kept PROVE after[s] \in Tunnel /\ after[s].report = reports[s]
  <2>1. after[s] = NewTunnel(reports[s]) /\ reports[s] \in SUBSET SsmGroup
    BY <1>2, <1>3, <1>7 DEF D
  <2>. QED  BY <2>1, NewTunnelRight
<1>10. DOMAIN after = kept \cup added
  BY <1>3
<1>11. after \in [DOMAIN after -> Tunnel]
  <2>1. after = [s \in DOMAIN after |-> after[s]]
    BY <1>3
  <2>. QED  BY <1>8, <1>9, <1>10, <2>1
<1>12. Match(after, reports)
  BY <1>6, <1>7, <1>8, <1>9, <1>10, <1>11 DEF Match, D
<1>. QED  BY <1>1, <1>12 DEF after

(* Tunnels that change in other fields than the report go on matching. *)
LEMMA SameReports ==
  ASSUME TunnelsMatch, UNCHANGED <<running, wanted>>, DOMAIN tunnels' = DOMAIN tunnels,
         \A s \in DOMAIN tunnels : tunnels'[s].report = tunnels[s].report
  PROVE  TunnelsMatch'
  BY DEF TunnelsMatch

(* The pool never counts more than its limit. *)
LEMMA ActiveType ==
  ASSUME NEW H \in SUBSET Thread, Cardinality(H) <= MaxWorkers
  PROVE  Cardinality(H) \in 0..MaxWorkers
<1>1. IsFiniteSet(H)
  BY PoolAssumption, FS_Subset
<1>2. Cardinality(H) \in Nat
  BY <1>1, FS_CardinalityType
<1>. QED  BY <1>2, PoolAssumption

(* Every visit leads to a turn. *)
LEMMA TurnType == ASSUME NEW s \in Source, Visit(s) PROVE turn' \in 0..Sources
  BY PoolAssumption DEF Visit, Source

(* Settling a lookup (schedule_success, schedule_failure). *)
LEMMA ScheduledType ==
  ASSUME tunnels \in [DOMAIN tunnels -> Tunnel], NEW s \in DOMAIN tunnels,
         NEW answer \in Ttls \cup {Failed}, Schedule(s, answer)
  PROVE  /\ DOMAIN tunnels' = DOMAIN tunnels /\ tunnels' \in [DOMAIN tunnels -> Tunnel]
         /\ \A r \in DOMAIN tunnels : tunnels'[r].report = tunnels[r].report
<1>1. PICK ticks \in Nat : tunnels' = Wait(s, ticks)
  <2>1. CASE answer = Failed
    BY <2>1, TimesAssumption DEF Schedule
  <2>2. CASE answer # Failed
    <3>1. Clamp(answer) \in Nat
      BY <2>2, TimesAssumption DEF Clamp
    <3>. QED  BY <2>2, <3>1 DEF Schedule
  <2>. QED  BY <2>1, <2>2
<1>2. tunnels' = [tunnels EXCEPT ![s].next = ticks, ![s].pending = {}]
  BY <1>1 DEF Wait
<1>3. {} \in Optional(Thread)
  BY DEF Optional
<1>. QED  BY <1>2, <1>3 DEF Tunnel

LEMMA SoundStep == TypeOK /\ TunnelsMatch /\ PoolExact' /\ [Next]_vars => TypeOK' /\ TunnelsMatch'
<1>. SUFFICES ASSUME TypeOK, TunnelsMatch, PoolExact', [Next]_vars PROVE TypeOK' /\ TunnelsMatch'
  OBVIOUS
<1>a. active' \in 0..MaxWorkers
  <2>1. Holding' \in SUBSET Thread /\ active' = Cardinality(Holding') /\ active' <= MaxWorkers
    BY DEF PoolExact, Holding
  <2>. QED  BY <2>1, ActiveType
<1>b. tunnels \in [DOMAIN tunnels -> Tunnel] /\ DOMAIN tunnels \subseteq Source
  BY DEF TypeOK, Tunnel
<1>c. /\ wanted \in Interests /\ turn \in 0..Sources /\ running \in BOOLEAN
      /\ channel \in [Thread -> Optional(Ttls \cup {Failed})] /\ orphan \subseteq Thread
  BY DEF TypeOK
<1>d. thread \in [Thread -> [stage : Stage, source : 0..Sources, age : 0..LookupTicks]]
  BY DEF TypeOK, Stage
<1>e. {} \in Optional(Ttls \cup {Failed}) /\ \A x \in Ttls \cup {Failed} : {x} \in Optional(Ttls \cup {Failed})
  BY DEF Optional
<1>f. 0 \in 0..LookupTicks /\ 0 \in 0..Sources
  BY PoolAssumption, TimesAssumption
<1>1. CASE LoopTop
  <2>1. PICK interests \in Interests : wanted' = interests /\ tunnels' = Reconcile(Reports(interests))
    BY <1>1 DEF LoopTop
  <2>2. running = TRUE /\ turn' = 1 /\ UNCHANGED <<running, thread, active>>
    BY <1>1, <1>c DEF LoopTop
  <2>3. Cardinality(DOMAIN tunnels) <= MaxTunnels
    BY <2>2 DEF TunnelsMatch
  <2>4. Match(tunnels', Reports(wanted'))
    BY <1>b, <2>1, <2>3, ReconcileMatch
  <2>5. DOMAIN tunnels' \subseteq Source
    BY <2>1, <2>4, ReportsType DEF Match
  <2>6. turn' \in 0..Sources
    BY <2>2, PoolAssumption
  <2>7. Pending(tunnels) \subseteq Thread
    <3>1. \A s \in DOMAIN tunnels : tunnels[s].pending \subseteq Thread
      BY <1>b DEF Tunnel, Optional
    <3>. QED  BY <3>1 DEF Pending
  <2>8. orphan' \subseteq Thread
    BY <1>1, <1>c, <2>7 DEF LoopTop
  <2>9. channel' \in [Thread -> Optional(Ttls \cup {Failed})]
    BY <1>1, <1>c, <1>e DEF LoopTop
  <2>10. TypeOK'
    BY <1>a, <1>c, <1>d, <2>1, <2>2, <2>4, <2>5, <2>6, <2>8, <2>9 DEF TypeOK, Match, Tunnel, Stage
  <2>. QED  BY <2>4, <2>10 DEF TunnelsMatch, Match
<1>2. CASE Shutdown
  <2>1. running' = FALSE /\ DOMAIN tunnels' = {} /\ tunnels' \in [DOMAIN tunnels' -> Tunnel]
        /\ UNCHANGED <<wanted, turn, thread, channel, active, orphan>>
    BY <1>2 DEF Shutdown
  <2>. QED  BY <1>a, <1>c, <1>d, <2>1 DEF TypeOK, TunnelsMatch, Tunnel, Stage
<1>3. CASE UNCHANGED vars
  BY <1>3 DEF vars, TypeOK, TunnelsMatch
<1>4. CASE Tick
  <2>1. UNCHANGED <<wanted, turn, running, channel, active, orphan>>
    BY <1>4 DEF Tick
  <2>2. /\ DOMAIN tunnels' = DOMAIN tunnels /\ tunnels' \in [DOMAIN tunnels -> Tunnel]
        /\ \A r \in DOMAIN tunnels : tunnels'[r].report = tunnels[r].report
    <3>1. tunnels' = [s \in DOMAIN tunnels |-> [tunnels[s] EXCEPT !.next = IF @ = 0 THEN 0 ELSE @ - 1]]
      BY <1>4 DEF Tick
    <3>. QED  BY <1>b, <3>1 DEF Tunnel
  <2>3. thread' \in [Thread -> [stage : Stage, source : 0..Sources, age : 0..LookupTicks]]
    <3>1. /\ thread' = [t \in Thread |-> IF thread[t].stage = "none" THEN NoThread
                                         ELSE [thread[t] EXCEPT !.age = @ + 1]]
          /\ \A t \in Thread : thread[t].age < LookupTicks
      BY <1>4 DEF Tick, Prompt
    <3>2. NoThread \in [stage : Stage, source : 0..Sources, age : 0..LookupTicks]
      BY <1>f DEF NoThread, Stage
    <3>3. \A t \in Thread : thread[t].age + 1 \in 0..LookupTicks
      BY <1>d, <3>1, TimesAssumption
    <3>. QED  BY <1>d, <3>1, <3>2, <3>3
  <2>4. TunnelsMatch'
    BY <2>1, <2>2, SameReports
  <2>. QED  BY <1>a, <1>b, <1>c, <2>1, <2>2, <2>3, <2>4 DEF TypeOK, Tunnel, Stage
<1>5. ASSUME NEW s \in Source, PassBy(s) \/ PollIdle(s) PROVE TypeOK' /\ TunnelsMatch'
  <2>1. UNCHANGED <<wanted, tunnels, running, thread, channel, active, orphan>> /\ turn' \in 0..Sources
    BY <1>5, TurnType DEF PassBy, PollIdle
  <2>. QED  BY <2>1 DEF TypeOK, TunnelsMatch
<1>6. ASSUME NEW s \in Source, PollPending(s) \/ PollSpawnFails(s) PROVE TypeOK' /\ TunnelsMatch'
  <2>1. UNCHANGED <<wanted, running, thread, active, orphan>> /\ turn' \in 0..Sources /\ s \in DOMAIN tunnels
    BY <1>6, TurnType DEF PollPending, PollSpawnFails
  <2>2. channel' \in [Thread -> Optional(Ttls \cup {Failed})]
    BY <1>6, <1>c, <1>e DEF PollPending, PollSpawnFails
  <2>3. tunnels' = tunnels \/ \E answer \in Ttls \cup {Failed} : Schedule(s, answer)
    <3>1. \A t \in Thread : channel[t] \subseteq Ttls \cup {Failed}
      BY <1>c DEF Optional
    <3>2. tunnels[s].pending \subseteq Thread
      BY <1>b, <2>1 DEF Tunnel, Optional
    <3>. QED  BY <1>6, <3>1, <3>2 DEF PollPending, PollSpawnFails
  <2>4. /\ DOMAIN tunnels' = DOMAIN tunnels /\ tunnels' \in [DOMAIN tunnels -> Tunnel]
        /\ \A r \in DOMAIN tunnels : tunnels'[r].report = tunnels[r].report
    BY <1>b, <2>1, <2>3, ScheduledType
  <2>5. TunnelsMatch'
    BY <2>1, <2>4, SameReports
  <2>. QED  BY <1>a, <1>b, <1>c, <1>d, <2>1, <2>2, <2>4, <2>5 DEF TypeOK, Tunnel, Stage
<1>7. ASSUME NEW s \in Source, PollStart(s) PROVE TypeOK' /\ TunnelsMatch'
  <2>1. UNCHANGED <<wanted, running, channel, orphan>> /\ turn' \in 0..Sources /\ s \in DOMAIN tunnels
    BY <1>7, TurnType DEF PollStart
  <2>2. PICK t \in Thread :
          /\ thread' = [thread EXCEPT ![t] = [stage |-> "resolving", source |-> s, age |-> 0]]
          /\ tunnels' = [tunnels EXCEPT ![s].pending = {t}]
    BY <1>7 DEF PollStart
  <2>3. thread' \in [Thread -> [stage : Stage, source : 0..Sources, age : 0..LookupTicks]]
    <3>1. [stage |-> "resolving", source |-> s, age |-> 0]
            \in [stage : Stage, source : 0..Sources, age : 0..LookupTicks]
      BY <1>f, PoolAssumption DEF Stage, Source
    <3>. QED  BY <1>d, <2>2, <3>1
  <2>4. {t} \in Optional(Thread)
    BY DEF Optional
  <2>5. /\ DOMAIN tunnels' = DOMAIN tunnels /\ tunnels' \in [DOMAIN tunnels -> Tunnel]
        /\ \A r \in DOMAIN tunnels : tunnels'[r].report = tunnels[r].report
    BY <1>b, <2>1, <2>2, <2>4 DEF Tunnel
  <2>6. TunnelsMatch'
    BY <2>1, <2>5, SameReports
  <2>. QED  BY <1>a, <1>b, <1>c, <2>1, <2>3, <2>5, <2>6 DEF TypeOK, Tunnel, Stage
<1>8. ASSUME NEW t \in Thread, ThreadStep(t) PROVE TypeOK' /\ TunnelsMatch'
  <2>1. UNCHANGED <<wanted, tunnels, turn, running>>
    BY <1>8 DEF ThreadStep, Send, Stop, Exit
  <2>2. thread' \in [Thread -> [stage : Stage, source : 0..Sources, age : 0..LookupTicks]]
    <3>1. CASE Send(t) \/ Stop(t)
      BY <1>d, <3>1 DEF Send, Stop, Stage
    <3>2. CASE Exit(t)
      BY <1>d, <1>f, <3>2 DEF Exit, NoThread, Stage
    <3>. QED  BY <1>8, <3>1, <3>2 DEF ThreadStep
  <2>3. channel' \in [Thread -> Optional(Ttls \cup {Failed})]
    <3>1. CASE Send(t)
      <4>1. PICK answer \in Ttls \cup {Failed} :
              channel' = [channel EXCEPT ![t] = IF t \in Pending(tunnels) THEN {answer} ELSE {}]
        BY <3>1 DEF Send
      <4>. QED  BY <1>c, <1>e, <4>1
    <3>2. CASE Stop(t) \/ Exit(t)
      BY <1>c, <3>2 DEF Stop, Exit
    <3>. QED  BY <1>8, <3>1, <3>2 DEF ThreadStep
  <2>4. orphan' \subseteq Thread
    BY <1>8, <1>c DEF ThreadStep, Send, Stop, Exit
  <2>5. TunnelsMatch'
    BY <2>1 DEF TunnelsMatch
  <2>. QED  BY <1>a, <1>b, <1>c, <2>1, <2>2, <2>3, <2>4, <2>5 DEF TypeOK, Tunnel, Stage
<1>9. CASE Finished
  BY <1>3, <1>9 DEF Finished
<1>. QED  BY <1>1, <1>2, <1>3, <1>4, <1>5, <1>6, <1>7, <1>8, <1>9 DEF Next, Poll

(* Tunnels, lookups and workers belong together, whatever is wanted when and   *)
(* however lookups end: every wanted source that there is room for has one     *)
(* tunnel, a tunnel waits on its own lookup only, and a lookup holds one       *)
(* worker (reconcile_driad_tunnels, DriadRefreshState, DriadWorkerPool).       *)
THEOREM LookupsAreSound == Spec => []LookupsSound
<1>1. Init => TypeOK /\ TunnelsMatch
  <2>. SUFFICES ASSUME Init PROVE TypeOK /\ TunnelsMatch
    OBVIOUS
  <2>1. Match(tunnels, Reports(wanted))
    BY InitMatch
  <2>2. DOMAIN tunnels \subseteq Source
    BY <2>1, ReportsType DEF Init, Match
  <2>3. thread \in [Thread -> [stage : Stage, source : 0..Sources, age : 0..LookupTicks]]
    BY PoolAssumption, TimesAssumption DEF Init, NoThread, Stage
  <2>4. channel \in [Thread -> Optional(Ttls \cup {Failed})]
    BY DEF Init, Optional
  <2>5. turn \in 0..Sources /\ active \in 0..MaxWorkers
    BY PoolAssumption DEF Init
  <2>. QED  BY <2>1, <2>2, <2>3, <2>4, <2>5 DEF Init, TypeOK, TunnelsMatch, Match, Tunnel, Stage
<1>2. TypeOK /\ TunnelsMatch /\ PoolExact' /\ [Next]_vars => TypeOK' /\ TunnelsMatch'
  BY SoundStep
<1>3. TypeOK /\ TunnelsMatch /\ PoolExact /\ LookupIsOwn => LookupsSound
  BY DEF LookupsSound
<1>. QED  BY <1>1, <1>2, <1>3, PoolKept, AnswersOwn, PTL DEF Spec
=============================================================================
