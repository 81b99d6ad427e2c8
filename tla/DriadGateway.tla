---------------------------- MODULE DriadGateway ----------------------------
(***************************************************************************)
(* The DRIAD gateway as a whole (daemon.rs): one tunnel for each wanted    *)
(* source, DNS lookups in threads of their own, and a pool that bounds     *)
(* them.  What a tunnel does with its candidates is in DriadTunnel, how a  *)
(* lookup finds them in DriadResolver.                                     *)
(*                                                                         *)
(* Sources are numbers, in the order in which the loop visits the tunnels. *)
(* A lookup thread and the channel to its tunnel share one identity, that  *)
(* is free again when both ends are gone.                                  *)
(***************************************************************************)
EXTENDS Integers, FiniteSets

CONSTANTS Sources,        \* how many sources there are
          Interests,      \* what the gateway may want: maps from groups to interests
          SsmGroup,       \* the groups in the source-specific range
          MaxTunnels,     \* max_source_tunnels
          MaxWorkers,     \* max_dns_workers
          Thread,         \* identities of threads and their channels
          Ttls,           \* lifetimes DNS may give
          MinRefresh,     \* DRIAD_MIN_REFRESH_INTERVAL
          MaxRefresh,     \* DRIAD_MAX_REFRESH_INTERVAL
          RetryDelays,    \* randomized_retry_delay
          LookupTicks,    \* bound on how long a lookup takes
          Failures        \* may lookups fail or threads not start or stop early?

Source == 1..Sources

ASSUME PoolAssumption == /\ IsFiniteSet(Thread) /\ MaxWorkers \in Nat
                         /\ Sources \in Nat \ {0} /\ MaxTunnels \in Nat
ASSUME TimesAssumption == /\ RetryDelays \subseteq Nat /\ Ttls \subseteq Nat
                          /\ MinRefresh \in Nat /\ MaxRefresh \in Nat /\ LookupTicks \in Nat
ASSUME InterestsAssumption ==
         \A interests \in Interests : \A g \in DOMAIN interests : interests[g].sources \subseteq Source

VARIABLES wanted,   \* the interests that were last reconciled
          tunnels,  \* tunnels: source -> report and DriadRefreshState
          turn,     \* the source the loop visits next; 0 is the top of the loop
          running,  \* the loop has not returned
          thread,   \* the lookup threads
          channel,  \* what is in the channel of a thread
          active,   \* DriadWorkerPool.active
          orphan    \* the threads whose tunnel was removed

vars == <<wanted, tunnels, turn, running, thread, channel, active, orphan>>
-----------------------------------------------------------------------------
(* desired_driad_reports: for every source the groups it is wanted in.  Only    *)
(* INCLUDE interests in source-specific groups can be served.                   *)
Reports(interests) ==
  LET usable == {g \in DOMAIN interests : interests[g].mode = "Include" /\ g \in SsmGroup}
      sources == UNION {interests[g].sources : g \in usable}
  IN  [s \in sources |-> {g \in usable : s \in interests[g].sources}]

(* DriadRefreshState::new: a lookup is due at once. *)
NewTunnel(report) == [report |-> report, next |-> 0, pending |-> {}]

(* Mutant: a new tunnel waits on a lookup that is still running for its source. *)
ReconcileAdopts(reports) ==
  LET kept == DOMAIN tunnels \cap DOMAIN reports
      new == DOMAIN reports \ kept
      added == {s \in new : Cardinality({r \in new : r < s}) < MaxTunnels - Cardinality(kept)}
  IN  [s \in kept \cup added |->
         IF s \in kept THEN [tunnels[s] EXCEPT !.report = reports[s]]
         ELSE [NewTunnel(reports[s]) EXCEPT
                 !.pending = {t \in Thread : thread[t].stage = "resolving" /\ thread[t].source = s}]]

(* reconcile_driad_tunnels: the tunnels of unwanted sources go, the others get  *)
(* their report, and new ones are added in order while there is room.           *)
Reconcile(reports) ==
  LET kept == DOMAIN tunnels \cap DOMAIN reports
      new == DOMAIN reports \ kept
      added == {s \in new : Cardinality({r \in new : r < s}) < MaxTunnels - Cardinality(kept)}
  IN  [s \in kept \cup added |->
         IF s \in kept THEN [tunnels[s] EXCEPT !.report = reports[s]] ELSE NewTunnel(reports[s])]

Pending(ts) == UNION {ts[s].pending : s \in DOMAIN ts}

(* The result of a lookup is the least lifetime of its candidates, or this. *)
Failed == -1

NoThread == [stage |-> "none", source |-> 0, age |-> 0]

Init ==
  /\ wanted \in Interests
  /\ LET reports == Reports(wanted)
         added == {s \in DOMAIN reports : Cardinality({r \in DOMAIN reports : r < s}) < MaxTunnels}
     IN  tunnels = [s \in added |-> NewTunnel(reports[s])]
  /\ turn = 0
  /\ running = TRUE
  /\ thread = [t \in Thread |-> NoThread]
  /\ channel = [t \in Thread |-> {}]
  /\ active = 0
  /\ orphan = {}
-----------------------------------------------------------------------------
(* The loop.                                                               *)

(* The top of the loop: local membership reports, or reporters that expired,    *)
(* may have changed what is wanted, and then the tunnels are reconciled.        *)
LoopTop ==
  /\ running /\ turn = 0
  /\ turn' = 1
  /\ \E interests \in Interests :
       /\ wanted' = interests
       /\ tunnels' = Reconcile(Reports(interests))
       /\ LET gone == Pending(tunnels) \ Pending(tunnels')
          IN  /\ orphan' = orphan \cup {t \in gone : thread[t].stage # "none"}
              /\ channel' = [t \in Thread |-> IF t \in gone THEN {} ELSE channel[t]]
  /\ UNCHANGED <<running, thread, active>>

(* ShutdownSignal: every tunnel is shut down and the gateway returns. *)
Shutdown ==
  /\ running /\ turn = 0
  /\ running' = FALSE /\ tunnels' = [s \in {} |-> s]
  /\ UNCHANGED <<wanted, turn, thread, channel, active, orphan>>

Finished ==
  /\ ~running
  /\ UNCHANGED vars

Visit(s) ==
  /\ running /\ turn = s
  /\ turn' = IF s = Sources THEN 0 ELSE s + 1

PassBy(s) ==
  /\ Visit(s) /\ s \notin DOMAIN tunnels
  /\ UNCHANGED <<wanted, tunnels, running, thread, channel, active, orphan>>

(* Mutant: a lifetime is bounded from above only. *)
ClampAbove(ttl) == IF ttl > MaxRefresh THEN MaxRefresh ELSE ttl

(* clamp_driad_refresh. *)
Clamp(ttl) == IF ttl < MinRefresh THEN MinRefresh ELSE IF ttl > MaxRefresh THEN MaxRefresh ELSE ttl

Wait(s, ticks) == [tunnels EXCEPT ![s].next = ticks, ![s].pending = {}]

(* schedule_success or schedule_failure. *)
Schedule(s, answer) ==
  IF answer = Failed THEN \E d \in RetryDelays : tunnels' = Wait(s, d)
                       ELSE tunnels' = Wait(s, Clamp(answer))

(* DriadRefreshState::poll with a lookup pending: its answer is taken, if it is *)
(* there; a thread that ended without one counts as a failure.                  *)
PollPending(s) ==
  /\ Visit(s) /\ s \in DOMAIN tunnels
  /\ \E t \in tunnels[s].pending :
       \/ /\ channel[t] = {} /\ thread[t].stage # "none"
          /\ UNCHANGED <<tunnels, channel>>
       \/ /\ channel[t] # {} \/ thread[t].stage = "none"
          /\ \E answer \in IF channel[t] = {} THEN {Failed} ELSE channel[t] : Schedule(s, answer)
          /\ channel' = [channel EXCEPT ![t] = {}]
  /\ UNCHANGED <<wanted, running, thread, active, orphan>>

(* No lookup is pending, and none is due or no worker is free. *)
PollIdle(s) ==
  /\ Visit(s) /\ s \in DOMAIN tunnels
  /\ tunnels[s].pending = {} /\ (tunnels[s].next > 0 \/ active >= MaxWorkers)
  /\ UNCHANGED <<wanted, tunnels, running, thread, channel, active, orphan>>

(* A lookup is due and DriadWorkerPool::try_acquire gives a permit, that the    *)
(* new thread holds.                                                            *)
PollStart(s) ==
  /\ Visit(s) /\ s \in DOMAIN tunnels
  /\ tunnels[s].pending = {} /\ tunnels[s].next = 0 /\ active < MaxWorkers
  /\ \E t \in Thread :
       /\ thread[t].stage = "none" /\ t \notin Pending(tunnels)
       /\ thread' = [thread EXCEPT ![t] = [stage |-> "resolving", source |-> s, age |-> 0]]
       /\ tunnels' = [tunnels EXCEPT ![s].pending = {t}]
  /\ active' = active + 1
  /\ UNCHANGED <<wanted, running, channel, orphan>>

(* The same, but the thread does not start: its closure is dropped and with it  *)
(* the permit.                                                                  *)
PollSpawnFails(s) ==
  /\ Failures
  /\ Visit(s) /\ s \in DOMAIN tunnels
  /\ tunnels[s].pending = {} /\ tunnels[s].next = 0 /\ active < MaxWorkers
  /\ Schedule(s, Failed)
  /\ UNCHANGED <<wanted, running, thread, channel, active, orphan>>
-----------------------------------------------------------------------------
(* The threads.                                                            *)

(* The lookup is done and its result sent; nobody may be there to receive it. *)
Send(t) ==
  /\ running
  /\ thread[t].stage = "resolving"
  /\ \E answer \in Ttls \cup (IF Failures THEN {Failed} ELSE {}) :
       channel' = [channel EXCEPT ![t] = IF t \in Pending(tunnels) THEN {answer} ELSE {}]
  /\ thread' = [thread EXCEPT ![t].stage = "sent"]
  /\ UNCHANGED <<wanted, tunnels, turn, running, active, orphan>>

(* The thread stops without a result: the permit goes first, then the sender. *)
Stop(t) ==
  /\ running /\ Failures
  /\ thread[t].stage = "resolving"
  /\ thread' = [thread EXCEPT ![t].stage = "dropped"]
  /\ active' = active - 1
  /\ UNCHANGED <<wanted, tunnels, turn, running, channel, orphan>>

(* DriadWorkerPermit::drop, at the end of the thread, and then its sender. *)
Exit(t) ==
  /\ running
  /\ thread[t].stage \in {"sent", "dropped"}
  /\ active' = IF thread[t].stage = "sent" THEN active - 1 ELSE active
  /\ thread' = [thread EXCEPT ![t] = NoThread]
  /\ orphan' = orphan \ {t}
  /\ UNCHANGED <<wanted, tunnels, turn, running, channel>>

(* The loop is fast: it has taken every answer and started every lookup that    *)
(* can start before time passes.  A lookup ends within LookupTicks.             *)
Prompt ==
  /\ \A t \in Thread : thread[t].stage \in {"none", "resolving"} /\ thread[t].age < LookupTicks
  /\ \A s \in DOMAIN tunnels :
       IF tunnels[s].pending = {} THEN tunnels[s].next > 0 \/ active >= MaxWorkers
                                  ELSE \A t \in tunnels[s].pending : thread[t].stage = "resolving"

Tick ==
  /\ running /\ Prompt
  /\ tunnels' = [s \in DOMAIN tunnels |-> [tunnels[s] EXCEPT !.next = IF @ = 0 THEN 0 ELSE @ - 1]]
  /\ thread' = [t \in Thread |-> IF thread[t].stage = "none" THEN NoThread
                                 ELSE [thread[t] EXCEPT !.age = @ + 1]]
  /\ UNCHANGED <<wanted, turn, running, channel, active, orphan>>

Poll(s) == PassBy(s) \/ PollPending(s) \/ PollIdle(s) \/ PollStart(s) \/ PollSpawnFails(s)

ThreadStep(t) == Send(t) \/ Stop(t) \/ Exit(t)

Next ==
  \/ LoopTop \/ Shutdown \/ Finished \/ Tick
  \/ \E s \in Source : Poll(s)
  \/ \E t \in Thread : ThreadStep(t)

Spec == Init /\ [][Next]_vars
-----------------------------------------------------------------------------
Optional(S) == {{}} \cup {{x} : x \in S}

(* The types of tunnels, threads and channels (DriadRefreshState). *)
TypeOK ==
  /\ wanted \in Interests
  /\ DOMAIN tunnels \subseteq Source
  /\ tunnels \in [DOMAIN tunnels -> [report : SUBSET SsmGroup, next : Nat, pending : Optional(Thread)]]
  /\ turn \in 0..Sources
  /\ running \in BOOLEAN
  /\ thread \in [Thread -> [stage : {"none", "resolving", "sent", "dropped"},
                            source : 0..Sources, age : 0..LookupTicks]]
  /\ channel \in [Thread -> Optional(Ttls \cup {Failed})]
  /\ active \in 0..MaxWorkers
  /\ orphan \subseteq Thread

(* The pool counts exactly the threads that hold a permit, those of removed     *)
(* tunnels included, so that there are never more of them than max_dns_workers  *)
(* and none is lost (DriadWorkerPool).                                          *)
PoolExact ==
  /\ active = Cardinality({t \in Thread : thread[t].stage \in {"resolving", "sent"}})
  /\ active <= MaxWorkers

(* Every tunnel is for a wanted source and asks for just its groups, and a      *)
(* source goes without one only when there is no room (reconcile_driad_tunnels). *)
TunnelsMatch ==
  running =>
    LET reports == Reports(wanted)
    IN  /\ DOMAIN tunnels \subseteq DOMAIN reports
        /\ Cardinality(DOMAIN tunnels) <= MaxTunnels
        /\ Cardinality(DOMAIN tunnels) < MaxTunnels => DOMAIN tunnels = DOMAIN reports
        /\ \A s \in DOMAIN tunnels : tunnels[s].report = reports[s]

(* A tunnel waits only on a lookup of its own: the answer to one that an        *)
(* earlier tunnel of the source started is not taken for a new one              *)
(* (DriadRefreshState.pending).                                                 *)
LookupIsOwn ==
  \A s \in DOMAIN tunnels : \A t \in tunnels[s].pending :
    /\ t \notin orphan
    /\ thread[t].stage # "none" => thread[t].source = s
    /\ \A r \in DOMAIN tunnels \ {s} : t \notin tunnels[r].pending

(* The workers suffice: the sources stay the same, and the lookups of all but   *)
(* one tunnel leave a worker free at some time.  A lookup takes up to           *)
(* LookupTicks and the next one of its tunnel waits as long as                  *)
(* clamp_driad_refresh, or the delay after a failure, makes it.                 *)
WorkersSuffice ==
  /\ Cardinality(Interests) = 1
  /\ \A gap \in {MinRefresh} \cup (IF Failures THEN RetryDelays ELSE {}) :
       (MaxTunnels - 1) * LookupTicks < MaxWorkers * (LookupTicks + gap)

(* Although the tunnels share a few workers and are visited in a fixed order,   *)
(* each one gets its lookup, where the workers suffice; where they do not, the  *)
(* last one may find none free for ever (DriadRefreshState::poll,               *)
(* DriadWorkerPool::try_acquire).                                               *)
EveryTunnelServed ==
  WorkersSuffice =>
    \A s \in Source :
      (running /\ s \in DOMAIN tunnels /\ tunnels[s].pending = {})
        ~> (~running \/ s \notin DOMAIN tunnels \/ tunnels[s].pending # {})

(* Tunnels, lookups and workers belong together: every wanted source that     *)
(* there is room for has one tunnel, a tunnel waits on its own lookup only,   *)
(* and a lookup holds one worker (reconcile_driad_tunnels, DriadWorkerPool).  *)
LookupsSound == TypeOK /\ TunnelsMatch /\ PoolExact /\ LookupIsOwn
=============================================================================
