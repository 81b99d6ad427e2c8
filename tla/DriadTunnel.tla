----------------------------- MODULE DriadTunnel -----------------------------
(***************************************************************************)
(* The tunnel of one source in a gateway that finds its relays through DNS *)
(* (DriadSourceTunnel and DriadRefreshState in daemon.rs).  The tunnel     *)
(* keeps the relay candidates of the last DNS answer, probes them tier by  *)
(* tier, uses the first relay that is willing, watches that it answers and *)
(* delivers, and holds down relays that are loaded or deliver nothing.     *)
(*                                                                         *)
(* The tunnel is a record.  What poll does with it is a chain of           *)
(* operators, each giving the set of records it can lead to.  A relay is   *)
(* an address; a candidate is an address with the rank it was found at.    *)
(* Time is in ticks, left (wait, held, deadline) or passed (age, since).   *)
(***************************************************************************)
EXTENDS Integers, Sequences, FiniteSets

CONSTANTS Relay,           \* relay addresses, the anycast address among them
          Redirect,        \* [Relay -> Relay], the address a relay advertises
          Anycast,         \* the candidates of the anycast tier, if it is used
          DnsResults,      \* the candidate lists DNS may give
          NoRelayResult,   \* may DNS say that there is no relay?
          Allowed,         \* addresses of a family the tunnel may use
          Report,          \* the memberships to ask for
          Ttl,             \* clamp_driad_refresh of the answers' time to live
          Delay,           \* happy_eyeballs_delay
          MaxProbes,       \* max_concurrent_probes
          QueryTimeout,    \* GATEWAY_QUERY_TIMEOUT
          RefreshInterval, \* the shorter of the relay's and the configured one
          HoldDown,        \* relay_hold_down and traffic_hold_down
          TrafficInitial,  \* initial_traffic_timeout
          TrafficMax,      \* maximum_traffic_timeout
          RetryMax,        \* GATEWAY_RETRY_MAX
          Rtt,             \* a relay that is up answers within this time
          Faults,          \* may sockets fail?
          EveryTick,       \* does the loop poll in every tick?
          Duplicates,      \* may a Membership Query arrive more than once?
          Moods            \* the moods of relays that the environment goes through

Mood == {"willing", "mute", "loaded", "silent"}

(* GatewayDriadConfig::validate. *)
ASSUME TimersAssumption ==
  /\ {Delay, HoldDown, TrafficInitial, TrafficMax, MaxProbes} \subseteq Nat \ {0}
  /\ {Ttl, QueryTimeout, RefreshInterval, RetryMax, Rtt} \subseteq Nat \ {0}
  /\ TrafficInitial <= TrafficMax

Candidate == [relay : Relay, rank : Nat]

ASSUME RelayAssumption ==
  /\ Redirect \in [Relay -> Relay]
  /\ Moods \subseteq [Relay -> Mood]
  /\ \A list \in DnsResults \cup {Anycast} : list \in Seq(Candidate)

VARIABLES tunnel,   \* DriadSourceTunnel
          mood,     \* how each relay behaves
          served,   \* relays that were sent a Membership Update and no Teardown since
          lost,     \* relays a Teardown could not be sent to
          polled    \* was the tunnel polled in this tick?

tunnelVars == <<tunnel, mood, served, lost, polled>>

Doubled(initial, attempt, limit) ==
  LET delay == initial * 2^attempt IN IF delay < limit THEN delay ELSE limit

(* An attempt counter, up to where it makes no more difference. *)
CountAttempt(attempt, initial, limit) ==
  IF Doubled(initial, attempt, limit) < limit THEN attempt + 1 ELSE attempt

(* randomized_retry_delay(upper_delay(attempt)). *)
RetryDelay(attempt) == 1..Doubled(1, attempt, RetryMax)

(* next_traffic_timeout. *)
TrafficTimeout(t) == TrafficInitial..Doubled(TrafficInitial, t.traffic, TrafficMax)

Ranks(candidates) == {c.rank : c \in candidates}
Least(ranks) == {r \in ranks : \A x \in ranks : r <= x}
First(queue) == IF queue = <<>> THEN {} ELSE {Head(queue)}

Say(t, kind, relay) == [t EXCEPT !.out = @ \cup {[kind |-> kind, to |-> relay]}]
-----------------------------------------------------------------------------
(* The queue of candidates.                                                *)

(* Where in a list the candidates are whose address is allowed and not taken, *)
(* each address once, the first time.                                         *)
Distinct(list, taken) ==
  {n \in 1..Len(list) :
     /\ list[n].relay \in Allowed \ taken
     /\ \A m \in 1..(n - 1) : list[m].relay # list[n].relay}

(* The places whose candidates go before the one at n: those of better rank,  *)
(* and the earlier ones of the same rank.                                     *)
Before(list, places, n) ==
  {m \in places : \/ list[m].rank < list[n].rank
                  \/ list[m].rank = list[n].rank /\ m < n}

SortByRank(list, places) ==
  [k \in 1..Cardinality(places) |->
     list[CHOOSE n \in places : Cardinality(Before(list, places, n)) = k - 1]]

Queue(list, taken) == SortByRank(list, Distinct(list, taken))

(* anycast_candidates, if they are used, and then those of DNS.  The families  *)
(* that are not allowed are left out of either later on.                       *)
Candidates(t) == Anycast \o t.dns

(* Mutant: hold-downs are forgotten. *)
RebuildHeld(t) ==
  LET queue == Queue(Candidates(t), {p.candidate.relay : p \in t.probes})
      ranks == Ranks({p.candidate : p \in t.probes})
  IN  [t EXCEPT !.pending = queue, !.round = {}, !.next = 0,
                !.rank = IF ranks # {} THEN Least(ranks) ELSE Ranks(First(queue))]

(* rebuild_probe_queue. *)
Rebuild(t) ==
  LET held == [r \in {x \in DOMAIN t.held : t.held[x] > 0} |-> t.held[r]]
      queue == Queue(Candidates(t), DOMAIN held \cup {p.candidate.relay : p \in t.probes})
      ranks == Ranks({p.candidate : p \in t.probes})
  IN  IF t.withdrawn
      THEN [t EXCEPT !.held = held, !.pending = <<>>, !.rank = {}, !.round = {}]
      ELSE [t EXCEPT !.held = held, !.pending = queue, !.round = {}, !.next = 0,
                     !.rank = IF ranks # {} THEN Least(ranks) ELSE Ranks(First(queue))]

(* hold_candidate, for some candidates. *)
Hold(t, candidates) ==
  LET relays == UNION {{c.relay, Redirect[c.relay]} : c \in candidates}
  IN  [t EXCEPT !.held = [r \in DOMAIN @ \cup relays |-> IF r \in relays THEN HoldDown ELSE @[r]]]

NewSourceTunnel(desired) ==
  Rebuild([dns |-> <<>>, held |-> [r \in {} |-> 0], pending |-> <<>>, rank |-> {},
           probes |-> {}, next |-> 0, round |-> {}, attempt |-> 0, traffic |-> 0,
           withdrawn |-> FALSE, active |-> {}, desired |-> desired, out |-> {},
           refresh |-> [wait |-> 0, pending |-> FALSE, attempt |-> 0], failure |-> {}])

TunnelInit ==
  /\ \E desired \in Report : tunnel = NewSourceTunnel(desired)
  /\ mood \in Moods
  /\ served = {} /\ lost = {} /\ polled = FALSE
-----------------------------------------------------------------------------
(* The tunnel in use.                                                      *)

(* A Teardown to the relay in use. *)
SendTeardown(t, a) ==
  {Say(t, "Teardown", a.relay)} \cup (IF Faults THEN {Say(t, "Lost", a.relay)} ELSE {})

(* send_driad_desired, when it succeeds: the update goes out, the refresh and  *)
(* the traffic timers start again.                                             *)
SendDesired(t, a) ==
  {[Say(t, "Update", a.relay) EXCEPT
      !.active = {[a EXCEPT !.told = t.desired, !.since = 0, !.deadline = {timeout}]}] :
     timeout \in TrafficTimeout(t)}

(* Mutant: a relay that is given up is left with the memberships. *)
FailActiveSilently(t) ==
  LET a == CHOOSE x \in t.active : TRUE
      gone == [t EXCEPT !.active = {}, !.failure = {}]
  IN  {Rebuild(IF t.failure = {"QueryTimeout"} THEN gone ELSE Hold(gone, {a.candidate}))}

(* fail_active, for the failure poll_active or set_desired met. *)
FailActive(t) ==
  LET a == CHOOSE x \in t.active : TRUE
      After(u) ==
        LET gone == [u EXCEPT !.active = {}, !.failure = {}]
        IN  CASE t.failure = {"QueryTimeout"} -> gone
              [] t.failure = {"Loaded"} -> Hold(gone, {a.candidate})
              [] t.failure = {"NoTraffic"} ->
                   [Hold(gone, {a.candidate}) EXCEPT
                      !.traffic = CountAttempt(@, TrafficInitial, TrafficMax)]
  IN  {Rebuild(After(u)) : u \in SendTeardown(t, a)}

Fail(t, failure) == [t EXCEPT !.failure = {failure}]
FaultyFail(t) == IF Faults THEN {Fail(t, "QueryTimeout")} ELSE {}

(* One datagram for the tunnel in use; those that are left are taken at the    *)
(* next poll.  Data proves that the relay delivers.                            *)
Datagram(t, event) ==
  LET a == CHOOSE x \in t.active : TRUE
  IN  IF t.failure # {} THEN {t}
      ELSE CASE event = "none" -> {t}
             [] event = "limit" -> {Fail(t, "Loaded")}
             [] event = "query" -> SendDesired(t, [a EXCEPT !.cycle = {}]) \cup FaultyFail(t)
             [] event = "data" ->
                  {[t EXCEPT !.active = {[a EXCEPT !.deadline = {}]}, !.traffic = 0]}

(* What the relay in use may have sent by now.  A query that is repeated is   *)
(* answered again.                                                             *)
Arriving(t) ==
  LET a == CHOOSE x \in t.active : TRUE
      nothing == IF \E age \in a.cycle : age >= Rtt THEN {} ELSE {"none"}
      query == IF a.cycle # {} \/ Duplicates THEN {"query"} ELSE {}
  IN  CASE mood[a.relay] = "silent" -> {"none"}
        [] mood[a.relay] = "loaded" -> nothing \cup {"limit", "data"}
        [] mood[a.relay] = "mute" -> nothing \cup query
        [] mood[a.relay] = "willing" -> nothing \cup query \cup {"data"}

(* A refresh begins when it is due. *)
BeginCycle(t) ==
  LET a == CHOOSE x \in t.active : TRUE
  IN  IF a.cycle = {} /\ a.since >= RefreshInterval
      THEN {Say([t EXCEPT !.active = {[a EXCEPT !.cycle = {0}]}], "Request", a.relay)}
           \cup FaultyFail(t)
      ELSE {t}

(* Mutant: only the query timeout is looked at. *)
DeadlinesQueryOnly(t) ==
  LET a == CHOOSE x \in t.active : TRUE
  IN  IF t.failure = {} /\ (\E age \in a.cycle : age >= QueryTimeout)
      THEN Fail(t, "QueryTimeout") ELSE t

Deadlines(t) ==
  LET a == CHOOSE x \in t.active : TRUE
  IN  IF t.failure # {} THEN t
      ELSE IF \E age \in a.cycle : age >= QueryTimeout THEN Fail(t, "QueryTimeout")
      ELSE IF a.deadline = {0} THEN Fail(t, "NoTraffic")
      ELSE t

(* poll_active and what poll does with its outcome. *)
PollActive(t) ==
  LET begun == BeginCycle(t)
      drained == UNION {UNION {Datagram(u, event) : event \in Arriving(u)} : u \in begun}
      done == {Deadlines(u) : u \in drained \cup UNION {FaultyFail(u) : u \in begun}}
  IN  UNION {IF u.failure = {} THEN {u} ELSE FailActive(u) : u \in done}
-----------------------------------------------------------------------------
(* Looking for a relay.                                                    *)

(* poll_driad_probe: what a probe may have come to by now. *)
Outcomes(p) ==
  LET answer == CASE mood[p.relay] = "silent" -> {}
                  [] mood[p.relay] = "loaded" -> {"Loaded"}
                  [] mood[p.relay] \in {"willing", "mute"} -> {"Winner"}
  IN  answer \cup (IF p.age >= Rtt /\ answer # {} THEN {} ELSE {"Pending"})
             \cup (IF Faults THEN {"Failed"} ELSE {})

(* Probes end, and the loaded relays are held down. *)
EndProbes(t, gone, loaded) ==
  Hold([t EXCEPT !.probes = @ \ (gone \cup loaded)], {p.candidate : p \in loaded})

(* The relay of a probe is used. *)
Use(t, p) ==
  {[v EXCEPT !.probes = {}, !.pending = <<>>, !.attempt = 0] :
     v \in SendDesired(t, [candidate |-> p.candidate, relay |-> p.relay, cycle |-> {},
                           since |-> 0, deadline |-> {}, told |-> t.desired])}

(* poll_probes: probes end without an answer, with a loaded relay or with one  *)
(* that is willing.  The first of these is used and the other probes are       *)
(* dropped.  A probe also ends when its socket fails, or when the memberships  *)
(* cannot be sent.                                                             *)
PollProbes(t) ==
  LET expired == {p \in t.probes : p.age >= QueryTimeout}
      waiting == {p \in t.probes : "Pending" \in Outcomes(p)}
      failing == {p \in t.probes : "Failed" \in Outcomes(p)} \cup (waiting \cap expired)
      full == {p \in t.probes : "Loaded" \in Outcomes(p)}
      willing == {p \in t.probes : "Winner" \in Outcomes(p)}
      ends == {e \in (SUBSET failing) \X (SUBSET full) : e[1] \cap e[2] = {}}
  IN  {EndProbes(t, end[1], end[2]) : end \in
         {e \in ends : t.probes \ (waiting \ expired) \subseteq e[1] \cup e[2]}}
      \cup UNION {UNION {Use(EndProbes(t, end[1], end[2]), p) : p \in willing \ end[1]} : end \in ends}

StartProbe(t, c) ==
  [Say(t, "Discovery", c.relay) EXCEPT
     !.probes = @ \cup {[candidate |-> c, relay |-> Redirect[c.relay], age |-> 0]}]

(* launch_probe_if_due. *)
Launch(t) ==
  IF \E wait \in t.round : wait > 0 THEN {t}
  ELSE LET r == IF t.round # {} THEN Rebuild(t) ELSE t
           u == IF r.probes = {} /\ r.pending # <<>>
                THEN [r EXCEPT !.rank = {Head(r.pending).rank}] ELSE r
           waits == \/ r.next > 0 \/ Cardinality(r.probes) >= MaxProbes
                    \/ r.pending = <<>>
       IN  IF waits THEN {r}
           ELSE LET c == Head(u.pending)
                    sent == [u EXCEPT !.pending = Tail(@), !.next = Delay]
                IN  IF u.rank # {c.rank} THEN {u}
                    ELSE {StartProbe(sent, c)} \cup (IF Faults THEN {sent} ELSE {})

(* schedule_next_round_if_exhausted. *)
ScheduleRound(t) ==
  IF t.withdrawn \/ t.active # {} \/ t.probes # {} \/ t.pending # <<>> \/ t.round # {}
  THEN {t}
  ELSE {[t EXCEPT !.round = {delay}, !.attempt = CountAttempt(@, 1, RetryMax)] :
          delay \in RetryDelay(t.attempt)}
-----------------------------------------------------------------------------
(* DNS.                                                                    *)

(* DriadRefreshState::schedule_failure. *)
RetryRefresh(t) ==
  {[t EXCEPT !.refresh = [wait |-> delay, pending |-> FALSE,
                          attempt |-> CountAttempt(@.attempt, 1, RetryMax)]] :
     delay \in RetryDelay(t.refresh.attempt)}

(* A list of candidates.  They are used at once only if no relay is in use    *)
(* and they differ from the last ones.  The code compares lifetimes and all   *)
(* of the records as well, so a list that is the same here may count as new.  *)
Resolved(t, list) ==
  LET u == [t EXCEPT !.dns = list, !.withdrawn = FALSE,
                     !.refresh = [wait |-> Ttl, pending |-> FALSE, attempt |-> 0]]
  IN  IF t.active # {} THEN {u}
      ELSE IF t.dns # list \/ t.withdrawn THEN {Rebuild(u)}
      ELSE {u, Rebuild(u)}

(* The source has no relay: everything is given up. *)
Withdraw(t) ==
  LET u == [t EXCEPT !.withdrawn = TRUE, !.dns = <<>>, !.pending = <<>>, !.probes = {},
                     !.rank = {}, !.round = {}]
  IN  UNION {RetryRefresh([v EXCEPT !.active = {}]) :
               v \in IF t.active = {} THEN {u} ELSE UNION {SendTeardown(u, a) : a \in t.active}}

(* poll_refresh with DriadRefreshState::poll: an answer may be there or not; a  *)
(* lookup starts when it is due, if a worker is free and a thread starts.       *)
PollRefresh(t) ==
  IF t.refresh.pending
  THEN {t} \cup (UNION {Resolved(t, list) : list \in DnsResults})
           \cup (IF NoRelayResult THEN Withdraw(t) ELSE {})
           \cup (IF Faults THEN RetryRefresh(t) ELSE {})
  ELSE IF t.refresh.wait > 0 THEN {t}
  ELSE {t, [t EXCEPT !.refresh.pending = TRUE]} \cup (IF Faults THEN RetryRefresh(t) ELSE {})
-----------------------------------------------------------------------------
(* The steps of the tunnel.                                                *)

To(t, kind) == {m.to : m \in {x \in t.out : x.kind = kind}}

Step(next) ==
  /\ tunnel' = next
  /\ served' = (served \cup To(next, "Update")) \ To(next, "Teardown")
  /\ lost' = (lost \ To(next, "Update")) \cup To(next, "Lost")
  /\ UNCHANGED mood

(* DriadSourceTunnel::poll. *)
PollTunnel ==
  /\ polled' = TRUE
  /\ \E u \in PollRefresh([tunnel EXCEPT !.out = {}]) :
       \/ u.active # {} /\ \E v \in PollActive(u) : Step(v)
       \/ /\ u.active = {}
          /\ \E v \in PollProbes(u) : \E w \in Launch(v) : \E x \in ScheduleRound(w) : Step(x)

(* set_desired. *)
SetDesired ==
  /\ UNCHANGED polled
  /\ \E desired \in Report \ {tunnel.desired} :
       LET t == [tunnel EXCEPT !.out = {}, !.desired = desired]
       IN  IF t.active = {} THEN Step(t)
           ELSE \E a \in t.active :
                  \/ \E u \in SendDesired(t, a) : Step(u)
                  \/ Faults /\ \E u \in FailActive(Fail(t, "QueryTimeout")) : Step(u)

(* shutdown: the source is no longer wanted.  A tunnel made for it later       *)
(* starts anew.                                                                *)
ShutdownTunnel ==
  /\ UNCHANGED polled
  /\ \E u \in IF tunnel.active = {} THEN {[tunnel EXCEPT !.out = {}]}
              ELSE UNION {SendTeardown([tunnel EXCEPT !.out = {}], a) : a \in tunnel.active} :
       \E desired \in Report : Step([NewSourceTunnel(desired) EXCEPT !.out = u.out])

ChangeMood ==
  /\ mood' \in Moods \ {mood}
  /\ UNCHANGED <<tunnel, served, lost, polled>>

Less(wait) == IF wait > 0 THEN wait - 1 ELSE 0
More(age, horizon) == IF age < horizon THEN age + 1 ELSE age

TickTunnel ==
  /\ EveryTick => polled
  /\ polled' = FALSE
  /\ tunnel' =
       [tunnel EXCEPT
          !.out = {}, !.next = Less(@), !.round = {Less(wait) : wait \in @},
          !.held = [r \in DOMAIN @ |-> Less(@[r])], !.refresh.wait = Less(@),
          !.probes = {[p EXCEPT !.age = More(@, QueryTimeout)] : p \in @},
          !.active = {[a EXCEPT !.cycle = {More(age, QueryTimeout) : age \in @},
                                !.since = More(@, RefreshInterval),
                                !.deadline = {Less(wait) : wait \in @}] : a \in @}]
  /\ UNCHANGED <<mood, served, lost>>

TunnelNext == PollTunnel \/ SetDesired \/ ShutdownTunnel \/ ChangeMood \/ TickTunnel

TunnelSpec == TunnelInit /\ [][TunnelNext]_tunnelVars

-----------------------------------------------------------------------------
(* The types of the tunnel's parts (DriadSourceTunnel). *)
TunnelTypeOK ==
  /\ DOMAIN tunnel.held \subseteq Relay /\ \A r \in DOMAIN tunnel.held : tunnel.held[r] \in 0..HoldDown
  /\ \A n \in DOMAIN tunnel.pending : tunnel.pending[n] \in Candidate
  /\ \A p \in tunnel.probes : p.candidate \in Candidate /\ p.age \in 0..QueryTimeout
  /\ Cardinality(tunnel.probes) <= MaxProbes /\ Cardinality(tunnel.active) <= 1
  /\ tunnel.active # {} => tunnel.probes = {} /\ tunnel.pending = <<>>
  /\ tunnel.failure = {} /\ mood \in [Relay -> Mood]

(* Probes in flight are all of one tier, whatever DNS said in the meantime    *)
(* (launch_probe_if_due, rebuild_probe_queue).                                *)
OneTier == \A p, q \in tunnel.probes : p.candidate.rank = q.candidate.rank

(* No address is probed twice at the same time, and none is waiting while it  *)
(* is probed (rebuild_probe_queue).                                           *)
ProbedOnce ==
  LET waiting == {tunnel.pending[n].relay : n \in DOMAIN tunnel.pending}
      probed == {p.candidate.relay : p \in tunnel.probes}
  IN  /\ waiting \cap probed = {}
      /\ Cardinality(probed) = Cardinality(tunnel.probes)
      /\ Cardinality(waiting) = Len(tunnel.pending)

(* When a probe starts, no candidate of a better tier is waiting. *)
BestTierFirst ==
  [][\A p \in tunnel'.probes : \A n \in DOMAIN tunnel'.pending :
       p.age = 0 /\ p.candidate.relay \in To(tunnel', "Discovery")
         => p.candidate.rank <= tunnel'.pending[n].rank]_tunnelVars

(* A source without relays sends nothing but the Teardown that ends its last  *)
(* tunnel, until DNS names relays again (poll_refresh).                       *)
WithdrawnIsSilent ==
  tunnel.withdrawn =>
    /\ tunnel.probes = {} /\ tunnel.pending = <<>> /\ tunnel.active = {}
    /\ \A m \in tunnel.out : m.kind \in {"Teardown", "Lost"}

(* The memberships are with the relay in use and with no other, except where  *)
(* a Teardown could not be sent; and they are the ones that are wanted.       *)
MembershipsPlaced ==
  /\ served \subseteq {a.relay : a \in tunnel.active} \cup lost
  /\ \A a \in tunnel.active : a.relay \in served /\ a.told = tunnel.desired

(* The addresses that the Advertisement of a relay at another address names.  *)
NamedElsewhere == {r \in Relay : \E x \in Relay \ {r} : Redirect[x] = r}

(* A relay that is held down is not probed (hold_candidate), unless another   *)
(* relay's Advertisement names its address: that one may be held down as the  *)
(* other's while it waits in the queue, which launch_probe_if_due does not    *)
(* look at again.                                                             *)
HeldNotProbed ==
  [][\A r \in To(tunnel', "Discovery") \ NamedElsewhere :
       r \in DOMAIN tunnel'.held => tunnel'.held[r] = 0]_tunnelVars

(* The memberships are with the relay in use and with no other, except where  *)
(* a Teardown could not be sent, and are the ones that are wanted; a source   *)
(* without relays sends nothing but the Teardown that ends its last tunnel    *)
(* (send_driad_desired, fail_active, poll_refresh).                           *)
OneRelayServes == MembershipsPlaced /\ WithdrawnIsSilent

(* Probes go in the order DNS gives: those in flight are of one tier and for  *)
(* different relays, none starts while a better tier is waiting, and relays   *)
(* that are held down are left alone, except at addresses that other relays   *)
(* advertise (launch_probe_if_due, rebuild_probe_queue, hold_candidate).      *)
ProbesInOrder ==
  [](TunnelTypeOK /\ OneTier /\ ProbedOnce) /\ BestTierFirst /\ HeldNotProbed

(* While DNS names a relay that is willing, and says nothing new, the source  *)
(* has a tunnel again and again: rounds are repeated, hold-downs run out, and *)
(* every tier is reached.                                                     *)
WillingIsFound ==
  (\E list \in DnsResults, m \in Moods :
     /\ \E n \in DOMAIN list : list[n].relay \in Allowed /\ m[Redirect[list[n].relay]] = "willing"
     /\ <>[](tunnel.dns = list /\ mood = m /\ ~tunnel.withdrawn))
  => []<>(tunnel.active # {})

(* A relay that delivers nothing does not stay in use (traffic_deadline). *)
MuteIsLeft ==
  \A r \in Relay :
    <>[](mood[r] = "mute") => []<>(\A a \in tunnel.active : a.relay # r)
=============================================================================
