-------------------------- MODULE DriadTunnelProofs --------------------------
(***************************************************************************)
(* The tunnel of a source keeps its probes in order and its memberships    *)
(* with one relay, for any relays, DNS answers, limits and timers.         *)
(***************************************************************************)
EXTENDS DriadTunnel, FiniteSetTheorems, TLAPS

-----------------------------------------------------------------------------
(* The queue of candidates (rebuild_probe_queue).                          *)

LEMMA CandidateTypes ==
  ASSUME NEW c \in Candidate
  PROVE  c.relay \in Relay /\ c.rank \in Nat
  BY Zenon DEF Candidate

LEMMA PlaceTypes ==
  ASSUME NEW list \in Seq(Candidate), NEW n \in 1..Len(list)
  PROVE  n \in Nat /\ list[n] \in Candidate /\ list[n].rank \in Nat
<1>1. n \in Nat /\ list[n] \in Candidate
  BY SMTT(30)
<1> QED
  BY Zenon, <1>1, CandidateTypes

(* The places of a list are finitely many, and their addresses differ. *)
LEMMA PlacesDiffer ==
  ASSUME NEW list \in Seq(Candidate), NEW taken
  PROVE  /\ Distinct(list, taken) \subseteq 1..Len(list)
         /\ IsFiniteSet(Distinct(list, taken))
         /\ Cardinality(Distinct(list, taken)) \in Nat
         /\ \A n \in Distinct(list, taken) :
              list[n] \in Candidate /\ list[n].relay \in Allowed \ taken
         /\ \A m, n \in Distinct(list, taken) : list[m].relay = list[n].relay => m = n
<1>1. Distinct(list, taken) \subseteq 1..Len(list)
  BY Zenon DEF Distinct
<1>2. IsFiniteSet(1..Len(list))
  BY SMTT(30), FS_Interval
<1>3. IsFiniteSet(Distinct(list, taken))
  BY Zenon, <1>1, <1>2, FS_Subset
<1>4. Cardinality(Distinct(list, taken)) \in Nat
  BY Zenon, <1>3, FS_CardinalityType
<1>5. \A n \in Distinct(list, taken) : list[n] \in Candidate /\ list[n].relay \in Allowed \ taken
  BY SMTT(30) DEF Distinct
<1>6. ASSUME NEW m \in Distinct(list, taken), NEW n \in Distinct(list, taken), m < n
      PROVE  list[m].relay # list[n].relay
  BY SMTT(30), <1>6 DEF Distinct
<1>7. \A m, n \in Distinct(list, taken) : m < n \/ n < m \/ m = n
  BY SMTT(30), <1>1
<1> QED
  BY Zenon, <1>1, <1>3, <1>4, <1>5, <1>6, <1>7

(* A candidate that goes before another has fewer before it. *)
LEMMA FewerBefore ==
  ASSUME NEW list \in Seq(Candidate), NEW places \in SUBSET (1..Len(list)),
         NEW m \in places, NEW n \in places, m \in Before(list, places, n)
  PROVE  /\ Cardinality(Before(list, places, m)) \in Nat
         /\ Cardinality(Before(list, places, n)) \in Nat
         /\ Cardinality(Before(list, places, m)) < Cardinality(Before(list, places, n))
<1>1. IsFiniteSet(1..Len(list)) /\ places \subseteq 1..Len(list)
  BY SMTT(30), FS_Interval
<1>2. \A k \in places : Before(list, places, k) \subseteq 1..Len(list)
  BY Zenon DEF Before
<1>3. \A k \in places : IsFiniteSet(Before(list, places, k))
  BY Zenon, <1>1, <1>2, FS_Subset
<1>4. \A k \in places : list[k].rank \in Nat /\ k \in Nat
  BY Zenon, <1>1, PlaceTypes
<1>5. Before(list, places, m) \subseteq Before(list, places, n)
  <2> SUFFICES ASSUME NEW k \in Before(list, places, m) PROVE k \in Before(list, places, n)
    BY Zenon
  <2>1. k \in places
    BY Zenon DEF Before
  <2>2. /\ list[k].rank \in Nat /\ list[m].rank \in Nat /\ list[n].rank \in Nat
        /\ k \in Nat /\ m \in Nat /\ n \in Nat
    BY Zenon, <1>4, <2>1
  <2> QED
    BY SMTT(30), <2>1, <2>2 DEF Before
<1>6. m \notin Before(list, places, m)
  BY SMTT(30), <1>4 DEF Before
<1>7. Before(list, places, m) # Before(list, places, n)
  BY Zenon, <1>6
<1>8. /\ Cardinality(Before(list, places, m)) \in Nat
      /\ Cardinality(Before(list, places, n)) \in Nat
  BY Zenon, <1>3, FS_CardinalityType
<1>9. /\ Cardinality(Before(list, places, m)) <= Cardinality(Before(list, places, n))
      /\ Cardinality(Before(list, places, n)) # Cardinality(Before(list, places, m))
  BY Zenon, <1>3, <1>5, <1>7, FS_Subset
<1> QED
  BY SMTT(30), <1>8, <1>9

(* Every position of the queue has its place. *)
LEMMA EveryPosition ==
  ASSUME NEW list \in Seq(Candidate), NEW places \in SUBSET (1..Len(list)),
         NEW k \in 1..Cardinality(places)
  PROVE  \E n \in places : Cardinality(Before(list, places, n)) = k - 1
<1> DEFINE B(n) == Before(list, places, n)
           T == 1..Cardinality(places)
           f == [n \in places |-> Cardinality(B(n)) + 1]
<1>1. IsFiniteSet(places) /\ Cardinality(places) \in Nat
  <2>1. IsFiniteSet(1..Len(list))
    BY SMTT(30), FS_Interval
  <2> QED
    BY Zenon, <2>1, FS_Subset, FS_CardinalityType
<1>2. ASSUME NEW n \in places
      PROVE  Cardinality(B(n)) \in Nat /\ Cardinality(B(n)) + 1 \in T
  <2>1. list[n].rank \in Nat /\ n \in Nat
    BY Zenon, PlaceTypes
  <2>2. n \notin B(n) /\ B(n) \subseteq places
    BY SMTT(30), <2>1 DEF Before
  <2>3. IsFiniteSet(B(n)) /\ Cardinality(B(n)) \in Nat
    BY Zenon, <1>1, <2>2, FS_Subset, FS_CardinalityType
  <2>4. Cardinality(B(n)) <= Cardinality(places) /\ Cardinality(places) # Cardinality(B(n))
    BY Zenon, <1>1, <2>2, FS_Subset
  <2> QED
    BY SMTT(30), <1>1, <2>3, <2>4
<1>3. f \in [places -> T]
  BY Zenon, <1>2
<1>4. ASSUME NEW m \in places, NEW n \in places, m # n
      PROVE  f[m] # f[n]
  <2>1. list[m].rank \in Nat /\ m \in Nat /\ list[n].rank \in Nat /\ n \in Nat
    BY Zenon, PlaceTypes
  <2>2. m \in B(n) \/ n \in B(m)
    BY SMTT(30), <1>4, <2>1 DEF Before
  <2>3. CASE m \in B(n)
    <3>1. Cardinality(B(m)) < Cardinality(B(n))
      BY Zenon, <2>3, FewerBefore
    <3> QED
      BY SMTT(30), <3>1, <1>2
  <2>4. CASE n \in B(m)
    <3>1. Cardinality(B(n)) < Cardinality(B(m))
      BY Zenon, <2>4, FewerBefore
    <3> QED
      BY SMTT(30), <3>1, <1>2
  <2> QED
    BY Zenon, <2>2, <2>3, <2>4
<1>5. f \in Injection(places, T)
  <2> HIDE DEF f, T
  <2> QED
    BY Zenon, <1>3, <1>4 DEF Injection, IsInjective
<1>6. IsFiniteSet(T) /\ Cardinality(T) = Cardinality(places)
  <2>1. IsFiniteSet(T) /\ Cardinality(T) = IF 1 > Cardinality(places) THEN 0 ELSE Cardinality(places) - 1 + 1
    <3>1. 1 \in Int /\ Cardinality(places) \in Int
      BY SMTT(30), <1>1
    <3> QED
      BY Zenon, <3>1, FS_Interval
  <2> QED
    BY SMTT(30), <1>1, <2>1
<1>7. f \in Surjection(places, T)
  <2> HIDE DEF f, T
  <2> QED
    BY Zenon, <1>1, <1>5, <1>6, FS_Injection
<1>8. PICK n \in places : f[n] = k
  <2> HIDE DEF f
  <2> QED
    BY Zenon, <1>7 DEF Surjection
<1> QED
  BY SMTT(30), <1>2, <1>8
(* Better ranks come first, and no address comes twice. *)
Ordered(queue) ==
  \A m, n \in 1..Len(queue) :
    m < n => queue[m].rank <= queue[n].rank /\ queue[m].relay # queue[n].relay

(* rebuild_probe_queue makes an ordered queue of candidates that are free. *)
LEMMA QueueOrdered ==
  ASSUME NEW list \in Seq(Candidate), NEW taken
  PROVE  /\ Queue(list, taken) \in Seq(Candidate)
         /\ Ordered(Queue(list, taken))
         /\ \A n \in 1..Len(Queue(list, taken)) : Queue(list, taken)[n].relay \notin taken
<1> DEFINE P == Distinct(list, taken)
           N == Cardinality(P)
           At(k) == CHOOSE n \in P : Cardinality(Before(list, P, n)) = k - 1
           q == Queue(list, taken)
<1>1. q = [k \in 1..N |-> list[At(k)]]
  BY Zenon DEF Queue, SortByRank
<1>2. /\ P \in SUBSET (1..Len(list)) /\ N \in Nat
      /\ \A n \in P : list[n] \in Candidate /\ list[n].relay \in Allowed \ taken
      /\ \A m, n \in P : list[m].relay = list[n].relay => m = n
  BY Zenon, PlacesDiffer
<1>3. \A k \in 1..N : At(k) \in P /\ Cardinality(Before(list, P, At(k))) = k - 1
  <2> SUFFICES ASSUME NEW k \in 1..N
               PROVE  At(k) \in P /\ Cardinality(Before(list, P, At(k))) = k - 1
    BY Zenon
  <2>1. \E n \in P : Cardinality(Before(list, P, n)) = k - 1
    BY Zenon, <1>2, EveryPosition
  <2> HIDE DEF P
  <2> QED
    BY Zenon, <2>1
<1> HIDE DEF P, At
<1>4. \A k \in 1..N : list[At(k)] \in Candidate /\ list[At(k)].relay \in Allowed \ taken
  BY Zenon, <1>2, <1>3
<1> HIDE DEF N, q
<1>5. Len(q) = N /\ q \in Seq(Candidate) /\ \A k \in 1..N : q[k] = list[At(k)]
  BY SMTT(30), <1>1, <1>2, <1>4
<1>6. ASSUME NEW j \in 1..N, NEW k \in 1..N, j < k
      PROVE  q[j].rank <= q[k].rank /\ q[j].relay # q[k].relay
  <2> DEFINE m == At(j)
             n == At(k)
  <2>1. /\ m \in P /\ Cardinality(Before(list, P, m)) = j - 1
        /\ n \in P /\ Cardinality(Before(list, P, n)) = k - 1
    BY Zenon, <1>3
  <2> HIDE DEF m, n
  <2>2. Cardinality(Before(list, P, m)) < Cardinality(Before(list, P, n))
    BY SMTT(30), <1>2, <1>6, <2>1
  <2>3. n \notin Before(list, P, m)
    <3>1. SUFFICES ASSUME n \in Before(list, P, m) PROVE FALSE
      BY Zenon
    <3>2. Cardinality(Before(list, P, n)) < Cardinality(Before(list, P, m))
      BY Zenon, <1>2, <2>1, <3>1, FewerBefore
    <3> QED
      BY SMTT(30), <1>2, <2>1, <2>2, <3>2
  <2>4. m # n
    BY SMTT(30), <1>2, <1>6, <2>1
  <2>5. /\ m \in Nat /\ list[m].rank \in Nat
        /\ n \in Nat /\ list[n].rank \in Nat
    BY Zenon, <1>2, <2>1, PlaceTypes
  <2>6. list[m].rank <= list[n].rank
    BY SMTT(30), <2>1, <2>3, <2>4, <2>5 DEF Before
  <2>7. list[m].relay # list[n].relay
    BY Zenon, <1>2, <2>1, <2>4
  <2> QED
    BY Zenon, <1>5, <2>6, <2>7 DEF m, n
<1>7. \A n \in 1..N : q[n].relay \notin taken
  BY Zenon, <1>4, <1>5
<1>8. q \in Seq(Candidate) /\ Ordered(q) /\ \A n \in 1..Len(q) : q[n].relay \notin taken
  BY Zenon, <1>5, <1>6, <1>7 DEF Ordered
<1> QED
  BY Zenon, <1>8 DEF q

(* The candidates of a tunnel. *)
LEMMA CandidatesTyped ==
  ASSUME NEW t, t.dns \in Seq(Candidate)
  PROVE  Candidates(t) \in Seq(Candidate)
<1>1. Anycast \in Seq(Candidate)
  BY Zenon, RelayAssumption
<1> QED
  BY SMTT(30), <1>1 DEF Candidates
-----------------------------------------------------------------------------
(* What is true of a tunnel between and within the steps of poll.          *)

IsTunnel(t) ==
  DOMAIN t = {"dns", "held", "pending", "rank", "probes", "next", "round", "attempt", "traffic",
              "withdrawn", "active", "desired", "out", "refresh", "failure"}

HeldOK(t) == DOMAIN t.held \subseteq Relay /\ \A r \in DOMAIN t.held : t.held[r] \in 0..HoldDown

IsProbe(p) ==
  /\ DOMAIN p = {"candidate", "relay", "age"}
  /\ p.candidate \in Candidate /\ p.relay \in Relay /\ p.age \in 0..QueryTimeout

(* Probes are of the current rank and for different addresses, and go on only *)
(* while no round is waited for.                                              *)
ProbesOK(t) ==
  /\ IsFiniteSet(t.probes) /\ Cardinality(t.probes) <= MaxProbes
  /\ \A p \in t.probes : IsProbe(p) /\ t.rank = {p.candidate.rank}
  /\ \A p, q \in t.probes : p.candidate.relay = q.candidate.relay => p = q
  /\ t.probes # {} => t.round = {}

PendingOK(t) ==
  /\ t.pending \in Seq(Candidate) /\ Ordered(t.pending)
  /\ \A n \in 1..Len(t.pending) : \A p \in t.probes : t.pending[n].relay # p.candidate.relay

IsActive(a) ==
  /\ DOMAIN a = {"candidate", "relay", "cycle", "since", "deadline", "told"}
  /\ a.candidate \in Candidate /\ a.relay \in Relay

(* A tunnel that has a relay, or may not have one, looks for none. *)
Settled(t) ==
  /\ t.active = {} \/ \E a : t.active = {a} /\ IsActive(a)
  /\ t.active # {} \/ t.withdrawn => t.probes = {} /\ t.pending = <<>>
  /\ t.withdrawn => t.active = {}

TunnelOK(t) ==
  /\ IsTunnel(t) /\ t.dns \in Seq(Candidate)
  /\ HeldOK(t) /\ ProbesOK(t) /\ PendingOK(t) /\ Settled(t)

(* Addresses that are held down do not wait for a probe, except those that    *)
(* other relays advertise.                                                    *)
HeldOut(t) ==
  \A n \in 1..Len(t.pending) :
    t.pending[n].relay \in DOMAIN t.held /\ t.pending[n].relay \notin NamedElsewhere
      => t.held[t.pending[n].relay] = 0
-----------------------------------------------------------------------------
(* What rebuild_probe_queue and hold_candidate leave behind.               *)

LEMMA EmptyQueue ==
  /\ <<>> \in Seq(Candidate) /\ Len(<<>>) = 0 /\ Ordered(<<>>)
  /\ \A q \in Seq(Candidate) : Len(q) = 0 => q = <<>>
  BY SMTT(30) DEF Ordered

LEMMA NoProbes ==
  ASSUME NEW t, t.probes = {}
  PROVE  ProbesOK(t)
<1>1. IsFiniteSet({}) /\ Cardinality({}) = 0
  BY Zenon, FS_EmptySet
<1>2. 0 <= MaxProbes
  BY SMTT(30), TimersAssumption
<1> QED
  BY Zenon, <1>1, <1>2 DEF ProbesOK

LEMMA RebuildKeeps ==
  ASSUME NEW t, IsTunnel(t)
  PROVE  /\ IsTunnel(Rebuild(t))
         /\ Rebuild(t).dns = t.dns /\ Rebuild(t).probes = t.probes
         /\ Rebuild(t).active = t.active /\ Rebuild(t).withdrawn = t.withdrawn
         /\ Rebuild(t).desired = t.desired /\ Rebuild(t).out = t.out
         /\ Rebuild(t).failure = t.failure /\ Rebuild(t).round = {}
  BY Zenon DEF Rebuild, IsTunnel

(* The new queue fits the probes that are in flight, whatever they were for. *)
LEMMA RebuildOK ==
  ASSUME NEW t, IsTunnel(t), t.dns \in Seq(Candidate), HeldOK(t), ProbesOK(t),
         t.active = {}, t.withdrawn => t.probes = {}
  PROVE  TunnelOK(Rebuild(t)) /\ HeldOut(Rebuild(t))
<1> DEFINE r == Rebuild(t)
           held == [x \in {y \in DOMAIN t.held : t.held[y] > 0} |-> t.held[x]]
           taken == DOMAIN held \cup {p.candidate.relay : p \in t.probes}
           queue == Queue(Candidates(t), taken)
           ranks == Ranks({p.candidate : p \in t.probes})
<1>1. /\ IsTunnel(r) /\ r.dns = t.dns /\ r.probes = t.probes /\ r.active = t.active
      /\ r.withdrawn = t.withdrawn /\ r.round = {}
  BY Zenon, RebuildKeeps
<1>2. r.held = held
  BY Zenon DEF Rebuild, IsTunnel
<1>3. HeldOK(r)
  BY Zenon, <1>2 DEF HeldOK
<1>4. r.pending = IF t.withdrawn THEN <<>> ELSE queue
  BY Zenon DEF Rebuild, IsTunnel
<1>5. /\ queue \in Seq(Candidate) /\ Ordered(queue)
      /\ \A n \in 1..Len(queue) : queue[n].relay \notin taken
  BY Zenon, CandidatesTyped, QueueOrdered
<1> HIDE DEF queue
<1>6. /\ r.pending \in Seq(Candidate) /\ Ordered(r.pending)
      /\ \A n \in 1..Len(r.pending) : r.pending[n].relay \notin taken
  BY SMTT(30), <1>4, <1>5, EmptyQueue
<1>7. PendingOK(r)
  BY Zenon, <1>1, <1>6 DEF PendingOK
<1>8. HeldOut(r)
  BY Zenon, <1>2, <1>6 DEF HeldOut
<1>9. ASSUME NEW p \in t.probes
      PROVE  r.rank = {p.candidate.rank}
  <2>1. ranks = {p.candidate.rank}
    BY SMTT(30) DEF ProbesOK, Ranks
  <2>2. p.candidate.rank \in Nat
    BY Zenon, CandidateTypes DEF ProbesOK, IsProbe
  <2>3. Least(ranks) = {p.candidate.rank}
    BY SMTT(30), <2>1, <2>2 DEF Least
  <2>4. r.rank = IF ranks # {} THEN Least(ranks) ELSE Ranks(First(queue))
    BY Zenon, <1>9 DEF Rebuild, IsTunnel, queue
  <2> QED
    BY Zenon, <2>1, <2>3, <2>4
<1>10. ProbesOK(r)
  BY Zenon, <1>1, <1>9 DEF ProbesOK
<1>11. Settled(r)
  BY Zenon, <1>1, <1>4 DEF Settled
<1> QED
  BY Zenon, <1>1, <1>3, <1>7, <1>8, <1>10, <1>11 DEF TunnelOK

HoldRelays(candidates) == UNION {{c.relay, Redirect[c.relay]} : c \in candidates}

LEMMA HoldKeeps ==
  ASSUME NEW t, IsTunnel(t), HeldOK(t), NEW candidates \in SUBSET Candidate
  PROVE  /\ IsTunnel(Hold(t, candidates)) /\ HeldOK(Hold(t, candidates))
         /\ \A f \in DOMAIN t \ {"held"} : Hold(t, candidates)[f] = t[f]
         /\ \A x \in DOMAIN Hold(t, candidates).held :
              \/ x \in HoldRelays(candidates)
              \/ x \in DOMAIN t.held /\ Hold(t, candidates).held[x] = t.held[x]
<1> DEFINE relays == HoldRelays(candidates)
           h == Hold(t, candidates)
<1>1. h = [t EXCEPT !.held = [x \in DOMAIN t.held \cup relays |->
                                IF x \in relays THEN HoldDown ELSE t.held[x]]]
  BY Zenon DEF Hold, HoldRelays
<1>2. \A x \in relays : x \in Relay
  BY ZenonT(30), CandidateTypes, RelayAssumption DEF HoldRelays
<1>3. HoldDown \in 0..HoldDown
  BY SMTT(30), TimersAssumption
<1> HIDE DEF relays, h
<1>4. /\ IsTunnel(h) /\ \A f \in DOMAIN t \ {"held"} : h[f] = t[f]
  BY Zenon, <1>1 DEF IsTunnel
<1>5. h.held = [x \in DOMAIN t.held \cup relays |-> IF x \in relays THEN HoldDown ELSE t.held[x]]
  BY Zenon, <1>1 DEF IsTunnel
<1>6. HeldOK(h)
  BY Zenon, <1>2, <1>3, <1>5 DEF HeldOK
<1>7. \A x \in DOMAIN h.held : x \in relays \/ (x \in DOMAIN t.held /\ h.held[x] = t.held[x])
  BY Zenon, <1>5
<1> QED
  BY Zenon, <1>4, <1>6, <1>7 DEF relays, h

(* Timers, counters and messages say nothing about the rest. *)
LEMMA RestKept ==
  ASSUME NEW t, TunnelOK(t), NEW u, IsTunnel(u),
         u.dns = t.dns, u.held = t.held, u.pending = t.pending, u.rank = t.rank,
         u.probes = t.probes, u.round = t.round, u.withdrawn = t.withdrawn, u.active = t.active
  PROVE  TunnelOK(u) /\ (HeldOut(t) => HeldOut(u))
  BY SMTT(30) DEF TunnelOK, HeldOK, ProbesOK, PendingOK, Settled, HeldOut

LEMMA SayKeeps ==
  ASSUME NEW t, IsTunnel(t), NEW kind, NEW relay
  PROVE  /\ IsTunnel(Say(t, kind, relay))
         /\ \A f \in DOMAIN t \ {"out"} : Say(t, kind, relay)[f] = t[f]
         /\ Say(t, kind, relay).out = t.out \cup {[kind |-> kind, to |-> relay]}
  BY Zenon DEF Say, IsTunnel

LEMMA SayTells ==
  ASSUME NEW t, IsTunnel(t), NEW kind, NEW relay, NEW k
  PROVE  To(Say(t, kind, relay), k) = IF k = kind THEN To(t, k) \cup {relay} ELSE To(t, k)
<1> DEFINE m == [kind |-> kind, to |-> relay]
           S == {x \in t.out : x.kind = k}
<1>1. {x \in Say(t, kind, relay).out : x.kind = k} = S \cup (IF k = kind THEN {m} ELSE {})
  BY SMTT(30), SayKeeps
<1>2. To(Say(t, kind, relay), k) = {x.to : x \in S \cup (IF k = kind THEN {m} ELSE {})}
  BY Zenon, <1>1 DEF To
<1>3. To(t, k) = {x.to : x \in S}
  BY Zenon DEF To
<1>4. m.to = relay
  BY Zenon
<1> HIDE DEF S, m
<1> QED
  BY Zenon, <1>2, <1>3, <1>4

LEMMA NothingSaid ==
  ASSUME NEW t, t.out = {}
  PROVE  \A k : To(t, k) = {}
  BY Zenon DEF To
-----------------------------------------------------------------------------
(* Whom a step tells what.                                                 *)

(* No relay is in use, and none was told anything about memberships. *)
Searching(t) ==
  t.active = {} /\ \A k \in {"Update", "Teardown", "Lost"} : To(t, k) = {}

(* One relay is in use and has the memberships that are wanted. *)
Serving(t, relay) ==
  /\ \E a : t.active = {a} /\ a.relay = relay /\ a.told = t.desired
  /\ To(t, "Update") \subseteq {relay}
  /\ \A k \in {"Teardown", "Lost", "Discovery"} : To(t, k) = {}

(* The relay that was in use was sent a Teardown, or that failed. *)
Left(t, relay) ==
  /\ t.active = {} /\ To(t, "Update") \subseteq {relay} /\ To(t, "Discovery") = {}
  /\ \/ To(t, "Teardown") = {relay} /\ To(t, "Lost") = {}
     \/ To(t, "Teardown") = {} /\ To(t, "Lost") = {relay}

Silent(t) == t.withdrawn => \A m \in t.out : m.kind \in {"Teardown", "Lost"}

LEMMA TeardownSaid ==
  ASSUME NEW t, IsTunnel(t), NEW a, NEW u \in SendTeardown(t, a)
  PROVE  /\ IsTunnel(u) /\ \A f \in DOMAIN t \ {"out"} : u[f] = t[f]
         /\ \E k \in {"Teardown", "Lost"} :
              /\ u.out = t.out \cup {[kind |-> k, to |-> a.relay]}
              /\ \A l : To(u, l) = IF l = k THEN To(t, l) \cup {a.relay} ELSE To(t, l)
<1>1. \E k \in {"Teardown", "Lost"} : u = Say(t, k, a.relay)
  BY Zenon DEF SendTeardown
<1>2. PICK k \in {"Teardown", "Lost"} : u = Say(t, k, a.relay)
  BY Zenon, <1>1
<1>3. /\ IsTunnel(u) /\ \A f \in DOMAIN t \ {"out"} : u[f] = t[f]
      /\ u.out = t.out \cup {[kind |-> k, to |-> a.relay]}
  BY SMTT(30), <1>2, SayKeeps
<1>4. \A l : To(u, l) = IF l = k THEN To(t, l) \cup {a.relay} ELSE To(t, l)
  BY SMTT(30), <1>2, SayTells
<1> QED
  BY Zenon, <1>3, <1>4

(* Left, for a tunnel that gave up its relay after a Teardown. *)
LEMMA TeardownLeaves ==
  ASSUME NEW t, IsTunnel(t), NEW a, NEW u \in SendTeardown(t, a), NEW v, v.out = u.out,
         v.active = {}, To(t, "Update") \subseteq {a.relay},
         \A k \in {"Teardown", "Lost", "Discovery"} : To(t, k) = {}
  PROVE  Left(v, a.relay)
<1>1. \A k : To(v, k) = To(u, k)
  BY Zenon DEF To
<1>2. PICK k \in {"Teardown", "Lost"} :
        \A l : To(u, l) = IF l = k THEN To(t, l) \cup {a.relay} ELSE To(t, l)
  BY SMTT(30), TeardownSaid
<1> QED
  BY Zenon, <1>1, <1>2 DEF Left
-----------------------------------------------------------------------------
(* DNS answers (poll_refresh).                                             *)

LEMMA RetryKeeps ==
  ASSUME NEW t, IsTunnel(t), NEW u \in RetryRefresh(t)
  PROVE  IsTunnel(u) /\ \A f \in DOMAIN t \ {"refresh"} : u[f] = t[f]
  BY Zenon DEF RetryRefresh, IsTunnel

LEMMA ResolvedOK ==
  ASSUME NEW t, TunnelOK(t), NEW list \in DnsResults, NEW x \in Resolved(t, list)
  PROVE  /\ TunnelOK(x) /\ (HeldOut(t) => HeldOut(x))
         /\ x.active = t.active /\ x.out = t.out /\ x.desired = t.desired /\ x.failure = t.failure
<1> DEFINE u == [t EXCEPT !.dns = list, !.withdrawn = FALSE,
                          !.refresh = [wait |-> Ttl, pending |-> FALSE, attempt |-> 0]]
<1>1. /\ IsTunnel(u) /\ u.dns = list /\ u.withdrawn = FALSE /\ u.held = t.held
      /\ u.pending = t.pending /\ u.rank = t.rank /\ u.probes = t.probes /\ u.round = t.round
      /\ u.active = t.active /\ u.out = t.out /\ u.desired = t.desired /\ u.failure = t.failure
  BY Zenon DEF TunnelOK, IsTunnel
<1>2. list \in Seq(Candidate)
  BY Zenon, RelayAssumption
<1>3. Resolved(t, list) = IF t.active # {} THEN {u}
                          ELSE IF t.dns # list \/ t.withdrawn THEN {Rebuild(u)}
                          ELSE {u, Rebuild(u)}
  BY Zenon DEF Resolved
<1> HIDE DEF u
<1>4. HeldOK(u) /\ ProbesOK(u) /\ PendingOK(u) /\ Settled(u)
  BY SMTT(30), <1>1 DEF TunnelOK, HeldOK, ProbesOK, PendingOK, Settled
<1>5. TunnelOK(u) /\ (HeldOut(t) => HeldOut(u))
  BY Zenon, <1>1, <1>2, <1>4 DEF TunnelOK, HeldOut
<1>6. CASE t.active = {} /\ x = Rebuild(u)
  <2>1. TunnelOK(Rebuild(u)) /\ HeldOut(Rebuild(u))
    BY Zenon, <1>1, <1>2, <1>4, <1>6, RebuildOK
  <2> QED
    BY SMTT(30), <1>1, <1>6, <2>1, RebuildKeeps
<1>7. CASE x = u
  BY Zenon, <1>1, <1>5, <1>7
<1> QED
  BY SMTT(30), <1>3, <1>6, <1>7

(* After a withdrawal there is nothing left to do. *)
Withdrawn(t, u) ==
  /\ TunnelOK(u) /\ HeldOut(u) /\ u.withdrawn /\ u.active = {}
  /\ u.desired = t.desired /\ u.failure = t.failure
  /\ \A m \in u.out : m.kind \in {"Teardown", "Lost"}
  /\ \/ t.active = {} /\ u.out = {}
     \/ \E a : t.active = {a} /\ Left(u, a.relay)

LEMMA WithdrawOK ==
  ASSUME NEW t, TunnelOK(t), t.out = {}, NEW x \in Withdraw(t)
  PROVE  Withdrawn(t, x)
<1> DEFINE u == [t EXCEPT !.withdrawn = TRUE, !.dns = <<>>, !.pending = <<>>, !.probes = {},
                          !.rank = {}, !.round = {}]
           V == IF t.active = {} THEN {u} ELSE UNION {SendTeardown(u, a) : a \in t.active}
<1>1. /\ IsTunnel(u) /\ u.withdrawn /\ u.dns = <<>> /\ u.pending = <<>> /\ u.probes = {}
      /\ u.held = t.held /\ u.active = t.active /\ u.out = {} /\ u.desired = t.desired
      /\ u.failure = t.failure
  BY Zenon DEF TunnelOK, IsTunnel
<1>2. PICK v \in V : x \in RetryRefresh([v EXCEPT !.active = {}])
  BY Zenon DEF Withdraw
<1> HIDE DEF u
<1>3. IsTunnel(v) /\ \A f \in DOMAIN u \ {"out"} : v[f] = u[f]
  BY SMTT(30), <1>1, TeardownSaid
<1>4. /\ IsTunnel(x) /\ x.active = {} /\ x.out = v.out /\ x.withdrawn /\ x.dns = <<>>
      /\ x.pending = <<>> /\ x.probes = {} /\ x.held = t.held /\ x.desired = t.desired
      /\ x.failure = t.failure
  <2> DEFINE w == [v EXCEPT !.active = {}]
  <2>1. IsTunnel(w) /\ w.active = {} /\ \A f \in DOMAIN u \ {"active"} : w[f] = v[f]
    BY Zenon, <1>1, <1>3 DEF IsTunnel
  <2>2. x \in RetryRefresh(w)
    BY Zenon, <1>2
  <2> HIDE DEF w
  <2>3. IsTunnel(x) /\ \A f \in DOMAIN u \ {"refresh"} : x[f] = w[f]
    <3>1. IsTunnel(x) /\ \A f \in DOMAIN w \ {"refresh"} : x[f] = w[f]
      BY Zenon, <2>1, <2>2, RetryKeeps
    <3> QED
      BY Zenon, <1>1, <2>1, <3>1 DEF IsTunnel
  <2> QED
    BY SMTT(30), <1>1, <1>3, <2>1, <2>3 DEF IsTunnel
<1>5. TunnelOK(x)
  <2>1. HeldOK(x)
    BY Zenon, <1>4 DEF TunnelOK, HeldOK
  <2>2. ProbesOK(x) /\ PendingOK(x) /\ Settled(x)
    BY Zenon, <1>4, EmptyQueue, NoProbes DEF PendingOK, Settled
  <2> QED
    BY Zenon, <1>4, <2>1, <2>2, EmptyQueue DEF TunnelOK
<1>6. HeldOut(x)
  BY SMTT(30), <1>4, EmptyQueue DEF HeldOut
<1>7. CASE t.active = {}
  BY Zenon, <1>1, <1>4, <1>5, <1>6, <1>7 DEF Withdrawn
<1>8. CASE t.active # {}
  <2>1. PICK a : t.active = {a}
    BY Zenon, <1>8 DEF TunnelOK, Settled
  <2>2. v \in SendTeardown(u, a)
    BY Zenon, <1>8, <2>1
  <2>3. \A k : To(u, k) = {}
    BY Zenon, <1>1, NothingSaid
  <2>4. Left(x, a.relay)
    BY Zenon, <1>1, <1>4, <2>2, <2>3, TeardownLeaves
  <2>5. \A m \in x.out : m.kind \in {"Teardown", "Lost"}
    BY SMTT(30), <1>1, <1>4, <2>2, TeardownSaid
  <2> QED
    BY Zenon, <1>4, <1>5, <1>6, <2>1, <2>4, <2>5 DEF Withdrawn
<1> QED
  BY Zenon, <1>7, <1>8

(* poll_refresh leaves the tunnel in use alone, or withdraws it. *)
LEMMA RefreshOK ==
  ASSUME NEW t, TunnelOK(t), t.out = {}, NEW u \in PollRefresh(t)
  PROVE  \/ /\ TunnelOK(u) /\ (HeldOut(t) => HeldOut(u))
            /\ u.active = t.active /\ u.out = {} /\ u.desired = t.desired /\ u.failure = t.failure
         \/ Withdrawn(t, u)
<1>1. CASE u = t
  BY Zenon, <1>1
<1>2. CASE \E list \in DnsResults : u \in Resolved(t, list)
  BY ZenonT(30), <1>2, ResolvedOK
<1>3. CASE u \in Withdraw(t)
  BY Zenon, <1>3, WithdrawOK
<1>4. CASE u \in RetryRefresh(t)
  <2>1. IsTunnel(t)
    BY Zenon DEF TunnelOK
  <2>2. IsTunnel(u) /\ \A f \in DOMAIN t \ {"refresh"} : u[f] = t[f]
    BY Zenon, <1>4, <2>1, RetryKeeps
  <2>3. /\ u.dns = t.dns /\ u.held = t.held /\ u.pending = t.pending /\ u.rank = t.rank
        /\ u.probes = t.probes /\ u.round = t.round /\ u.withdrawn = t.withdrawn
        /\ u.active = t.active /\ u.out = t.out /\ u.desired = t.desired /\ u.failure = t.failure
    BY Zenon, <2>1, <2>2 DEF IsTunnel
  <2> QED
    BY Zenon, <2>2, <2>3, RestKept
<1>5. CASE u = [t EXCEPT !.refresh.pending = TRUE]
  <2>1. /\ IsTunnel(u)
        /\ u.dns = t.dns /\ u.held = t.held /\ u.pending = t.pending /\ u.rank = t.rank
        /\ u.probes = t.probes /\ u.round = t.round /\ u.withdrawn = t.withdrawn
        /\ u.active = t.active /\ u.out = t.out /\ u.desired = t.desired /\ u.failure = t.failure
    BY Zenon, <1>5 DEF TunnelOK, IsTunnel
  <2> QED
    BY Zenon, <2>1, RestKept
<1>6. \/ u = t \/ u \in UNION {Resolved(t, list) : list \in DnsResults}
      \/ u \in Withdraw(t) \/ u \in RetryRefresh(t) \/ u = [t EXCEPT !.refresh.pending = TRUE]
  <2> DEFINE R == UNION {Resolved(t, list) : list \in DnsResults}
             W == Withdraw(t)
             F == RetryRefresh(t)
             v == [t EXCEPT !.refresh.pending = TRUE]
  <2>1. PollRefresh(t) =
          IF t.refresh.pending
          THEN {t} \cup R \cup (IF NoRelayResult THEN W ELSE {}) \cup (IF Faults THEN F ELSE {})
          ELSE IF t.refresh.wait > 0 THEN {t}
          ELSE {t, v} \cup (IF Faults THEN F ELSE {})
    BY Zenon DEF PollRefresh
  <2> HIDE DEF R, W, F, v
  <2>2. u = t \/ u \in R \/ u \in W \/ u \in F \/ u = v
    BY SMTT(30), <2>1
  <2> QED
    BY Zenon, <2>2 DEF R, W, F, v
<1> QED
  BY Zenon, <1>1, <1>2, <1>3, <1>4, <1>5, <1>6
-----------------------------------------------------------------------------
(* The relay in use (poll_active, fail_active, send_driad_desired).        *)

(* A step that is about the relay in use, so far; it may not have been told   *)
(* yet what is wanted now.                                                    *)
Engaged(t, relay) ==
  /\ TunnelOK(t) /\ \E a : t.active = {a} /\ a.relay = relay
  /\ To(t, "Update") \subseteq {relay}
  /\ \A k \in {"Teardown", "Lost", "Discovery"} : To(t, k) = {}
  /\ t.failure \in {{}, {"QueryTimeout"}, {"Loaded"}, {"NoTraffic"}}

InUse(t, relay) ==
  /\ TunnelOK(t) /\ Serving(t, relay)
  /\ t.failure \in {{}, {"QueryTimeout"}, {"Loaded"}, {"NoTraffic"}}

LEMMA InUseEngaged ==
  ASSUME NEW t, NEW relay, InUse(t, relay)
  PROVE  Engaged(t, relay)
  BY Zenon DEF InUse, Engaged, Serving

LEMMA TheActive ==
  ASSUME NEW t, NEW relay, InUse(t, relay)
  PROVE  \E a : /\ t.active = {a} /\ IsActive(a) /\ a.relay = relay /\ a.told = t.desired
                /\ a = (CHOOSE x \in t.active : TRUE)
<1>1. PICK a : t.active = {a} /\ a.relay = relay /\ a.told = t.desired
  BY Zenon DEF InUse, Serving
<1>2. IsActive(a)
  BY Zenon, <1>1 DEF InUse, TunnelOK, Settled
<1>3. a = (CHOOSE x \in t.active : TRUE)
  BY Zenon, <1>1
<1> QED
  BY Zenon, <1>1, <1>2, <1>3

(* The tunnel in use may change in anything but its relay. *)
LEMMA ActiveChanged ==
  ASSUME NEW t, TunnelOK(t), t.active # {}, NEW u, IsTunnel(u), NEW c, u.active = {c}, IsActive(c),
         u.dns = t.dns, u.held = t.held, u.pending = t.pending, u.rank = t.rank,
         u.probes = t.probes, u.round = t.round, u.withdrawn = t.withdrawn
  PROVE  TunnelOK(u)
  BY Zenon DEF TunnelOK, HeldOK, ProbesOK, PendingOK, Settled

LEMMA DesiredSent ==
  ASSUME NEW t, IsTunnel(t), NEW b, IsActive(b), NEW u \in SendDesired(t, b)
  PROVE  /\ IsTunnel(u) /\ \A f \in DOMAIN t \ {"out", "active"} : u[f] = t[f]
         /\ \E c : u.active = {c} /\ IsActive(c) /\ c.relay = b.relay /\ c.told = t.desired
         /\ \A k : To(u, k) = IF k = "Update" THEN To(t, k) \cup {b.relay} ELSE To(t, k)
<1> DEFINE s == Say(t, "Update", b.relay)
<1>1. PICK timeout \in TrafficTimeout(t) :
        u = [s EXCEPT !.active = {[b EXCEPT !.told = t.desired, !.since = 0, !.deadline = {timeout}]}]
  BY Zenon DEF SendDesired
<1>2. /\ IsTunnel(s) /\ \A f \in DOMAIN t \ {"out"} : s[f] = t[f]
  BY SMTT(30), SayKeeps
<1>3. ASSUME NEW k
      PROVE  To(s, k) = IF k = "Update" THEN To(t, k) \cup {b.relay} ELSE To(t, k)
  <2>1. \A relay : To(Say(t, "Update", relay), k) = IF k = "Update" THEN To(t, k) \cup {relay} ELSE To(t, k)
    BY SMTT(30), SayTells
  <2> QED
    BY Zenon, <2>1
<1> DEFINE c == [b EXCEPT !.told = t.desired, !.since = 0, !.deadline = {timeout}]
<1>4. IsActive(c) /\ c.relay = b.relay /\ c.told = t.desired
  BY Zenon DEF IsActive
<1>5. u = [s EXCEPT !.active = {c}]
  BY Zenon, <1>1
<1> HIDE DEF s, c
<1>6. IsTunnel(u) /\ u.active = {c} /\ u.out = s.out
  BY Zenon, <1>2, <1>5 DEF IsTunnel
<1>7. \A f \in DOMAIN t \ {"out", "active"} : u[f] = t[f]
  BY Zenon, <1>2, <1>5 DEF IsTunnel
<1>8. \A k : To(u, k) = To(s, k)
  BY Zenon, <1>6 DEF To
<1> QED
  BY Zenon, <1>3, <1>4, <1>6, <1>7, <1>8

LEMMA FailKeeps ==
  ASSUME NEW t, NEW relay, InUse(t, relay), NEW f \in {"QueryTimeout", "Loaded", "NoTraffic"}
  PROVE  InUse(Fail(t, f), relay)
<1> DEFINE u == Fail(t, f)
<1>1. /\ IsTunnel(u) /\ u.dns = t.dns /\ u.held = t.held /\ u.pending = t.pending
      /\ u.rank = t.rank /\ u.probes = t.probes /\ u.round = t.round /\ u.out = t.out
      /\ u.withdrawn = t.withdrawn /\ u.active = t.active /\ u.desired = t.desired
      /\ u.failure = {f}
  BY Zenon DEF InUse, TunnelOK, IsTunnel, Fail
<1> HIDE DEF u
<1>2. TunnelOK(u)
  BY Zenon, <1>1, RestKept DEF InUse
<1>3. \A k : To(u, k) = To(t, k)
  BY Zenon, <1>1 DEF To
<1>4. Serving(u, relay)
  BY Zenon, <1>1, <1>3 DEF InUse, Serving
<1> QED
  BY Zenon, <1>1, <1>2, <1>4 DEF u, InUse

LEMMA FaultyFailKeeps ==
  ASSUME NEW t, NEW relay, InUse(t, relay), NEW u \in FaultyFail(t)
  PROVE  InUse(u, relay)
  BY Zenon, FailKeeps DEF FaultyFail

LEMMA CycleKeeps ==
  ASSUME NEW t, NEW relay, InUse(t, relay), NEW u \in BeginCycle(t)
  PROVE  InUse(u, relay)
<1>1. PICK a : /\ t.active = {a} /\ IsActive(a) /\ a.relay = relay /\ a.told = t.desired
               /\ a = (CHOOSE x \in t.active : TRUE)
  BY Zenon, TheActive
<1> DEFINE c == [a EXCEPT !.cycle = {0}]
           v == [t EXCEPT !.active = {c}]
<1>2. u = t \/ u \in FaultyFail(t) \/ u = Say(v, "Request", a.relay)
  BY Zenon, <1>1 DEF BeginCycle
<1>3. CASE u = t
  BY Zenon, <1>3
<1>4. CASE u \in FaultyFail(t)
  BY Zenon, <1>4, FaultyFailKeeps
<1>5. CASE u = Say(v, "Request", a.relay)
  <2>1. IsActive(c) /\ c.relay = relay /\ c.told = t.desired
    BY Zenon, <1>1 DEF IsActive
  <2> HIDE DEF c
  <2>2. /\ IsTunnel(v) /\ v.dns = t.dns /\ v.held = t.held /\ v.pending = t.pending
        /\ v.rank = t.rank /\ v.probes = t.probes /\ v.round = t.round /\ v.out = t.out
        /\ v.withdrawn = t.withdrawn /\ v.active = {c} /\ v.desired = t.desired
        /\ v.failure = t.failure
    BY Zenon DEF InUse, TunnelOK, IsTunnel
  <2> HIDE DEF v
  <2>3. IsTunnel(u) /\ \A f \in DOMAIN v \ {"out"} : u[f] = v[f]
    BY SMTT(30), <1>5, <2>2, SayKeeps
  <2>4. /\ u.dns = t.dns /\ u.held = t.held /\ u.pending = t.pending
        /\ u.rank = t.rank /\ u.probes = t.probes /\ u.round = t.round
        /\ u.withdrawn = t.withdrawn /\ u.active = {c} /\ u.desired = t.desired
        /\ u.failure = t.failure
    BY Zenon, <2>2, <2>3 DEF IsTunnel
  <2>5. TunnelOK(u)
    BY Zenon, <1>1, <2>1, <2>3, <2>4, ActiveChanged DEF InUse
  <2>6. \A k : To(v, k) = To(t, k)
    BY Zenon, <2>2 DEF To
  <2>7. \A k : k # "Request" => To(u, k) = To(t, k)
    BY SMTT(30), <1>5, <2>2, <2>6, SayTells
  <2>8. Serving(u, relay)
    BY Zenon, <2>1, <2>4, <2>7 DEF InUse, Serving
  <2> QED
    BY Zenon, <2>4, <2>5, <2>8 DEF InUse
<1> QED
  BY Zenon, <1>2, <1>3, <1>4, <1>5

(* A new report, or one that is sent again, is what the relay then has. *)
LEMMA DesiredKeeps ==
  ASSUME NEW t, TunnelOK(t), NEW a, t.active = {a}, NEW b, IsActive(b), b.relay = a.relay,
         To(t, "Update") \subseteq {a.relay},
         \A k \in {"Teardown", "Lost", "Discovery"} : To(t, k) = {},
         t.failure = {}, NEW u \in SendDesired(t, b)
  PROVE  InUse(u, a.relay) /\ u.failure = {}
<1>1. IsTunnel(t)
  BY Zenon DEF TunnelOK
<1>2. IsTunnel(u) /\ \A f \in DOMAIN t \ {"out", "active"} : u[f] = t[f]
  BY SMTT(30), <1>1, DesiredSent
<1>3. /\ u.dns = t.dns /\ u.held = t.held /\ u.pending = t.pending
      /\ u.rank = t.rank /\ u.probes = t.probes /\ u.round = t.round
      /\ u.withdrawn = t.withdrawn /\ u.desired = t.desired /\ u.failure = t.failure
  BY Zenon, <1>1, <1>2 DEF IsTunnel
<1>4. PICK c : u.active = {c} /\ IsActive(c) /\ c.relay = b.relay /\ c.told = t.desired
  BY SMTT(30), <1>1, DesiredSent
<1>5. \A k : To(u, k) = IF k = "Update" THEN To(t, k) \cup {b.relay} ELSE To(t, k)
  BY SMTT(30), <1>1, DesiredSent
<1>6. TunnelOK(u)
  BY Zenon, <1>2, <1>3, <1>4, ActiveChanged
<1>7. Serving(u, a.relay)
  BY Zenon, <1>3, <1>4, <1>5 DEF Serving
<1> QED
  BY Zenon, <1>3, <1>6, <1>7 DEF InUse

LEMMA DatagramKeeps ==
  ASSUME NEW t, NEW relay, InUse(t, relay), NEW event \in {"none", "limit", "query", "data"},
         NEW u \in Datagram(t, event)
  PROVE  InUse(u, relay)
<1>1. PICK a : /\ t.active = {a} /\ IsActive(a) /\ a.relay = relay /\ a.told = t.desired
               /\ a = (CHOOSE x \in t.active : TRUE)
  BY Zenon, TheActive
<1> DEFINE c == [a EXCEPT !.deadline = {}]
           b == [a EXCEPT !.cycle = {}]
           d == [t EXCEPT !.active = {c}, !.traffic = 0]
<1>2. \/ u = t \/ u = Fail(t, "Loaded") \/ u \in FaultyFail(t)
      \/ t.failure = {} /\ u \in SendDesired(t, b)
      \/ u = d
  BY Zenon, <1>1 DEF Datagram
<1>3. CASE u = t
  BY Zenon, <1>3
<1>4. CASE u = Fail(t, "Loaded")
  BY Zenon, <1>4, FailKeeps
<1>5. CASE u \in FaultyFail(t)
  BY Zenon, <1>5, FaultyFailKeeps
<1>6. CASE t.failure = {} /\ u \in SendDesired(t, b)
  <2>1. IsActive(b) /\ b.relay = a.relay
    BY Zenon, <1>1 DEF IsActive
  <2> HIDE DEF b
  <2>2. TunnelOK(t) /\ To(t, "Update") \subseteq {a.relay}
        /\ \A k \in {"Teardown", "Lost", "Discovery"} : To(t, k) = {}
    BY Zenon, <1>1 DEF InUse, Serving
  <2> QED
    BY Zenon, <1>1, <1>6, <2>1, <2>2, DesiredKeeps
<1>7. CASE u = d
  <2>1. IsActive(c) /\ c.relay = relay /\ c.told = t.desired
    BY Zenon, <1>1 DEF IsActive
  <2> HIDE DEF c
  <2>2. /\ IsTunnel(u) /\ u.dns = t.dns /\ u.held = t.held /\ u.pending = t.pending
        /\ u.rank = t.rank /\ u.probes = t.probes /\ u.round = t.round /\ u.out = t.out
        /\ u.withdrawn = t.withdrawn /\ u.active = {c} /\ u.desired = t.desired
        /\ u.failure = t.failure
    BY Zenon, <1>7 DEF InUse, TunnelOK, IsTunnel
  <2>3. TunnelOK(u)
    BY Zenon, <1>1, <2>1, <2>2, ActiveChanged DEF InUse
  <2>4. \A k : To(u, k) = To(t, k)
    BY Zenon, <2>2 DEF To
  <2>5. Serving(u, relay)
    BY Zenon, <2>1, <2>2, <2>4 DEF InUse, Serving
  <2> QED
    BY Zenon, <2>2, <2>3, <2>5 DEF InUse
<1> QED
  BY Zenon, <1>2, <1>3, <1>4, <1>5, <1>6, <1>7

LEMMA DeadlinesKeep ==
  ASSUME NEW t, NEW relay, InUse(t, relay)
  PROVE  InUse(Deadlines(t), relay)
<1>1. Deadlines(t) \in {t, Fail(t, "QueryTimeout"), Fail(t, "NoTraffic")}
  BY Zenon DEF Deadlines
<1> QED
  BY Zenon, <1>1, FailKeeps

LEMMA EventsArrive ==
  ASSUME NEW t, NEW relay, InUse(t, relay), mood \in [Relay -> Mood]
  PROVE  Arriving(t) \subseteq {"none", "limit", "query", "data"}
<1>1. PICK a : IsActive(a) /\ a = (CHOOSE x \in t.active : TRUE)
  BY Zenon, TheActive
<1>2. mood[a.relay] \in Mood
  BY Zenon, <1>1 DEF IsActive
<1> QED
  BY Zenon, <1>1, <1>2 DEF Arriving, Mood

(* fail_active leaves the relay, and whatever it holds down the new queue     *)
(* leaves out.                                                                *)
LEMMA FailActiveLeaves ==
  ASSUME NEW t, NEW relay, Engaged(t, relay), t.failure # {}, NEW x \in FailActive(t)
  PROVE  /\ TunnelOK(x) /\ HeldOut(x) /\ Left(x, relay) /\ ~x.withdrawn
         /\ x.failure = {} /\ x.desired = t.desired
<1>1. PICK a : /\ t.active = {a} /\ IsActive(a) /\ a.relay = relay
               /\ a = (CHOOSE y \in t.active : TRUE)
  <2>1. PICK a : t.active = {a} /\ a.relay = relay
    BY Zenon DEF Engaged
  <2>2. IsActive(a)
    BY Zenon, <2>1 DEF Engaged, TunnelOK, Settled
  <2>3. a = (CHOOSE y \in t.active : TRUE)
    BY Zenon, <2>1
  <2> QED
    BY Zenon, <2>1, <2>2, <2>3
<1>2. IsTunnel(t) /\ HeldOK(t) /\ t.dns \in Seq(Candidate) /\ t.probes = {} /\ ~t.withdrawn
  BY Zenon, <1>1 DEF Engaged, TunnelOK, Settled
<1> DEFINE Gone(u) == [u EXCEPT !.active = {}, !.failure = {}]
           Held(u) == Hold(Gone(u), {a.candidate})
           Slower(u) == [Held(u) EXCEPT !.traffic = CountAttempt(@, TrafficInitial, TrafficMax)]
<1>3. PICK u \in SendTeardown(t, a) :
        x \in {Rebuild(Gone(u)), Rebuild(Held(u)), Rebuild(Slower(u))}
  BY Zenon, <1>1 DEF FailActive, Engaged
<1>4. IsTunnel(u) /\ \A f \in DOMAIN t \ {"out"} : u[f] = t[f]
  BY SMTT(30), <1>2, TeardownSaid
<1>5. /\ u.held = t.held /\ u.dns = t.dns /\ u.probes = {} /\ u.withdrawn = t.withdrawn
      /\ u.desired = t.desired
  BY Zenon, <1>2, <1>4 DEF IsTunnel
<1> DEFINE Ready(v) == /\ IsTunnel(v) /\ HeldOK(v) /\ v.dns \in Seq(Candidate) /\ v.probes = {}
                       /\ v.active = {} /\ v.withdrawn = t.withdrawn /\ v.out = u.out
                       /\ v.desired = t.desired /\ v.failure = {}
<1>6. Ready(Gone(u))
  <2>1. HeldOK(u)
    BY Zenon, <1>2, <1>5 DEF HeldOK
  <2>2. /\ IsTunnel(Gone(u)) /\ Gone(u).held = u.held /\ Gone(u).dns = u.dns
        /\ Gone(u).probes = u.probes /\ Gone(u).active = {} /\ Gone(u).withdrawn = u.withdrawn
        /\ Gone(u).out = u.out /\ Gone(u).desired = u.desired /\ Gone(u).failure = {}
    BY Zenon, <1>4 DEF IsTunnel
  <2> HIDE DEF Gone
  <2> QED
    BY Zenon, <1>2, <1>5, <2>1, <2>2 DEF HeldOK
<1>7. Ready(Held(u))
  <2> DEFINE g == Gone(u)
  <2>1. {a.candidate} \in SUBSET Candidate
    BY Zenon, <1>1 DEF IsActive
  <2> HIDE DEF Gone
  <2>2. IsTunnel(g) /\ HeldOK(g)
    BY Zenon, <1>6
  <2>3. /\ IsTunnel(Held(u)) /\ HeldOK(Held(u))
        /\ \A f \in DOMAIN g \ {"held"} : Held(u)[f] = g[f]
    BY Zenon, <2>1, <2>2, HoldKeeps
  <2> HIDE DEF Held
  <2> QED
    BY Zenon, <1>6, <2>2, <2>3 DEF IsTunnel
<1>8. Ready(Slower(u))
  <2> DEFINE h == Held(u)
  <2> HIDE DEF Held
  <2>1. IsTunnel(h) /\ HeldOK(h)
    BY Zenon, <1>7
  <2>2. /\ IsTunnel(Slower(u)) /\ Slower(u).held = h.held /\ Slower(u).dns = h.dns
        /\ Slower(u).probes = h.probes /\ Slower(u).active = h.active
        /\ Slower(u).withdrawn = h.withdrawn /\ Slower(u).out = h.out
        /\ Slower(u).desired = h.desired /\ Slower(u).failure = h.failure
    BY Zenon, <2>1 DEF IsTunnel
  <2> HIDE DEF Slower
  <2> QED
    BY Zenon, <1>7, <2>1, <2>2 DEF HeldOK
<1>9. PICK v : x = Rebuild(v) /\ Ready(v)
  <2> HIDE DEF Ready, Gone, Held, Slower
  <2> QED
    BY Zenon, <1>3, <1>6, <1>7, <1>8
<1>10. ProbesOK(v)
  BY Zenon, <1>9, NoProbes
<1>11. TunnelOK(x) /\ HeldOut(x)
  BY Zenon, <1>2, <1>9, <1>10, RebuildOK
<1>12. x.active = {} /\ x.out = u.out /\ x.withdrawn = t.withdrawn /\ x.failure = {}
       /\ x.desired = t.desired
  BY Zenon, <1>9, RebuildKeeps
<1>13. Left(x, a.relay)
  <2>1. /\ To(t, "Update") \subseteq {a.relay}
        /\ \A k \in {"Teardown", "Lost", "Discovery"} : To(t, k) = {}
    BY Zenon, <1>1 DEF Engaged
  <2> QED
    BY Zenon, <1>2, <1>12, <2>1, TeardownLeaves
<1> QED
  BY Zenon, <1>1, <1>2, <1>11, <1>12, <1>13

(* poll_active keeps the relay in use or leaves it. *)
LEMMA PollActiveOK ==
  ASSUME NEW t, NEW relay, InUse(t, relay), mood \in [Relay -> Mood], NEW x \in PollActive(t)
  PROVE  /\ TunnelOK(x) /\ HeldOut(x) /\ ~x.withdrawn /\ x.failure = {}
         /\ Serving(x, relay) \/ Left(x, relay)
<1> DEFINE begun == BeginCycle(t)
           drained == UNION {UNION {Datagram(u, event) : event \in Arriving(u)} : u \in begun}
           faulty == UNION {FaultyFail(u) : u \in begun}
           done == {Deadlines(u) : u \in drained \cup faulty}
<1>1. PICK u \in done : x \in IF u.failure = {} THEN {u} ELSE FailActive(u)
  BY Zenon DEF PollActive
<1>2. \A v \in begun : InUse(v, relay)
  BY Zenon, CycleKeeps
<1>3. \A v \in drained : InUse(v, relay)
  <2> SUFFICES ASSUME NEW w \in begun, NEW event \in Arriving(w), NEW v \in Datagram(w, event)
               PROVE  InUse(v, relay)
    BY SMTT(30)
  <2>1. InUse(w, relay)
    BY Zenon, <1>2
  <2>2. event \in {"none", "limit", "query", "data"}
    BY Zenon, <2>1, EventsArrive
  <2> QED
    BY Zenon, <2>1, <2>2, DatagramKeeps
<1>4. \A v \in faulty : InUse(v, relay)
  BY Zenon, <1>2, FaultyFailKeeps
<1>5. InUse(u, relay)
  BY Zenon, <1>3, <1>4, DeadlinesKeep
<1> HIDE DEF done
<1>6. CASE u.failure = {}
  <2>1. x = u
    BY Zenon, <1>1, <1>6
  <2>2. u.active # {}
    BY Zenon, <1>5 DEF InUse, Serving
  <2>3. u.pending = <<>> /\ ~u.withdrawn
    BY Zenon, <1>5, <2>2 DEF InUse, TunnelOK, Settled
  <2>4. HeldOut(u)
    BY SMTT(30), <2>3, EmptyQueue DEF HeldOut
  <2> QED
    BY Zenon, <1>5, <1>6, <2>1, <2>3, <2>4 DEF InUse
<1>7. CASE u.failure # {}
  BY Zenon, <1>1, <1>5, <1>7, InUseEngaged, FailActiveLeaves
<1> QED
  BY Zenon, <1>6, <1>7
-----------------------------------------------------------------------------
(* What a step does to served and lost.                                    *)

LEMMA UseContinues ==
  ASSUME MembershipsPlaced, NEW a, tunnel.active = {a}, NEW next, Step(next),
         Serving(next, a.relay) \/ Left(next, a.relay)
  PROVE  MembershipsPlaced'
<1>1. /\ tunnel' = next
      /\ served' = (served \cup To(next, "Update")) \ To(next, "Teardown")
      /\ lost' = (lost \ To(next, "Update")) \cup To(next, "Lost")
  BY Zenon DEF Step
<1>2. served \subseteq {a.relay} \cup lost /\ a.relay \in served
  BY Zenon DEF MembershipsPlaced
<1>3. CASE Serving(next, a.relay)
  BY Zenon, <1>1, <1>2, <1>3 DEF Serving, MembershipsPlaced
<1>4. CASE Left(next, a.relay)
  BY Zenon, <1>1, <1>2, <1>4 DEF Left, MembershipsPlaced
<1> QED
  BY Zenon, <1>3, <1>4

LEMMA SearchContinues ==
  ASSUME MembershipsPlaced, tunnel.active = {}, NEW next, Step(next),
         Searching(next) \/ \E relay : Serving(next, relay) /\ To(next, "Update") = {relay}
  PROVE  MembershipsPlaced'
<1>1. /\ tunnel' = next
      /\ served' = (served \cup To(next, "Update")) \ To(next, "Teardown")
      /\ lost' = (lost \ To(next, "Update")) \cup To(next, "Lost")
  BY Zenon DEF Step
<1>2. served \subseteq lost
  BY Zenon DEF MembershipsPlaced
<1>3. CASE Searching(next)
  BY Zenon, <1>1, <1>2, <1>3 DEF Searching, MembershipsPlaced
<1>4. CASE \E relay : Serving(next, relay) /\ To(next, "Update") = {relay}
  BY Zenon, <1>1, <1>2, <1>4 DEF Serving, MembershipsPlaced
<1> QED
  BY Zenon, <1>3, <1>4
-----------------------------------------------------------------------------
(* Looking for a relay (poll_probes, launch_probe_if_due,                  *)
(* schedule_next_round_if_exhausted).                                      *)

(* Probes end, and some of their relays are held down. *)
LEMMA ProbesEnd ==
  ASSUME NEW t, TunnelOK(t), t.active = {}, NEW gone, NEW loaded \in SUBSET t.probes, NEW v,
         v = EndProbes(t, gone, loaded)
  PROVE  /\ TunnelOK(v) /\ (HeldOut(t) => HeldOut(v))
         /\ \A f \in DOMAIN t \ {"probes", "held"} : v[f] = t[f]
         /\ v.probes = t.probes \ (gone \cup loaded)
<1> DEFINE u == [t EXCEPT !.probes = @ \ (gone \cup loaded)]
           C == {p.candidate : p \in loaded}
<1>1. /\ IsTunnel(u) /\ u.probes = t.probes \ (gone \cup loaded)
      /\ \A f \in DOMAIN t \ {"probes"} : u[f] = t[f]
  BY Zenon DEF TunnelOK, IsTunnel
<1>2. C \in SUBSET Candidate
  BY SMTT(30) DEF TunnelOK, ProbesOK, IsProbe
<1>3. DOMAIN t = DOMAIN u /\ IsTunnel(t)
  BY Zenon, <1>1 DEF TunnelOK, IsTunnel
<1>4. v = Hold(u, C)
  BY Zenon DEF EndProbes
<1> HIDE DEF u, C
<1>5. HeldOK(u) /\ u.held = t.held
  BY Zenon, <1>1, <1>3 DEF TunnelOK, HeldOK, IsTunnel
<1>6. /\ IsTunnel(v) /\ HeldOK(v)
      /\ \A f \in DOMAIN u \ {"held"} : v[f] = u[f]
      /\ \A x \in DOMAIN v.held :
           \/ x \in HoldRelays(C)
           \/ x \in DOMAIN u.held /\ v.held[x] = u.held[x]
  BY SMTT(30), <1>1, <1>2, <1>4, <1>5, HoldKeeps
<1>7. \A f \in DOMAIN t \ {"probes", "held"} : v[f] = t[f]
  BY Zenon, <1>1, <1>3, <1>6
<1>8. /\ v.dns = t.dns /\ v.pending = t.pending /\ v.rank = t.rank /\ v.round = t.round
      /\ v.withdrawn = t.withdrawn /\ v.active = {}
  BY Zenon, <1>3, <1>7 DEF IsTunnel
<1>9. v.probes = t.probes \ (gone \cup loaded)
  BY Zenon, <1>1, <1>3, <1>6 DEF IsTunnel
<1>10. ProbesOK(v)
  <2>1. IsFiniteSet(t.probes) /\ v.probes \in SUBSET t.probes
    BY Zenon, <1>9 DEF TunnelOK, ProbesOK
  <2>2. IsFiniteSet(v.probes) /\ Cardinality(v.probes) <= Cardinality(t.probes)
    BY Zenon, <2>1, FS_Subset
  <2>3. Cardinality(v.probes) \in Nat /\ Cardinality(t.probes) \in Nat /\ MaxProbes \in Nat
    BY Zenon, <2>1, <2>2, FS_CardinalityType, TimersAssumption
  <2>4. Cardinality(v.probes) <= MaxProbes
    BY SMTT(30), <2>2, <2>3 DEF TunnelOK, ProbesOK
  <2> QED
    BY Zenon, <1>8, <2>1, <2>2, <2>4 DEF TunnelOK, ProbesOK
<1>11. PendingOK(v) /\ Settled(v)
  BY SMTT(30), <1>8, <1>9 DEF TunnelOK, PendingOK, Settled
<1>12. TunnelOK(v)
  BY Zenon, <1>6, <1>8, <1>10, <1>11 DEF TunnelOK
<1>13. ASSUME HeldOut(t)
       PROVE  HeldOut(v)
  <2> SUFFICES ASSUME NEW n \in 1..Len(v.pending), v.pending[n].relay \in DOMAIN v.held,
                      v.pending[n].relay \notin NamedElsewhere
               PROVE  v.held[v.pending[n].relay] = 0
    BY Zenon DEF HeldOut
  <2> DEFINE x == v.pending[n].relay
  <2>1. \A p \in t.probes : x # p.candidate.relay
    BY Zenon, <1>8 DEF TunnelOK, PendingOK
  <2>2. \A c \in C : c.relay \in Relay /\ x # c.relay
    BY Zenon, <1>2, <2>1, CandidateTypes DEF C
  <2>3. \A c \in C : Redirect[c.relay] # x
    BY Zenon, <2>2, RelayAssumption DEF NamedElsewhere
  <2>4. x \notin HoldRelays(C)
    BY SMTT(30), <2>2, <2>3 DEF HoldRelays
  <2>5. x \in DOMAIN t.held /\ v.held[x] = t.held[x]
    BY Zenon, <1>5, <1>6, <2>4
  <2> QED
    BY Zenon, <1>8, <1>13, <2>5 DEF HeldOut
<1> QED
  BY Zenon, <1>7, <1>9, <1>12, <1>13

(* A relay was found. *)
Found(t, v) ==
  /\ TunnelOK(v) /\ v.pending = <<>> /\ v.round = {} /\ ~v.withdrawn
  /\ v.failure = t.failure /\ v.desired = t.desired
  /\ \E relay : Serving(v, relay) /\ To(v, "Update") = {relay}

(* poll_probes takes at most one relay into use. *)
LEMMA PollProbesOK ==
  ASSUME NEW t, TunnelOK(t), t.active = {}, t.probes # {} => Searching(t),
         To(t, "Discovery") = {}, NEW v \in PollProbes(t)
  PROVE  \/ /\ TunnelOK(v) /\ (HeldOut(t) => HeldOut(v))
            /\ \A f \in DOMAIN t \ {"probes", "held"} : v[f] = t[f]
         \/ t.probes # {} /\ Found(t, v)
<1>1. \E gone : \E loaded \in SUBSET t.probes :
        \/ v = EndProbes(t, gone, loaded)
        \/ \E p \in t.probes : v \in Use(EndProbes(t, gone, loaded), p)
  <2> DEFINE expired == {p \in t.probes : p.age >= QueryTimeout}
             waiting == {p \in t.probes : "Pending" \in Outcomes(p)}
             failing == {p \in t.probes : "Failed" \in Outcomes(p)} \cup (waiting \cap expired)
             full == {p \in t.probes : "Loaded" \in Outcomes(p)}
             willing == {p \in t.probes : "Winner" \in Outcomes(p)}
             ends == {e \in (SUBSET failing) \X (SUBSET full) : e[1] \cap e[2] = {}}
             last == {e \in ends : t.probes \ (waiting \ expired) \subseteq e[1] \cup e[2]}
  <2>1. v \in {EndProbes(t, end[1], end[2]) : end \in last}
             \cup UNION {UNION {Use(EndProbes(t, end[1], end[2]), p) : p \in willing \ end[1]} : end \in ends}
    BY Zenon DEF PollProbes
  <2>2. full \subseteq t.probes /\ willing \subseteq t.probes
    BY Zenon
  <2>3. \A end \in ends : end[2] \in SUBSET full
    BY Zenon
  <2>4. \A end \in last : end \in ends
    BY Zenon
  <2> HIDE DEF ends, last, full, willing
  <2>5. \E end \in ends : \/ v = EndProbes(t, end[1], end[2])
                          \/ \E p \in willing : v \in Use(EndProbes(t, end[1], end[2]), p)
    BY SMTT(30), <2>1, <2>4
  <2>6. PICK end \in ends : \/ v = EndProbes(t, end[1], end[2])
                            \/ \E p \in willing : v \in Use(EndProbes(t, end[1], end[2]), p)
    BY Zenon, <2>5
  <2>7. end[2] \in SUBSET t.probes
    BY Zenon, <2>2, <2>3
  <2>8. \/ v = EndProbes(t, end[1], end[2])
        \/ \E p \in t.probes : v \in Use(EndProbes(t, end[1], end[2]), p)
    BY Zenon, <2>2, <2>6
  <2> DEFINE g == end[1]
             l == end[2]
  <2> HIDE DEF g, l
  <2>9. /\ l \in SUBSET t.probes
        /\ v = EndProbes(t, g, l) \/ \E p \in t.probes : v \in Use(EndProbes(t, g, l), p)
    BY Zenon, <2>7, <2>8 DEF g, l
  <2> QED
    BY Zenon, <2>9
<1>2. PICK gone : \E loaded \in SUBSET t.probes :
        \/ v = EndProbes(t, gone, loaded)
        \/ \E p \in t.probes : v \in Use(EndProbes(t, gone, loaded), p)
  BY Zenon, <1>1
<1>3. PICK loaded \in SUBSET t.probes :
        \/ v = EndProbes(t, gone, loaded)
        \/ \E p \in t.probes : v \in Use(EndProbes(t, gone, loaded), p)
  BY Zenon, <1>2
<1> DEFINE u == EndProbes(t, gone, loaded)
<1>4. /\ TunnelOK(u) /\ (HeldOut(t) => HeldOut(u))
      /\ \A f \in DOMAIN t \ {"probes", "held"} : u[f] = t[f]
  BY SMTT(30), ProbesEnd
<1> HIDE DEF u
<1>5. CASE v = u
  BY Zenon, <1>4, <1>5
<1> DEFINE New(p) == [candidate |-> p.candidate, relay |-> p.relay, cycle |-> {},
                      since |-> 0, deadline |-> {}, told |-> u.desired]
<1>6. ASSUME NEW p \in t.probes, v \in Use(u, p)
      PROVE  Found(t, v)
  <2> DEFINE b == New(p)
  <2>1. IsActive(b) /\ b.relay = p.relay
    BY Zenon DEF TunnelOK, ProbesOK, IsProbe, IsActive
  <2>2. PICK y \in SendDesired(u, b) : v = [y EXCEPT !.probes = {}, !.pending = <<>>, !.attempt = 0]
    BY Zenon, <1>6 DEF Use
  <2> HIDE DEF New
  <2>3. IsTunnel(u) /\ IsTunnel(t) /\ HeldOK(u)
    BY Zenon, <1>4 DEF TunnelOK
  <2>4. /\ IsTunnel(y) /\ \A f \in DOMAIN u \ {"out", "active"} : y[f] = u[f]
        /\ \E c : y.active = {c} /\ IsActive(c) /\ c.relay = b.relay /\ c.told = u.desired
        /\ \A k : To(y, k) = IF k = "Update" THEN To(u, k) \cup {b.relay} ELSE To(u, k)
    BY SMTT(30), <2>1, <2>3, DesiredSent
  <2>5. /\ u.dns = t.dns /\ u.round = t.round /\ u.withdrawn = t.withdrawn
        /\ u.desired = t.desired /\ u.failure = t.failure /\ u.out = t.out
    BY Zenon, <1>4, <2>3 DEF IsTunnel
  <2>6. /\ IsTunnel(v) /\ v.probes = {} /\ v.pending = <<>> /\ v.dns = y.dns /\ v.held = y.held
        /\ v.round = y.round /\ v.withdrawn = y.withdrawn /\ v.desired = y.desired
        /\ v.failure = y.failure /\ v.out = y.out /\ v.active = y.active
    BY Zenon, <2>2, <2>4 DEF IsTunnel
  <2>7. /\ v.dns = t.dns /\ v.held = u.held /\ v.round = t.round /\ v.withdrawn = t.withdrawn
        /\ v.desired = t.desired /\ v.failure = t.failure
    BY Zenon, <2>3, <2>4, <2>5, <2>6 DEF IsTunnel
  <2>8. t.round = {} /\ ~t.withdrawn
    BY Zenon DEF TunnelOK, ProbesOK, Settled
  <2>9. PICK c : v.active = {c} /\ IsActive(c) /\ c.relay = p.relay /\ c.told = v.desired
    BY Zenon, <2>1, <2>4, <2>5, <2>6, <2>7
  <2>10. TunnelOK(v)
    <3>1. HeldOK(v)
      BY Zenon, <2>3, <2>7 DEF HeldOK
    <3>2. PendingOK(v)
      BY Zenon, <2>6, EmptyQueue DEF PendingOK
    <3>3. Settled(v)
      BY Zenon, <2>6, <2>7, <2>8, <2>9 DEF Settled
    <3> QED
      BY ZenonT(30), <2>6, <2>7, <3>1, <3>2, <3>3, NoProbes DEF TunnelOK
  <2>11. \A k : To(v, k) = To(y, k) /\ To(u, k) = To(t, k)
    BY Zenon, <2>5, <2>6 DEF To
  <2>12. Serving(v, p.relay) /\ To(v, "Update") = {p.relay}
    BY ZenonT(30), <2>1, <2>4, <2>9, <2>11 DEF Searching, Serving
  <2> QED
    BY Zenon, <2>6, <2>7, <2>8, <2>10, <2>12 DEF Found
<1> QED
  BY Zenon, <1>3, <1>5, <1>6 DEF u

(* Nothing changes for the relays, except that one is probed: the first of    *)
(* those that wait, and it is not held down.                                  *)
Launched(t, w) ==
  \/ w.out = t.out
  \/ /\ ~w.withdrawn
     /\ \E c : /\ w.out = t.out \cup {[kind |-> "Discovery", to |-> c.relay]}
               /\ \A p \in w.probes : p.candidate.relay = c.relay => p.candidate = c
               /\ \A n \in 1..Len(w.pending) : c.rank <= w.pending[n].rank
               /\ HeldOut(t) => (c.relay \in DOMAIN w.held /\ c.relay \notin NamedElsewhere => w.held[c.relay] = 0)

LaunchedWell(t, w) ==
  /\ TunnelOK(w) /\ (HeldOut(t) => HeldOut(w)) /\ Launched(t, w) /\ w.active = {}
  /\ w.desired = t.desired /\ w.failure = t.failure /\ w.withdrawn = t.withdrawn
  /\ \A k : k # "Discovery" => To(w, k) = To(t, k)

(* The first candidate was taken from the queue, at its rank. *)
Popped(r, sent) ==
  /\ IsTunnel(sent) /\ \A f \in DOMAIN r \ {"rank", "pending", "next"} : sent[f] = r[f]
  /\ sent.pending = Tail(r.pending) /\ sent.rank = {Head(r.pending).rank}
  /\ r.probes # {} => sent.rank = r.rank

(* The first of an ordered queue goes. *)
LEMMA FirstGoes ==
  ASSUME NEW queue \in Seq(Candidate), Ordered(queue), queue # <<>>
  PROVE  /\ Head(queue) \in Candidate /\ Head(queue) = queue[1] /\ 1 \in 1..Len(queue)
         /\ Tail(queue) \in Seq(Candidate) /\ Ordered(Tail(queue))
         /\ \A n \in 1..Len(Tail(queue)) :
              /\ Tail(queue)[n] = queue[n + 1] /\ n + 1 \in 1..Len(queue)
              /\ Head(queue).rank <= Tail(queue)[n].rank
              /\ Head(queue).relay # Tail(queue)[n].relay
<1>1. Len(queue) \in Nat /\ Len(queue) # 0
  BY SMTT(30), EmptyQueue
<1>2. Head(queue) = queue[1] /\ 1 \in 1..Len(queue)
  BY SMTT(30), <1>1
<1>3. Head(queue) \in Candidate
  BY SMTT(30), <1>2
<1>4. Tail(queue) \in Seq(Candidate) /\ Len(Tail(queue)) = Len(queue) - 1
  BY SMTT(30), <1>1
<1>5. \A n \in 1..Len(Tail(queue)) : Tail(queue)[n] = queue[n + 1] /\ n + 1 \in 1..Len(queue)
  BY SMTT(30), <1>1, <1>4
<1>6. \A n \in 1..Len(Tail(queue)) :
        Head(queue).rank <= Tail(queue)[n].rank /\ Head(queue).relay # Tail(queue)[n].relay
  <2> SUFFICES ASSUME NEW n \in 1..Len(Tail(queue))
               PROVE  queue[1].rank <= queue[n + 1].rank /\ queue[1].relay # queue[n + 1].relay
    BY Zenon, <1>2, <1>5
  <2>1. 1 < n + 1 /\ n + 1 \in 1..Len(queue)
    BY SMTT(30), <1>5
  <2> QED
    BY Zenon, <1>2, <2>1 DEF Ordered
<1>7. Ordered(Tail(queue))
  <2> SUFFICES ASSUME NEW m \in 1..Len(Tail(queue)), NEW n \in 1..Len(Tail(queue)), m < n
               PROVE  /\ queue[m + 1].rank <= queue[n + 1].rank
                      /\ queue[m + 1].relay # queue[n + 1].relay
    BY ZenonT(30), <1>5 DEF Ordered
  <2>1. m + 1 \in 1..Len(queue) /\ n + 1 \in 1..Len(queue) /\ m + 1 < n + 1
    BY SMTT(30), <1>5
  <2> QED
    BY Zenon, <2>1 DEF Ordered
<1> QED
  BY Zenon, <1>2, <1>3, <1>4, <1>5, <1>6, <1>7

(* launch_probe_if_due, after the round has begun anew if it was due: the     *)
(* first candidate goes, with or without a probe.                             *)
LEMMA ProbeStarts ==
  ASSUME NEW r, TunnelOK(r), r.active = {}, r.pending # <<>>, r.round = {},
         Cardinality(r.probes) < MaxProbes,
         NEW sent, Popped(r, sent), NEW w, w = sent \/ w = StartProbe(sent, Head(r.pending))
  PROVE  LaunchedWell(r, w)
<1> DEFINE c == Head(r.pending)
           probe == [candidate |-> c, relay |-> Redirect[c.relay], age |-> 0]
<1>1. IsTunnel(r) /\ PendingOK(r) /\ ProbesOK(r) /\ HeldOK(r) /\ Settled(r) /\ ~r.withdrawn
  BY Zenon DEF TunnelOK, Settled
<1>2. r.pending \in Seq(Candidate) /\ Ordered(r.pending)
  BY Zenon, <1>1 DEF PendingOK
<1>3. /\ c \in Candidate /\ c = r.pending[1] /\ 1 \in 1..Len(r.pending)
      /\ Tail(r.pending) \in Seq(Candidate) /\ Ordered(Tail(r.pending))
      /\ \A n \in 1..Len(Tail(r.pending)) :
           /\ Tail(r.pending)[n] = r.pending[n + 1] /\ n + 1 \in 1..Len(r.pending)
           /\ c.rank <= Tail(r.pending)[n].rank
           /\ c.relay # Tail(r.pending)[n].relay
  BY Zenon, <1>2, FirstGoes
<1>4. c.relay \in Relay /\ c.rank \in Nat
  BY Zenon, <1>3, CandidateTypes
<1>5. IsProbe(probe) /\ probe.candidate = c
  <2>1. QueryTimeout \in Nat /\ Redirect[c.relay] \in Relay
    BY Zenon, <1>4, TimersAssumption, RelayAssumption
  <2> QED
    BY SMTT(30), <1>3, <2>1 DEF IsProbe
<1> HIDE DEF c, probe
<1>6. /\ IsTunnel(sent) /\ sent.pending = Tail(r.pending) /\ sent.rank = {c.rank}
      /\ sent.dns = r.dns /\ sent.held = r.held /\ sent.probes = r.probes /\ sent.round = r.round
      /\ sent.withdrawn = r.withdrawn /\ sent.active = r.active /\ sent.desired = r.desired
      /\ sent.out = r.out /\ sent.failure = r.failure
  BY ZenonT(30), <1>1 DEF Popped, IsTunnel, c
<1>7. \A n \in 1..Len(Tail(r.pending)) : \A p \in r.probes :
        Tail(r.pending)[n].relay # p.candidate.relay
  BY SMTT(30), <1>1, <1>3 DEF PendingOK
<1>8. \A p \in r.probes : sent.rank = {p.candidate.rank}
  BY Zenon, <1>1, <1>6 DEF ProbesOK, Popped, c
<1>9. HeldOut(r) => (c.relay \in DOMAIN r.held /\ c.relay \notin NamedElsewhere => r.held[c.relay] = 0)
  BY Zenon, <1>3 DEF HeldOut
<1>10. HeldOut(r) => \A n \in 1..Len(Tail(r.pending)) :
         Tail(r.pending)[n].relay \in DOMAIN r.held /\ Tail(r.pending)[n].relay \notin NamedElsewhere
           => r.held[Tail(r.pending)[n].relay] = 0
  BY SMTT(30), <1>3 DEF HeldOut
<1>11. CASE w = sent
  <2>1. /\ IsTunnel(w) /\ w.pending = Tail(r.pending) /\ \A p \in w.probes : w.rank = {p.candidate.rank}
        /\ w.dns = r.dns /\ w.held = r.held /\ w.probes = r.probes /\ w.round = r.round
        /\ w.withdrawn = r.withdrawn /\ w.active = r.active /\ w.desired = r.desired
        /\ w.out = r.out /\ w.failure = r.failure
    BY Zenon, <1>6, <1>8, <1>11
  <2>2. ProbesOK(w)
    BY Zenon, <1>1, <2>1 DEF ProbesOK
  <2>3. PendingOK(w)
    BY SMTT(30), <1>3, <1>7, <2>1 DEF PendingOK
  <2>4. HeldOK(w) /\ Settled(w)
    BY Zenon, <1>1, <2>1 DEF HeldOK, Settled
  <2>5. TunnelOK(w)
    BY Zenon, <2>1, <2>2, <2>3, <2>4 DEF TunnelOK
  <2>6. HeldOut(r) => HeldOut(w)
    BY Zenon, <1>10, <2>1 DEF HeldOut
  <2>7. \A k : To(w, k) = To(r, k)
    BY Zenon, <2>1 DEF To
  <2> QED
    BY Zenon, <2>1, <2>5, <2>6, <2>7 DEF Launched, LaunchedWell
<1>12. CASE w = StartProbe(sent, c)
  <2> DEFINE said == Say(sent, "Discovery", c.relay)
  <2>1. /\ IsTunnel(said) /\ said.out = sent.out \cup {[kind |-> "Discovery", to |-> c.relay]}
        /\ \A f \in DOMAIN sent \ {"out"} : said[f] = sent[f]
    BY SMTT(30), <1>6, SayKeeps
  <2>2. \A k : k # "Discovery" => To(said, k) = To(sent, k)
    BY SMTT(30), <1>6, SayTells
  <2> HIDE DEF said
  <2>3. /\ IsTunnel(w) /\ w.probes = said.probes \cup {probe}
        /\ \A f \in DOMAIN said \ {"probes"} : w[f] = said[f]
    <3>1. w = [said EXCEPT !.probes = @ \cup {probe}]
      BY Zenon, <1>12 DEF StartProbe, said, probe
    <3> QED
      BY Zenon, <2>1, <3>1 DEF IsTunnel
  <2>4. /\ said.pending = sent.pending /\ said.rank = sent.rank /\ said.probes = sent.probes
         /\ said.dns = sent.dns /\ said.held = sent.held /\ said.round = sent.round
         /\ said.withdrawn = sent.withdrawn /\ said.active = sent.active
         /\ said.desired = sent.desired /\ said.failure = sent.failure
    <3>1. DOMAIN sent \ {"out"} = {"dns", "held", "pending", "rank", "probes", "next", "round", "attempt",
                                  "traffic", "withdrawn", "active", "desired", "refresh", "failure"}
      BY Zenon, <1>6 DEF IsTunnel
    <3> QED
      BY Zenon, <2>1, <3>1
  <2>5. /\ w.pending = said.pending /\ w.rank = said.rank /\ w.out = said.out
         /\ w.dns = said.dns /\ w.held = said.held /\ w.round = said.round
         /\ w.withdrawn = said.withdrawn /\ w.active = said.active
         /\ w.desired = said.desired /\ w.failure = said.failure
    <3>1. DOMAIN said \ {"probes"} = {"dns", "held", "pending", "rank", "next", "round", "attempt", "out",
                                     "traffic", "withdrawn", "active", "desired", "refresh", "failure"}
      BY Zenon, <2>1 DEF IsTunnel
    <3> QED
      BY Zenon, <2>3, <3>1
  <2>6. /\ w.pending = Tail(r.pending) /\ w.rank = {c.rank} /\ w.probes = r.probes \cup {probe}
        /\ w.dns = r.dns /\ w.held = r.held /\ w.round = r.round
        /\ w.withdrawn = r.withdrawn /\ w.active = r.active /\ w.desired = r.desired
        /\ w.out = r.out \cup {[kind |-> "Discovery", to |-> c.relay]} /\ w.failure = r.failure
    BY ZenonT(30), <1>6, <2>1, <2>3, <2>4, <2>5
  <2>7. \A p \in r.probes : p.candidate.relay # c.relay
    BY Zenon, <1>1, <1>3 DEF PendingOK
  <2>8. ProbesOK(w)
    <3>1. IsFiniteSet(r.probes) /\ Cardinality(r.probes) \in Nat /\ MaxProbes \in Nat
      BY Zenon, <1>1, FS_CardinalityType, TimersAssumption DEF ProbesOK
    <3>2. probe \notin r.probes
      BY Zenon, <1>5, <2>7
    <3>3. IsFiniteSet(w.probes) /\ Cardinality(w.probes) = Cardinality(r.probes) + 1
      BY SMTT(30), <2>6, <3>1, <3>2, FS_AddElement
    <3>4. Cardinality(w.probes) <= MaxProbes
      BY SMTT(30), <3>1, <3>3
    <3>5. \A p \in w.probes : IsProbe(p) /\ w.rank = {p.candidate.rank}
      BY Zenon, <1>1, <1>5, <1>6, <1>8, <2>6 DEF ProbesOK
    <3>6. \A p, q \in w.probes : p.candidate.relay = q.candidate.relay => p = q
      BY Zenon, <1>1, <1>5, <2>6, <2>7 DEF ProbesOK
    <3> QED
      BY Zenon, <2>6, <3>3, <3>4, <3>5, <3>6 DEF ProbesOK
  <2>9. PendingOK(w)
    BY SMTT(30), <1>3, <1>5, <1>7, <2>6 DEF PendingOK
  <2>10. HeldOK(w) /\ Settled(w)
    BY Zenon, <1>1, <2>6 DEF HeldOK, Settled
  <2>11. TunnelOK(w)
    BY Zenon, <2>3, <2>6, <2>8, <2>9, <2>10 DEF TunnelOK
  <2>12. HeldOut(r) => HeldOut(w)
    BY Zenon, <1>10, <2>6 DEF HeldOut
  <2>13. \A k : k # "Discovery" => To(w, k) = To(r, k)
    <3>1. \A k : To(w, k) = To(said, k) /\ To(sent, k) = To(r, k)
      BY Zenon, <1>6, <2>1, <2>6 DEF To
    <3> QED
      BY Zenon, <2>2, <3>1
  <2>14. Launched(r, w)
    <3>1. \A p \in w.probes : p.candidate.relay = c.relay => p.candidate = c
      BY Zenon, <1>5, <2>6, <2>7
    <3>2. \A n \in 1..Len(w.pending) : c.rank <= w.pending[n].rank
      BY Zenon, <1>3, <2>6
    <3> QED
      BY Zenon, <1>1, <1>9, <2>6, <3>1, <3>2 DEF Launched
  <2> QED
    BY ZenonT(30), <2>6, <2>11, <2>12, <2>13, <2>14 DEF LaunchedWell
<1> QED
  BY Zenon, <1>11, <1>12 DEF c

LEMMA LaunchOK ==
  ASSUME NEW t, TunnelOK(t), t.active = {}, NEW w \in Launch(t)
  PROVE  LaunchedWell(t, w)
<1>1. CASE \E wait \in t.round : wait > 0
  <2>1. w = t
    BY Zenon, <1>1 DEF Launch
  <2> QED
    BY Zenon, <2>1 DEF Launched, LaunchedWell
<1>2. CASE ~ \E wait \in t.round : wait > 0
  <2> DEFINE r == IF t.round # {} THEN Rebuild(t) ELSE t
             u == IF r.probes = {} /\ r.pending # <<>>
                  THEN [r EXCEPT !.rank = {Head(r.pending).rank}] ELSE r
             waits == r.next > 0 \/ Cardinality(r.probes) >= MaxProbes \/ r.pending = <<>>
             sent == [u EXCEPT !.pending = Tail(@), !.next = Delay]
  <2>1. \/ waits /\ w = r
        \/ ~waits /\ u.rank # {Head(u.pending).rank} /\ w = u
        \/ /\ ~waits /\ u.rank = {Head(u.pending).rank}
           /\ w = sent \/ w = StartProbe(sent, Head(u.pending))
    BY Zenon, <1>2 DEF Launch
  <2>2. /\ TunnelOK(r) /\ (HeldOut(t) => HeldOut(r)) /\ r.active = {} /\ r.round = {}
        /\ r.out = t.out /\ r.desired = t.desired /\ r.failure = t.failure
        /\ r.withdrawn = t.withdrawn
    <3>1. CASE t.round = {}
      BY Zenon, <3>1
    <3>2. CASE t.round # {}
      <4>1. /\ IsTunnel(t) /\ t.dns \in Seq(Candidate) /\ HeldOK(t) /\ ProbesOK(t)
            /\ t.withdrawn => t.probes = {}
        BY Zenon DEF TunnelOK, Settled
      <4>2. TunnelOK(Rebuild(t)) /\ HeldOut(Rebuild(t))
        BY Zenon, <4>1, RebuildOK
      <4> QED
        BY Zenon, <3>2, <4>1, <4>2, RebuildKeeps
    <3> QED
      BY Zenon, <3>1, <3>2
  <2> HIDE DEF r
  <2>3. \A k : To(r, k) = To(t, k)
    BY Zenon, <2>2 DEF To
  <2>4. CASE w = r
    BY Zenon, <2>2, <2>3, <2>4 DEF Launched, LaunchedWell
  <2>5. IsTunnel(r) /\ ProbesOK(r)
    BY Zenon, <2>2 DEF TunnelOK
  <2>6. IsTunnel(u) /\ u.pending = r.pending /\ u.probes = r.probes
        /\ (r.probes # {} => u = r)
        /\ \A f \in DOMAIN r \ {"rank"} : u[f] = r[f]
    BY Zenon, <2>5 DEF IsTunnel
  <2>7. r.probes = {} /\ r.pending # <<>> => u.rank = {Head(r.pending).rank}
    BY Zenon, <2>5 DEF IsTunnel
  <2> HIDE DEF u
  <2>8. CASE ~waits /\ u.rank # {Head(u.pending).rank} /\ w = u
    BY Zenon, <2>4, <2>6, <2>7, <2>8
  <2>9. CASE /\ ~waits /\ u.rank = {Head(u.pending).rank}
             /\ w = sent \/ w = StartProbe(sent, Head(u.pending))
    <3>1. Cardinality(r.probes) \in Nat /\ MaxProbes \in Nat
      BY Zenon, <2>5, FS_CardinalityType, TimersAssumption DEF ProbesOK
    <3>2. Cardinality(r.probes) < MaxProbes /\ r.pending # <<>>
      BY SMTT(30), <2>9, <3>1
    <3>3. /\ IsTunnel(sent) /\ sent.pending = Tail(r.pending) /\ sent.rank = u.rank
          /\ \A f \in DOMAIN r \ {"rank", "pending", "next"} : sent[f] = r[f]
      <4>1. DOMAIN u = DOMAIN r
        BY Zenon, <2>5, <2>6 DEF IsTunnel
      <4>2. /\ IsTunnel(sent) /\ sent.pending = Tail(u.pending) /\ sent.rank = u.rank
            /\ \A f \in DOMAIN u \ {"pending", "next"} : sent[f] = u[f]
        BY Zenon, <2>6 DEF IsTunnel
      <4> HIDE DEF sent
      <4> QED
        BY Zenon, <2>6, <4>1, <4>2
    <3>4. sent.rank = {Head(r.pending).rank} /\ (r.probes # {} => sent.rank = r.rank)
      BY Zenon, <2>6, <2>9, <3>3
    <3>5. w = sent \/ w = StartProbe(sent, Head(r.pending))
      BY Zenon, <2>6, <2>9
    <3> HIDE DEF sent
    <3>6. Popped(r, sent)
      BY Zenon, <3>3, <3>4 DEF Popped
    <3>7. LaunchedWell(r, w)
      BY Zenon, <2>2, <3>2, <3>5, <3>6, ProbeStarts
    <3>8. Launched(t, w)
      BY Zenon, <2>2, <3>7 DEF Launched, LaunchedWell
    <3> QED
      BY Zenon, <2>2, <2>3, <3>7, <3>8 DEF LaunchedWell
  <2> QED
    BY Zenon, <2>1, <2>4, <2>8, <2>9
<1> QED
  BY Zenon, <1>1, <1>2

LEMMA RoundOK ==
  ASSUME NEW t, TunnelOK(t), NEW x \in ScheduleRound(t)
  PROVE  /\ TunnelOK(x) /\ (HeldOut(t) => HeldOut(x))
         /\ x.active = t.active /\ x.desired = t.desired /\ x.failure = t.failure
         /\ x.withdrawn = t.withdrawn /\ x.out = t.out /\ x.probes = t.probes
         /\ x.pending = t.pending /\ x.held = t.held
<1>1. CASE x = t
  BY Zenon, <1>1
<1>2. CASE x # t
  <2>1. PICK delay : x = [t EXCEPT !.round = {delay}, !.attempt = CountAttempt(@, 1, RetryMax)]
    BY Zenon, <1>2 DEF ScheduleRound
  <2>2. t.probes = {}
    BY Zenon, <1>2 DEF ScheduleRound
  <2>3. /\ IsTunnel(x) /\ x.active = t.active /\ x.desired = t.desired /\ x.failure = t.failure
        /\ x.withdrawn = t.withdrawn /\ x.out = t.out /\ x.probes = t.probes /\ x.dns = t.dns
        /\ x.pending = t.pending /\ x.held = t.held
    BY Zenon, <2>1 DEF TunnelOK, IsTunnel
  <2>4. HeldOK(x) /\ PendingOK(x) /\ Settled(x) /\ (HeldOut(t) => HeldOut(x))
    BY SMTT(30), <2>3 DEF TunnelOK, HeldOK, PendingOK, Settled, HeldOut
  <2>5. ProbesOK(x)
    BY Zenon, <2>2, <2>3, NoProbes
  <2> QED
    BY Zenon, <2>3, <2>4, <2>5 DEF TunnelOK
<1> QED
  BY Zenon, <1>1, <1>2
-----------------------------------------------------------------------------
(* The steps.                                                              *)

(* When a probe starts, no better candidate waits, and the address that is    *)
(* probed is not held down.                                                   *)
ProbesFirst(t) ==
  \A p \in t.probes : \A n \in DOMAIN t.pending :
    p.age = 0 /\ p.candidate.relay \in To(t, "Discovery") => p.candidate.rank <= t.pending[n].rank

LeftAlone(t) ==
  \A r \in To(t, "Discovery") : r \in DOMAIN t.held /\ r \notin NamedElsewhere => t.held[r] = 0

(* The inductive invariant.  Everything in TunnelOK is needed at some step:   *)
(* that probes are of the current rank for a queue that is rebuilt, that a    *)
(* round is not waited for while probes are in flight for a relay that is     *)
(* found.                                                                     *)
TunnelInv ==
  /\ TunnelOK(tunnel) /\ tunnel.failure = {} /\ mood \in [Relay -> Mood]
  /\ MembershipsPlaced /\ Silent(tunnel) /\ ProbesFirst(tunnel)

HeldInv == HeldOut(tunnel) /\ LeftAlone(tunnel)

LEMMA NoneProbed ==
  ASSUME NEW t, To(t, "Discovery") = {}
  PROVE  ProbesFirst(t) /\ LeftAlone(t)
  BY Zenon DEF ProbesFirst, LeftAlone

LEMMA OneProbed ==
  ASSUME NEW t, To(t, "Discovery") = {}, NEW w, TunnelOK(w), Launched(t, w)
  PROVE  ProbesFirst(w) /\ (HeldOut(t) => LeftAlone(w))
<1>1. CASE w.out = t.out
  <2>1. To(w, "Discovery") = {}
    BY Zenon, <1>1 DEF To
  <2> QED
    BY Zenon, <2>1, NoneProbed
<1>2. CASE w.out # t.out
  <2>1. PICK c : /\ w.out = t.out \cup {[kind |-> "Discovery", to |-> c.relay]}
                 /\ \A p \in w.probes : p.candidate.relay = c.relay => p.candidate = c
                 /\ \A n \in 1..Len(w.pending) : c.rank <= w.pending[n].rank
                 /\ HeldOut(t) => (c.relay \in DOMAIN w.held /\ c.relay \notin NamedElsewhere => w.held[c.relay] = 0)
    BY Zenon, <1>2 DEF Launched
  <2>2. To(w, "Discovery") \subseteq {c.relay}
    <3> SUFFICES ASSUME NEW m \in w.out, m.kind = "Discovery" PROVE m.to = c.relay
      BY Zenon DEF To
    <3>1. m \notin t.out
      BY Zenon DEF To
    <3> QED
      BY SMTT(30), <2>1, <3>1
  <2>3. DOMAIN w.pending = 1..Len(w.pending)
    BY SMTT(30) DEF TunnelOK, PendingOK
  <2> QED
    BY Zenon, <2>1, <2>2, <2>3 DEF ProbesFirst, LeftAlone
<1> QED
  BY Zenon, <1>1, <1>2

(* What every step keeps to, whatever it does. *)
WellKept(t, x) ==
  /\ TunnelOK(x) /\ x.failure = {} /\ Silent(x) /\ ProbesFirst(x)
  /\ HeldOut(t) => HeldOut(x) /\ LeftAlone(x)

(* poll, when no relay is in use. *)
LEMMA SearchOK ==
  ASSUME NEW u, TunnelOK(u), u.active = {}, u.failure = {}, u.probes # {} => Searching(u),
         To(u, "Discovery") = {}, Silent(u),
         NEW v \in PollProbes(u), NEW w \in Launch(v), NEW x \in ScheduleRound(w)
  PROVE  /\ WellKept(u, x)
         /\ \/ u.probes # {} /\ Found(u, x)
            \/ /\ x.active = {} /\ x.withdrawn = u.withdrawn
               /\ \A k \in {"Update", "Teardown", "Lost"} : To(x, k) = To(u, k)
<1>1. \/ /\ TunnelOK(v) /\ (HeldOut(u) => HeldOut(v))
         /\ \A f \in DOMAIN u \ {"probes", "held"} : v[f] = u[f]
      \/ u.probes # {} /\ Found(u, v)
  BY Zenon, PollProbesOK
<1>2. CASE u.probes # {} /\ Found(u, v)
  <2>1. v.round = {} /\ v.pending = <<>> /\ v.active # {} /\ TunnelOK(v) /\ ~v.withdrawn
        /\ v.failure = {} /\ To(v, "Discovery") = {}
    BY Zenon, <1>2 DEF Found, Serving
  <2>2. w = v
    BY Zenon, <2>1 DEF Launch
  <2>3. x = v
    BY Zenon, <2>1, <2>2 DEF ScheduleRound
  <2>4. HeldOut(v)
    BY SMTT(30), <2>1, EmptyQueue DEF HeldOut
  <2> QED
    BY Zenon, <1>2, <2>1, <2>3, <2>4, NoneProbed DEF WellKept, Silent
<1>3. CASE /\ TunnelOK(v) /\ (HeldOut(u) => HeldOut(v))
           /\ \A f \in DOMAIN u \ {"probes", "held"} : v[f] = u[f]
  <2>1. /\ v.active = {} /\ v.out = u.out /\ v.desired = u.desired /\ v.failure = {}
        /\ v.withdrawn = u.withdrawn
    BY Zenon, <1>3 DEF TunnelOK, IsTunnel
  <2>2. LaunchedWell(v, w)
    BY Zenon, <1>3, <2>1, LaunchOK
  <2>3. TunnelOK(w)
    BY Zenon, <2>2 DEF LaunchedWell
  <2>4. /\ TunnelOK(x) /\ (HeldOut(w) => HeldOut(x))
        /\ x.active = w.active /\ x.desired = w.desired /\ x.failure = w.failure
        /\ x.withdrawn = w.withdrawn /\ x.out = w.out /\ x.probes = w.probes
        /\ x.pending = w.pending /\ x.held = w.held
    BY Zenon, <2>3, RoundOK
  <2>5. \A k : To(v, k) = To(u, k) /\ To(x, k) = To(w, k)
    BY Zenon, <2>1, <2>4 DEF To
  <2>6. ProbesFirst(w) /\ (HeldOut(v) => LeftAlone(w))
    BY Zenon, <2>2, <2>3, <2>5, OneProbed DEF LaunchedWell
  <2>7. ProbesFirst(x) /\ (LeftAlone(w) => LeftAlone(x))
    BY Zenon, <2>4, <2>5, <2>6 DEF ProbesFirst, LeftAlone
  <2>8. Silent(x)
    BY Zenon, <2>1, <2>2, <2>4 DEF LaunchedWell, Launched, Silent
  <2>9. \A k \in {"Update", "Teardown", "Lost"} : To(x, k) = To(u, k)
    BY Zenon, <2>2, <2>5 DEF LaunchedWell
  <2>10. WellKept(u, x)
    BY Zenon, <1>3, <2>1, <2>2, <2>4, <2>6, <2>7, <2>8 DEF WellKept, LaunchedWell
  <2> QED
    BY Zenon, <2>1, <2>2, <2>4, <2>9, <2>10 DEF LaunchedWell
<1> QED
  BY Zenon, <1>1, <1>2, <1>3

(* The invariant after a step, from what it did. *)
LEMMA StepKeeps ==
  ASSUME TunnelInv, NEW x, Step(x), WellKept(tunnel, x), MembershipsPlaced'
  PROVE  TunnelInv' /\ (HeldInv => HeldInv')
<1>1. tunnel' = x /\ mood' = mood
  BY Zenon DEF Step
<1>2. /\ TunnelOK(tunnel)' /\ tunnel'.failure = {} /\ Silent(tunnel)' /\ ProbesFirst(tunnel)'
      /\ HeldOut(tunnel) => HeldOut(tunnel)' /\ LeftAlone(tunnel)'
  BY Zenon, <1>1 DEF WellKept
<1> QED
  BY Zenon, <1>1, <1>2 DEF TunnelInv, HeldInv

(* A tunnel before it says anything. *)
LEMMA QuietOK ==
  ASSUME TunnelInv, NEW t, t = [tunnel EXCEPT !.out = {}]
  PROVE  /\ TunnelOK(t) /\ t.out = {} /\ t.failure = {} /\ (HeldOut(tunnel) => HeldOut(t))
         /\ t.active = tunnel.active /\ t.desired = tunnel.desired
<1>1. IsTunnel(tunnel) /\ TunnelOK(tunnel) /\ tunnel.failure = {}
  BY Zenon DEF TunnelInv, TunnelOK
<1>2. /\ IsTunnel(t) /\ t.out = {} /\ t.failure = {} /\ t.desired = tunnel.desired
      /\ t.dns = tunnel.dns /\ t.held = tunnel.held /\ t.pending = tunnel.pending
      /\ t.rank = tunnel.rank /\ t.probes = tunnel.probes /\ t.round = tunnel.round
      /\ t.withdrawn = tunnel.withdrawn /\ t.active = tunnel.active
  BY Zenon, <1>1 DEF IsTunnel
<1>3. TunnelOK(t) /\ (HeldOut(tunnel) => HeldOut(t))
  BY Zenon, <1>1, <1>2, RestKept
<1> QED
  BY Zenon, <1>2, <1>3

LEMMA PollKeeps ==
  ASSUME TunnelInv, PollTunnel
  PROVE  TunnelInv' /\ (HeldInv => HeldInv')
<1> DEFINE t == [tunnel EXCEPT !.out = {}]
<1>1. /\ TunnelOK(t) /\ t.out = {} /\ t.failure = {} /\ (HeldOut(tunnel) => HeldOut(t))
      /\ t.active = tunnel.active /\ t.desired = tunnel.desired
  BY Zenon, QuietOK
<1>2. MembershipsPlaced /\ mood \in [Relay -> Mood]
  BY Zenon DEF TunnelInv
<1>3. PICK u \in PollRefresh(t) :
        \/ u.active # {} /\ \E x \in PollActive(u) : Step(x)
        \/ /\ u.active = {}
           /\ \E v \in PollProbes(u) : \E w \in Launch(v) : \E x \in ScheduleRound(w) : Step(x)
  BY Zenon DEF PollTunnel
<1> HIDE DEF t
<1>4. \/ /\ TunnelOK(u) /\ (HeldOut(t) => HeldOut(u))
         /\ u.active = t.active /\ u.out = {} /\ u.desired = t.desired /\ u.failure = t.failure
      \/ Withdrawn(t, u)
  BY Zenon, <1>1, RefreshOK
<1>5. ASSUME u.active # {}, NEW x \in PollActive(u), Step(x)
      PROVE  WellKept(tunnel, x) /\ MembershipsPlaced'
  <2>1. /\ TunnelOK(u) /\ u.active = t.active /\ u.out = {} /\ u.desired = t.desired
        /\ u.failure = {}
    BY Zenon, <1>1, <1>4, <1>5 DEF Withdrawn
  <2>2. PICK a : u.active = {a}
    BY Zenon, <1>5, <2>1 DEF TunnelOK, Settled
  <2>3. tunnel.active = {a} /\ a.told = u.desired
    BY Zenon, <1>1, <1>2, <2>1, <2>2 DEF MembershipsPlaced
  <2>4. \A k : To(u, k) = {}
    BY Zenon, <2>1, NothingSaid
  <2>5. InUse(u, a.relay)
    BY Zenon, <2>1, <2>2, <2>3, <2>4 DEF InUse, Serving
  <2>6. /\ TunnelOK(x) /\ HeldOut(x) /\ ~x.withdrawn /\ x.failure = {}
        /\ Serving(x, a.relay) \/ Left(x, a.relay)
    BY Zenon, <1>2, <2>5, PollActiveOK
  <2>7. To(x, "Discovery") = {}
    BY Zenon, <2>6 DEF Serving, Left
  <2>8. WellKept(tunnel, x)
    BY Zenon, <2>6, <2>7, NoneProbed DEF WellKept, Silent
  <2> QED
    BY Zenon, <1>2, <1>5, <2>3, <2>6, <2>8, UseContinues
<1>6. ASSUME u.active = {}, NEW v \in PollProbes(u), NEW w \in Launch(v),
             NEW x \in ScheduleRound(w), Step(x)
      PROVE  WellKept(tunnel, x) /\ MembershipsPlaced'
  <2>1. CASE /\ TunnelOK(u) /\ (HeldOut(t) => HeldOut(u))
             /\ u.active = t.active /\ u.out = {} /\ u.desired = t.desired /\ u.failure = t.failure
    <3>1. \A k : To(u, k) = {}
      BY Zenon, <2>1, NothingSaid
    <3>2. Searching(u) /\ Silent(u) /\ u.failure = {} /\ TunnelOK(u)
      BY Zenon, <1>1, <1>6, <2>1, <3>1 DEF Searching, Silent
    <3>3. /\ WellKept(u, x)
          /\ \/ u.probes # {} /\ Found(u, x)
             \/ /\ x.active = {} /\ x.withdrawn = u.withdrawn
                /\ \A k \in {"Update", "Teardown", "Lost"} : To(x, k) = To(u, k)
      BY Zenon, <1>6, <3>1, <3>2, SearchOK
    <3>4. Searching(x) \/ \E relay : Serving(x, relay) /\ To(x, "Update") = {relay}
      BY Zenon, <3>1, <3>3 DEF Searching, Found
    <3>5. tunnel.active = {}
      BY Zenon, <1>1, <1>6, <2>1
    <3>6. MembershipsPlaced'
      BY Zenon, <1>2, <1>6, <3>4, <3>5, SearchContinues
    <3>7. WellKept(tunnel, x)
      BY Zenon, <1>1, <2>1, <3>3 DEF WellKept
    <3> QED
      BY Zenon, <3>6, <3>7
  <2>2. CASE Withdrawn(t, u)
    <3>1. /\ TunnelOK(u) /\ HeldOut(u) /\ u.withdrawn /\ u.failure = {}
          /\ \A m \in u.out : m.kind \in {"Teardown", "Lost"}
      BY Zenon, <1>1, <2>2 DEF Withdrawn
    <3>2. u.probes = {} /\ Silent(u) /\ To(u, "Discovery") = {}
      BY Zenon, <3>1 DEF TunnelOK, Settled, Silent, To
    <3>3. /\ WellKept(u, x)
          /\ \/ u.probes # {} /\ Found(u, x)
             \/ /\ x.active = {} /\ x.withdrawn = u.withdrawn
                /\ \A k \in {"Update", "Teardown", "Lost"} : To(x, k) = To(u, k)
      BY Zenon, <1>6, <3>1, <3>2, SearchOK
    <3>4. /\ x.active = {} /\ x.withdrawn
          /\ \A k \in {"Update", "Teardown", "Lost"} : To(x, k) = To(u, k)
      BY Zenon, <3>1, <3>2, <3>3
    <3>5. To(x, "Discovery") = {}
      BY Zenon, <3>3, <3>4 DEF WellKept, Silent, To
    <3>6. WellKept(tunnel, x)
      BY Zenon, <3>1, <3>3 DEF WellKept
    <3>7. CASE t.active = {} /\ u.out = {}
      <4>1. Searching(x)
        BY Zenon, <3>4, <3>7, NothingSaid DEF Searching
      <4> QED
        BY ZenonT(30), <1>1, <1>2, <1>6, <3>6, <3>7, <4>1, SearchContinues
    <3>8. CASE \E a : t.active = {a} /\ Left(u, a.relay)
      <4>1. PICK a : t.active = {a} /\ Left(u, a.relay)
        BY Zenon, <3>8
      <4>2. Left(x, a.relay)
        BY Zenon, <3>4, <3>5, <4>1 DEF Left
      <4> QED
        BY ZenonT(30), <1>1, <1>2, <1>6, <3>6, <4>1, <4>2, UseContinues
    <3> QED
      BY Zenon, <2>2, <3>7, <3>8 DEF Withdrawn
  <2> QED
    BY ZenonT(60), <1>4, <2>1, <2>2
<1> QED
  BY Zenon, <1>3, <1>5, <1>6, StepKeeps

LEMMA SetDesiredKeeps ==
  ASSUME TunnelInv, SetDesired
  PROVE  TunnelInv' /\ (HeldInv => HeldInv')
<1>1. TunnelOK(tunnel) /\ IsTunnel(tunnel) /\ tunnel.failure = {} /\ MembershipsPlaced
  BY Zenon DEF TunnelInv, TunnelOK
<1>2. PICK desired \in Report :
        LET t == [tunnel EXCEPT !.out = {}, !.desired = desired]
        IN  IF t.active = {} THEN Step(t)
            ELSE \E a \in t.active :
                   \/ \E u \in SendDesired(t, a) : Step(u)
                   \/ Faults /\ \E u \in FailActive(Fail(t, "QueryTimeout")) : Step(u)
  BY Zenon DEF SetDesired
<1> DEFINE t == [tunnel EXCEPT !.out = {}, !.desired = desired]
<1>3. /\ IsTunnel(t) /\ t.out = {} /\ t.failure = {} /\ t.dns = tunnel.dns /\ t.held = tunnel.held
      /\ t.pending = tunnel.pending /\ t.rank = tunnel.rank /\ t.probes = tunnel.probes
      /\ t.round = tunnel.round /\ t.withdrawn = tunnel.withdrawn /\ t.active = tunnel.active
  BY Zenon, <1>1 DEF IsTunnel
<1>4. IF t.active = {} THEN Step(t)
      ELSE \E a \in t.active : \/ \E u \in SendDesired(t, a) : Step(u)
                               \/ \E u \in FailActive(Fail(t, "QueryTimeout")) : Step(u)
  BY Zenon, <1>2
<1> HIDE DEF t
<1>5. TunnelOK(t) /\ (HeldOut(tunnel) => HeldOut(t))
  BY Zenon, <1>1, <1>3, RestKept
<1>6. \A k : To(t, k) = {}
  BY Zenon, <1>3, NothingSaid
<1>7. CASE t.active = {}
  <2>1. Searching(t) /\ Step(t) /\ tunnel.active = {}
    BY Zenon, <1>3, <1>4, <1>6, <1>7 DEF Searching
  <2>2. WellKept(tunnel, t)
    BY Zenon, <1>3, <1>5, <1>6, NoneProbed DEF WellKept, Silent
  <2>3. MembershipsPlaced'
    BY Zenon, <1>1, <2>1, SearchContinues
  <2> QED
    BY Zenon, <2>1, <2>2, <2>3, StepKeeps
<1>8. CASE t.active # {}
  <2>1. PICK a : t.active = {a} /\ IsActive(a)
    BY Zenon, <1>5, <1>8 DEF TunnelOK, Settled
  <2>2. \/ \E u \in SendDesired(t, a) : Step(u)
        \/ \E u \in FailActive(Fail(t, "QueryTimeout")) : Step(u)
    BY Zenon, <1>4, <1>8, <2>1
  <2>3. ASSUME NEW u \in SendDesired(t, a), Step(u)
        PROVE  WellKept(tunnel, u) /\ MembershipsPlaced'
    <3>1. InUse(u, a.relay) /\ u.failure = {}
      BY Zenon, <1>3, <1>5, <1>6, <2>1, DesiredKeeps
    <3>2. u.active # {} /\ To(u, "Discovery") = {} /\ Serving(u, a.relay) /\ TunnelOK(u)
      BY Zenon, <3>1 DEF InUse, Serving
    <3>3. u.pending = <<>> /\ ~u.withdrawn
      BY Zenon, <3>2 DEF TunnelOK, Settled
    <3>4. WellKept(tunnel, u)
      BY SMTT(30), <3>1, <3>2, <3>3, NoneProbed, EmptyQueue DEF WellKept, Silent, HeldOut
    <3> QED
      BY ZenonT(30), <1>1, <1>3, <2>1, <2>3, <3>2, <3>4, UseContinues
  <2>4. ASSUME NEW u \in FailActive(Fail(t, "QueryTimeout")), Step(u)
        PROVE  WellKept(tunnel, u) /\ MembershipsPlaced'
    <3> DEFINE f == Fail(t, "QueryTimeout")
    <3>1. /\ IsTunnel(f) /\ f.out = {} /\ f.failure = {"QueryTimeout"} /\ f.dns = t.dns
          /\ f.held = t.held /\ f.pending = t.pending /\ f.rank = t.rank /\ f.probes = t.probes
          /\ f.round = t.round /\ f.withdrawn = t.withdrawn /\ f.active = t.active
      BY Zenon, <1>3 DEF Fail, IsTunnel
    <3> HIDE DEF f
    <3>2. TunnelOK(f)
      BY Zenon, <1>5, <3>1, RestKept
    <3>3. \A k : To(f, k) = {}
      BY Zenon, <3>1, NothingSaid
    <3>4. Engaged(f, a.relay)
      BY Zenon, <2>1, <3>1, <3>2, <3>3 DEF Engaged
    <3>5. u \in FailActive(f) /\ f.failure # {}
      BY Zenon, <2>4, <3>1 DEF f
    <3>6. /\ TunnelOK(u) /\ HeldOut(u) /\ Left(u, a.relay) /\ ~u.withdrawn /\ u.failure = {}
      BY Zenon, <3>4, <3>5, FailActiveLeaves
    <3>7. WellKept(tunnel, u)
      BY Zenon, <3>6, NoneProbed DEF WellKept, Silent, Left
    <3> QED
      BY ZenonT(30), <1>1, <1>3, <2>1, <2>4, <3>6, <3>7, UseContinues
  <2> QED
    BY Zenon, <2>2, <2>3, <2>4, StepKeeps
<1> QED
  BY Zenon, <1>7, <1>8

LEMMA NewTunnelOK ==
  ASSUME NEW desired
  PROVE  /\ TunnelOK(NewSourceTunnel(desired)) /\ HeldOut(NewSourceTunnel(desired))
         /\ NewSourceTunnel(desired).active = {} /\ NewSourceTunnel(desired).out = {}
         /\ NewSourceTunnel(desired).failure = {} /\ ~NewSourceTunnel(desired).withdrawn
<1> DEFINE t == [dns |-> <<>>, held |-> [r \in {} |-> 0], pending |-> <<>>, rank |-> {},
                 probes |-> {}, next |-> 0, round |-> {}, attempt |-> 0, traffic |-> 0,
                 withdrawn |-> FALSE, active |-> {}, desired |-> desired, out |-> {},
                 refresh |-> [wait |-> 0, pending |-> FALSE, attempt |-> 0], failure |-> {}]
<1>1. NewSourceTunnel(desired) = Rebuild(t)
  BY Zenon DEF NewSourceTunnel
<1>2. /\ IsTunnel(t) /\ t.dns = <<>> /\ t.held = [r \in {} |-> 0] /\ t.probes = {}
      /\ t.active = {} /\ t.out = {} /\ t.failure = {} /\ ~t.withdrawn
  BY Zenon DEF IsTunnel
<1> HIDE DEF t
<1>3. HeldOK(t)
  BY Zenon, <1>2 DEF HeldOK
<1>4. TunnelOK(Rebuild(t)) /\ HeldOut(Rebuild(t))
  BY Zenon, <1>2, <1>3, NoProbes, EmptyQueue, RebuildOK
<1> QED
  BY ZenonT(30), <1>1, <1>2, <1>4, RebuildKeeps

LEMMA ShutdownKeeps ==
  ASSUME TunnelInv, ShutdownTunnel
  PROVE  TunnelInv' /\ (HeldInv => HeldInv')
<1> DEFINE t == [tunnel EXCEPT !.out = {}]
<1>1. /\ TunnelOK(t) /\ t.out = {} /\ t.failure = {} /\ t.active = tunnel.active
  BY Zenon, QuietOK
<1>2. MembershipsPlaced /\ IsTunnel(t)
  BY Zenon, <1>1 DEF TunnelInv, TunnelOK
<1>3. PICK u \in IF tunnel.active = {} THEN {t} ELSE UNION {SendTeardown(t, a) : a \in tunnel.active},
           desired \in Report : Step([NewSourceTunnel(desired) EXCEPT !.out = u.out])
  BY Zenon DEF ShutdownTunnel
<1> DEFINE n == NewSourceTunnel(desired)
           x == [n EXCEPT !.out = u.out]
<1>4. TunnelOK(n) /\ HeldOut(n) /\ n.active = {} /\ n.out = {} /\ n.failure = {} /\ ~n.withdrawn
  BY Zenon, NewTunnelOK
<1> HIDE DEF t, n
<1>5. /\ IsTunnel(x) /\ x.out = u.out /\ x.dns = n.dns /\ x.held = n.held /\ x.pending = n.pending
      /\ x.rank = n.rank /\ x.probes = n.probes /\ x.round = n.round /\ x.withdrawn = n.withdrawn
      /\ x.active = n.active /\ x.failure = n.failure
  BY Zenon, <1>4 DEF TunnelOK, IsTunnel
<1>6. Step(x)
  BY Zenon, <1>3 DEF n
<1> HIDE DEF x
<1>7. TunnelOK(x) /\ HeldOut(x) /\ x.active = {} /\ x.failure = {} /\ ~x.withdrawn
  BY Zenon, <1>4, <1>5, RestKept
<1>8. \A k : To(t, k) = {}
  BY Zenon, <1>1, NothingSaid
<1>9. To(x, "Discovery") = {} /\ MembershipsPlaced'
  <2>1. CASE tunnel.active = {}
    <3>1. \A k : To(x, k) = {}
      BY Zenon, <1>1, <1>3, <1>5, <2>1, NothingSaid
    <3>2. Searching(x)
      BY Zenon, <1>7, <3>1 DEF Searching
    <3> QED
      BY Zenon, <1>2, <1>6, <2>1, <3>1, <3>2, SearchContinues
  <2>2. CASE tunnel.active # {}
    <3>1. PICK a : tunnel.active = {a}
      BY Zenon, <1>1, <2>2 DEF TunnelOK, Settled
    <3>2. u \in SendTeardown(t, a)
      BY Zenon, <1>3, <2>2, <3>1
    <3>3. Left(x, a.relay)
      BY Zenon, <1>2, <1>5, <1>7, <1>8, <3>2, TeardownLeaves
    <3> QED
      BY Zenon, <1>2, <1>6, <3>1, <3>3, UseContinues DEF Left
  <2> QED
    BY Zenon, <2>1, <2>2
<1>10. WellKept(tunnel, x)
  BY Zenon, <1>7, <1>9, NoneProbed DEF WellKept, Silent
<1> QED
  BY Zenon, <1>6, <1>9, <1>10, StepKeeps

LEMMA MoodKeeps ==
  ASSUME TunnelInv, ChangeMood
  PROVE  TunnelInv' /\ (HeldInv => HeldInv')
<1>1. mood' \in [Relay -> Mood] /\ tunnel' = tunnel /\ served' = served /\ lost' = lost
  BY Zenon, RelayAssumption DEF ChangeMood
<1>2. MembershipsPlaced'
  BY Zenon, <1>1 DEF TunnelInv, MembershipsPlaced
<1> QED
  BY Zenon, <1>1, <1>2 DEF TunnelInv, HeldInv

(* Time makes the probes older, one by one. *)
Older(p) == [p EXCEPT !.age = More(@, QueryTimeout)]

LEMMA OlderProbe ==
  ASSUME NEW p, IsProbe(p)
  PROVE  IsProbe(Older(p)) /\ Older(p).candidate = p.candidate
<1>1. DOMAIN p = {"candidate", "relay", "age"} /\ p.age \in 0..QueryTimeout
  BY Zenon DEF IsProbe
<1>2. QueryTimeout \in Nat
  BY Zenon, TimersAssumption
<1>3. More(p.age, QueryTimeout) \in 0..QueryTimeout
  BY SMTT(30), <1>1, <1>2 DEF More
<1> QED
  BY Zenon, <1>1, <1>3 DEF IsProbe, Older

LEMMA OlderProbes ==
  ASSUME NEW probes, IsFiniteSet(probes), Cardinality(probes) <= MaxProbes, NEW older,
         older = {Older(p) : p \in probes}
  PROVE  IsFiniteSet(older) /\ Cardinality(older) <= MaxProbes
<1> DEFINE grow == [p \in probes |-> Older(p)]
<1>1. grow \in Surjection(probes, older)
  BY Zenon DEF Surjection
<1>2. IsFiniteSet(older) /\ Cardinality(older) <= Cardinality(probes)
  BY Zenon, <1>1, FS_Surjection
<1>3. Cardinality(older) \in Nat /\ Cardinality(probes) \in Nat /\ MaxProbes \in Nat
  BY Zenon, <1>2, FS_CardinalityType, TimersAssumption
<1> QED
  BY SMTT(30), <1>2, <1>3

(* What time changes in a tunnel. *)
LEMMA Aged ==
  ASSUME TunnelInv, TickTunnel
  PROVE  /\ IsTunnel(tunnel') /\ tunnel'.out = {} /\ tunnel'.failure = {}
         /\ tunnel'.dns = tunnel.dns /\ tunnel'.pending = tunnel.pending
         /\ tunnel'.rank = tunnel.rank /\ tunnel'.withdrawn = tunnel.withdrawn
         /\ tunnel'.desired = tunnel.desired
         /\ tunnel'.round = {Less(wait) : wait \in tunnel.round}
         /\ tunnel'.held = [r \in DOMAIN tunnel.held |-> Less(tunnel.held[r])]
         /\ tunnel'.probes = {Older(p) : p \in tunnel.probes}
         /\ tunnel'.active = {[a EXCEPT !.cycle = {More(age, QueryTimeout) : age \in @},
                                        !.since = More(@, RefreshInterval),
                                        !.deadline = {Less(wait) : wait \in @}] : a \in tunnel.active}
<1>1. IsTunnel(tunnel) /\ tunnel.failure = {}
  BY Zenon DEF TunnelInv, TunnelOK
<1> QED
  BY Zenon, <1>1 DEF TickTunnel, IsTunnel, Older

LEMMA TickKeeps ==
  ASSUME TunnelInv, TickTunnel
  PROVE  TunnelInv' /\ (HeldInv => HeldInv')
<1>1. TunnelOK(tunnel) /\ MembershipsPlaced /\ mood \in [Relay -> Mood]
  BY Zenon DEF TunnelInv
<1>2. mood' = mood /\ served' = served /\ lost' = lost
  BY Zenon DEF TickTunnel
<1>3. HeldOK(tunnel')
  <2>1. HoldDown \in Nat
    BY Zenon, TimersAssumption
  <2>2. \A wait \in 0..HoldDown : Less(wait) \in 0..HoldDown
    BY SMTT(30), <2>1 DEF Less
  <2> QED
    BY Zenon, <1>1, <2>2, Aged DEF TunnelOK, HeldOK
<1>4. /\ IsFiniteSet(tunnel.probes) /\ Cardinality(tunnel.probes) <= MaxProbes
      /\ \A p \in tunnel.probes : IsProbe(p) /\ tunnel.rank = {p.candidate.rank}
      /\ \A p, q \in tunnel.probes : p.candidate.relay = q.candidate.relay => p = q
      /\ tunnel.probes # {} => tunnel.round = {}
  BY Zenon, <1>1 DEF TunnelOK, ProbesOK
<1>5. tunnel'.probes = {Older(p) : p \in tunnel.probes} /\ tunnel'.rank = tunnel.rank
      /\ tunnel'.round = {Less(wait) : wait \in tunnel.round}
  BY Zenon, Aged
<1>6. /\ \A q \in tunnel'.probes : IsProbe(q)
      /\ \A q \in tunnel'.probes : \E p \in tunnel.probes :
           q = Older(p) /\ q.candidate = p.candidate
  BY SMTT(30), <1>4, <1>5, OlderProbe
<1>7. ProbesOK(tunnel')
  <2>1. \A q \in tunnel'.probes : tunnel'.rank = {q.candidate.rank}
    BY SMTT(30), <1>4, <1>5, <1>6
  <2>2. \A q, x \in tunnel'.probes : q.candidate.relay = x.candidate.relay => q = x
    BY SMTT(30), <1>4, <1>6
  <2>3. tunnel'.probes # {} => tunnel'.round = {}
    BY Zenon, <1>4, <1>5
  <2>4. IsFiniteSet(tunnel'.probes) /\ Cardinality(tunnel'.probes) <= MaxProbes
    BY Zenon, <1>4, <1>5, OlderProbes
  <2> QED
    BY ZenonT(30), <1>6, <2>1, <2>2, <2>3, <2>4 DEF ProbesOK
<1>8. PendingOK(tunnel')
  <2>1. tunnel'.pending = tunnel.pending
    BY Zenon, Aged
  <2> QED
    BY Zenon, <1>1, <1>6, <2>1 DEF TunnelOK, PendingOK
<1>9. /\ tunnel'.active = {} <=> tunnel.active = {}
      /\ \A a : tunnel.active = {a} /\ IsActive(a) =>
           \E x : tunnel'.active = {x} /\ IsActive(x) /\ x.relay = a.relay /\ x.told = a.told
  <2>1. tunnel'.active = {} <=> tunnel.active = {}
    BY ZenonT(30), Aged
  <2>2. ASSUME NEW a, tunnel.active = {a}, IsActive(a)
        PROVE  \E x : tunnel'.active = {x} /\ IsActive(x) /\ x.relay = a.relay /\ x.told = a.told
    <3> DEFINE x == [a EXCEPT !.cycle = {More(age, QueryTimeout) : age \in @},
                              !.since = More(@, RefreshInterval),
                              !.deadline = {Less(wait) : wait \in @}]
    <3>1. tunnel'.active = {x}
      BY ZenonT(30), <2>2, Aged
    <3>2. IsActive(x) /\ x.relay = a.relay /\ x.told = a.told
      BY Zenon, <2>2 DEF IsActive
    <3> QED
      BY Zenon, <3>1, <3>2
  <2> QED
    BY ZenonT(30), <2>1, <2>2
<1>10. Settled(tunnel')
  BY ZenonT(30), <1>1, <1>5, <1>9, Aged DEF TunnelOK, Settled
<1>11. TunnelOK(tunnel')
  BY ZenonT(30), <1>1, <1>3, <1>8, <1>10, <1>7, Aged DEF TunnelOK
<1>12. \A k : To(tunnel', k) = {}
  BY Zenon, Aged, NothingSaid
<1>13. MembershipsPlaced'
  <2>1. tunnel.active = {} \/ \E a : tunnel.active = {a} /\ IsActive(a)
    BY Zenon, <1>1 DEF TunnelOK, Settled
  <2>2. CASE tunnel.active = {}
    BY Zenon, <1>1, <1>2, <1>9, <2>2 DEF MembershipsPlaced
  <2>3. ASSUME NEW a, tunnel.active = {a}, IsActive(a) PROVE MembershipsPlaced'
    <3>1. PICK x : tunnel'.active = {x} /\ x.relay = a.relay /\ x.told = a.told
      BY Zenon, <1>9, <2>3
    <3>2. tunnel'.desired = tunnel.desired
      BY Zenon, Aged
    <3> QED
      BY ZenonT(30), <1>1, <1>2, <2>3, <3>1, <3>2 DEF MembershipsPlaced
  <2> QED
    BY Zenon, <2>1, <2>2, <2>3
<1>14. Silent(tunnel') /\ ProbesFirst(tunnel') /\ LeftAlone(tunnel')
  BY Zenon, <1>12, NoneProbed, Aged DEF Silent
<1>15. HeldOut(tunnel) => HeldOut(tunnel')
  <2>1. Less(0) = 0
    BY SMTT(30) DEF Less
  <2>2. /\ DOMAIN tunnel'.held = DOMAIN tunnel.held /\ tunnel'.pending = tunnel.pending
        /\ \A r \in DOMAIN tunnel.held : tunnel'.held[r] = Less(tunnel.held[r])
    BY Zenon, Aged
  <2> QED
    BY Zenon, <2>1, <2>2 DEF HeldOut
<1> QED
  BY ZenonT(30), <1>1, <1>2, <1>11, <1>13, <1>14, <1>15, Aged DEF TunnelInv, HeldInv
-----------------------------------------------------------------------------
(* The theorems.                                                           *)

LEMMA TunnelInitOK ==
  ASSUME TunnelInit
  PROVE  TunnelInv /\ HeldInv
<1>1. PICK desired \in Report : tunnel = NewSourceTunnel(desired)
  BY Zenon DEF TunnelInit
<1>2. /\ TunnelOK(tunnel) /\ HeldOut(tunnel) /\ tunnel.active = {} /\ tunnel.out = {}
      /\ tunnel.failure = {} /\ ~tunnel.withdrawn
  BY Zenon, <1>1, NewTunnelOK
<1>3. ProbesFirst(tunnel) /\ LeftAlone(tunnel)
  BY Zenon, <1>2, NothingSaid, NoneProbed
<1>4. MembershipsPlaced
  BY Zenon, <1>2 DEF TunnelInit, MembershipsPlaced
<1>5. mood \in [Relay -> Mood]
  BY Zenon, RelayAssumption DEF TunnelInit
<1> QED
  BY Zenon, <1>2, <1>3, <1>4, <1>5 DEF TunnelInv, HeldInv, Silent

LEMMA TunnelStepOK ==
  ASSUME TunnelInv, [TunnelNext]_tunnelVars
  PROVE  TunnelInv' /\ (HeldInv => HeldInv')
<1>1. CASE UNCHANGED tunnelVars
  <2>1. tunnel' = tunnel /\ mood' = mood /\ served' = served /\ lost' = lost
    BY Zenon, <1>1 DEF tunnelVars
  <2>2. MembershipsPlaced'
    BY Zenon, <2>1 DEF TunnelInv, MembershipsPlaced
  <2> QED
    BY Zenon, <2>1, <2>2 DEF TunnelInv, HeldInv
<1>2. CASE PollTunnel
  BY Zenon, <1>2, PollKeeps
<1>3. CASE SetDesired
  BY Zenon, <1>3, SetDesiredKeeps
<1>4. CASE ShutdownTunnel
  BY Zenon, <1>4, ShutdownKeeps
<1>5. CASE ChangeMood
  BY Zenon, <1>5, MoodKeeps
<1>6. CASE TickTunnel
  BY Zenon, <1>6, TickKeeps
<1> QED
  BY ZenonT(30), <1>1, <1>2, <1>3, <1>4, <1>5, <1>6 DEF TunnelNext

(* The invariant holds in every state of a tunnel, whatever DNS, the relays   *)
(* and the sockets do (DriadSourceTunnel).                                    *)
THEOREM TunnelInvariant == TunnelSpec => []TunnelInv
<1>1. TunnelInit => TunnelInv
  BY Zenon, TunnelInitOK
<1>2. TunnelInv /\ [TunnelNext]_tunnelVars => TunnelInv'
  BY Zenon, TunnelStepOK
<1> QED
  BY <1>1, <1>2, PTL DEF TunnelSpec

(* The memberships are with the relay in use and with no other, except where  *)
(* a Teardown could not be sent, and are the ones that are wanted; a source   *)
(* without relays sends nothing but Teardowns (send_driad_desired,            *)
(* fail_active, poll_refresh).                                                *)
THEOREM OneRelayAlwaysServes == TunnelSpec => []OneRelayServes
<1>1. TunnelInv => OneRelayServes
  BY Zenon DEF TunnelInv, TunnelOK, Settled, Silent, OneRelayServes, WithdrawnIsSilent
<1> QED
  BY <1>1, TunnelInvariant, PTL

LEMMA TunnelTyped ==
  ASSUME TunnelInv
  PROVE  TunnelTypeOK
<1>1. /\ HeldOK(tunnel) /\ ProbesOK(tunnel) /\ PendingOK(tunnel) /\ Settled(tunnel)
      /\ tunnel.failure = {} /\ mood \in [Relay -> Mood]
  BY Zenon DEF TunnelInv, TunnelOK
<1>2. \A n \in DOMAIN tunnel.pending : tunnel.pending[n] \in Candidate
  BY SMTT(30), <1>1 DEF PendingOK
<1>3. /\ \A p \in tunnel.probes : p.candidate \in Candidate /\ p.age \in 0..QueryTimeout
      /\ Cardinality(tunnel.probes) <= MaxProbes
  BY Zenon, <1>1 DEF ProbesOK, IsProbe
<1>4. Cardinality(tunnel.active) <= 1
  <2>1. tunnel.active = {} \/ \E a : tunnel.active = {a}
    BY Zenon, <1>1 DEF Settled
  <2>2. CASE tunnel.active = {}
    <3>1. Cardinality(tunnel.active) = 0
      BY Zenon, <2>2, FS_EmptySet
    <3> QED
      BY SMTT(30), <3>1
  <2>3. CASE \E a : tunnel.active = {a}
    <3>1. Cardinality(tunnel.active) = 1
      BY Zenon, <2>3, FS_Singleton
    <3> QED
      BY SMTT(30), <3>1
  <2> QED
    BY Zenon, <2>1, <2>2, <2>3
<1> QED
  BY Zenon, <1>1, <1>2, <1>3, <1>4 DEF TunnelTypeOK, HeldOK, Settled

(* A set has as many members as the values that tell them apart. *)
LEMMA AsManyValues ==
  ASSUME NEW S, IsFiniteSet(S), NEW T, NEW f \in [S -> T], T = {f[x] : x \in S},
         \A x, y \in S : f[x] = f[y] => x = y
  PROVE  Cardinality(T) = Cardinality(S)
<1>1. f \in Surjection(S, T) /\ f \in Injection(S, T)
  BY Zenon DEF Surjection, Injection, IsInjective
<1> QED
  BY Zenon, <1>1, FS_Surjection

LEMMA ProbesApart ==
  ASSUME TunnelInv
  PROVE  OneTier /\ ProbedOnce
<1> DEFINE waiting == {tunnel.pending[n].relay : n \in DOMAIN tunnel.pending}
           probed == {p.candidate.relay : p \in tunnel.probes}
<1>1. ProbesOK(tunnel) /\ PendingOK(tunnel)
  BY Zenon DEF TunnelInv, TunnelOK
<1>2. OneTier
  <2> SUFFICES ASSUME NEW p \in tunnel.probes, NEW q \in tunnel.probes
               PROVE  p.candidate.rank = q.candidate.rank
    BY Zenon DEF OneTier
  <2>1. {p.candidate.rank} = {q.candidate.rank}
    BY Zenon, <1>1 DEF ProbesOK
  <2> QED
    BY Zenon, <2>1
<1>3. /\ tunnel.pending \in Seq(Candidate) /\ DOMAIN tunnel.pending = 1..Len(tunnel.pending)
      /\ Len(tunnel.pending) \in Nat
  BY SMTT(30), <1>1 DEF PendingOK
<1>4. waiting \cap probed = {}
  BY Zenon, <1>1, <1>3 DEF PendingOK
<1>5. Cardinality(probed) = Cardinality(tunnel.probes)
  <2> DEFINE f == [p \in tunnel.probes |-> p.candidate.relay]
  <2>1. /\ f \in [tunnel.probes -> probed] /\ probed = {f[p] : p \in tunnel.probes}
        /\ \A p, q \in tunnel.probes : f[p] = f[q] => p = q
    BY Zenon, <1>1 DEF ProbesOK
  <2>2. IsFiniteSet(tunnel.probes)
    BY Zenon, <1>1 DEF ProbesOK
  <2> HIDE DEF f, probed
  <2> QED
    BY Zenon, <2>1, <2>2, AsManyValues
<1>6. Cardinality(waiting) = Len(tunnel.pending)
  <2> DEFINE S == 1..Len(tunnel.pending)
             f == [n \in S |-> tunnel.pending[n].relay]
  <2>1. IsFiniteSet(S) /\ Cardinality(S) = Len(tunnel.pending)
    BY SMTT(30), <1>3, FS_Interval
  <2>2. \A m, n \in S : tunnel.pending[m].relay = tunnel.pending[n].relay => m = n
    BY SMTT(30), <1>1, <1>3 DEF PendingOK, Ordered
  <2>3. /\ f \in [S -> waiting] /\ waiting = {f[n] : n \in S}
        /\ \A m, n \in S : f[m] = f[n] => m = n
    BY Zenon, <1>3, <2>2
  <2> HIDE DEF f, waiting, S
  <2> QED
    BY Zenon, <2>1, <2>3, AsManyValues
<1> QED
  BY Zenon, <1>2, <1>4, <1>5, <1>6 DEF ProbedOnce

(* Probes in flight are of one tier and for different relays, and none starts *)
(* while a candidate of a better tier waits (launch_probe_if_due,             *)
(* rebuild_probe_queue).  This holds whatever addresses relays advertise.     *)
THEOREM TiersAreProbedInOrder ==
  TunnelSpec => [](TunnelTypeOK /\ OneTier /\ ProbedOnce) /\ BestTierFirst
<1>1. TunnelInv => TunnelTypeOK /\ OneTier /\ ProbedOnce
  BY Zenon, TunnelTyped, ProbesApart
<1>2. TunnelInv' => [\A p \in tunnel'.probes : \A n \in DOMAIN tunnel'.pending :
                       p.age = 0 /\ p.candidate.relay \in To(tunnel', "Discovery")
                         => p.candidate.rank <= tunnel'.pending[n].rank]_tunnelVars
  BY Zenon DEF TunnelInv, ProbesFirst
<1> QED
  BY <1>1, <1>2, TunnelInvariant, PTL DEF BestTierFirst

(* Moreover, relays that are held down are left alone (hold_candidate), at    *)
(* every address that no relay at another address advertises.  A relay that   *)
(* answers with another address is held down under both, and the other one    *)
(* may be waiting for its probe at that time.                                 *)
THEOREM ProbesAreInOrder == TunnelSpec => ProbesInOrder
<1>1. TunnelInit => TunnelInv /\ HeldInv
  BY Zenon, TunnelInitOK
<1>2. TunnelInv /\ HeldInv /\ [TunnelNext]_tunnelVars => TunnelInv' /\ HeldInv'
  BY Zenon, TunnelStepOK
<1>3. HeldInv' => [\A r \in To(tunnel', "Discovery") \ NamedElsewhere :
                     r \in DOMAIN tunnel'.held => tunnel'.held[r] = 0]_tunnelVars
  BY Zenon DEF HeldInv, LeftAlone
<1>4. TunnelSpec => HeldNotProbed
  BY <1>1, <1>2, <1>3, PTL DEF TunnelSpec, HeldNotProbed
<1> QED
  BY <1>4, TiersAreProbedInOrder, PTL DEF ProbesInOrder
=============================================================================
