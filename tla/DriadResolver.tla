---------------------------- MODULE DriadResolver ----------------------------
(***************************************************************************)
(* Finding the relays of a source in DNS (driad.rs).  Each worker looks up *)
(* the AMTRELAY records of a reverse name through aliases, then the        *)
(* addresses of the relays that are given by name.  It asks the configured *)
(* resolvers in turn, several times, and shares a budget of queries with   *)
(* the other workers.                                                      *)
(*                                                                         *)
(* A name is a sequence of labels, a resource record a record, a zone the  *)
(* sequence of resource records a resolver answers with: the code must     *)
(* pick out those that belong to the question.  A worker is a record with  *)
(* its place in the code in field pc; a step ends where it waits for the   *)
(* budget, for an answer, or takes up the next AMTRELAY record.            *)
(***************************************************************************)
EXTENDS Integers, Sequences, FiniteSets

LOCAL INSTANCE SequencesExt
LOCAL INSTANCE FiniteSetsExt

CONSTANTS Worker,
          Zones,          \* the zones DNS may hold
          SourceName,     \* reverse_source_name of the source
          Resolvers,      \* how many resolvers are configured
          Attempts,       \* attempts
          MaxAliasDepth,  \* MAX_ALIAS_DEPTH
          MaxCandidates,  \* max_candidates
          MaxQueries,     \* max_queries_per_window
          Window,         \* query_rate_window
          MaxTtl,         \* Duration::MAX
          Ipv6,           \* the addresses that are IPv6
          Unusable,       \* addresses no relay can have
          Stray,          \* the answers of replies that are not to the query
          Faults          \* may queries go unanswered, or be answered wrongly?

(* DriadResolver::validate. *)
ConfigAssumption ==
  {Resolvers, Attempts, MaxAliasDepth, MaxCandidates, MaxQueries, Window} \subseteq Nat \ {0}

VARIABLES zone,     \* what DNS holds
          worker,   \* the workers
          queries,  \* DnsQueryLimiter.queries: the ages of recent queries
          started   \* the ages of all queries begun within the last window

vars == <<zone, worker, queries, started>>
-----------------------------------------------------------------------------
(* Answers.                                                                *)

(* apply_dname: the name with owner replaced by target at its end, if it ends  *)
(* with owner.                                                                 *)
ApplyDname(name, owner, target) ==
  IF owner # <<>> /\ IsSuffix(owner, name)
  THEN {SubSeq(name, 1, Len(name) - Len(owner)) \o target} ELSE {}

(* parse_amtrelay_rdata: what a record says, if it can be read. *)
ParseRdata(rdata) ==
  CASE rdata.type = 0 /\ rdata.length = 0 -> {[precedence |-> rdata.precedence, target |-> "NoRelay"]}
    [] rdata.type = 1 /\ rdata.length = 4 -> {[precedence |-> rdata.precedence, target |-> "Address", value |-> rdata.value]}
    [] rdata.type = 2 /\ rdata.length = 16 -> {[precedence |-> rdata.precedence, target |-> "Address", value |-> rdata.value]}
    [] rdata.type = 3 /\ rdata.value # <<>> -> {[precedence |-> rdata.precedence, target |-> "Name", value |-> rdata.value]}
    [] OTHER -> {}

(* A reply on the wire, as far as it matters; the id and the question are those *)
(* of the query or others.                                                      *)
Reply(id, flags, rcode, question, answers) ==
  [id |-> id, flags |-> flags, rcode |-> rcode, question |-> question, answers |-> answers]

Replies ==
  {Reply("own", {"QR"}, 0, "own", zone)} \cup
  (IF ~Faults THEN {}
   ELSE {Reply("own", {"QR", "TC"}, 0, "own", <<>>), Reply("own", {"QR"}, 2, "own", Stray),
         Reply("other", {"QR"}, 0, "own", Stray), Reply("own", {"QR"}, 0, "other", Stray),
         Reply("own", {}, 0, "own", Stray)})

(* Mutant: any question will do. *)
ValidAnyQuestion(reply) ==
  reply.id = "own" /\ reply.flags = {"QR"} /\ reply.rcode = 0

(* validate_dns_response: a response, not truncated, without error, to the     *)
(* query that was sent.                                                         *)
ValidResponse(reply) ==
  reply.id = "own" /\ reply.flags = {"QR"} /\ reply.rcode = 0 /\ reply.question = "own"

Timed(value, ttl) == [value |-> value, ttl |-> ttl]

(* The values of those answers for which Of gives one, in order. *)
Collect(answers, Of(_)) ==
  FoldLeft(LAMBDA list, rr : list \o SetToSeq({Timed(v, rr.ttl) : v \in Of(rr)}), <<>>, answers)

(* parse_dns_response. *)
ParseResponse(name, answers) ==
  [records |-> Collect(answers, LAMBDA rr :
                 IF rr.type = "AMTRELAY" /\ rr.owner = name THEN ParseRdata(rr.data) ELSE {}),
   aliases |-> Collect(answers, LAMBDA rr :
                 IF rr.type = "CNAME" /\ rr.owner = name THEN {rr.data}
                 ELSE IF rr.type = "DNAME" THEN ApplyDname(name, rr.owner, rr.data)
                 ELSE {})]

(* parse_address_response.  The last alias counts. *)
ParseAddresses(name, type, answers) ==
  LET own == SelectSeq(answers, LAMBDA rr : rr.owner = name)
      aliases == SelectSeq(own, LAMBDA rr : rr.type = "CNAME")
  IN  [addresses |-> Collect(own, LAMBDA rr : IF rr.type = type THEN {rr.data} ELSE {}),
       alias |-> IF aliases = <<>> THEN {} ELSE {Timed(Last(aliases).data, Last(aliases).ttl)}]
-----------------------------------------------------------------------------
(* The order of the candidates.                                            *)

Shuffles(seq) ==
  {[n \in DOMAIN seq |-> seq[f[n]]] : f \in {g \in [DOMAIN seq -> DOMAIN seq] : IsInjective(g)}}

(* The second half of shuffle_and_interleave_families: the families take       *)
(* turns, beginning with that of the first, until one is used up.              *)
AlternateFamilies(seq) ==
  LET Is6(s) == s.relay \in Ipv6
      first == SelectSeq(seq, LAMBDA s : Is6(s) <=> Is6(seq[1]))
      other == SelectSeq(seq, LAMBDA s : ~(Is6(s) <=> Is6(seq[1])))
      pairs == Min({Len(first), Len(other)})
  IN  [n \in DOMAIN seq |->
         IF n <= 2 * pairs THEN IF n % 2 = 1 THEN first[(n + 1) \div 2] ELSE other[n \div 2]
         ELSE IF Len(first) > pairs THEN first[n - pairs] ELSE other[n - pairs]]

(* order_relay_candidates: every order it may leave the selections in. *)
Orderings(selections) ==
  LET tiers == SetToSortSeq({selections[n].precedence : n \in DOMAIN selections}, <)
      Tier(p) == SelectSeq(selections, LAMBDA s : s.precedence = p)
      Joined(choice) == FoldLeft(LAMBDA seq, p : seq \o choice[p], <<>>, tiers)
  IN  {Joined(choice) : choice \in
         {c \in [ToSet(tiers) -> UNION {{AlternateFamilies(s) : s \in Shuffles(Tier(p))} : p \in ToSet(tiers)}] :
            \A p \in ToSet(tiers) : c[p] \in {AlternateFamilies(s) : s \in Shuffles(Tier(p))}}}
-----------------------------------------------------------------------------
(* A worker.                                                               *)

Lower(a, b) == Min({a, b})

Done(w, result) == {[w EXCEPT !.pc = "done", !.result = result]}

(* A selection for each usable address that is not there yet, up to the limit. *)
AddRelays(w, precedence, relays) ==
  FoldLeft(LAMBDA u, r :
             IF \/ r.value \in Unusable
                \/ Len(u.selections) >= MaxCandidates
                \/ \E n \in DOMAIN u.selections : u.selections[n].relay = r.value
             THEN u
             ELSE [u EXCEPT !.selections =
                     Append(@, [relay |-> r.value, precedence |-> precedence, ttl |-> r.ttl])],
           [w EXCEPT !.pc = "record", !.records = Tail(@)], relays)

(* lookup_host: after the IPv4 addresses come those of IPv6, and a failure of   *)
(* one is no failure of the other.  An address lives no longer than its aliases *)
(* and the record that led to it.                                               *)
HostTypeDone(w, addresses) ==
  LET head == Head(w.records)
      found == w.found \o [n \in DOMAIN addresses |->
                             [addresses[n] EXCEPT !.ttl = Min({@, w.aliasTtl, head.ttl})]]
  IN  IF w.goal = "A"
      THEN {[w EXCEPT !.found = found, !.goal = "AAAA", !.visited = {head.value.value},
                      !.name = head.value.value, !.aliasTtl = MaxTtl, !.attempt = 0, !.pc = "query"]}
      ELSE {AddRelays(w, head.value.precedence, found)}

NameFails(w) == IF w.goal = "AMTRELAY" THEN Done(w, "Error") ELSE HostTypeDone(w, <<>>)

(* The loops of lookup_amtrelay_following_aliases and lookup_host_type: the     *)
(* next name, unless it was visited before or the chain is too long.            *)
Follow(w, alias) ==
  IF alias.value \in w.visited \/ Cardinality(w.visited) >= MaxAliasDepth THEN NameFails(w)
  ELSE {[w EXCEPT !.name = alias.value, !.visited = @ \cup {alias.value},
                  !.aliasTtl = Lower(@, alias.ttl), !.attempt = 0, !.pc = "query"]}

(* lookup_amtrelay_name: resolver after resolver, as many times as there are    *)
(* attempts.                                                                    *)
TryNext(w) ==
  IF w.attempt + 1 < Attempts * Resolvers THEN {[w EXCEPT !.attempt = @ + 1, !.pc = "query"]}
                                          ELSE NameFails(w)

(* The records of a source, by precedence, no more than there may be candidates. *)
TakeRecords(records) ==
  LET sorted == FoldLeft(LAMBDA seq, p : seq \o SelectSeq(records, LAMBDA r : r.value.precedence = p), <<>>,
                         SetToSortSeq({records[n].value.precedence : n \in DOMAIN records}, <))
  IN  SubSeq(sorted, 1, Lower(Len(sorted), MaxCandidates))

(* resolve_source_candidates, when the AMTRELAY records are there. *)
RelaysFound(w, records) ==
  IF \E n \in DOMAIN records : records[n].value.target = "NoRelay" THEN Done(w, "NoRelay")
  ELSE {[w EXCEPT !.pc = "record",
           !.records = TakeRecords([n \in DOMAIN records |->
                                      [records[n] EXCEPT !.ttl = Lower(@, w.aliasTtl)]])]}

(* query_resolver and the branches on what parse_dns_response or                *)
(* parse_address_response found in an answer.                                   *)
Answered(w, answers) ==
  IF w.goal = "AMTRELAY"
  THEN LET r == ParseResponse(w.name, answers)
       IN  IF r.records # <<>> THEN RelaysFound(w, r.records)
           ELSE IF r.aliases # <<>> THEN Follow(w, Head(r.aliases))
           ELSE Done(w, "Error")
  ELSE LET r == ParseAddresses(w.name, w.goal, answers)
       IN  IF r.addresses # <<>> THEN HostTypeDone(w, r.addresses)
           ELSE IF r.alias # {} THEN Follow(w, CHOOSE a \in r.alias : TRUE)
           ELSE TryNext(w)

(* The loop over the records in resolve_source_candidates. *)
NextRecord(w) ==
  IF w.records = <<>> \/ Len(w.selections) >= MaxCandidates
  THEN IF w.selections = <<>> THEN Done(w, "Error")
       ELSE UNION {Done([w EXCEPT !.selections = order], "Found") : order \in Orderings(w.selections)}
  ELSE LET r == Head(w.records)
       IN  IF r.value.target = "Address"
           THEN {AddRelays(w, r.value.precedence, <<Timed(r.value.value, r.ttl)>>)}
           ELSE {[w EXCEPT !.goal = "A", !.name = r.value.value, !.visited = {r.value.value},
                           !.found = <<>>, !.aliasTtl = MaxTtl, !.attempt = 0, !.pc = "query"]}
-----------------------------------------------------------------------------
Init ==
  /\ zone \in Zones
  /\ worker = [k \in Worker |->
                 [pc |-> "query", goal |-> "AMTRELAY", name |-> SourceName,
                  visited |-> {SourceName}, aliasTtl |-> MaxTtl, attempt |-> 0, wait |-> 0,
                  records |-> <<>>, found |-> <<>>, selections |-> <<>>, result |-> "none"]]
  /\ queries = <<>> /\ started = <<>>

(* DnsQueryLimiter::reserve_at: take a place in the window, or say how long the *)
(* oldest query will be in it.                                                  *)
ReserveAt ==
  LET recent == SelectSeq(queries, LAMBDA age : age < Window)
  IN  IF Len(recent) < MaxQueries THEN [queries |-> Append(recent, 0), wait |-> 0]
                                  ELSE [queries |-> recent, wait |-> Window - recent[1]]

(* One turn of the loop of wait_for_query_budget. *)
Reserve(k) ==
  LET w == worker[k]
      r == ReserveAt
  IN  /\ w.pc \in {"query", "tcp"} /\ w.wait = 0
      /\ queries' = r.queries
      /\ \/ /\ r.wait = 0
            /\ started' = Append(started, 0)
            /\ worker' = [worker EXCEPT ![k].pc = IF w.pc = "tcp" THEN "tcp_answer" ELSE "answer"]
         \/ /\ r.wait > 0
            /\ worker' = [worker EXCEPT ![k].wait = r.wait]
            /\ UNCHANGED started
      /\ UNCHANGED zone

(* The rest of query_wire and query_tcp, and what the caller does with the      *)
(* reply: a truncated one over UDP is asked for again over TCP, one that is not *)
(* valid makes it try the next resolver.                                        *)
Receive(k) ==
  /\ worker[k].pc \in {"answer", "tcp_answer"}
  /\ \E reply \in Replies :
       \E w \in IF "TC" \in reply.flags /\ worker[k].pc = "answer"
                THEN {[worker[k] EXCEPT !.pc = "tcp"]}
                ELSE IF ValidResponse(reply) THEN Answered(worker[k], reply.answers)
                ELSE TryNext(worker[k]) :
         worker' = [worker EXCEPT ![k] = w]
  /\ UNCHANGED <<zone, queries, started>>

(* No reply within retry_timeout, or a socket fails. *)
ReceiveError(k) ==
  /\ Faults
  /\ worker[k].pc \in {"answer", "tcp_answer"}
  /\ \E w \in TryNext(worker[k]) : worker' = [worker EXCEPT ![k] = w]
  /\ UNCHANGED <<zone, queries, started>>

TakeRecord(k) ==
  /\ worker[k].pc = "record"
  /\ \E w \in NextRecord(worker[k]) : worker' = [worker EXCEPT ![k] = w]
  /\ UNCHANGED <<zone, queries, started>>

Tick ==
  /\ queries' = [n \in DOMAIN queries |-> Lower(queries[n] + 1, Window)]
  /\ started' = SelectSeq([n \in DOMAIN started |-> started[n] + 1], LAMBDA age : age < Window)
  /\ worker' = [k \in Worker |-> [worker[k] EXCEPT !.wait = IF @ > 0 THEN @ - 1 ELSE 0]]
  /\ UNCHANGED zone

WorkerStep(k) ==
  Reserve(k) \/ Receive(k) \/ ReceiveError(k) \/ TakeRecord(k)

Next == Tick \/ \E k \in Worker : WorkerStep(k)

Spec == Init /\ [][Next]_vars

(* A worker has a step exactly when it is neither done nor asleep. *)
Stopped(k) == worker[k].pc = "done" \/ worker[k].wait > 0
-----------------------------------------------------------------------------
Finished(k) == worker[k].result # "none"
Candidates(k) == IF worker[k].result = "Found" THEN worker[k].selections ELSE <<>>

(* The types of the workers and of the limiter's queue (DnsQueryLimiter). *)
TypeOK ==
  /\ zone \in Zones
  /\ \A k \in Worker :
       /\ worker[k].pc \in {"query", "answer", "tcp", "tcp_answer", "record", "done"}
       /\ worker[k].goal \in {"AMTRELAY", "A", "AAAA"}
       /\ worker[k].attempt \in 0..(Attempts * Resolvers - 1)
       /\ Cardinality(worker[k].visited) \in 1..MaxAliasDepth
       /\ worker[k].wait \in 0..Window
       /\ Finished(k) <=> worker[k].pc = "done"
  /\ \A n \in DOMAIN queries : queries[n] \in 0..Window

(* A step from one name to another: an alias of the zone, with its lifetime. *)
Alias(name, next, ttl) ==
  \E n \in DOMAIN zone :
     /\ zone[n].ttl = ttl
     /\ \/ zone[n].type = "CNAME" /\ zone[n].owner = name /\ zone[n].data = next
        \/ /\ zone[n].type = "DNAME"
           /\ \E prefix \in {SubSeq(name, 1, m) : m \in 0..(Len(name) - 1)} :
                name = prefix \o zone[n].owner /\ next = prefix \o zone[n].data

Names == {SourceName} \cup {zone[n].owner : n \in DOMAIN zone}

(* The lifetimes of the chains of aliases that lead from one name to another.  *)
ChainTtls(from, to) ==
  {Min({chain[m][2] : m \in DOMAIN chain}) :
     chain \in {c \in SeqOf(Names \X {zone[n].ttl : n \in DOMAIN zone} \cup {<<from, MaxTtl>>}, MaxAliasDepth) :
                  /\ c # <<>> /\ c[1] = <<from, MaxTtl>> /\ c[Len(c)][1] = to
                  /\ IsInjective([m \in DOMAIN c |-> c[m][1]])
                  /\ \A m \in 1..(Len(c) - 1) : Alias(c[m][1], c[m + 1][1], c[m + 1][2])}}

(* What DNS says of an address as a relay of the source: the precedences and   *)
(* lifetimes it may be used with, each by one AMTRELAY record and, where that  *)
(* names a host, by one address record.                                        *)
Said(relay) ==
  UNION {UNION {
    LET record == ParseRdata(zone[n].data)
        head == Lower(zone[n].ttl, ttl)
    IN  UNION {
          CASE r.target = "Address" /\ r.value = relay -> {<<r.precedence, head>>}
            [] r.target = "Name" ->
                 UNION {{<<r.precedence, Min({head, zone[m].ttl, t})>> :
                           t \in ChainTtls(r.value, zone[m].owner)} :
                        m \in {m \in DOMAIN zone : zone[m].type \in {"A", "AAAA"} /\ zone[m].data = relay}}
            [] OTHER -> {} : r \in record}
    : ttl \in ChainTtls(SourceName, zone[n].owner)}
    : n \in {n \in DOMAIN zone : zone[n].type = "AMTRELAY"}}

(* A candidate is a usable relay that DNS names for the source, with the        *)
(* precedence of a record that leads to it and the least of the lifetimes on    *)
(* the way: no answer for another name gets in and no alias outlives its own    *)
(* record (resolve_source_candidates).                                          *)
CandidatesSaid ==
  \A k \in Worker : \A n \in DOMAIN Candidates(k) :
    LET c == Candidates(k)[n]
    IN  c.relay \notin Unusable /\ <<c.precedence, c.ttl>> \in Said(c.relay)

(* No relay is tried twice, better ones come first, and among equals the        *)
(* families take turns for as long as both are left (order_relay_candidates).   *)
CandidatesOrdered ==
  \A k \in Worker :
    LET c == Candidates(k)
    IN  /\ Len(c) <= MaxCandidates
        /\ \A m, n \in DOMAIN c : m < n => /\ c[m].relay # c[n].relay
                                           /\ c[m].precedence <= c[n].precedence
        /\ \A n \in 1..(Len(c) - 1) :
             c[n].precedence = c[n + 1].precedence /\ (c[n].relay \in Ipv6 <=> c[n + 1].relay \in Ipv6)
               => \A m \in (n + 1)..Len(c) :
                    c[m].precedence = c[n].precedence => (c[m].relay \in Ipv6 <=> c[n].relay \in Ipv6)

(* A source that declares it has no relay gets none, whatever other records     *)
(* there are (DriadError::NoRelayPresent).                                      *)
NoRelayObeyed ==
  (\E n \in DOMAIN zone : /\ zone[n].type = "AMTRELAY" /\ zone[n].owner = SourceName
                          /\ zone[n].data.type = 0 /\ zone[n].data.length = 0)
    => \A k \in Worker : Candidates(k) = <<>>

(* In no window are more queries begun than the budget allows, whatever the     *)
(* workers do and however their waits overlap (wait_for_query_budget).          *)
BudgetKept == Len(started) <= MaxQueries

(* Every lookup ends: aliases that go in circles, resolvers that do not answer  *)
(* and a budget that is used up do not hold it for ever.                        *)
LookupEnds == \A k \in Worker : <>Finished(k)
=============================================================================
