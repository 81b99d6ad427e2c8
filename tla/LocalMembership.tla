--------------------------- MODULE LocalMembership ---------------------------
(***************************************************************************)
(* A transparent gateway and the hosts on its network: local_membership.rs *)
(* and what the gateway loop does with it.  The gateway sends General      *)
(* Queries, keeps what each reporting host wants in a RelayState of its    *)
(* own (the endpoints of RelayState are the hosts here), forgets hosts it  *)
(* has not heard for too long, and joins the rest with its configured      *)
(* joins into the memberships to ask a relay for.                          *)
(*                                                                         *)
(* Hosts are the environment.  A host reports when its interest changes,   *)
(* answers a query within the response time, and may go without a word;    *)
(* queries and reports get lost.  Ages are in ticks.                       *)
(***************************************************************************)
EXTENDS RelayState, SequencesExt

CONSTANTS Want,            \* the interests a host may have: maps from groups
          Joins,           \* the configured joins: Asm(g), Ssm(g, s)
          Exportable,      \* groups that may leave the local network
          QueryInterval,   \* query_interval, in ticks; 0 turns queries off
          MaxResponse,     \* the response time in the queries, 10 seconds
          ReporterTimeout, \* reporter_timeout
          PruneInterval,   \* LOCAL_REPORTER_PRUNE_INTERVAL
          Robustness,      \* of this many queries in a row one gets through
          HostsLeave       \* may hosts vanish?

(* What gateway_command demands of the timeout. *)
ASSUME TimeoutAssumption ==
         /\ QueryInterval \in Nat /\ MaxResponse \in Nat \ {0} /\ PruneInterval \in Nat
         /\ ReporterTimeout \in Nat /\ Robustness \in Nat
         /\ QueryInterval > 0 => ReporterTimeout >= 2 * QueryInterval + MaxResponse
ASSUME WantAssumption ==
         /\ Want \subseteq Maps(Group, StoredInterest) /\ EmptyMap \in Want
         /\ Joins \subseteq UpstreamSubscription /\ Exportable \subseteq Group

VARIABLES want,        \* what each host wants; hosts that are gone want nothing
          owes,        \* for each host the time since the query it will answer, if any
          missed,      \* queries in a row that came to nothing, for each host
          excused,     \* hosts that, since they were last heard, had nothing to say or
                       \* too much, or let a query pass before they answered the last
          state,       \* LocalMembershipManager.state
          seen,        \* reporter_last_seen
          advertised,  \* LocalMembershipManager.advertised
          session,     \* has the gateway a relay session?
          sinceQuery,  \* last_local_query, a set of at most one
          sincePrune   \* last_local_prune

hostVars == <<want, owes, missed, excused>>
vars == <<hostVars, state, seen, advertised, session, sinceQuery, sincePrune>>

Init ==
  /\ want = [h \in Endpoint |-> EmptyMap]
  /\ owes = [h \in Endpoint |-> {}]
  /\ missed = [h \in Endpoint |-> 0]
  /\ excused = Endpoint
  /\ state = EmptyRelayState /\ seen = EmptyMap /\ advertised = EmptyMap
  /\ session = FALSE
  /\ sinceQuery = {} /\ sincePrune = 0
-----------------------------------------------------------------------------
(* Reports.                                                                *)

StateRecord(g, interest) ==
  [kind |-> IF interest.mode = "Include" THEN "ModeIsInclude" ELSE "ModeIsExclude",
   group |-> g, sources |-> interest.sources]

ChangeRecord(g, interest) ==
  [kind |-> IF interest.mode = "Include" THEN "ChangeToInclude" ELSE "ChangeToExclude",
   group |-> g, sources |-> interest.sources]

(* The records of a map of interests; there is one for each group, so that    *)
(* their order makes no difference.                                          *)
StateReport(interests) ==
  SetToSeq({StateRecord(g, interests[g]) : g \in DOMAIN interests})

Changed(previous, current) ==
  {g \in DOMAIN previous \cup DOMAIN current :
     (g \in DOMAIN previous /\ g \in DOMAIN current) => previous[g] # current[g]}

(* delta_records. *)
DeltaRecords(previous, current) ==
  SetToSeq({ChangeRecord(g, IF g \in DOMAIN current THEN current[g] ELSE Include({})) :
              g \in Changed(previous, current)})

(* current_exportable_interests. *)
CurrentExportable(st) ==
  [g \in DOMAIN st.aggregate \cap Exportable |-> st.aggregate[g]]

(* configured_joins_report: one any-source join of a group hides the others. *)
JoinInterests ==
  [g \in {j.group : j \in Joins} |->
     IF Asm(g) \in Joins THEN Exclude({})
     ELSE Include(UNION {j.source : j \in {k \in Joins : k.group = g}})]

(* Mutant: local interest replaces the configured joins of a group. *)
DesiredLocalWins(st) ==
  LET local == CurrentExportable(st)
  IN  [g \in DOMAIN JoinInterests \cup DOMAIN local |->
         IF g \in DOMAIN local THEN local[g] ELSE JoinInterests[g]]

(* desired_membership_report: the joins and the local report are two          *)
(* endpoints of a state of their own, whose aggregate is asked for.           *)
Desired(st) ==
  LET joins == ApplyRecords(EmptyMap, StateReport(JoinInterests))
      local == ApplyRecords(EmptyMap, StateReport(CurrentExportable(st)))
      both == [k \in {"joins", "local"} |-> IF k = "joins" THEN joins ELSE local]
      wanted == {g \in GroupsOf(both) : AggregateInterest(both, g) # Include({})}
  IN  [g \in wanted |-> AggregateInterest(both, g)]
-----------------------------------------------------------------------------
(* send_desired_membership with a session: the local part of what was sent is  *)
(* marked, unless there was nothing to say (replace_memberships).              *)
Advertise(st) ==
  \/ session /\ advertised' = CurrentExportable(st)
  \/ (~session \/ Desired(st) = EmptyMap) /\ UNCHANGED advertised

Accepted(h, report) ==
  ReportWithinLimits(report) /\ CandidateWithinLimits(ApplyReport(state, h, report), h)

(* Mutant: only a report that changes something proves that a host is there. *)
ReceiveUnlessSame(h, report) ==
  LET candidate == ApplyReport(state, h, report)
  IN  IF ~Accepted(h, report)
      THEN UNCHANGED <<state, seen, advertised>>
      ELSE /\ state' = candidate
           /\ seen' = IF h \notin DOMAIN candidate.endpoints THEN RemoveAll(seen, {h})
                      ELSE IF candidate = state THEN seen ELSE Insert(seen, h, 0)
           /\ Advertise(candidate)

(* LocalMembershipManager::try_recv and drain_local_membership: a report from  *)
(* h is applied within the limits, or refused as a whole; the gateway then     *)
(* asks its relay for what is desired.                                         *)
Receive(h, report) ==
  LET candidate == ApplyReport(state, h, report)
  IN  IF ~Accepted(h, report)
      THEN UNCHANGED <<state, seen, advertised>>
      ELSE /\ state' = candidate
           /\ seen' = IF h \in DOMAIN candidate.endpoints
                      THEN Insert(seen, h, 0) ELSE RemoveAll(seen, {h})
           /\ Advertise(candidate)

(* What a host sends when its interests change. *)
ChangeReport(previous, interests) ==
  SetToSeq({ChangeRecord(g, IF g \in DOMAIN interests THEN interests[g] ELSE Include({})) :
              g \in DOMAIN previous \cup DOMAIN interests})

(* A host changes what it wants and says so. *)
Change(h) ==
  /\ \E interests \in Want \ {want[h]} :
       /\ want' = [want EXCEPT ![h] = interests]
       /\ \/ /\ Receive(h, ChangeReport(want[h], interests))
             /\ excused' = IF interests = EmptyMap THEN excused \cup {h}
                          ELSE IF Accepted(h, ChangeReport(want[h], interests)) THEN excused \ {h}
                          ELSE excused
          \/ /\ UNCHANGED <<state, seen, advertised>>
             /\ excused' = IF interests = EmptyMap THEN excused \cup {h} ELSE excused
  /\ UNCHANGED <<owes, missed, session, sinceQuery, sincePrune>>

Vanish(h) ==
  /\ HostsLeave
  /\ want[h] # EmptyMap
  /\ want' = [want EXCEPT ![h] = EmptyMap]
  /\ owes' = [owes EXCEPT ![h] = {}]
  /\ excused' = excused \cup {h}
  /\ UNCHANGED <<missed, state, seen, advertised, session, sinceQuery, sincePrune>>

(* A host answers the query it heard, unless it has nothing to say. *)
Answer(h) ==
  /\ owes[h] # {}
  /\ owes' = [owes EXCEPT ![h] = {}]
  /\ missed' = [missed EXCEPT ![h] = 0]
  /\ IF want[h] = EmptyMap THEN UNCHANGED <<excused, state, seen, advertised>>
     ELSE /\ Receive(h, StateReport(want[h]))
          /\ excused' = IF Accepted(h, StateReport(want[h])) THEN excused \ {h} ELSE excused \cup {h}
  /\ UNCHANGED <<want, session, sinceQuery, sincePrune>>

AnswerLost(h) ==
  /\ owes[h] # {} /\ missed[h] + 1 < Robustness
  /\ owes' = [owes EXCEPT ![h] = {}]
  /\ missed' = [missed EXCEPT ![h] = @ + 1]
  /\ UNCHANGED <<want, excused, state, seen, advertised, session, sinceQuery, sincePrune>>
-----------------------------------------------------------------------------
(* The gateway loop.                                                       *)

QueryDue == QueryInterval > 0 /\ \A elapsed \in sinceQuery : elapsed >= QueryInterval

(* send_local_membership_query: the hosts in hear get the query. *)
Query(hear) ==
  /\ QueryDue
  /\ \A h \in Endpoint \ hear : missed[h] + 1 < Robustness
  /\ sinceQuery' = {0}
  /\ owes' = [h \in Endpoint |-> IF h \in hear /\ owes[h] = {} THEN {0} ELSE owes[h]]
  /\ missed' = [h \in Endpoint |-> IF h \in hear THEN missed[h] ELSE missed[h] + 1]
  /\ excused' = excused \cup {h \in hear : owes[h] # {}}
  /\ UNCHANGED <<want, state, seen, advertised, session, sincePrune>>

(* Mutant: without a session nobody is forgotten. *)
StaleInSession ==
  IF QueryInterval = 0 \/ ~session THEN {}
  ELSE {h \in DOMAIN seen : seen[h] >= ReporterTimeout}

(* The hosts prune_stale_reporters forgets. *)
Stale ==
  IF QueryInterval = 0 THEN {} ELSE {h \in DOMAIN seen : seen[h] >= ReporterTimeout}

(* The update waits for the next answer to the relay while a query cycle is    *)
(* under way.                                                                  *)
Prune ==
  /\ sincePrune >= PruneInterval
  /\ sincePrune' = 0
  /\ seen' = RemoveAll(seen, Stale)
  /\ state' = RemoveEndpoints(state, Stale)
  /\ \/ Stale # {} /\ Advertise(state')
     \/ UNCHANGED advertised
  /\ UNCHANGED <<hostVars, session, sinceQuery>>

(* A Membership Query of the relay is answered with what is desired; the      *)
(* session may end.                                                           *)
SessionOpens ==
  /\ session' = TRUE
  /\ \/ advertised' = CurrentExportable(state)
     \/ Desired(state) = EmptyMap /\ UNCHANGED advertised
  /\ UNCHANGED <<hostVars, state, seen, sinceQuery, sincePrune>>

SessionEnds ==
  /\ session /\ session' = FALSE
  /\ UNCHANGED <<hostVars, state, seen, advertised, sinceQuery, sincePrune>>

Older(age, horizon) == IF age < horizon THEN age + 1 ELSE age

(* The loop sends a due query before a tick is over, and a host answers      *)
(* before the response time is.                                              *)
Tick ==
  /\ ~QueryDue
  /\ \A h \in Endpoint : \A elapsed \in owes[h] : elapsed + 1 < MaxResponse
  /\ owes' = [h \in Endpoint |-> {elapsed + 1 : elapsed \in owes[h]}]
  /\ seen' = [h \in DOMAIN seen |-> Older(seen[h], ReporterTimeout)]
  /\ sinceQuery' = {Older(elapsed, QueryInterval) : elapsed \in sinceQuery}
  /\ sincePrune' = Older(sincePrune, PruneInterval)
  /\ UNCHANGED <<want, missed, excused, state, advertised, session>>

Next ==
  \/ \E h \in Endpoint : Change(h) \/ Vanish(h) \/ Answer(h) \/ AnswerLost(h)
  \/ \E hear \in SUBSET Endpoint : Query(hear)
  \/ Prune \/ SessionOpens \/ SessionEnds \/ Tick

Spec == Init /\ [][Next]_vars

(* Time passes, and what is due gets done: the loop prunes and queries, and   *)
(* hosts answer what they hear.  Each of these steps stays enabled until it   *)
(* is taken, so that this is weak fairness of it.                             *)
FairSpec ==
  /\ Spec /\ WF_vars(Tick)
  /\ []<>(sincePrune < PruneInterval)
  /\ []<>~QueryDue
  /\ \A h \in Endpoint : []<>(owes[h] = {})
-----------------------------------------------------------------------------
Optional(S) == {{}} \cup {{x} : x \in S}

TypeOK ==
  /\ want \in [Endpoint -> Want] /\ owes \in [Endpoint -> Optional(0..MaxResponse)]
  /\ missed \in [Endpoint -> 0..Robustness] /\ excused \subseteq Endpoint
  /\ state.endpoints \in Endpoints /\ state = RebuildIndexes(state.endpoints)
  /\ seen \in Maps(Endpoint, 0..ReporterTimeout)
  /\ advertised \in Maps(Exportable, StoredInterest)
  /\ session \in BOOLEAN
  /\ sinceQuery \in Optional(0..QueryInterval) /\ sincePrune \in 0..PruneInterval

(* Exactly the hosts with recorded interest have a timer: none stays for      *)
(* ever for want of one (try_recv, prune_stale_reporters_at).                 *)
TimersMatch == DOMAIN seen = DOMAIN state.endpoints

(* The memberships asked for are those of the configured joins and of every   *)
(* recorded host for groups that may leave the network, and no others,        *)
(* although they are aggregated twice (current_report,                        *)
(* desired_membership_report).                                                *)
DesiredExact ==
  \A g \in Group, s \in Source :
    (g \in DOMAIN Desired(state) /\ WantsSource(Desired(state)[g], s)) <=>
      \/ Asm(g) \in Joins \/ Ssm(g, s) \in Joins
      \/ g \in Exportable /\ \E h \in Members(state.endpoints, g) :
                               WantsSource(state.endpoints[h][g], s)

(* What pending_report would send turns what was advertised into what is      *)
(* wanted now, from whatever hosts did since.                                 *)
PendingExact ==
  LET current == CurrentExportable(state)
  IN  ApplyRecords(advertised, DeltaRecords(advertised, current)) = current

(* A host that goes on wanting something, whose answers are within the limits *)
(* and come before the next query, is not forgotten, as long as no two        *)
(* queries in a row come to nothing.  The timeout of two query intervals and  *)
(* the response time is made for this; it does not cover answers that the     *)
(* response time lets come after the next query, when the query interval is   *)
(* shorter (prune_stale_reporters_at, gateway_command).                       *)
HostKept ==
  [][Robustness <= 2 =>
       \A h \in Endpoint :
         h \in DOMAIN seen /\ h \notin DOMAIN seen' => h \in excused']_vars

(* A host that is gone does not keep a membership alive (reporter_last_seen). *)
GoneIsForgotten ==
  \A h \in Endpoint :
    <>[](want[h] = EmptyMap) => []<>(h \notin DOMAIN state.endpoints)

(* What a host keeps wanting is recorded in the end, though its report of     *)
(* the change was lost or refused, when it fits into a report.                *)
WantedIsRecorded ==
  \A h \in Endpoint, g \in Group, s \in Source :
    LET wants == /\ g \in DOMAIN want[h] /\ WantsSource(want[h][g], s)
                 /\ ReportWithinLimits(StateReport(want[h]))
    IN  <>[]wants => []<>(/\ h \in Members(state.endpoints, g)
                          /\ WantsSource(state.endpoints[h][g], s))

(* What the relay is asked for is what the hosts and the configuration want,  *)
(* at once and by the change that is pending (desired_membership_report,      *)
(* pending_report).                                                           *)
RequestsExact == DesiredExact /\ PendingExact

(* A timer runs for exactly the hosts that are known, and one that still wants *)
(* something and answers in time is not forgotten (LocalMembershipManager).   *)
HostsTimed == [](TypeOK /\ TimersMatch) /\ HostKept

(* What is recorded follows the hosts in the end, through lost and refused    *)
(* reports and hosts that vanish (try_recv, prune_stale_reporters_at).        *)
RecordsFollowHosts == GoneIsForgotten /\ WantedIsRecorded
=============================================================================
