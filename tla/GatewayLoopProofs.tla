-------------------------- MODULE GatewayLoopProofs --------------------------
(***************************************************************************)
(* The static gateway for any relays, hosts, nonces and timeouts, and any  *)
(* number of messages in flight.                                           *)
(***************************************************************************)
EXTENDS GatewayLoop, RelayStateProofs, SequenceTheorems
-----------------------------------------------------------------------------
(* Sequences.                                                              *)

(* The sequence made of a finite set holds its elements and no others. *)
LEMMA SetToSeqElements ==
  ASSUME NEW S, IsFiniteSet(S)
  PROVE  /\ SetToSeq(S) \in Seq(S)
         /\ \A x \in S : \E n \in DOMAIN SetToSeq(S) : SetToSeq(S)[n] = x
<1>. DEFINE c == Cardinality(S)
            seq == SetToSeq(S)
<1>1. c \in Nat /\ ExistsBijection(1..c, S)
  BY FS_CardinalityType
<1>2. PICK f \in [1..c -> S] : IsInjective(f)
  BY <1>1 DEF ExistsBijection, Bijection, Injection
<1>3. seq \in [1..c -> S] /\ IsInjective(seq)
  BY <1>2 DEF SetToSeq
<1>4. IsFiniteSet(1..c) /\ Cardinality(1..c) = c
  BY <1>1, FS_Interval
<1>5. seq \in Injection(1..c, S)
  BY <1>3 DEF Injection
<1>6. seq \in Surjection(1..c, S)
  BY <1>4, <1>5, FS_Injection
<1>. HIDE DEF seq
<1>7. \A x \in S : \E n \in DOMAIN seq : seq[n] = x
  BY <1>3, <1>6 DEF Surjection
<1>8. seq \in Seq(S)
  BY <1>1, <1>3
<1>. QED  BY <1>7, <1>8 DEF seq
-----------------------------------------------------------------------------
(* What was reported, on balance.                                          *)

(* StateReport and LeaveRecord bring their groups to what is wanted. *)
LEMMA StateRecordRight ==
  ASSUME NEW interests \in Maps(Group, StoredInterest), NEW g \in DOMAIN interests
  PROVE  /\ StateRecord(g, interests[g]) \in MembershipRecord
         /\ StateRecord(g, interests[g]).group = g
         /\ \A o \in GroupInterest : NextInterest(o, StateRecord(g, interests[g])) = At(interests, g)
<1>1. g \in Group /\ interests[g] \in GroupInterest
  BY MapsElement DEF StoredInterest
<1>2. PICK i \in GroupInterest : i = interests[g]
  BY <1>1
<1>3. i.mode \in {"Include", "Exclude"} /\ i.sources \in SUBSET Source
      /\ i = [mode |-> i.mode, sources |-> i.sources]
  BY DEF GroupInterest
<1>4. StateRecord(g, i) \in MembershipRecord /\ StateRecord(g, i).group = g
  BY <1>1, <1>3 DEF StateRecord, MembershipRecord, RecordKind, IncludeKind, ExcludeKind
<1>5. \A o \in GroupInterest : NextInterest(o, StateRecord(g, i)) = i
  BY <1>3 DEF StateRecord, NextInterest, IncludeKind, ExcludeKind, Include, Exclude
<1>. QED  BY <1>2, <1>4, <1>5 DEF At

(* A leave ends all interest in its group. *)
LEMMA LeaveRecordRight ==
  ASSUME NEW g \in Group
  PROVE  /\ LeaveRecord(g) \in MembershipRecord
         /\ LeaveRecord(g).group = g
         /\ \A o \in GroupInterest : NextInterest(o, LeaveRecord(g)) = Include({})
  BY DEF LeaveRecord, MembershipRecord, RecordKind, IncludeKind, ExcludeKind, NextInterest

(* Gateway::replace_memberships: the report that replaces what was reported    *)
(* before leaves what is wanted, and when it is empty there is nothing to do.  *)
LEMMA Replacement ==
  ASSUME NEW after, after.reception \in Maps(Group, StoredInterest),
         NEW interests \in Maps(Group, StoredInterest)
  PROVE  LET report == ReplacementReport(after, interests)
         IN  /\ ApplyRecords(after.reception, report) = interests
             /\ report = <<>> => after.reception = interests
<1>. DEFINE old == after.reception
            groups == SetToSeq(DOMAIN interests)
            leaves == SetToSeq(DOMAIN old \ DOMAIN interests)
            states == [n \in DOMAIN groups |-> StateRecord(groups[n], interests[groups[n]])]
            gone == [n \in DOMAIN leaves |-> LeaveRecord(leaves[n])]
            report == states \o gone
<1>1. DOMAIN interests \subseteq Group /\ DOMAIN old \subseteq Group
  BY MapsElement
<1>2. IsFiniteSet(DOMAIN interests) /\ IsFiniteSet(DOMAIN old \ DOMAIN interests)
  BY <1>1, SetsAssumption, FS_Subset
<1>3. /\ groups \in Seq(DOMAIN interests)
      /\ \A x \in DOMAIN interests : \E n \in DOMAIN groups : groups[n] = x
  BY <1>2, SetToSeqElements
<1>4. /\ leaves \in Seq(DOMAIN old \ DOMAIN interests)
      /\ \A x \in DOMAIN old \ DOMAIN interests : \E n \in DOMAIN leaves : leaves[n] = x
  BY <1>2, SetToSeqElements
<1>5. ReplacementReport(after, interests) = report
  BY DEF ReplacementReport, StateReport
<1>. HIDE DEF groups, leaves
<1>6. states \in Seq(MembershipRecord) /\ gone \in Seq(MembershipRecord)
      /\ DOMAIN states = DOMAIN groups /\ DOMAIN gone = DOMAIN leaves
  <2>1. \A n \in DOMAIN groups : groups[n] \in DOMAIN interests
    BY <1>3
  <2>2. \A n \in DOMAIN leaves : leaves[n] \in Group
    BY <1>1, <1>4
  <2>3. PICK p \in Nat : DOMAIN groups = 1..p
    BY <1>3
  <2>4. PICK q \in Nat : DOMAIN leaves = 1..q
    BY <1>4
  <2>5. states \in [1..p -> MembershipRecord]
    BY <2>1, <2>3, StateRecordRight
  <2>6. gone \in [1..q -> MembershipRecord]
    BY <2>2, <2>4, LeaveRecordRight
  <2>. QED  BY <2>5, <2>6
<1>7. \A n \in DOMAIN states : \E g \in DOMAIN interests : states[n] = StateRecord(g, interests[g])
  BY <1>3, <1>6
<1>8. \A n \in DOMAIN gone : \E g \in DOMAIN old \ DOMAIN interests : gone[n] = LeaveRecord(g)
  BY <1>4, <1>6
<1>9. \A g \in DOMAIN interests : \E n \in DOMAIN states : states[n] = StateRecord(g, interests[g])
  BY <1>3, <1>6
<1>10. \A g \in DOMAIN old \ DOMAIN interests : \E n \in DOMAIN gone : gone[n] = LeaveRecord(g)
  BY <1>4, <1>6
<1>. HIDE DEF states, gone
<1>11. /\ report \in Seq(MembershipRecord) /\ Len(report) = Len(states) + Len(gone)
       /\ \A n \in 1..Len(report) :
            report[n] = IF n <= Len(states) THEN states[n] ELSE gone[n - Len(states)]
  BY <1>6
<1>12. \A n \in DOMAIN states : n \in 1..Len(report) /\ report[n] = states[n]
  BY <1>6, <1>11
<1>13. \A n \in DOMAIN gone : n + Len(states) \in 1..Len(report) /\ report[n + Len(states)] = gone[n]
  BY <1>6, <1>11
<1>14. \A n \in 1..Len(report) : \/ \E k \in DOMAIN states : report[n] = states[k]
                                 \/ \E k \in DOMAIN gone : report[n] = gone[k]
  <2>. SUFFICES ASSUME NEW n \in 1..Len(report)
                PROVE  \/ \E k \in DOMAIN states : report[n] = states[k]
                       \/ \E k \in DOMAIN gone : report[n] = gone[k]
    OBVIOUS
  <2>1. CASE n <= Len(states)
    BY <1>6, <1>11, <2>1
  <2>2. CASE n > Len(states)
    <3>1. n - Len(states) \in DOMAIN gone /\ report[n] = gone[n - Len(states)]
      BY <1>6, <1>11, <2>2
    <3>. QED  BY <3>1
  <2>. QED  BY <1>6, <1>11, <2>1, <2>2
<1>. HIDE DEF report
<1>15. \A n \in 1..Len(report) : \A o \in GroupInterest :
         NextInterest(o, report[n]) = At(interests, report[n].group)
  <2>. SUFFICES ASSUME NEW n \in 1..Len(report), NEW o \in GroupInterest
                PROVE  NextInterest(o, report[n]) = At(interests, report[n].group)
    OBVIOUS
  <2>1. CASE \E k \in DOMAIN states : report[n] = states[k]
    <3>1. PICK g \in DOMAIN interests : report[n] = StateRecord(g, interests[g])
      BY <1>7, <2>1
    <3>. QED  BY <3>1, StateRecordRight
  <2>2. CASE \E k \in DOMAIN gone : report[n] = gone[k]
    <3>1. PICK g \in DOMAIN old \ DOMAIN interests : report[n] = LeaveRecord(g)
      BY <1>8, <2>2
    <3>2. g \in Group
      BY <1>1
    <3>. QED  BY <3>1, <3>2, LeaveRecordRight DEF At
  <2>. QED  BY <1>14, <2>1, <2>2
<1>16. \A g \in DOMAIN old \cup DOMAIN interests : \E n \in 1..Len(report) : report[n].group = g
  <2>. SUFFICES ASSUME NEW g \in DOMAIN old \cup DOMAIN interests
                PROVE  \E n \in 1..Len(report) : report[n].group = g
    OBVIOUS
  <2>1. CASE g \in DOMAIN interests
    BY <2>1, <1>9, <1>12, StateRecordRight
  <2>2. CASE g \notin DOMAIN interests
    <3>1. g \in Group /\ \E n \in DOMAIN gone : gone[n] = LeaveRecord(g)
      BY <2>2, <1>1, <1>10
    <3>. QED  BY <3>1, <1>13, LeaveRecordRight
  <2>. QED  BY <2>1, <2>2
<1>17. ApplyRecords(old, report) = interests
  <2>1. Brings(report, interests)
    BY <1>15 DEF Brings
  <2>2. \A g \in Group : Told(report, g) \/ At(old, g) = At(interests, g)
    BY <1>16 DEF Told, At
  <2>. QED  BY <1>11, <2>1, <2>2, ReportsAddUp
<1>18. report = <<>> => old = interests
  <2>. SUFFICES ASSUME report = <<>> PROVE old = interests
    OBVIOUS
  <2>0. Len(report) = 0 /\ 1..0 = {}
    OBVIOUS
  <2>1. DOMAIN old = {} /\ DOMAIN interests = {}
    BY <1>16, <2>0, Zenon
  <2>. QED  BY <2>1, EmptyMapUnique
<1>. QED  BY <1>5, <1>17, <1>18
-----------------------------------------------------------------------------
(* The gateway's state.                                                    *)

IsOption(x) == x = {} \/ \E y : x = {y}

IsGateway(x) ==
  /\ x = [relay |-> x.relay, fallback |-> x.fallback, candidates |-> x.candidates,
          discovery_nonce |-> x.discovery_nonce, request_nonce |-> x.request_nonce,
          phase |-> x.phase, endpoint |-> x.endpoint, session |-> x.session,
          reception |-> x.reception]
  /\ x.phase \in {"Discovering", "AwaitingMembershipQuery", "Established"}
  /\ x.reception \in Maps(Group, StoredInterest)

(* A session was opened by the relay in use, whose MAC it holds, with the nonce *)
(* of the MAC, at an address where the relay invited the gateway.               *)
IsSession(s, relay, invited) ==
  /\ s = [mac |-> s.mac, nonce |-> s.nonce, gateway |-> s.gateway, reported |-> s.reported]
  /\ IsOption(s.gateway)
  /\ relay = {s.mac.relay} /\ s.nonce = s.mac.nonce
  /\ s.gateway \in invited

(* The phase says what is there: a relay, a session. *)
GatewayOK(x, invited) ==
  /\ IsGateway(x)
  /\ IsOption(x.endpoint) /\ IsOption(x.session)
  /\ x.phase = "Discovering" <=> x.endpoint = {}
  /\ x.endpoint = {} => x.session = {}
  /\ x.phase = "Established" => x.session # {}
  /\ \A s \in x.session : IsSession(s, x.endpoint, invited)

(* Gateway::new. *)
LEMMA NewGatewayOK ==
  ASSUME NEW relay, NEW relays, NEW d, NEW r
  PROVE  GatewayOK(NewGateway(relay, relays, d, r), {}) /\ NewGateway(relay, relays, d, r).phase = "Discovering"
<1>1. EmptyMap \in Maps(Group, StoredInterest)
  BY EmptyMapType
<1>2. PICK fallback, candidates :
        NewGateway(relay, relays, d, r) =
          [relay |-> relay, fallback |-> fallback, candidates |-> candidates,
           discovery_nonce |-> d, request_nonce |-> r,
           phase |-> "Discovering", endpoint |-> {}, session |-> {}, reception |-> EmptyMap]
  BY DEF NewGateway
<1>. QED  BY <1>1, <1>2 DEF GatewayOK, IsGateway, IsOption

(* Gateway::restart_discovery forgets the session and the relay's address. *)
LEMMA RestartOK ==
  ASSUME NEW x, NEW invited, GatewayOK(x, invited), NEW d, NEW r
  PROVE  /\ GatewayOK(RestartDiscovery(x, d, r), {})
         /\ RestartDiscovery(x, d, r).phase = "Discovering"
<1>1. PICK relay, fallback :
        RestartDiscovery(x, d, r) =
          [x EXCEPT !.relay = relay, !.fallback = fallback, !.discovery_nonce = d,
                    !.request_nonce = r, !.phase = "Discovering", !.endpoint = {}, !.session = {}]
  BY Zenon DEF RestartDiscovery
<1>2. RestartDiscovery(x, d, r) =
        [relay |-> relay, fallback |-> fallback, candidates |-> x.candidates,
         discovery_nonce |-> d, request_nonce |-> r,
         phase |-> "Discovering", endpoint |-> {}, session |-> {}, reception |-> x.reception]
  BY <1>1 DEF GatewayOK, IsGateway
<1>. QED  BY <1>2 DEF GatewayOK, IsGateway, IsOption

(* Gateway::begin_query_cycle keeps the session. *)
LEMMA BeginOK ==
  ASSUME NEW x, NEW invited, GatewayOK(x, invited), IsEstablished(x), NEW n
  PROVE  /\ GatewayOK(BeginQueryCycle(x, n), invited)
         /\ BeginQueryCycle(x, n).phase = "AwaitingMembershipQuery"
         /\ BeginQueryCycle(x, n).session = x.session
<1>0. IsGateway(x)
  BY DEF GatewayOK
<1>1. PICK y : y = [x EXCEPT !.request_nonce = n, !.phase = "AwaitingMembershipQuery"]
  OBVIOUS
<1>2. y =
        [relay |-> x.relay, fallback |-> x.fallback, candidates |-> x.candidates,
         discovery_nonce |-> x.discovery_nonce, request_nonce |-> n,
         phase |-> "AwaitingMembershipQuery", endpoint |-> x.endpoint, session |-> x.session,
         reception |-> x.reception]
  BY <1>0, <1>1 DEF IsGateway
<1>3. BeginQueryCycle(x, n) = y
  BY <1>1 DEF BeginQueryCycle
<1>. QED  BY <1>2, <1>3 DEF GatewayOK, IsGateway, IsEstablished

(* A Relay Advertisement: the relay's address is known, no session yet. *)
LEMMA AdvertisementOK ==
  ASSUME NEW x, NEW invited, GatewayOK(x, invited), x.phase = "Discovering", NEW msg
  PROVE  /\ GatewayOK(AfterAdvertisement(x, msg), invited)
         /\ AfterAdvertisement(x, msg).phase = "AwaitingMembershipQuery"
         /\ AfterAdvertisement(x, msg).session = {}
<1>0. IsGateway(x)
  BY DEF GatewayOK
<1>1. PICK y : y = [x EXCEPT !.endpoint = {msg.address}, !.phase = "AwaitingMembershipQuery"]
  OBVIOUS
<1>2. y =
        [relay |-> x.relay, fallback |-> x.fallback, candidates |-> x.candidates,
         discovery_nonce |-> x.discovery_nonce, request_nonce |-> x.request_nonce,
         phase |-> "AwaitingMembershipQuery", endpoint |-> {msg.address}, session |-> x.session,
         reception |-> x.reception]
  BY <1>0, <1>1 DEF IsGateway
<1>3. AfterAdvertisement(x, msg) = y
  BY <1>1 DEF AfterAdvertisement
<1>4. x.session = {}
  BY DEF GatewayOK
<1>5. {msg.address} # {} /\ IsOption({msg.address}) /\ IsOption({})
  BY DEF IsOption
<1>. QED  BY <1>2, <1>3, <1>4, <1>5 DEF GatewayOK, IsGateway

(* A Membership Query in flight has the MAC of its sender. *)
QueryOK(m) ==
  /\ m.msg.mac.relay = m.relay /\ m.msg.mac.nonce = m.msg.nonce
  /\ IsOption(m.msg.gateway)

(* A Membership Query opens a session with the relay in use. *)
LEMMA QueryAccepted ==
  ASSUME NEW x, NEW invited, GatewayOK(x, invited), NEW m, QueryOK(m),
         AcceptsQuery(x, m.relay, m.msg),
         NEW all, invited \subseteq all, m.msg.gateway \in all
  PROVE  /\ GatewayOK(AfterQuery(x, m.msg), all)
         /\ AfterQuery(x, m.msg).phase = "Established" /\ AfterQuery(x, m.msg).endpoint = x.endpoint
         /\ x.endpoint = {m.relay}
         /\ \A s \in AfterQuery(x, m.msg).session : s.gateway = m.msg.gateway
<1>1. PICK reported :
        AfterQuery(x, m.msg) =
          [x EXCEPT !.session = {[mac |-> m.msg.mac, nonce |-> m.msg.nonce, gateway |-> m.msg.gateway,
                                  reported |-> reported]},
                    !.phase = "Established"]
  BY Zenon DEF AfterQuery
<1>2. PICK s : s = [mac |-> m.msg.mac, nonce |-> m.msg.nonce, gateway |-> m.msg.gateway,
                    reported |-> reported]
  OBVIOUS
<1>3. AfterQuery(x, m.msg) =
        [relay |-> x.relay, fallback |-> x.fallback, candidates |-> x.candidates,
         discovery_nonce |-> x.discovery_nonce, request_nonce |-> x.request_nonce,
         phase |-> "Established", endpoint |-> x.endpoint, session |-> {s}, reception |-> x.reception]
  BY <1>1, <1>2 DEF GatewayOK, IsGateway
<1>4. x.endpoint = {m.relay}
  BY DEF AcceptsQuery, FromExpectedPeer
<1>5. IsSession(s, x.endpoint, all)
  BY <1>2, <1>4 DEF IsSession, QueryOK
<1>6. IsOption({s}) /\ {s} # {}
  BY DEF IsOption
<1>7. PICK y : y = AfterQuery(x, m.msg)
  OBVIOUS
<1>8. y.session = {s} /\ y.endpoint = x.endpoint /\ y.phase = "Established"
  BY <1>3, <1>7
<1>9. GatewayOK(y, all)
  BY <1>3, <1>4, <1>5, <1>6, <1>7 DEF GatewayOK, IsGateway
<1>10. s.gateway = m.msg.gateway
  BY <1>2
<1>. QED  BY <1>4, <1>7, <1>8, <1>9, <1>10

(* Gateway::membership_update, with the replacement report: afterwards what is *)
(* wanted has been reported, in the same phase and with the same relay.        *)
LEMMA ReplacementOK ==
  ASSUME NEW x, NEW invited, GatewayOK(x, invited), NEW interests \in Maps(Group, StoredInterest)
  PROVE  /\ GatewayOK(AfterReplacement(x, interests), invited)
         /\ AfterReplacement(x, interests).reception = interests
         /\ AfterReplacement(x, interests).phase = x.phase
         /\ AfterReplacement(x, interests).endpoint = x.endpoint
         /\ \A t \in AfterReplacement(x, interests).session : \E s \in x.session : t.gateway = s.gateway
         /\ x.session # {} => AfterReplacement(x, interests).session # {}
<1>. DEFINE report == ReplacementReport(x, interests)
<1>0. IsGateway(x)
  BY DEF GatewayOK
<1>1. ApplyRecords(x.reception, report) = interests /\ (report = <<>> => x.reception = interests)
  BY <1>0, Replacement DEF IsGateway
<1>. HIDE DEF report
<1>2. CASE report = <<>>
  <2>1. AfterReplacement(x, interests) = x
    BY <1>2 DEF AfterReplacement, report
  <2>. QED  BY <1>1, <1>2, <2>1
<1>3. CASE report # <<>>
  <2>1. PICK b : b = (interests # EmptyMap)
    OBVIOUS
  <2>2. PICK sessions : sessions = {[s EXCEPT !.reported = b] : s \in x.session}
    OBVIOUS
  <2>3. AfterReplacement(x, interests) = [x EXCEPT !.reception = interests, !.session = sessions]
    BY <1>1, <1>3, <2>1, <2>2 DEF AfterReplacement, AfterUpdate, report
  <2>4. PICK y : y = [x EXCEPT !.reception = interests, !.session = sessions]
    OBVIOUS
  <2>5. y = [relay |-> x.relay, fallback |-> x.fallback, candidates |-> x.candidates,
             discovery_nonce |-> x.discovery_nonce, request_nonce |-> x.request_nonce,
             phase |-> x.phase, endpoint |-> x.endpoint, session |-> sessions, reception |-> interests]
    BY <1>0, <2>4 DEF IsGateway
  <2>6. IsGateway(y)
    BY <1>0, <2>5 DEF IsGateway
  <2>7. ASSUME NEW s \in x.session
        PROVE  /\ IsSession([s EXCEPT !.reported = b], x.endpoint, invited)
               /\ [s EXCEPT !.reported = b].gateway = s.gateway
    <3>1. IsSession(s, x.endpoint, invited)
      BY DEF GatewayOK
    <3>2. [s EXCEPT !.reported = b] = [mac |-> s.mac, nonce |-> s.nonce, gateway |-> s.gateway, reported |-> b]
      BY <3>1 DEF IsSession
    <3>. QED  BY <3>1, <3>2 DEF IsSession
  <2>8. \A t \in sessions : /\ IsSession(t, x.endpoint, invited)
                            /\ \E s \in x.session : t.gateway = s.gateway
    BY <2>2, <2>7
  <2>9. IsOption(sessions) /\ (x.session = {} <=> sessions = {})
    <3>1. CASE x.session = {}
      BY <2>2, <3>1 DEF IsOption
    <3>2. CASE x.session # {}
      <4>1. PICK s : x.session = {s}
        BY <3>2 DEF GatewayOK, IsOption
      <4>2. sessions = {[s EXCEPT !.reported = b]}
        BY <2>2, <4>1
      <4>. QED  BY <4>1, <4>2 DEF IsOption
    <3>. QED  BY <3>1, <3>2
  <2>10. GatewayOK(y, invited)
    BY <2>5, <2>6, <2>8, <2>9 DEF GatewayOK
  <2>. QED  BY <2>3, <2>4, <2>5, <2>8, <2>9, <2>10
<1>. QED  BY <1>2, <1>3
-----------------------------------------------------------------------------
(* What is sent.                                                           *)

(* An Update or a Teardown goes where its MAC is from. *)
MessageOK(m) ==
  /\ m.up = TRUE
  /\ m.msg.kind \in {"Update", "Teardown"} => m.relay = m.msg.mac.relay /\ m.msg.nonce = m.msg.mac.nonce

SentOK(sent) == \A n \in DOMAIN sent : MessageOK(sent[n])

NetOK(ms) == \A m \in ms : ~m.up /\ m.msg.kind = "Query" => QueryOK(m)

(* Joining sequences of at most one message. *)
LEMMA Joined ==
  /\ <<>> \o <<>> = <<>>
  /\ \A a : <<>> \o <<a>> = <<a>> /\ <<a>> \o <<>> = <<a>>
  /\ \A a, b : <<a>> \o <<b>> = <<a, b>> /\ Append(<<a>>, b) = <<a, b>>
<1>1. ASSUME NEW a, NEW b
      PROVE  <<a>> \o <<b>> = <<a, b>> /\ Append(<<a>>, b) = <<a, b>>
  <2>. DEFINE S == {a, b}
  <2>1. <<a>> \in Seq(S) /\ <<b>> \in Seq(S) /\ <<a, b>> \in Seq(S) /\ b \in S
    OBVIOUS
  <2>2. /\ Len(<<a>>) = 1 /\ Len(<<b>>) = 1 /\ Len(<<a, b>>) = 2
        /\ <<a>>[1] = a /\ <<b>>[1] = b /\ <<a, b>>[1] = a /\ <<a, b>>[2] = b
    OBVIOUS
  <2>3. \A c, d \in Seq(S) : Len(c) = 2 /\ Len(d) = 2 /\ c[1] = d[1] /\ c[2] = d[2] => c = d
    <3>. SUFFICES ASSUME NEW c \in Seq(S), NEW d \in Seq(S),
                         Len(c) = 2, Len(d) = 2, c[1] = d[1], c[2] = d[2]
                  PROVE  c = d
      OBVIOUS
    <3>1. \A i \in 1..Len(c) : c[i] = d[i]
      OBVIOUS
    <3>. QED  BY <3>1, SeqEqual
  <2>4. PICK c, d : c = <<a>> /\ d = <<b>>
    OBVIOUS
  <2>5. c \o d \in Seq(S) /\ Len(c \o d) = 2 /\ (c \o d)[1] = a /\ (c \o d)[2] = b
    BY <2>1, <2>2, <2>4, ConcatProperties
  <2>6. Append(c, b) \in Seq(S) /\ Len(Append(c, b)) = 2 /\ Append(c, b)[1] = a /\ Append(c, b)[2] = b
    BY <2>1, <2>2, <2>4, AppendProperties
  <2>. QED  BY <2>1, <2>2, <2>3, <2>4, <2>5, <2>6
<1>2. ASSUME NEW a PROVE <<>> \o <<a>> = <<a>> /\ <<a>> \o <<>> = <<a>>
  <2>1. <<a>> \in Seq({a}) /\ <<>> \in Seq({a}) /\ Len(<<a>>) = 1 /\ Len(<<>>) = 0
    OBVIOUS
  <2>. QED  BY <2>1
<1>. QED  BY <1>1, <1>2

(* Sequences of few messages. *)
LEMMA FewMessages ==
  /\ SentOK(<<>>)
  /\ \A a : MessageOK(a) => SentOK(<<a>>)
  /\ \A a, b : MessageOK(a) /\ MessageOK(b) => SentOK(<<a, b>>)
  BY DEF SentOK

(* Sending adds no Membership Query to the network. *)
LEMMA SendOK ==
  ASSUME NEW rest, NetOK(rest), NEW sent, SentOK(sent), SendFrom(rest, sent)
  PROVE  NetOK(net') /\ out' = sent
<1>1. PICK kept : /\ net' = rest \cup kept /\ out' = sent
                  /\ kept \subseteq {sent[n] : n \in DOMAIN sent}
  BY DEF SendFrom
<1>. QED  BY <1>1 DEF NetOK, SentOK, MessageOK

(* Teardowns of a session, for the address it has (Gateway::teardown and the  *)
(* previous_teardown of a Membership Query).                                  *)
LEMMA TeardownOK ==
  ASSUME NEW s, NEW invited, IsSession(s, gw.endpoint, invited), NEW a
  PROVE  MessageOK(ToEndpoint(Teardown(s.nonce, s.mac, a)))
<1>1. (CHOOSE r \in gw.endpoint : TRUE) = s.mac.relay
  BY DEF IsSession
<1>. QED  BY <1>1 DEF MessageOK, ToEndpoint, ToRelay, Teardown, IsSession

(* Updates go to the relay of the session (Gateway::membership_update). *)
LEMMA UpdateOK ==
  ASSUME NEW x, NEW invited, GatewayOK(x, invited), x.endpoint = gw.endpoint, x.session # {}, NEW interests
  PROVE  \/ UpdateFor(x, interests) = <<>>
         \/ \E m : UpdateFor(x, interests) = <<m>> /\ MessageOK(m)
<1>1. PICK s : s = (CHOOSE z \in x.session : TRUE)
  OBVIOUS
<1>2. IsSession(s, gw.endpoint, invited)
  BY <1>1 DEF GatewayOK
<1>3. (CHOOSE r \in gw.endpoint : TRUE) = s.mac.relay
  BY <1>2 DEF IsSession
<1>4. PICK report : report = ReplacementReport(x, interests)
  OBVIOUS
<1>5. UpdateMessage(x, report) = Update(s.nonce, s.mac, report)
  BY <1>1 DEF UpdateMessage
<1>6. MessageOK(ToEndpoint(UpdateMessage(x, report)))
  BY <1>2, <1>3, <1>5 DEF MessageOK, ToEndpoint, ToRelay, Update, IsSession
<1>. QED  BY <1>4, <1>6 DEF UpdateFor
-----------------------------------------------------------------------------
(* The loop.                                                               *)

(* Inductive.  The two properties of the timers and of what was reported need *)
(* the gateway's phase to say what is there, the one of what is sent needs    *)
(* the MACs in flight and in the session to be of the right relay.            *)
LoopInv ==
  /\ GatewayOK(gw, welcomed)
  /\ NetOK(net) /\ SentOK(out)
  /\ retry = [attempt |-> retry.attempt, wait |-> retry.wait]
  /\ want \in Want
  /\ TimersCover
  /\ AdvertisedIsDesired

(* The step that MoveTearsDown allows. *)
TearsDown ==
  \A s \in gw.session, t \in gw'.session :
    s.gateway # {} /\ t.gateway # s.gateway =>
      /\ out' # <<>>
      /\ out'[1].msg.kind = "Teardown"
      /\ {out'[1].msg.gateway} = s.gateway /\ out'[1].msg.mac = s.mac

(* A gateway that looks for a relay, with the timeout running. *)
LEMMA SearchOK ==
  ASSUME LoopInv, GatewayOK(gw', welcomed'), gw'.phase # "Established", cycle' # {},
         NetOK(net'), SentOK(out'), want' = want,
         retry' = [attempt |-> retry'.attempt, wait |-> retry'.wait]
  PROVE  LoopInv'
  BY DEF LoopInv, TimersCover, AdvertisedIsDesired, IsEstablished

(* A session that stays has not moved. *)
LEMMA SameSession ==
  ASSUME LoopInv,
         \A t \in gw'.session : \E s \in gw.session : t.gateway = s.gateway
  PROVE  TearsDown
<1>1. IsOption(gw.session)
  BY DEF LoopInv, GatewayOK
<1>. QED  BY <1>1 DEF IsOption, TearsDown

(* Steps that leave the gateway's state and timers as they are. *)
LEMMA QuietOK ==
  ASSUME LoopInv, UNCHANGED <<gw, want, cycle, refresh, retry, welcomed>>, NetOK(net'), SentOK(out')
  PROVE  LoopInv' /\ TearsDown
<1>1. LoopInv'
  BY DEF LoopInv, TimersCover, AdvertisedIsDesired, IsEstablished, RetryDue
<1>2. TearsDown
  BY SameSession
<1>. QED  BY <1>1, <1>2

(* GatewayRetry::after_send. *)
LEMMA RetryType ==
  ASSUME NEW attempt, RetryAfterSend(attempt)
  PROVE  retry' = [attempt |-> retry'.attempt, wait |-> retry'.wait]
  BY DEF RetryAfterSend

(* Discovery is restarted: the old session is gone. *)
LEMMA StartOverOK ==
  ASSUME LoopInv, NEW rest, NetOK(rest), NEW before, StartOver(rest, before), want' = want,
         \A m : MessageOK(m) => SentOK(Append(before, m))
  PROVE  LoopInv' /\ TearsDown
<1>1. PICK d \in Nonce, r \in Nonce :
        /\ gw' = RestartDiscovery(gw, d, r)
        /\ SendFrom(rest, Append(before, ToRelay(gw'.relay, Discovery(d))))
        /\ cycle' = {0} /\ RetryAfterSend(0) /\ welcomed' = {}
  BY DEF StartOver
<1>2. MessageOK(ToRelay(gw'.relay, Discovery(d)))
  BY DEF MessageOK, ToRelay, Discovery
<1>3. SentOK(Append(before, ToRelay(gw'.relay, Discovery(d))))
  BY <1>2
<1>4. NetOK(net') /\ SentOK(out')
  BY <1>1, <1>3, SendOK
<1>5. GatewayOK(gw', welcomed') /\ gw'.phase = "Discovering"
  BY <1>1, RestartOK DEF LoopInv
<1>6. gw'.session = {}
  BY <1>5 DEF GatewayOK
<1>7. retry' = [attempt |-> retry'.attempt, wait |-> retry'.wait]
  BY <1>1, RetryType
<1>8. LoopInv'
  BY <1>1, <1>4, <1>5, <1>7, SearchOK
<1>. QED  BY <1>6, <1>8 DEF TearsDown

(* The top of the loop. *)
LEMMA TopOK ==
  ASSUME LoopInv, Top
  PROVE  LoopInv' /\ TearsDown
<1>0. want' = want /\ NetOK(net) /\ GatewayOK(gw, welcomed)
  BY DEF Top, LoopInv
<1>1. CASE QueryCycleTimesOut
  <2>1. \A m : Append(<<>>, m) = <<m>>
    OBVIOUS
  <2>2. \A m : MessageOK(m) => SentOK(Append(<<>>, m))
    BY <2>1, FewMessages
  <2>. QED  BY <1>0, <1>1, <2>2, StartOverOK DEF QueryCycleTimesOut
<1>2. CASE RepeatDiscovery
  <2>1. SendFrom(net, <<ToRelay(gw.relay, Discovery(gw.discovery_nonce))>>)
    BY <1>2 DEF RepeatDiscovery, Send
  <2>2. MessageOK(ToRelay(gw.relay, Discovery(gw.discovery_nonce)))
    BY DEF MessageOK, ToRelay, Discovery
  <2>3. NetOK(net') /\ SentOK(out')
    BY <1>0, <2>1, <2>2, FewMessages, SendOK
  <2>4. gw.endpoint = {} /\ gw' = gw /\ welcomed' = welcomed /\ cycle' # {}
    BY <1>2 DEF RepeatDiscovery
  <2>5. gw.phase = "Discovering" /\ gw.session = {}
    BY <1>0, <2>4 DEF GatewayOK
  <2>6. retry' = [attempt |-> retry'.attempt, wait |-> retry'.wait]
    BY <1>2, RetryType DEF RepeatDiscovery
  <2>7. LoopInv'
    BY <1>0, <2>3, <2>4, <2>5, <2>6, SearchOK
  <2>. QED  BY <2>4, <2>5, <2>7 DEF TearsDown
<1>3. CASE RepeatRequest
  <2>1. SendFrom(net, <<ToEndpoint(Request(gw.request_nonce))>>)
    BY <1>3 DEF RepeatRequest, Send
  <2>2. MessageOK(ToEndpoint(Request(gw.request_nonce)))
    BY DEF MessageOK, ToEndpoint, ToRelay, Request
  <2>3. NetOK(net') /\ SentOK(out')
    BY <1>0, <2>1, <2>2, FewMessages, SendOK
  <2>4. gw.endpoint # {} /\ gw.phase = "AwaitingMembershipQuery" /\ gw' = gw /\ welcomed' = welcomed
        /\ cycle' = cycle
    BY <1>3 DEF RepeatRequest, IsAwaitingQuery
  <2>5. cycle # {}
    BY <2>4 DEF LoopInv, TimersCover
  <2>6. retry' = [attempt |-> retry'.attempt, wait |-> retry'.wait]
    BY <1>3, RetryType DEF RepeatRequest
  <2>7. LoopInv'
    BY <1>0, <2>3, <2>4, <2>5, <2>6, SearchOK
  <2>. QED  BY <2>4, <2>7, SameSession
<1>4. CASE BeginRefresh
  <2>1. PICK n \in Nonce : gw' = BeginQueryCycle(gw, n) /\ SendFrom(net, <<ToEndpoint(Request(n))>>)
    BY <1>4 DEF BeginRefresh, Send
  <2>2. IsEstablished(gw) /\ welcomed' = welcomed /\ cycle' = {0}
    BY <1>4 DEF BeginRefresh, RefreshDue
  <2>3. MessageOK(ToEndpoint(Request(n)))
    BY DEF MessageOK, ToEndpoint, ToRelay, Request
  <2>4. NetOK(net') /\ SentOK(out')
    BY <1>0, <2>1, <2>3, FewMessages, SendOK
  <2>5. GatewayOK(gw', welcomed') /\ gw'.phase = "AwaitingMembershipQuery" /\ gw'.session = gw.session
    BY <1>0, <2>1, <2>2, BeginOK
  <2>6. retry' = [attempt |-> retry'.attempt, wait |-> retry'.wait]
    BY <1>4, RetryType DEF BeginRefresh
  <2>7. LoopInv'
    BY <1>0, <2>2, <2>4, <2>5, <2>6, SearchOK
  <2>. QED  BY <2>5, <2>7, SameSession
<1>5. CASE NothingDue
  BY <1>0, <1>5, FewMessages, QuietOK DEF NothingDue
<1>. QED  BY <1>1, <1>2, <1>3, <1>4, <1>5 DEF Top

(* The Teardown owed for a session whose address changed. *)
LEMMA PreviousOK ==
  ASSUME LoopInv, NEW msg
  PROVE  LET previous == PreviousTeardown(gw, msg)
             sent == AtMostOne({ToEndpoint(t) : t \in previous})
         IN  \/ /\ previous = {} /\ sent = <<>>
                /\ \A s \in gw.session : s.gateway = {} \/ s.gateway = msg.gateway
             \/ \E s \in gw.session : \E a :
                  /\ gw.session = {s} /\ s.gateway = {a} /\ previous # {}
                  /\ sent = <<ToEndpoint(Teardown(s.nonce, s.mac, a))>>
                  /\ MessageOK(ToEndpoint(Teardown(s.nonce, s.mac, a)))
<1>. DEFINE previous == PreviousTeardown(gw, msg)
            Owed(s) == {Teardown(s.nonce, s.mac, old) : old \in s.gateway}
<1>0. previous = UNION {Owed(s) : s \in {t \in gw.session : t.gateway # msg.gateway}}
  BY DEF PreviousTeardown
<1>. HIDE DEF previous
<1>1. IsOption(gw.session) /\ \A s \in gw.session : IsSession(s, gw.endpoint, welcomed)
  BY DEF LoopInv, GatewayOK
<1>2. CASE \A s \in gw.session : s.gateway = {} \/ s.gateway = msg.gateway
  <2>1. previous = {}
    BY <1>0, <1>2
  <2>2. {ToEndpoint(t) : t \in previous} = {}
    BY <2>1
  <2>. QED  BY <1>2, <2>1, <2>2 DEF AtMostOne, previous
<1>3. CASE \E s \in gw.session : s.gateway # {} /\ s.gateway # msg.gateway
  <2>1. PICK s \in gw.session : s.gateway # {} /\ s.gateway # msg.gateway
    BY <1>3
  <2>2. gw.session = {s}
    BY <1>1 DEF IsOption
  <2>3. PICK a : s.gateway = {a}
    BY <1>1, <2>1 DEF IsSession, IsOption
  <2>4. {t \in gw.session : t.gateway # msg.gateway} = {s}
    BY <2>1, <2>2
  <2>5. Owed(s) = {Teardown(s.nonce, s.mac, a)}
    BY <2>3
  <2>6. previous = Owed(s)
    <3>1. {Owed(t) : t \in {s}} = {Owed(s)}
      OBVIOUS
    <3>2. UNION {Owed(s)} = Owed(s)
      OBVIOUS
    <3>. QED  BY <1>0, <2>4, <3>1, <3>2
  <2>7. previous = {Teardown(s.nonce, s.mac, a)}
    BY <2>5, <2>6
  <2>8. {ToEndpoint(t) : t \in previous} = {ToEndpoint(Teardown(s.nonce, s.mac, a))}
    BY <2>7
  <2>9. AtMostOne({ToEndpoint(t) : t \in previous}) = <<ToEndpoint(Teardown(s.nonce, s.mac, a))>>
    BY <2>8 DEF AtMostOne
  <2>10. MessageOK(ToEndpoint(Teardown(s.nonce, s.mac, a)))
    BY <1>1, TeardownOK
  <2>. QED  BY <2>2, <2>3, <2>7, <2>9, <2>10 DEF previous
<1>. QED  BY <1>2, <1>3

(* A Query with the L flag is taken only from a relay that invited the gateway *)
(* at that address before (limit_requires_rediscovery).                        *)
LEMMA QueryInvites ==
  ASSUME LoopInv, NEW msg,
         ~LimitRequiresRediscovery(msg.limit, HasReported(AfterQuery(gw, msg)), PreviousTeardown(gw, msg) # {})
  PROVE  msg.gateway \in IF msg.limit THEN welcomed ELSE welcomed \cup {msg.gateway}
<1>. SUFFICES ASSUME msg.limit PROVE msg.gateway \in welcomed
  OBVIOUS
<1>1. HasReported(AfterQuery(gw, msg))
  BY DEF LimitRequiresRediscovery
<1>2. PICK reported :
        /\ reported = (\E s \in gw.session : s.gateway = msg.gateway /\ s.reported)
        /\ AfterQuery(gw, msg) =
             [gw EXCEPT !.session = {[mac |-> msg.mac, nonce |-> msg.nonce, gateway |-> msg.gateway,
                                      reported |-> reported]},
                        !.phase = "Established"]
  BY Zenon DEF AfterQuery
<1>3. AfterQuery(gw, msg).session = {[mac |-> msg.mac, nonce |-> msg.nonce, gateway |-> msg.gateway,
                                      reported |-> reported]}
  BY <1>2 DEF LoopInv, GatewayOK, IsGateway
<1>4. reported
  BY <1>1, <1>3 DEF HasReported
<1>5. PICK s \in gw.session : s.gateway = msg.gateway
  BY <1>2, <1>4
<1>6. IsSession(s, gw.endpoint, welcomed)
  BY DEF LoopInv, GatewayOK
<1>. QED  BY <1>5, <1>6 DEF IsSession

(* Datagrams. *)
LEMMA RecvOK ==
  ASSUME LoopInv, Recv
  PROVE  LoopInv' /\ TearsDown
<1>0. want' = want /\ NetOK(net) /\ GatewayOK(gw, welcomed) /\ want \in Maps(Group, StoredInterest)
  BY LoopAssumption DEF Recv, LoopInv
<1>1. PICK m \in {x \in net : ~x.up} :
        RecvAdvertisement(m) \/ RecvRefusal(m) \/ RecvQuery(m) \/ RecvRejected(m)
  BY DEF Recv
<1>2. ASSUME NEW rest \in Rest(m) PROVE NetOK(rest)
  BY <1>0 DEF Rest, NetOK
<1>3. m.msg.kind = "Query" => QueryOK(m)
  BY <1>0 DEF NetOK
<1>4. CASE RecvAdvertisement(m)
  <2>1. gw' = AfterAdvertisement(gw, m.msg) /\ gw.phase = "Discovering" /\ cycle' = {0} /\ welcomed' = welcomed
    BY <1>4 DEF RecvAdvertisement, AcceptsAdvertisement
  <2>2. PICK rest \in Rest(m) : SendFrom(rest, <<ToRelay(m.msg.address, Request(gw.request_nonce))>>)
    BY <1>4 DEF RecvAdvertisement
  <2>3. MessageOK(ToRelay(m.msg.address, Request(gw.request_nonce)))
    BY DEF MessageOK, ToRelay, Request
  <2>4. NetOK(net') /\ SentOK(out')
    BY <1>2, <2>2, <2>3, FewMessages, SendOK
  <2>5. GatewayOK(gw', welcomed') /\ gw'.phase = "AwaitingMembershipQuery" /\ gw'.session = {}
    BY <1>0, <2>1, AdvertisementOK
  <2>6. retry' = [attempt |-> retry'.attempt, wait |-> retry'.wait]
    BY <1>4, RetryType DEF RecvAdvertisement
  <2>7. LoopInv'
    BY <1>0, <2>1, <2>4, <2>5, <2>6, SearchOK
  <2>. QED  BY <2>5, <2>7 DEF TearsDown
<1>5. CASE RecvRefusal(m)
  <2>. DEFINE before == AtMostOne({ToEndpoint(t) : t \in PreviousTeardown(gw, m.msg)})
  <2>1. PICK rest \in Rest(m) : StartOver(rest, before)
    BY <1>5 DEF RecvRefusal
  <2>2. before = <<>> \/ \E a : before = <<a>> /\ MessageOK(a)
    BY PreviousOK
  <2>. HIDE DEF before
  <2>3. ASSUME NEW x, MessageOK(x) PROVE SentOK(Append(before, x))
    <3>1. CASE before = <<>>
      <4>1. Append(before, x) = <<x>>
        BY <3>1
      <4>. QED  BY <2>3, <4>1, FewMessages
    <3>2. CASE \E a : before = <<a>> /\ MessageOK(a)
      <4>1. PICK a : before = <<a>> /\ MessageOK(a)
        BY <3>2
      <4>2. Append(before, x) = <<a, x>>
        BY <4>1, Joined
      <4>. QED  BY <2>3, <4>1, <4>2, FewMessages
    <3>. QED  BY <2>2, <3>1, <3>2
  <2>. QED  BY <1>0, <1>2, <2>1, <2>3, StartOverOK
<1>6. CASE RecvQuery(m)
  <2>. DEFINE after == AfterQuery(gw, m.msg)
              before == AtMostOne({ToEndpoint(t) : t \in PreviousTeardown(gw, m.msg)})
              update == UpdateFor(after, want)
  <2>1. /\ m.msg.kind = "Query" /\ AcceptsQuery(gw, m.relay, m.msg)
        /\ gw' = AfterReplacement(after, want)
        /\ cycle' = {} /\ refresh' = {0} /\ retry' = retry
        /\ welcomed' = IF m.msg.limit THEN welcomed ELSE welcomed \cup {m.msg.gateway}
    BY <1>6 DEF RecvQuery
  <2>2. PICK rest \in Rest(m) : SendFrom(rest, before \o update)
    BY <1>6 DEF RecvQuery
  <2>3. ~LimitRequiresRediscovery(m.msg.limit, HasReported(after), PreviousTeardown(gw, m.msg) # {})
    BY <1>6 DEF RecvQuery
  <2>4. m.msg.gateway \in welcomed' /\ welcomed \subseteq welcomed'
    BY <2>1, <2>3, QueryInvites
  <2>5. /\ GatewayOK(after, welcomed') /\ after.phase = "Established" /\ after.endpoint = gw.endpoint
        /\ \A s \in after.session : s.gateway = m.msg.gateway
    <3>1. QueryOK(m)
      BY <1>3, <2>1
    <3>2. PICK all : all = welcomed'
      OBVIOUS
    <3>3. welcomed \subseteq all /\ m.msg.gateway \in all
      BY <2>4, <3>2
    <3>4. AcceptsQuery(gw, m.relay, m.msg) /\ GatewayOK(gw, welcomed)
      BY <1>0, <2>1
    <3>5. /\ GatewayOK(after, all) /\ after.phase = "Established" /\ after.endpoint = gw.endpoint
          /\ \A s \in after.session : s.gateway = m.msg.gateway
      BY <3>1, <3>3, <3>4, QueryAccepted, SMTT(30)
    <3>. QED  BY <3>2, <3>5
  <2>6. before = <<>> \/ \E a : before = <<a>> /\ MessageOK(a)
    BY PreviousOK
  <2>7. after.session # {}
    BY <2>5 DEF GatewayOK
  <2>8. update = <<>> \/ \E b : update = <<b>> /\ MessageOK(b)
    BY <2>5, <2>7, UpdateOK
  <2>9. /\ GatewayOK(gw', welcomed') /\ gw'.reception = want /\ gw'.phase = "Established"
        /\ \A t \in gw'.session : t.gateway = m.msg.gateway
    <3>1. PICK x, all : x = after /\ all = welcomed'
      OBVIOUS
    <3>2. GatewayOK(x, all) /\ want \in Maps(Group, StoredInterest)
      BY <1>0, <2>5, <3>1
    <3>3. /\ GatewayOK(AfterReplacement(x, want), all)
          /\ AfterReplacement(x, want).reception = want
          /\ AfterReplacement(x, want).phase = x.phase
          /\ \A t \in AfterReplacement(x, want).session : \E s \in x.session : t.gateway = s.gateway
      BY <3>2, ReplacementOK, SMTT(30)
    <3>4. gw' = AfterReplacement(x, want) /\ x.phase = "Established"
          /\ \A s \in x.session : s.gateway = m.msg.gateway
      BY <2>1, <2>5, <3>1
    <3>. QED  BY <3>1, <3>3, <3>4
  <2>10. \/ /\ before = <<>> /\ \A s \in gw.session : s.gateway = {} \/ s.gateway = m.msg.gateway
         \/ \E s \in gw.session : \E a : /\ gw.session = {s} /\ s.gateway = {a}
                                     /\ before = <<ToEndpoint(Teardown(s.nonce, s.mac, a))>>
    BY PreviousOK, ZenonT(40)
  <2>. HIDE DEF before, update, after
  <2>11. SentOK(before \o update)
    <3>1. \/ before \o update = <<>>
          \/ \E a : before \o update = <<a>> /\ MessageOK(a)
          \/ \E a, b : before \o update = <<a, b>> /\ MessageOK(a) /\ MessageOK(b)
      <4>1. CASE before = <<>>
        BY <2>8, <4>1, Joined
      <4>2. CASE \E a : before = <<a>> /\ MessageOK(a)
        <5>1. PICK a : before = <<a>> /\ MessageOK(a)
          BY <4>2
        <5>2. CASE update = <<>>
          <6>1. before \o update = <<a>>
            BY <5>1, <5>2, Joined
          <6>. QED  BY <5>1, <6>1
        <5>3. CASE \E b : update = <<b>> /\ MessageOK(b)
          <6>1. PICK b : update = <<b>> /\ MessageOK(b)
            BY <5>3
          <6>2. before \o update = <<a, b>>
            BY <5>1, <6>1, Joined
          <6>. QED  BY <5>1, <6>1, <6>2
        <5>. QED  BY <2>8, <5>2, <5>3
      <4>. QED  BY <2>6, <4>1, <4>2
    <3>. QED  BY <3>1, FewMessages
  <2>12. NetOK(net') /\ SentOK(out') /\ out' = before \o update
    BY <1>2, <2>2, <2>11, SendOK
  <2>13. LoopInv'
    BY <1>0, <2>1, <2>9, <2>12 DEF LoopInv, TimersCover, AdvertisedIsDesired, IsEstablished
  <2>14. TearsDown
    <3>. SUFFICES ASSUME NEW s \in gw.session, NEW t \in gw'.session,
                         s.gateway # {}, t.gateway # s.gateway
                  PROVE  /\ out' # <<>>
                         /\ out'[1].msg.kind = "Teardown"
                         /\ {out'[1].msg.gateway} = s.gateway /\ out'[1].msg.mac = s.mac
      BY DEF TearsDown
    <3>1. PICK a : s.gateway = {a} /\ before = <<ToEndpoint(Teardown(s.nonce, s.mac, a))>>
      BY <2>9, <2>10
    <3>2. PICK x : x = ToEndpoint(Teardown(s.nonce, s.mac, a))
      OBVIOUS
    <3>3. x.msg.kind = "Teardown" /\ x.msg.gateway = a /\ x.msg.mac = s.mac
      BY <3>2 DEF ToEndpoint, ToRelay, Teardown
    <3>4. out' # <<>> /\ out'[1] = x
      <4>1. before = <<x>>
        BY <3>1, <3>2
      <4>2. <<x>> \o <<>> = <<x>> /\ \A b : <<x>> \o <<b>> = <<x, b>>
        BY Joined
      <4>3. <<x>> # <<>> /\ <<x>>[1] = x /\ \A b : <<x, b>> # <<>> /\ <<x, b>>[1] = x
        OBVIOUS
      <4>. QED  BY <2>8, <2>12, <4>1, <4>2, <4>3
    <3>. QED  BY <3>1, <3>3, <3>4
  <2>. QED  BY <2>13, <2>14
<1>7. CASE RecvRejected(m)
  <2>1. UNCHANGED <<gw, cycle, refresh, retry, welcomed>> /\ out' = <<>> /\ net' = net \ {m}
    BY <1>7 DEF RecvRejected
  <2>2. NetOK(net') /\ SentOK(out')
    BY <1>0, <2>1, FewMessages DEF NetOK
  <2>. QED  BY <1>0, <2>1, <2>2, QuietOK
<1>. QED  BY <1>1, <1>4, <1>5, <1>6, <1>7

(* Local reports and pruned reporters are passed on when there is a session,  *)
(* or an established one.                                                     *)
LEMMA LocalOK ==
  ASSUME LoopInv, LocalReport \/ LocalPrune
  PROVE  LoopInv' /\ TearsDown
<1>0. /\ UNCHANGED <<cycle, refresh, retry, welcomed>>
      /\ GatewayOK(gw, welcomed) /\ NetOK(net)
  BY DEF LocalReport, LocalPrune, LoopInv
<1>1. PICK interests \in Want :
        /\ want' = interests
        /\ \/ gw.session # {} /\ SendDesired(interests)
           \/ ~IsEstablished(gw) /\ KeepQuiet
  BY DEF LocalReport, LocalPrune, IsEstablished
<1>2. interests \in Maps(Group, StoredInterest)
  BY LoopAssumption
<1>3. CASE gw.session # {} /\ SendDesired(interests)
  <2>1. gw' = AfterReplacement(gw, interests) /\ SendFrom(net, UpdateFor(gw, interests))
    BY <1>3 DEF SendDesired, Send
  <2>2. /\ GatewayOK(gw', welcomed) /\ gw'.reception = interests /\ gw'.phase = gw.phase
        /\ gw'.endpoint = gw.endpoint /\ gw'.session # {}
        /\ \A t \in gw'.session : \E s \in gw.session : t.gateway = s.gateway
    <3>1. PICK x : x = AfterReplacement(gw, interests)
      OBVIOUS
    <3>0. /\ GatewayOK(AfterReplacement(gw, interests), welcomed)
          /\ AfterReplacement(gw, interests).reception = interests
          /\ AfterReplacement(gw, interests).phase = gw.phase
          /\ AfterReplacement(gw, interests).endpoint = gw.endpoint
          /\ \A t \in AfterReplacement(gw, interests).session : \E s \in gw.session : t.gateway = s.gateway
          /\ gw.session # {} => AfterReplacement(gw, interests).session # {}
      BY <1>0, <1>2, ReplacementOK, SMTT(30)
    <3>2. /\ GatewayOK(x, welcomed) /\ x.reception = interests /\ x.phase = gw.phase
          /\ x.endpoint = gw.endpoint /\ x.session # {}
          /\ \A t \in x.session : \E s \in gw.session : t.gateway = s.gateway
      BY <1>3, <3>0, <3>1
    <3>. QED  BY <2>1, <3>1, <3>2
  <2>3. SentOK(UpdateFor(gw, interests))
    BY <1>0, <1>3, UpdateOK, FewMessages
  <2>4. NetOK(net') /\ SentOK(out')
    BY <1>0, <2>1, <2>3, SendOK
  <2>5. TimersCover'
    BY <1>0, <1>3, <2>2 DEF LoopInv, TimersCover, IsEstablished, RetryDue
  <2>6. LoopInv'
    BY <1>0, <1>1, <2>2, <2>4, <2>5 DEF LoopInv, AdvertisedIsDesired
  <2>. QED  BY <2>2, <2>6, SameSession
<1>4. CASE ~IsEstablished(gw) /\ KeepQuiet
  <2>1. gw' = gw /\ net' = net /\ out' = <<>>
    BY <1>4 DEF KeepQuiet
  <2>2. LoopInv'
    BY <1>0, <1>1, <1>4, <2>1, FewMessages DEF LoopInv, TimersCover, AdvertisedIsDesired, IsEstablished, RetryDue
  <2>. QED  BY <2>1, <2>2, SameSession
<1>. QED  BY <1>1, <1>3, <1>4

(* Timers run. *)
LEMMA TickOK ==
  ASSUME LoopInv, Tick
  PROVE  LoopInv' /\ TearsDown
<1>1. UNCHANGED <<gw, want, net, welcomed>> /\ out' = <<>>
  BY DEF Tick
<1>2. (cycle' = {} <=> cycle = {}) /\ (refresh' = {} <=> refresh = {})
  BY DEF Tick
<1>3. /\ retry' = [attempt |-> retry'.attempt, wait |-> retry'.wait]
      /\ retry.wait = 0 => retry'.wait = 0
  BY DEF Tick, LoopInv
<1>4. TimersCover'
  BY <1>1, <1>2, <1>3 DEF LoopInv, TimersCover, IsEstablished, RetryDue
<1>5. LoopInv'
  BY <1>1, <1>3, <1>4, FewMessages DEF LoopInv, AdvertisedIsDesired, IsEstablished
<1>. QED  BY <1>1, <1>5, SameSession

(* A relay's answer has the relay's own MAC, made for the nonce it answers. *)
LEMMA NetworkOK ==
  ASSUME LoopInv, Network
  PROVE  LoopInv' /\ TearsDown
<1>0. NetOK(net)
  BY DEF LoopInv
<1>1. PICK m \in net : AnswerDiscovery(m) \/ AnswerRequest(m) \/ Lose(m)
  BY DEF Network
<1>2. ASSUME NEW rest \in Rest(m) PROVE NetOK(rest)
  BY <1>0 DEF Rest, NetOK
<1>3. ASSUME NEW msg, Answer(m, msg), msg.kind = "Query" => QueryOK(ToGateway(m.relay, msg))
      PROVE  LoopInv' /\ TearsDown
  <2>1. PICK rest \in Rest(m) : net' = rest \cup {ToGateway(m.relay, msg)}
    BY <1>3 DEF Answer
  <2>2. ToGateway(m.relay, msg).msg = msg
    BY DEF ToGateway
  <2>3. NetOK(net')
    BY <1>2, <1>3, <2>1, <2>2 DEF NetOK
  <2>4. UNCHANGED <<gw, want, cycle, refresh, retry, welcomed>> /\ SentOK(out')
    BY <1>3, FewMessages DEF Answer
  <2>. QED  BY <2>3, <2>4, QuietOK
<1>4. CASE AnswerDiscovery(m)
  <2>1. PICK address : Answer(m, Advertisement(m.msg.nonce, address))
    BY <1>4 DEF AnswerDiscovery
  <2>2. Advertisement(m.msg.nonce, address).kind # "Query"
    BY DEF Advertisement
  <2>. QED  BY <1>3, <2>1, <2>2
<1>5. CASE AnswerRequest(m)
  <2>1. PICK address, limit, fields, interval :
          /\ Answer(m, Query(m.msg.nonce, RelayMac(m.relay, m.msg.nonce, address), limit, fields, interval))
          /\ fields = {address} \/ fields = {}
    BY <1>5 DEF AnswerRequest
  <2>2. PICK msg : msg = Query(m.msg.nonce, RelayMac(m.relay, m.msg.nonce, address), limit, fields, interval)
    OBVIOUS
  <2>3. IsOption(fields)
    BY <2>1 DEF IsOption
  <2>4. QueryOK(ToGateway(m.relay, msg))
    BY <2>2, <2>3 DEF QueryOK, ToGateway, Query, RelayMac
  <2>. QED  BY <1>3, <2>1, <2>2, <2>4
<1>6. CASE Lose(m)
  <2>1. NetOK(net') /\ SentOK(out')
    BY <1>0, <1>6, FewMessages DEF Lose, NetOK
  <2>. QED  BY <1>6, <2>1, QuietOK DEF Lose
<1>. QED  BY <1>1, <1>4, <1>5, <1>6

(* shutdown_gateway: the session is torn down at its relay. *)
LEMMA ShutdownOK ==
  ASSUME LoopInv, Shutdown
  PROVE  LoopInv' /\ TearsDown
<1>. DEFINE messages == TeardownMessages(gw)
            sent == AtMostOne({ToEndpoint(m) : m \in messages})
<1>1. SendFrom(net, sent) /\ UNCHANGED <<gw, want, cycle, refresh, retry, welcomed>> /\ NetOK(net)
  BY DEF Shutdown, Send, LoopInv
<1>2. \A m \in messages : MessageOK(ToEndpoint(m))
  <2>. SUFFICES ASSUME NEW m \in messages PROVE MessageOK(ToEndpoint(m))
    OBVIOUS
  <2>1. PICK s \in gw.session : \E a : m = Teardown(s.nonce, s.mac, a)
    BY DEF TeardownMessages
  <2>2. IsSession(s, gw.endpoint, welcomed)
    BY DEF LoopInv, GatewayOK
  <2>. QED  BY <2>1, <2>2, TeardownOK
<1>. HIDE DEF messages
<1>3. sent = <<>> \/ \E m \in messages : sent = <<ToEndpoint(m)>>
  BY DEF AtMostOne
<1>4. SentOK(sent)
  BY <1>2, <1>3, FewMessages
<1>5. NetOK(net') /\ SentOK(out')
  BY <1>1, <1>4, SendOK
<1>. QED  BY <1>1, <1>5, QuietOK
-----------------------------------------------------------------------------
(* The theorems.                                                           *)

(* A new gateway, with nothing sent yet. *)
LEMMA InitOK == Init => LoopInv
<1>. SUFFICES ASSUME Init PROVE LoopInv
  OBVIOUS
<1>1. PICK d, r : gw = NewGateway(Head(Candidates), Tail(Candidates), d, r)
  BY DEF Init
<1>2. GatewayOK(gw, welcomed) /\ gw.phase = "Discovering"
  BY <1>1, NewGatewayOK DEF Init
<1>3. gw.endpoint = {} /\ NetOK(net) /\ SentOK(out)
  BY <1>2, FewMessages DEF Init, GatewayOK, NetOK
<1>. QED  BY <1>2, <1>3 DEF Init, LoopInv, TimersCover, AdvertisedIsDesired, IsEstablished, RetryDue

(* Every step keeps the invariant, and tears down the session that moved. *)
LEMMA StepOK == LoopInv /\ [Next]_vars => LoopInv' /\ [TearsDown]_vars
<1>. SUFFICES ASSUME LoopInv, [Next]_vars PROVE LoopInv' /\ [TearsDown]_vars
  OBVIOUS
<1>0. NetOK(net) /\ SentOK(out)
  BY DEF LoopInv
<1>1. CASE Top
  BY <1>1, TopOK
<1>2. CASE Recv
  BY <1>2, RecvOK
<1>3. CASE LocalReport \/ LocalPrune
  BY <1>3, LocalOK
<1>4. CASE Tick
  BY <1>4, TickOK
<1>5. CASE Network
  BY <1>5, NetworkOK
<1>6. CASE Shutdown
  BY <1>6, ShutdownOK
<1>7. CASE RecvDone \/ LocalDone \/ SocketFails \/ Ended
  <2>1. UNCHANGED <<gw, want, cycle, refresh, retry, welcomed>> /\ net' = net /\ (out' = <<>> \/ out' = out)
    BY <1>7 DEF RecvDone, LocalDone, SocketFails, Ended
  <2>. QED  BY <1>0, <2>1, FewMessages, QuietOK
<1>8. CASE UNCHANGED vars
  BY <1>0, <1>8, QuietOK DEF vars
<1>. QED  BY <1>1, <1>2, <1>3, <1>4, <1>5, <1>6, <1>7, <1>8 DEF Next, Loop

(* On balance over all the reports it sent, an established gateway has told    *)
(* its relay exactly what the hosts want now (replace_memberships,             *)
(* drain_local_membership).                                                    *)
THEOREM ReportsExact == Spec => []AdvertisedIsDesired
<1>1. LoopInv => AdvertisedIsDesired
  BY DEF LoopInv
<1>. QED  BY <1>1, InitOK, StepOK, PTL DEF Spec

(* An Update or a Teardown carries the MAC of the relay it goes to and the     *)
(* nonce of that MAC, whatever answers are lost, late or repeated              *)
(* (handle_datagram_with_ecn, restart_discovery).                              *)
THEOREM SentAuthentic == Spec => []OutgoingAuthentic
<1>1. LoopInv => OutgoingAuthentic
  BY DEF LoopInv, SentOK, MessageOK, OutgoingAuthentic
<1>. QED  BY <1>1, InitOK, StepOK, PTL DEF Spec

(* Memberships are held only where the relay invited the gateway               *)
(* (limit_requires_rediscovery).                                               *)
THEOREM InvitedOnly == Spec => []WelcomedOnly
<1>1. LoopInv => WelcomedOnly
  BY DEF LoopInv, GatewayOK, IsSession, WelcomedOnly
<1>. QED  BY <1>1, InitOK, StepOK, PTL DEF Spec

(* The gateway never waits without a timer (run_static_gateway). *)
THEOREM TimersRun == Spec => []TimersCover
<1>1. LoopInv => TimersCover
  BY DEF LoopInv
<1>. QED  BY <1>1, InitOK, StepOK, PTL DEF Spec

(* A gateway that moved first tears down what it left at its old address       *)
(* (previous_teardown).                                                        *)
THEOREM MovesTornDown == Spec => MoveTearsDown
<1>1. MoveTearsDown <=> [][TearsDown]_vars
  BY DEF MoveTearsDown, TearsDown
<1>. QED  BY <1>1, InitOK, StepOK, PTL DEF Spec

(* What is sent carries the credentials of the session it is about            *)
(* (handle_datagram_with_ecn, previous_teardown).                             *)
THEOREM CredentialsAreRight == Spec => CredentialsRight
  BY SentAuthentic, MovesTornDown, PTL DEF CredentialsRight
=============================================================================
