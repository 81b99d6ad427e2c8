------------------------ MODULE LocalMembershipProofs ------------------------
(***************************************************************************)
(* The hosts of a transparent gateway, for any number of hosts, groups and *)
(* sources, any interests and any timeouts gateway_command accepts.        *)
(***************************************************************************)
EXTENDS LocalMembership, RelayStateProofs, SequenceTheorems
-----------------------------------------------------------------------------
(* Reports.                                                                *)

(* The sequence made of a finite set holds its elements and no others. *)
LEMMA SetToSeqElements ==
  ASSUME NEW S, IsFiniteSet(S)
  PROVE  /\ SetToSeq(S) \in Seq(S)
         /\ \A x \in S : \E n \in DOMAIN SetToSeq(S) : SetToSeq(S)[n] = x
<1>. DEFINE c == Cardinality(S)
            seq == SetToSeq(S)
<1>1. c \in Nat /\ ExistsBijection(1..c, S)
  BY Zenon, FS_CardinalityType
<1>2. PICK f \in [1..c -> S] : IsInjective(f)
  BY Zenon, <1>1 DEF ExistsBijection, Bijection, Injection
<1>3. seq \in [1..c -> S] /\ IsInjective(seq)
  BY Zenon, <1>2 DEF SetToSeq
<1>4. IsFiniteSet(1..c) /\ Cardinality(1..c) = c
  BY SMTT(30), <1>1, FS_Interval
<1>5. seq \in Injection(1..c, S)
  BY Zenon, <1>3 DEF Injection
<1>6. seq \in Surjection(1..c, S)
  BY Zenon, <1>4, <1>5, FS_Injection
<1>. HIDE DEF seq
<1>7. \A x \in S : \E n \in DOMAIN seq : seq[n] = x
  BY Zenon, <1>3, <1>6 DEF Surjection
<1>8. seq \in Seq(S)
  BY SMTT(30), <1>1, <1>3
<1>. QED  BY Zenon, <1>7, <1>8 DEF seq

(* State and change records bring their group to the interest they carry. *)
LEMMA RecordRight ==
  ASSUME NEW g \in Group, NEW i \in GroupInterest, NEW r,
         r = StateRecord(g, i) \/ r = ChangeRecord(g, i)
  PROVE  /\ r \in MembershipRecord /\ r.group = g
         /\ \A o \in GroupInterest : NextInterest(o, r) = i
<1>1. i.mode \in {"Include", "Exclude"} /\ i.sources \in SUBSET Source
      /\ i = [mode |-> i.mode, sources |-> i.sources]
  BY Zenon DEF GroupInterest
<1>2. r \in MembershipRecord /\ r.group = g
  BY SMTT(30), <1>1 DEF StateRecord, ChangeRecord, MembershipRecord, RecordKind, IncludeKind, ExcludeKind
<1>3. \A o \in GroupInterest : NextInterest(o, r) = i
  BY SMTT(30), <1>1 DEF StateRecord, ChangeRecord, NextInterest, IncludeKind, ExcludeKind, Include, Exclude
<1>. QED  BY Zenon, <1>2, <1>3

(* What interests hold is an interest. *)
LEMMA AtType ==
  ASSUME NEW interests \in Maps(Group, StoredInterest), NEW g
  PROVE  /\ At(interests, g) \in GroupInterest
         /\ g \in DOMAIN interests => /\ g \in Group
                                      /\ At(interests, g) = interests[g]
                                      /\ At(interests, g) # Include({})
<1>1. g \in DOMAIN interests => g \in Group /\ interests[g] \in StoredInterest
  BY SMTT(30), MapsElement
<1>2. Include({}) \in GroupInterest
  BY Zenon DEF Include, GroupInterest
<1>. QED  BY Zenon, <1>1, <1>2 DEF At, StoredInterest

(* A report made of a set of such records, one for each of some groups. *)
LEMMA ReportOf ==
  ASSUME NEW interests \in Maps(Group, StoredInterest), NEW D \in SUBSET Group, NEW R,
         \/ R = {StateRecord(g, At(interests, g)) : g \in D}
         \/ R = {ChangeRecord(g, At(interests, g)) : g \in D}
  PROVE  /\ SetToSeq(R) \in Seq(MembershipRecord)
         /\ Brings(SetToSeq(R), interests)
         /\ \A g \in Group : Told(SetToSeq(R), g) <=> g \in D
<1>. DEFINE report == SetToSeq(R)
<1>1. IsFiniteSet(D)
  BY Zenon, SetsAssumption, FS_Subset
<1>2. IsFiniteSet(R)
  <2>1. CASE R = {StateRecord(g, At(interests, g)) : g \in D}
    <3>. DEFINE F == [g \in D |-> StateRecord(g, At(interests, g))]
    <3>1. F \in Surjection(D, R)
      BY Zenon, <2>1 DEF Surjection
    <3>. QED  BY Zenon, <1>1, <3>1, FS_Surjection
  <2>2. CASE R = {ChangeRecord(g, At(interests, g)) : g \in D}
    <3>. DEFINE F == [g \in D |-> ChangeRecord(g, At(interests, g))]
    <3>1. F \in Surjection(D, R)
      BY Zenon, <2>2 DEF Surjection
    <3>. QED  BY Zenon, <1>1, <3>1, FS_Surjection
  <2>. QED  BY Zenon, <2>1, <2>2
<1>3. \A r \in R : /\ r \in MembershipRecord /\ r.group \in D
                   /\ \A o \in GroupInterest : NextInterest(o, r) = At(interests, r.group)
  <2>. SUFFICES ASSUME NEW r \in R
                PROVE  /\ r \in MembershipRecord /\ r.group \in D
                       /\ \A o \in GroupInterest : NextInterest(o, r) = At(interests, r.group)
    BY Zenon
  <2>1. PICK g \in D : r = StateRecord(g, At(interests, g)) \/ r = ChangeRecord(g, At(interests, g))
    BY Zenon
  <2>2. g \in Group /\ At(interests, g) \in GroupInterest
    BY Zenon, AtType
  <2>. QED  BY ZenonT(30), <2>1, <2>2, RecordRight
<1>4. \A g \in D : \E r \in R : r.group = g
  <2>. SUFFICES ASSUME NEW g \in D PROVE \E r \in R : r.group = g
    BY Zenon
  <2>1. g \in Group /\ At(interests, g) \in GroupInterest
    BY Zenon, AtType
  <2>2. PICK r \in R : r = StateRecord(g, At(interests, g)) \/ r = ChangeRecord(g, At(interests, g))
    BY Zenon
  <2>. QED  BY Zenon, <2>1, <2>2, RecordRight
<1>5. report \in Seq(R) /\ \A r \in R : \E n \in DOMAIN report : report[n] = r
  BY Zenon, <1>2, SetToSeqElements
<1>. HIDE DEF report
<1>6. /\ DOMAIN report = 1..Len(report) /\ \A n \in 1..Len(report) : report[n] \in R
      /\ Len(report) \in Nat /\ report \in [1..Len(report) -> R]
  BY SMTT(30), <1>5
<1>7. report \in Seq(MembershipRecord)
  <2>1. report \in [1..Len(report) -> MembershipRecord]
    BY Zenon, <1>3, <1>6
  <2>. QED  BY SMTT(30), <1>6, <2>1
<1>8. Brings(report, interests)
  BY Zenon, <1>3, <1>6 DEF Brings
<1>9. \A g \in Group : Told(report, g) <=> g \in D
  BY ZenonT(30), <1>3, <1>4, <1>5, <1>6 DEF Told
<1>. QED  BY Zenon, <1>7, <1>8, <1>9 DEF report

(* The report of all interests, and those of what changed. *)
LEMMA StateReportRight ==
  ASSUME NEW interests \in Maps(Group, StoredInterest)
  PROVE  /\ StateReport(interests) \in Seq(MembershipRecord)
         /\ Brings(StateReport(interests), interests)
         /\ \A g \in Group : Told(StateReport(interests), g) <=> g \in DOMAIN interests
<1>. DEFINE R == {StateRecord(g, interests[g]) : g \in DOMAIN interests}
            T == {StateRecord(g, At(interests, g)) : g \in DOMAIN interests}
<1>1. DOMAIN interests \in SUBSET Group
  BY Zenon, MapsElement
<1>2. R = T
  <2>1. \A g \in DOMAIN interests : interests[g] = At(interests, g)
    BY Zenon DEF At
  <2>. QED  BY Zenon, <2>1
<1>3. StateReport(interests) = SetToSeq(T)
  BY Zenon, <1>2 DEF StateReport
<1>4. /\ SetToSeq(T) \in Seq(MembershipRecord) /\ Brings(SetToSeq(T), interests)
      /\ \A g \in Group : Told(SetToSeq(T), g) <=> g \in DOMAIN interests
  BY Zenon, <1>1, ReportOf
<1>. HIDE DEF T
<1>. QED  BY Zenon, <1>3, <1>4

LEMMA ChangeReportRight ==
  ASSUME NEW previous \in Maps(Group, StoredInterest), NEW interests \in Maps(Group, StoredInterest)
  PROVE  /\ ChangeReport(previous, interests) \in Seq(MembershipRecord)
         /\ Brings(ChangeReport(previous, interests), interests)
         /\ \A g \in Group : Told(ChangeReport(previous, interests), g) <=>
                               g \in DOMAIN previous \cup DOMAIN interests
<1>. DEFINE D == DOMAIN previous \cup DOMAIN interests
            T == {ChangeRecord(g, At(interests, g)) : g \in D}
<1>1. D \in SUBSET Group
  BY Zenon, MapsElement
<1>2. ChangeReport(previous, interests) = SetToSeq(T)
  BY Zenon DEF ChangeReport, At
<1>. HIDE DEF D
<1>3. /\ SetToSeq(T) \in Seq(MembershipRecord) /\ Brings(SetToSeq(T), interests)
      /\ \A g \in Group : Told(SetToSeq(T), g) <=> g \in D
  BY Zenon, <1>1, ReportOf
<1>. QED  BY Zenon, <1>2, <1>3 DEF D

LEMMA DeltaRecordsRight ==
  ASSUME NEW previous \in Maps(Group, StoredInterest), NEW current \in Maps(Group, StoredInterest)
  PROVE  ApplyRecords(previous, DeltaRecords(previous, current)) = current
<1>. DEFINE D == Changed(previous, current)
            T == {ChangeRecord(g, At(current, g)) : g \in D}
<1>1. D \in SUBSET Group
  BY Zenon, MapsElement DEF Changed
<1>2. DeltaRecords(previous, current) = SetToSeq(T)
  BY Zenon DEF DeltaRecords, At
<1>3. \A g \in Group : g \notin D => At(previous, g) = At(current, g)
  BY Zenon DEF Changed, At
<1>. HIDE DEF D
<1>4. /\ SetToSeq(T) \in Seq(MembershipRecord) /\ Brings(SetToSeq(T), current)
      /\ \A g \in Group : Told(SetToSeq(T), g) <=> g \in D
  BY Zenon, <1>1, ReportOf
<1>. HIDE DEF T
<1>5. \A g \in Group : Told(SetToSeq(T), g) \/ At(previous, g) = At(current, g)
  BY Zenon, <1>3, <1>4
<1>. QED  BY SMTT(30), <1>2, <1>4, <1>5, ReportsAddUp

(* A report of all interests, applied to nothing, gives the interests. *)
LEMMA StateReportAddsUp ==
  ASSUME NEW interests \in Maps(Group, StoredInterest)
  PROVE  ApplyRecords(EmptyMap, StateReport(interests)) = interests
<1>1. EmptyMap \in Maps(Group, StoredInterest) /\ DOMAIN EmptyMap = {}
  BY Zenon, EmptyMapType
<1>2. \A g \in Group : Told(StateReport(interests), g) \/ At(EmptyMap, g) = At(interests, g)
  BY Zenon, <1>1, StateReportRight DEF At
<1>. QED  BY SMTT(30), <1>1, <1>2, StateReportRight, ReportsAddUp

(* A report that brings some group to more than nothing leaves its sender     *)
(* recorded (RelayState::apply_report).                                       *)
LEMMA SenderRecorded ==
  ASSUME NEW st, st.endpoints \in Endpoints, NEW h \in Endpoint,
         NEW report \in Seq(MembershipRecord), NEW interests \in Maps(Group, StoredInterest),
         Brings(report, interests), NEW g \in DOMAIN interests, Told(report, g)
  PROVE  h \in DOMAIN ApplyReport(st, h, report).endpoints
<1>. DEFINE old == Groups(st, h)
            new == ApplyRecords(old, report)
<1>1. old \in Maps(Group, StoredInterest)
  BY Zenon, EndpointsElement, EmptyMapType DEF Groups
<1>2. g \in Group /\ At(interests, g) # Include({})
  BY Zenon, AtType
<1>3. At(new, g) = At(interests, g)
  BY ZenonT(30), <1>1, <1>2, ReportBrings
<1>4. new # EmptyMap
  BY ZenonT(30), <1>2, <1>3, EmptyMapType DEF At
<1>5. report # <<>>
  BY SMTT(30) DEF Told
<1>. HIDE DEF new
<1>6. ApplyReport(st, h, report) = RebuildIndexes(Insert(st.endpoints, h, new))
  BY Zenon, <1>4, <1>5 DEF ApplyReport, new
<1>7. h \in DOMAIN Insert(st.endpoints, h, new)
  BY Zenon DEF Insert
<1>. QED  BY Zenon, <1>6, <1>7, RebuildFields
-----------------------------------------------------------------------------
(* The memberships to ask for.                                             *)

(* configured_joins_report asks for what is configured. *)
LEMMA JoinsRight ==
  /\ JoinInterests \in Maps(Group, StoredInterest)
  /\ \A g \in Group, s \in Source :
       (g \in DOMAIN JoinInterests /\ WantsSource(JoinInterests[g], s)) <=>
         Asm(g) \in Joins \/ Ssm(g, s) \in Joins
<1>. DEFINE D == {j.group : j \in Joins}
            Sources(g) == UNION {j.source : j \in {k \in Joins : k.group = g}}
<1>1. DOMAIN JoinInterests = D
      /\ \A g \in D : JoinInterests[g] = IF Asm(g) \in Joins THEN Exclude({}) ELSE Include(Sources(g))
  BY Zenon DEF JoinInterests
<1>2. \A j \in Joins : \E g \in Group : j = Asm(g) \/ \E s \in Source : j = Ssm(g, s)
  BY SMTT(30), WantAssumption DEF UpstreamSubscription
<1>3. \A j \in Joins : j.group \in Group /\ j.source \in SUBSET Source
  BY SMTT(30), <1>2 DEF Asm, Ssm
<1>4. \A g \in Group : Asm(g).group = g /\ Asm(g).source = {}
      /\ \A s \in Source : Ssm(g, s).group = g /\ Ssm(g, s).source = {s}
  BY Zenon DEF Asm, Ssm
<1>5. \A j \in Joins : j = Asm(j.group) \/ \E s \in Source : j = Ssm(j.group, s)
  BY SMTT(30), <1>2, <1>4
<1>6. \A g \in D : Sources(g) \in SUBSET Source /\ (Asm(g) \notin Joins => Sources(g) # {})
  <2>. SUFFICES ASSUME NEW g \in D
                PROVE  Sources(g) \in SUBSET Source /\ (Asm(g) \notin Joins => Sources(g) # {})
    BY Zenon
  <2>1. Sources(g) \in SUBSET Source
    BY Zenon, <1>3
  <2>2. ASSUME Asm(g) \notin Joins PROVE Sources(g) # {}
    <3>1. PICK j \in Joins : j.group = g
      BY Zenon
    <3>2. PICK s \in Source : j = Ssm(g, s)
      BY ZenonT(30), <1>5, <2>2, <3>1
    <3>3. s \in j.source
      BY SMTT(30), <1>3, <1>4, <3>1, <3>2
    <3>. QED  BY Zenon, <3>1, <3>3
  <2>. QED  BY Zenon, <2>1, <2>2
<1>7. \A g \in D : g \in Group /\ JoinInterests[g] \in StoredInterest
  <2>1. Exclude({}) \in StoredInterest /\ \A S \in SUBSET Source : S # {} => Include(S) \in StoredInterest
    BY Zenon DEF Include, Exclude, StoredInterest, GroupInterest
  <2>. QED  BY Zenon, <1>1, <1>3, <1>6, <2>1
<1>8. JoinInterests \in [D -> StoredInterest]
  BY Zenon, <1>7 DEF JoinInterests
<1>9. JoinInterests \in Maps(Group, StoredInterest)
  BY Zenon, <1>1, <1>7, <1>8, MapsElement
<1>10. ASSUME NEW g \in Group, NEW s \in Source
       PROVE  (g \in DOMAIN JoinInterests /\ WantsSource(JoinInterests[g], s)) <=>
                Asm(g) \in Joins \/ Ssm(g, s) \in Joins
  <2>1. Asm(g) \in Joins \/ Ssm(g, s) \in Joins => g \in D
    BY Zenon, <1>4
  <2>2. CASE Asm(g) \in Joins
    <3>1. g \in D
      BY ZenonT(30), <2>1, <2>2
    <3>2. JoinInterests[g] = Exclude({})
      BY ZenonT(30), <1>1, <2>2, <3>1
    <3>3. WantsSource(Exclude({}), s)
      BY Zenon DEF WantsSource, Exclude
    <3>. QED  BY ZenonT(30), <1>1, <2>2, <3>1, <3>2, <3>3
  <2>3. CASE Asm(g) \notin Joins
    <3>1. s \in Sources(g) <=> Ssm(g, s) \in Joins
      <4>1. ASSUME s \in Sources(g) PROVE Ssm(g, s) \in Joins
        <5>1. PICK j \in Joins : j.group = g /\ s \in j.source
          BY Zenon, <4>1
        <5>2. PICK z \in Source : j = Ssm(g, z)
          BY ZenonT(30), <1>5, <2>3, <5>1
        <5>3. s = z
          BY SMTT(30), <1>4, <5>1, <5>2
        <5>. QED  BY ZenonT(30), <5>2, <5>3
      <4>2. ASSUME Ssm(g, s) \in Joins PROVE s \in Sources(g)
        <5>1. Ssm(g, s).group = g /\ s \in Ssm(g, s).source
          BY Zenon, <1>4
        <5>. QED  BY Zenon, <4>2, <5>1
      <4>. QED  BY ZenonT(30), <4>1, <4>2
    <3>2. g \in D => (WantsSource(JoinInterests[g], s) <=> s \in Sources(g))
      <4>1. WantsSource(Include(Sources(g)), s) <=> s \in Sources(g)
        BY Zenon DEF WantsSource, Include
      <4>. HIDE DEF Sources
      <4>2. g \in D => JoinInterests[g] = Include(Sources(g))
        BY ZenonT(30), <1>1, <2>3
      <4>. QED  BY Zenon, <4>1, <4>2
    <3>. QED  BY ZenonT(30), <1>1, <2>1, <2>3, <3>1, <3>2
  <2>. QED  BY Zenon, <2>2, <2>3
<1>. QED  BY ZenonT(30), <1>9, <1>10

(* current_exportable_interests: what hosts want of the groups that may leave *)
(* the network.                                                               *)
LEMMA ExportableRight ==
  ASSUME NEW st, st.endpoints \in Endpoints, st = RebuildIndexes(st.endpoints)
  PROVE  /\ CurrentExportable(st) \in Maps(Exportable, StoredInterest)
         /\ CurrentExportable(st) \in Maps(Group, StoredInterest)
         /\ \A g \in Group, s \in Source :
              (g \in DOMAIN CurrentExportable(st) /\ WantsSource(CurrentExportable(st)[g], s)) <=>
                /\ g \in Exportable
                /\ \E h \in Members(st.endpoints, g) : WantsSource(st.endpoints[h][g], s)
<1>. DEFINE D == DOMAIN st.aggregate \cap Exportable
            ce == CurrentExportable(st)
            eps == st.endpoints
<1>1. DOMAIN ce = D /\ \A g \in D : ce[g] = st.aggregate[g]
  BY Zenon DEF CurrentExportable
<1>2. \A g \in D : st.aggregate[g] = AggregateInterest(eps, g) /\ AggregateInterest(eps, g) # Include({})
  BY ZenonT(30), RebuildFields
<1>3. \A g \in D : st.aggregate[g] \in StoredInterest
  BY Zenon, <1>2, AggregateInterestExact DEF StoredInterest
<1>4. ce \in [D -> StoredInterest]
  BY Zenon, <1>3 DEF CurrentExportable
<1>5. D \subseteq Exportable /\ D \subseteq Group
  BY Zenon, WantAssumption
<1>6. ce \in Maps(Exportable, StoredInterest) /\ ce \in Maps(Group, StoredInterest)
  BY ZenonT(30), <1>1, <1>4, <1>5, MapsElement
<1>7. ASSUME NEW g \in Group, NEW s \in Source
      PROVE  (g \in DOMAIN ce /\ WantsSource(ce[g], s)) <=>
                g \in Exportable /\ \E h \in Members(eps, g) : WantsSource(eps[h][g], s)
  <2>1. {e \in Members(eps, g) : WantsSource(eps[e][g], s)} # {} <=>
          g \in DOMAIN st.aggregate /\ WantsSource(st.aggregate[g], s)
    BY Zenon, IndexesExact
  <2>. QED  BY ZenonT(30), <1>1, <2>1
<1>. QED  BY ZenonT(30), <1>6, <1>7

(* desired_membership_report: aggregating the joins and the local report      *)
(* loses nothing and adds nothing.                                            *)
LEMMA DesiredRight ==
  ASSUME NEW st, st.endpoints \in Endpoints, st = RebuildIndexes(st.endpoints),
         NEW g \in Group, NEW s \in Source
  PROVE  (g \in DOMAIN Desired(st) /\ WantsSource(Desired(st)[g], s)) <=>
           \/ g \in DOMAIN JoinInterests /\ WantsSource(JoinInterests[g], s)
           \/ g \in DOMAIN CurrentExportable(st) /\ WantsSource(CurrentExportable(st)[g], s)
<1>. DEFINE joins == ApplyRecords(EmptyMap, StateReport(JoinInterests))
            local == ApplyRecords(EmptyMap, StateReport(CurrentExportable(st)))
            both == [k \in {"joins", "local"} |-> IF k = "joins" THEN joins ELSE local]
            wanted == {x \in GroupsOf(both) : AggregateInterest(both, x) # Include({})}
<1>1. joins = JoinInterests /\ joins \in Maps(Group, StoredInterest)
  BY ZenonT(30), JoinsRight, StateReportAddsUp
<1>2. local = CurrentExportable(st) /\ local \in Maps(Group, StoredInterest)
  BY ZenonT(30), ExportableRight, StateReportAddsUp
<1>3. Desired(st) = [x \in wanted |-> AggregateInterest(both, x)]
  BY Zenon DEF Desired
<1>. HIDE DEF joins, local
<1>4. DOMAIN both = {"joins", "local"} /\ both["joins"] = joins /\ both["local"] = local
  BY Zenon
<1>. HIDE DEF both
<1>5. \A e \in DOMAIN both : both[e] \in Maps(Group, StoredInterest)
  BY ZenonT(30), <1>1, <1>2, <1>4
<1>6. WantsSource(AggregateInterest(both, g), s) <=>
        \E e \in Members(both, g) : WantsSource(both[e][g], s)
  BY Zenon, <1>5, AggregateExact
<1>7. (\E e \in Members(both, g) : WantsSource(both[e][g], s)) <=>
        \/ g \in DOMAIN joins /\ WantsSource(joins[g], s)
        \/ g \in DOMAIN local /\ WantsSource(local[g], s)
  BY Zenon, <1>4 DEF Members
<1>8. (\E e \in Members(both, g) : WantsSource(both[e][g], s)) => g \in GroupsOf(both)
  BY Zenon DEF Members, GroupsOf
<1>9. ~WantsSource(Include({}), s)
  BY Zenon DEF WantsSource, Include
<1>10. g \in wanted => Desired(st)[g] = AggregateInterest(both, g)
  BY Zenon, <1>3
<1>11. (g \in DOMAIN Desired(st) /\ WantsSource(Desired(st)[g], s)) <=>
         WantsSource(AggregateInterest(both, g), s)
  BY ZenonT(30), <1>3, <1>6, <1>8, <1>9, <1>10
<1>. QED  BY ZenonT(30), <1>1, <1>2, <1>6, <1>7, <1>11
-----------------------------------------------------------------------------
(* Types and timers.                                                       *)

(* What is marked as advertised is what hosts want of exportable groups. *)
LEMMA AdvertiseType ==
  ASSUME TypeOK, NEW st, st.endpoints \in Endpoints, st = RebuildIndexes(st.endpoints), Advertise(st)
  PROVE  advertised' \in Maps(Exportable, StoredInterest)
<1>1. CASE session /\ advertised' = CurrentExportable(st)
  BY ZenonT(30), <1>1, ExportableRight
<1>2. CASE UNCHANGED advertised
  BY Zenon, <1>2 DEF TypeOK
<1>. QED  BY ZenonT(30), <1>1, <1>2 DEF Advertise

(* Timers are maps too. *)
LEMMA InsertTimer ==
  ASSUME NEW f \in Maps(Endpoint, 0..ReporterTimeout), NEW h \in Endpoint,
         NEW v \in 0..ReporterTimeout
  PROVE  /\ Insert(f, h, v) \in Maps(Endpoint, 0..ReporterTimeout)
         /\ DOMAIN Insert(f, h, v) = DOMAIN f \cup {h} /\ Insert(f, h, v)[h] = v
         /\ \A x \in DOMAIN f : x # h => Insert(f, h, v)[x] = f[x]
<1>. DEFINE Ticks == 0..ReporterTimeout
<1>1. f \in Maps(Endpoint, Ticks) /\ v \in Ticks
  BY Zenon
<1>. HIDE DEF Ticks
<1>2. /\ Insert(f, h, v) \in Maps(Endpoint, Ticks)
      /\ DOMAIN Insert(f, h, v) = DOMAIN f \cup {h} /\ Insert(f, h, v)[h] = v
      /\ \A x \in DOMAIN f : x # h => Insert(f, h, v)[x] = f[x]
  BY SMTT(30), <1>1, MapsElement DEF Insert
<1>. QED  BY Zenon, <1>2 DEF Ticks

LEMMA RemoveTimers ==
  ASSUME NEW f \in Maps(Endpoint, 0..ReporterTimeout), NEW K
  PROVE  /\ RemoveAll(f, K) \in Maps(Endpoint, 0..ReporterTimeout)
         /\ DOMAIN RemoveAll(f, K) = DOMAIN f \ K
         /\ \A x \in DOMAIN f \ K : RemoveAll(f, K)[x] = f[x]
<1>. DEFINE Ticks == 0..ReporterTimeout
<1>1. f \in Maps(Endpoint, Ticks)
  BY Zenon
<1>. HIDE DEF Ticks
<1>2. /\ RemoveAll(f, K) \in Maps(Endpoint, Ticks)
      /\ DOMAIN RemoveAll(f, K) = DOMAIN f \ K
      /\ \A x \in DOMAIN f \ K : RemoveAll(f, K)[x] = f[x]
  BY SMTT(30), <1>1, MapsElement DEF RemoveAll
<1>. QED  BY Zenon, <1>2 DEF Ticks

(* try_recv: a report concerns its sender, who is recorded with a fresh       *)
(* timer or has none.                                                         *)
LEMMA ReceiveRight ==
  ASSUME TypeOK, TimersMatch, NEW h \in Endpoint, NEW report \in Seq(MembershipRecord),
         Receive(h, report)
  PROVE  /\ state'.endpoints \in Endpoints /\ state' = RebuildIndexes(state'.endpoints)
         /\ seen' \in Maps(Endpoint, 0..ReporterTimeout)
         /\ advertised' \in Maps(Exportable, StoredInterest)
         /\ DOMAIN seen' = DOMAIN state'.endpoints
         /\ \A e \in Endpoint \ {h} : /\ e \in DOMAIN seen' <=> e \in DOMAIN seen
                                      /\ e \in DOMAIN seen => seen'[e] = seen[e]
         /\ ~Accepted(h, report) => seen' = seen
         /\ Accepted(h, report) /\ h \in DOMAIN ApplyReport(state, h, report).endpoints =>
              h \in DOMAIN seen' /\ seen'[h] = 0
<1>. DEFINE candidate == ApplyReport(state, h, report)
<1>0. /\ state.endpoints \in Endpoints /\ state = RebuildIndexes(state.endpoints)
      /\ seen \in Maps(Endpoint, 0..ReporterTimeout)
      /\ advertised \in Maps(Exportable, StoredInterest)
  BY Zenon DEF TypeOK
<1>1. CASE ~Accepted(h, report)
  <2>1. UNCHANGED <<state, seen, advertised>>
    BY Zenon, <1>1 DEF Receive
  <2>. QED  BY ZenonT(30), <1>0, <1>1, <2>1 DEF TimersMatch
<1>2. CASE Accepted(h, report)
  <2>1. /\ candidate.endpoints \in Endpoints /\ candidate = RebuildIndexes(candidate.endpoints)
        /\ \A e \in Endpoint \ {h} : e \in DOMAIN candidate.endpoints <=> e \in DOMAIN state.endpoints
    BY ZenonT(30), <1>0, ApplyReportType
  <2>2. /\ state' = candidate /\ Advertise(candidate)
        /\ seen' = IF h \in DOMAIN candidate.endpoints THEN Insert(seen, h, 0) ELSE RemoveAll(seen, {h})
    BY Zenon, <1>2 DEF Receive
  <2>. HIDE DEF candidate
  <2>3. advertised' \in Maps(Exportable, StoredInterest)
    BY ZenonT(30), <2>1, <2>2, AdvertiseType
  <2>4. DOMAIN seen \subseteq Endpoint /\ DOMAIN candidate.endpoints \subseteq Endpoint
    BY ZenonT(30), <1>0, <2>1, MapsElement DEF Endpoints
  <2>7. DOMAIN seen = DOMAIN state.endpoints
    BY Zenon DEF TimersMatch
  <2>5. CASE h \in DOMAIN candidate.endpoints
    <3>1. 0 \in 0..ReporterTimeout
      BY SMTT(30), TimeoutAssumption
    <3>2. /\ seen' \in Maps(Endpoint, 0..ReporterTimeout)
          /\ DOMAIN seen' = DOMAIN seen \cup {h} /\ seen'[h] = 0
          /\ \A e \in DOMAIN seen : e # h => seen'[e] = seen[e]
      <4>. DEFINE new == Insert(seen, h, 0)
      <4>1. /\ new \in Maps(Endpoint, 0..ReporterTimeout) /\ DOMAIN new = DOMAIN seen \cup {h}
            /\ new[h] = 0 /\ \A e \in DOMAIN seen : e # h => new[e] = seen[e]
        BY <1>0, <3>1, InsertTimer, ZenonT(30)
      <4>. HIDE DEF new
      <4>2. seen' = new
        BY Zenon, <2>2, <2>5 DEF new
      <4>. QED  BY Zenon, <4>1, <4>2
    <3>3. DOMAIN seen' = DOMAIN candidate.endpoints
      <4>1. \A e \in Endpoint : e \in DOMAIN seen' <=> e \in DOMAIN candidate.endpoints
        BY ZenonT(30), <2>1, <2>7, <2>5, <3>2
      <4>. QED  BY ZenonT(30), <2>4, <3>2, <4>1
    <3>. QED  BY ZenonT(30), <1>2, <2>1, <2>2, <2>3, <3>2, <3>3
  <2>6. CASE h \notin DOMAIN candidate.endpoints
    <3>1. /\ seen' \in Maps(Endpoint, 0..ReporterTimeout)
          /\ DOMAIN seen' = DOMAIN seen \ {h}
          /\ \A e \in DOMAIN seen \ {h} : seen'[e] = seen[e]
      <4>. DEFINE new == RemoveAll(seen, {h})
      <4>1. /\ new \in Maps(Endpoint, 0..ReporterTimeout) /\ DOMAIN new = DOMAIN seen \ {h}
            /\ \A e \in DOMAIN seen \ {h} : new[e] = seen[e]
        BY Zenon, <1>0, RemoveTimers
      <4>. HIDE DEF new
      <4>2. seen' = new
        BY Zenon, <2>2, <2>6 DEF new
      <4>. QED  BY Zenon, <4>1, <4>2
    <3>2. DOMAIN seen' = DOMAIN candidate.endpoints
      <4>1. \A e \in Endpoint : e \in DOMAIN seen' <=> e \in DOMAIN candidate.endpoints
        BY ZenonT(30), <2>1, <2>7, <2>6, <3>1
      <4>. QED  BY ZenonT(30), <2>4, <3>1, <4>1
    <3>. QED  BY ZenonT(30), <1>2, <2>1, <2>2, <2>3, <2>6, <3>1, <3>2 DEF candidate
  <2>. QED  BY ZenonT(30), <2>5, <2>6
<1>. QED  BY Zenon, <1>1, <1>2

(* The reports hosts send. *)
LEMMA HostReports ==
  ASSUME TypeOK, NEW h \in Endpoint, NEW interests \in Want
  PROVE  /\ ChangeReport(want[h], interests) \in Seq(MembershipRecord)
         /\ StateReport(want[h]) \in Seq(MembershipRecord)
         /\ interests # EmptyMap =>
              h \in DOMAIN ApplyReport(state, h, ChangeReport(want[h], interests)).endpoints
         /\ want[h] # EmptyMap =>
              h \in DOMAIN ApplyReport(state, h, StateReport(want[h])).endpoints
<1>1. want[h] \in Maps(Group, StoredInterest) /\ interests \in Maps(Group, StoredInterest)
  BY Zenon, WantAssumption DEF TypeOK
<1>2. state.endpoints \in Endpoints
  BY Zenon DEF TypeOK
<1>3. PICK wanted \in Maps(Group, StoredInterest) : wanted = want[h]
  BY Zenon, <1>1
<1>4. /\ ChangeReport(wanted, interests) \in Seq(MembershipRecord)
      /\ Brings(ChangeReport(wanted, interests), interests)
      /\ \A g \in Group : Told(ChangeReport(wanted, interests), g) <=>
                            g \in DOMAIN wanted \cup DOMAIN interests
  BY Zenon, <1>1, ChangeReportRight
<1>5. /\ StateReport(wanted) \in Seq(MembershipRecord) /\ Brings(StateReport(wanted), wanted)
      /\ \A g \in Group : Told(StateReport(wanted), g) <=> g \in DOMAIN wanted
  BY Zenon, StateReportRight
<1>6. ASSUME interests # EmptyMap
      PROVE  h \in DOMAIN ApplyReport(state, h, ChangeReport(wanted, interests)).endpoints
  <2>1. PICK g \in DOMAIN interests : TRUE
    BY ZenonT(30), <1>1, <1>6, EmptyMapUnique
  <2>2. g \in Group
    BY Zenon, <1>1, AtType
  <2>. QED  BY ZenonT(30), <1>1, <1>2, <1>4, <2>2, SenderRecorded
<1>7. ASSUME wanted # EmptyMap
      PROVE  h \in DOMAIN ApplyReport(state, h, StateReport(wanted)).endpoints
  <2>1. PICK g \in DOMAIN wanted : TRUE
    BY ZenonT(30), <1>7, EmptyMapUnique
  <2>2. g \in Group
    BY Zenon, AtType
  <2>. QED  BY ZenonT(30), <1>2, <1>5, <2>2, SenderRecorded
<1>. QED  BY ZenonT(30), <1>3, <1>4, <1>5, <1>6, <1>7

(* Optional values. *)
LEMMA OptionalElement ==
  ASSUME NEW S, NEW o \in Optional(S)
  PROVE  o = {} \/ \E x \in S : o = {x}
  BY Zenon DEF Optional

LEMMA OptionalMade ==
  ASSUME NEW S
  PROVE  {} \in Optional(S) /\ \A x \in S : {x} \in Optional(S)
  BY Zenon DEF Optional

(* Every step keeps the types, and a timer for exactly the recorded hosts. *)
LEMMA TypeStep == TypeOK /\ TimersMatch /\ [Next]_vars => TypeOK' /\ TimersMatch'
<1>. SUFFICES ASSUME TypeOK, TimersMatch, [Next]_vars PROVE TypeOK' /\ TimersMatch'
  BY Zenon
<1>. USE TimeoutAssumption
<1>1. ASSUME NEW h \in Endpoint, Change(h) PROVE TypeOK' /\ TimersMatch'
  <2>1. PICK interests \in Want \ {want[h]} :
          /\ want' = [want EXCEPT ![h] = interests]
          /\ excused' \subseteq excused \cup {h}
          /\ \/ Receive(h, ChangeReport(want[h], interests))
             \/ UNCHANGED <<state, seen, advertised>>
    BY Zenon, <1>1 DEF Change
  <2>2. UNCHANGED <<owes, missed, session, sinceQuery, sincePrune>>
    BY Zenon, <1>1 DEF Change
  <2>3. want' \in [Endpoint -> Want] /\ excused' \subseteq Endpoint
    BY Zenon, <2>1 DEF TypeOK
  <2>4. CASE Receive(h, ChangeReport(want[h], interests))
    <3>1. ChangeReport(want[h], interests) \in Seq(MembershipRecord)
      BY Zenon, HostReports
    <3>2. /\ state'.endpoints \in Endpoints /\ state' = RebuildIndexes(state'.endpoints)
          /\ seen' \in Maps(Endpoint, 0..ReporterTimeout)
          /\ advertised' \in Maps(Exportable, StoredInterest)
          /\ DOMAIN seen' = DOMAIN state'.endpoints
      BY ZenonT(30), <2>4, <3>1, ReceiveRight
    <3>. QED  BY ZenonT(30), <2>2, <2>3, <3>2 DEF TypeOK, TimersMatch
  <2>5. CASE UNCHANGED <<state, seen, advertised>>
    BY ZenonT(30), <2>2, <2>3, <2>5 DEF TypeOK, TimersMatch
  <2>. QED  BY ZenonT(30), <2>1, <2>4, <2>5
<1>2. ASSUME NEW h \in Endpoint, Vanish(h) PROVE TypeOK' /\ TimersMatch'
  <2>1. want' \in [Endpoint -> Want] /\ owes' \in [Endpoint -> Optional(0..MaxResponse)]
    BY ZenonT(30), <1>2, WantAssumption, OptionalMade DEF Vanish, TypeOK
  <2>. QED  BY ZenonT(30), <1>2, <2>1 DEF Vanish, TypeOK, TimersMatch
<1>3. ASSUME NEW h \in Endpoint, Answer(h) PROVE TypeOK' /\ TimersMatch'
  <2>1. owes' \in [Endpoint -> Optional(0..MaxResponse)]
    BY ZenonT(30), <1>3, OptionalMade DEF Answer, TypeOK
  <2>2. missed' \in [Endpoint -> 0..Robustness]
    BY SMTT(30), <1>3 DEF Answer, TypeOK
  <2>3. excused' \subseteq Endpoint /\ UNCHANGED <<want, session, sinceQuery, sincePrune>>
    BY Zenon, <1>3 DEF Answer, TypeOK
  <2>4. CASE want[h] = EmptyMap
    <3>1. UNCHANGED <<state, seen, advertised>>
      BY Zenon, <1>3, <2>4 DEF Answer
    <3>. QED  BY Zenon, <2>1, <2>2, <2>3, <3>1 DEF TypeOK, TimersMatch
  <2>5. CASE want[h] # EmptyMap
    <3>1. Receive(h, StateReport(want[h]))
      BY ZenonT(30), <1>3, <2>5 DEF Answer
    <3>2. StateReport(want[h]) \in Seq(MembershipRecord)
      BY ZenonT(30), HostReports, WantAssumption
    <3>3. /\ state'.endpoints \in Endpoints /\ state' = RebuildIndexes(state'.endpoints)
          /\ seen' \in Maps(Endpoint, 0..ReporterTimeout)
          /\ advertised' \in Maps(Exportable, StoredInterest)
          /\ DOMAIN seen' = DOMAIN state'.endpoints
      BY ZenonT(30), <3>1, <3>2, ReceiveRight
    <3>. QED  BY Zenon, <2>1, <2>2, <2>3, <3>3 DEF TypeOK, TimersMatch
  <2>. QED  BY ZenonT(30), <2>4, <2>5
<1>4. ASSUME NEW h \in Endpoint, AnswerLost(h) PROVE TypeOK' /\ TimersMatch'
  <2>1. owes' \in [Endpoint -> Optional(0..MaxResponse)]
    BY ZenonT(30), <1>4, OptionalMade DEF AnswerLost, TypeOK
  <2>2. missed' \in [Endpoint -> 0..Robustness]
    BY SMTT(30), <1>4 DEF AnswerLost, TypeOK
  <2>. QED  BY ZenonT(30), <1>4, <2>1, <2>2 DEF AnswerLost, TypeOK, TimersMatch
<1>5. ASSUME NEW hear \in SUBSET Endpoint, Query(hear) PROVE TypeOK' /\ TimersMatch'
  <2>1. owes' \in [Endpoint -> Optional(0..MaxResponse)]
    <3>1. {0} \in Optional(0..MaxResponse)
      <4>1. 0 \in 0..MaxResponse
        BY SMTT(30)
      <4>. QED  BY Zenon, <4>1 DEF Optional
    <3>. QED  BY Zenon, <1>5, <3>1 DEF Query, TypeOK
  <2>2. missed' \in [Endpoint -> 0..Robustness]
    BY SMTT(30), <1>5 DEF Query, TypeOK
  <2>3. sinceQuery' \in Optional(0..QueryInterval)
    <3>1. 0 \in 0..QueryInterval /\ sinceQuery' = {0}
      BY SMTT(30), <1>5 DEF Query
    <3>. QED  BY Zenon, <3>1 DEF Optional
  <2>. QED  BY Zenon, <1>5, <2>1, <2>2, <2>3 DEF Query, TypeOK, TimersMatch
<1>6. ASSUME Prune PROVE TypeOK' /\ TimersMatch'
  <2>1. state' = RemoveEndpoints(state, Stale) /\ seen' = RemoveAll(seen, Stale)
        /\ sincePrune' = 0 /\ UNCHANGED <<hostVars, session, sinceQuery>>
    BY Zenon, <1>6 DEF Prune
  <2>2. /\ state'.endpoints \in Endpoints /\ state' = RebuildIndexes(state'.endpoints)
        /\ DOMAIN state'.endpoints = DOMAIN state.endpoints \ Stale
    BY Zenon, <2>1, RemoveEndpointsType DEF TypeOK
  <2>3. seen' \in Maps(Endpoint, 0..ReporterTimeout) /\ DOMAIN seen' = DOMAIN seen \ Stale
    BY Zenon, <2>1, RemoveTimers DEF TypeOK
  <2>4. advertised' \in Maps(Exportable, StoredInterest)
    BY ZenonT(30), <1>6, <2>2, AdvertiseType DEF Prune, TypeOK
  <2>5. sincePrune' \in 0..PruneInterval
    BY SMTT(30), <2>1
  <2>6. UNCHANGED <<want, owes, missed, excused, session, sinceQuery>>
    BY Zenon, <2>1 DEF hostVars
  <2>7. TypeOK'
    BY ZenonT(30), <2>2, <2>3, <2>4, <2>5, <2>6 DEF TypeOK
  <2>8. TimersMatch'
    BY Zenon, <2>2, <2>3 DEF TimersMatch
  <2>. QED  BY Zenon, <2>7, <2>8
<1>7. ASSUME SessionOpens PROVE TypeOK' /\ TimersMatch'
  <2>1. CurrentExportable(state) \in Maps(Exportable, StoredInterest)
    BY Zenon, ExportableRight DEF TypeOK
  <2>. QED  BY ZenonT(30), <1>7, <2>1 DEF SessionOpens, TypeOK, TimersMatch, hostVars
<1>8. ASSUME SessionEnds PROVE TypeOK' /\ TimersMatch'
  BY Zenon, <1>8 DEF SessionEnds, TypeOK, TimersMatch, hostVars
<1>9. ASSUME Tick PROVE TypeOK' /\ TimersMatch'
  <2>1. owes' \in [Endpoint -> Optional(0..MaxResponse)]
    <3>. SUFFICES ASSUME NEW h \in Endpoint
                  PROVE  {elapsed + 1 : elapsed \in owes[h]} \in Optional(0..MaxResponse)
      BY Zenon, <1>9 DEF Tick
    <3>1. CASE owes[h] = {}
      BY ZenonT(30), <3>1, OptionalMade
    <3>2. CASE \E x \in 0..MaxResponse : owes[h] = {x}
      <4>1. PICK x \in 0..MaxResponse : owes[h] = {x}
        BY ZenonT(30), <3>2
      <4>2. x + 1 < MaxResponse
        BY ZenonT(30), <1>9, <4>1 DEF Tick
      <4>3. x + 1 \in 0..MaxResponse
        BY SMTT(30), <4>2
      <4>4. {elapsed + 1 : elapsed \in owes[h]} = {x + 1}
        BY Zenon, <4>1
      <4>. QED  BY ZenonT(30), <4>3, <4>4, OptionalMade
    <3>. QED  BY ZenonT(30), <3>1, <3>2, OptionalElement DEF TypeOK
  <2>2. seen' \in Maps(Endpoint, 0..ReporterTimeout) /\ DOMAIN seen' = DOMAIN seen
    <3>1. DOMAIN seen \in SUBSET Endpoint /\ \A h \in DOMAIN seen : seen[h] \in 0..ReporterTimeout
      BY SMTT(30), MapsElement DEF TypeOK
    <3>2. \A h \in DOMAIN seen : Older(seen[h], ReporterTimeout) \in 0..ReporterTimeout
      BY SMTT(30), <3>1 DEF Older
    <3>3. seen' \in [DOMAIN seen -> 0..ReporterTimeout]
      BY Zenon, <1>9, <3>2 DEF Tick
    <3>. QED  BY ZenonT(30), <3>1, <3>3, MapsElement
  <2>3. sinceQuery' \in Optional(0..QueryInterval)
    <3>1. sinceQuery' = {Older(elapsed, QueryInterval) : elapsed \in sinceQuery}
      BY Zenon, <1>9 DEF Tick
    <3>2. CASE sinceQuery = {}
      BY Zenon, <3>1, <3>2, OptionalMade
    <3>3. CASE \E x \in 0..QueryInterval : sinceQuery = {x}
      <4>1. PICK x \in 0..QueryInterval : sinceQuery = {x}
        BY ZenonT(30), <3>3
      <4>2. Older(x, QueryInterval) \in 0..QueryInterval
        BY SMTT(30) DEF Older
      <4>3. sinceQuery' = {Older(x, QueryInterval)}
        BY ZenonT(30), <3>1, <4>1
      <4>. QED  BY ZenonT(30), <4>2, <4>3, OptionalMade
    <3>. QED  BY Zenon, <3>2, <3>3, OptionalElement DEF TypeOK
  <2>4. sincePrune' \in 0..PruneInterval
    <3>1. sincePrune \in 0..PruneInterval
      BY ZenonT(30) DEF TypeOK
    <3>2. sincePrune' = Older(sincePrune, PruneInterval)
      BY ZenonT(30), <1>9 DEF Tick
    <3>. QED  BY SMTT(30), <3>1, <3>2 DEF Older
  <2>. QED  BY ZenonT(30), <1>9, <2>1, <2>2, <2>3, <2>4 DEF Tick, TypeOK, TimersMatch
<1>10. CASE UNCHANGED vars
  BY ZenonT(30), <1>10 DEF vars, hostVars, TypeOK, TimersMatch
<1>. QED  BY ZenonT(30), <1>1, <1>2, <1>3, <1>4, <1>5, <1>6, <1>7, <1>8, <1>9, <1>10 DEF Next

LEMMA InitType == Init => TypeOK /\ TimersMatch
<1>. SUFFICES ASSUME Init PROVE TypeOK /\ TimersMatch
  BY Zenon
<1>1. /\ want \in [Endpoint -> Want] /\ missed \in [Endpoint -> 0..Robustness]
      /\ owes \in [Endpoint -> Optional(0..MaxResponse)]
      /\ sinceQuery \in Optional(0..QueryInterval) /\ sincePrune \in 0..PruneInterval
  BY SMTT(30), TimeoutAssumption, WantAssumption, OptionalMade DEF Init
<1>2. state.endpoints = EmptyMap /\ state.endpoints \in Endpoints /\ state = RebuildIndexes(state.endpoints)
  BY Zenon, EmptyRelayStateType DEF Init
<1>3. seen \in Maps(Endpoint, 0..ReporterTimeout) /\ advertised \in Maps(Exportable, StoredInterest)
  BY Zenon, EmptyMapType DEF Init
<1>. QED  BY ZenonT(30), <1>1, <1>2, <1>3 DEF Init, TypeOK, TimersMatch

(* The types are right, and every recorded host has a timer, and no other      *)
(* host (try_recv, prune_stale_reporters_at).                                  *)
THEOREM TimersAreKept == Spec => [](TypeOK /\ TimersMatch)
  BY InitType, TypeStep, PTL DEF Spec
-----------------------------------------------------------------------------
(* What the relay is asked for is exactly what the hosts that are recorded    *)
(* and the configuration want, at once (desired_membership_report) and by the *)
(* change that is pending (pending_report).                                   *)
THEOREM RequestsAreExact == Spec => []RequestsExact
<1>1. TypeOK => DesiredExact
  <2>. SUFFICES ASSUME TypeOK, NEW g \in Group, NEW s \in Source
                PROVE  (g \in DOMAIN Desired(state) /\ WantsSource(Desired(state)[g], s)) <=>
                         \/ Asm(g) \in Joins \/ Ssm(g, s) \in Joins
                         \/ g \in Exportable /\ \E h \in Members(state.endpoints, g) :
                                                  WantsSource(state.endpoints[h][g], s)
    BY Zenon DEF DesiredExact
  <2>1. state.endpoints \in Endpoints /\ state = RebuildIndexes(state.endpoints)
    BY Zenon DEF TypeOK
  <2>2. (g \in DOMAIN JoinInterests /\ WantsSource(JoinInterests[g], s)) <=>
          Asm(g) \in Joins \/ Ssm(g, s) \in Joins
    BY ZenonT(30), JoinsRight
  <2>3. (g \in DOMAIN CurrentExportable(state) /\ WantsSource(CurrentExportable(state)[g], s)) <=>
          /\ g \in Exportable
          /\ \E h \in Members(state.endpoints, g) : WantsSource(state.endpoints[h][g], s)
    BY ZenonT(30), <2>1, ExportableRight
  <2>4. (g \in DOMAIN Desired(state) /\ WantsSource(Desired(state)[g], s)) <=>
          \/ g \in DOMAIN JoinInterests /\ WantsSource(JoinInterests[g], s)
          \/ g \in DOMAIN CurrentExportable(state) /\ WantsSource(CurrentExportable(state)[g], s)
    BY ZenonT(30), <2>1, DesiredRight
  <2>. QED  BY ZenonT(30), <2>2, <2>3, <2>4
<1>2. TypeOK => PendingExact
  <2>. SUFFICES ASSUME TypeOK PROVE PendingExact
    BY Zenon
  <2>1. CurrentExportable(state) \in Maps(Group, StoredInterest)
    BY Zenon, ExportableRight DEF TypeOK
  <2>2. advertised \in Maps(Group, StoredInterest)
    BY Zenon, WantAssumption, MapsElement DEF TypeOK
  <2>. QED  BY ZenonT(30), <2>1, <2>2, DeltaRecordsRight DEF PendingExact
<1>3. TypeOK /\ TimersMatch => RequestsExact
  BY ZenonT(30), <1>1, <1>2 DEF RequestsExact
<1>. QED  BY <1>3, TimersAreKept, PTL
-----------------------------------------------------------------------------
(* Timing, when of two queries in a row one gets through.                  *)

(* How many queries were sent since the one that h answered last, if h was    *)
(* never late.                                                                *)
Waited(h) == missed[h] + (IF owes[h] = {} THEN 0 ELSE 1)

(* The inductive invariant: the query that a host has yet to answer is the    *)
(* last one or an earlier one, and a host that is not excused was heard no    *)
(* longer ago than the queries it let pass.                                   *)
Timed(h) ==
  /\ want[h] = EmptyMap => h \in excused
  /\ missed[h] <= 1
  /\ sinceQuery = {} => owes[h] = {} /\ missed[h] = 0
  /\ \A elapsed \in owes[h] : elapsed < MaxResponse /\ \A q \in sinceQuery : q <= elapsed
  /\ h \in DOMAIN seen \ excused =>
       /\ sinceQuery = {} => seen[h] = 0
       /\ \A elapsed \in sinceQuery : seen[h] <= elapsed + Waited(h) * QueryInterval

(* What the variables of a host are. *)
LEMMA HostTypes ==
  ASSUME TypeOK, NEW h \in Endpoint
  PROVE  /\ missed[h] \in Nat
         /\ owes[h] = {} \/ \E x \in 0..MaxResponse : owes[h] = {x}
         /\ sinceQuery = {} \/ \E x \in 0..QueryInterval : sinceQuery = {x}
         /\ h \in DOMAIN seen => seen[h] \in 0..ReporterTimeout
<1>1. missed[h] \in Nat
  BY SMTT(30), TimeoutAssumption DEF TypeOK
<1>2. owes[h] \in Optional(0..MaxResponse) /\ sinceQuery \in Optional(0..QueryInterval)
  BY Zenon DEF TypeOK
<1>3. \A x \in DOMAIN seen : seen[x] \in 0..ReporterTimeout
  <2>1. seen \in Maps(Endpoint, 0..ReporterTimeout)
    BY Zenon DEF TypeOK
  <2>2. seen \in [DOMAIN seen -> 0..ReporterTimeout]
    BY Zenon, <2>1, MapsElement
  <2>. QED  BY Zenon, <2>2
<1>4. /\ owes[h] = {} \/ \E x \in 0..MaxResponse : owes[h] = {x}
      /\ sinceQuery = {} \/ \E x \in 0..QueryInterval : sinceQuery = {x}
  BY Zenon, <1>2 DEF Optional
<1>. QED  BY ZenonT(30), <1>1, <1>3, <1>4

(* One more query is one more interval. *)
LEMMA OneMore ==
  ASSUME NEW w \in Nat, NEW q \in Nat
  PROVE  w * q \in Nat /\ (w + 1) * q = w * q + q
  BY SMTT(30)

(* A host that was just heard, or keeps excused, is in time. *)
LEMMA HeardIsTimed ==
  ASSUME TypeOK, NEW h \in Endpoint, QueryInterval > 0, Timed(h),
         TypeOK', UNCHANGED sinceQuery,
         owes[h]' = owes[h] \/ owes[h]' = {},
         missed[h]' = missed[h] \/ missed[h]' = 0,
         want[h]' = EmptyMap => h \in excused',
         h \in DOMAIN seen' => h \in excused' \/ seen'[h] = 0
  PROVE  Timed(h)'
<1>. USE TimeoutAssumption
<1>0. missed[h] \in Nat
  BY Zenon, HostTypes
<1>1. missed[h]' \in Nat /\ missed[h]' <= 1
  BY SMTT(30), <1>0 DEF Timed
<1>2. Waited(h)' \in Nat
  <2>1. Waited(h)' = missed[h]' + 0 \/ Waited(h)' = missed[h]' + 1
    BY Zenon DEF Waited
  <2>. QED  BY SMTT(30), <1>1, <2>1
<1>3. Waited(h)' * QueryInterval \in Nat
  BY Zenon, <1>2, OneMore
<1>4. \A elapsed \in sinceQuery : elapsed \in Nat
  BY SMTT(30), HostTypes
<1>5. h \in DOMAIN seen' \ excused' =>
        /\ sinceQuery' = {} => seen'[h] = 0
        /\ \A elapsed \in sinceQuery' : seen'[h] <= elapsed + Waited(h)' * QueryInterval
  BY SMTT(30), <1>3, <1>4
<1>. HIDE DEF Waited
<1>. QED  BY ZenonT(30), <1>1, <1>5 DEF Timed

(* A step that leaves a host and its record alone leaves it in time. *)
LEMMA OthersTimed ==
  ASSUME NEW h \in Endpoint, Timed(h), UNCHANGED sinceQuery,
         want'[h] = want[h], owes'[h] = owes[h], missed'[h] = missed[h],
         h \in excused' <=> h \in excused,
         h \in DOMAIN seen' => h \in DOMAIN seen /\ seen'[h] = seen[h]
  PROVE  Timed(h)'
  BY Zenon DEF Timed, Waited

(* Every step keeps every host in time. *)
LEMMA TimedStep ==
  ASSUME Robustness <= 2, QueryInterval > 0, TypeOK, TimersMatch, [Next]_vars,
         NEW h \in Endpoint, Timed(h)
  PROVE  Timed(h)'
<1>. USE TimeoutAssumption
<1>0. TypeOK' /\ TimersMatch'
  BY Zenon, TypeStep
<1>1. ASSUME NEW k \in Endpoint, Change(k) PROVE Timed(h)'
  <2>1. PICK interests \in Want \ {want[k]} :
          /\ want' = [want EXCEPT ![k] = interests]
          /\ \/ /\ Receive(k, ChangeReport(want[k], interests))
                /\ excused' = IF interests = EmptyMap THEN excused \cup {k}
                             ELSE IF Accepted(k, ChangeReport(want[k], interests)) THEN excused \ {k}
                             ELSE excused
             \/ /\ UNCHANGED <<state, seen, advertised>>
                /\ excused' = IF interests = EmptyMap THEN excused \cup {k} ELSE excused
    BY Zenon, <1>1 DEF Change
  <2>2. UNCHANGED <<owes, missed, session, sinceQuery, sincePrune>>
    BY ZenonT(30), <1>1 DEF Change
  <2>. DEFINE report == ChangeReport(want[k], interests)
  <2>3. report \in Seq(MembershipRecord)
        /\ (interests # EmptyMap => k \in DOMAIN ApplyReport(state, k, report).endpoints)
    BY ZenonT(30), HostReports
  <2>. HIDE DEF report
  <2>4. CASE k # h
    <3>1. want'[h] = want[h] /\ (h \in excused' <=> h \in excused)
      BY ZenonT(30), <2>1, <2>4 DEF TypeOK
    <3>2. h \in DOMAIN seen' => h \in DOMAIN seen /\ seen'[h] = seen[h]
      <4>1. CASE Receive(k, report)
        BY ZenonT(30), <2>3, <2>4, <4>1, ReceiveRight
      <4>2. CASE UNCHANGED seen
        BY ZenonT(30), <4>2
      <4>. QED  BY ZenonT(30), <2>1, <4>1, <4>2 DEF report
    <3>. QED  BY ZenonT(30), <2>2, <3>1, <3>2, OthersTimed
  <2>5. CASE k = h
    <3>1. want'[h] = interests
      BY ZenonT(30), <2>1, <2>5 DEF TypeOK
    <3>2. CASE interests = EmptyMap
      <4>1. h \in excused'
        BY ZenonT(30), <2>1, <2>5, <3>2
      <4>. QED  BY ZenonT(30), <1>0, <2>2, <4>1, HeardIsTimed
    <3>3. CASE interests # EmptyMap /\ Receive(h, report) /\ Accepted(h, report) /\ excused' = excused \ {h}
      <4>1. h \in DOMAIN seen' /\ seen'[h] = 0
        BY ZenonT(30), <2>3, <2>5, <3>3, ReceiveRight
      <4>. QED  BY ZenonT(30), <1>0, <2>2, <3>1, <3>3, <4>1, HeardIsTimed
    <3>4. CASE interests # EmptyMap /\ seen' = seen /\ excused' = excused
      BY ZenonT(30), <2>2, <3>1, <3>4 DEF Timed, Waited
    <3>5. CASE interests # EmptyMap /\ Receive(h, report) /\ ~Accepted(h, report) /\ excused' = excused
      <4>1. seen' = seen
        BY ZenonT(30), <2>3, <2>5, <3>5, ReceiveRight
      <4>. QED  BY ZenonT(30), <3>4, <3>5, <4>1
    <3>. QED  BY ZenonT(30), <2>1, <2>5, <3>2, <3>3, <3>4, <3>5 DEF report
  <2>. QED  BY ZenonT(30), <2>4, <2>5
<1>2. ASSUME NEW k \in Endpoint, Vanish(k) PROVE Timed(h)'
  <2>1. CASE k # h
    BY ZenonT(30), <1>2, <2>1, OthersTimed DEF Vanish, TypeOK
  <2>2. CASE k = h
    <3>1. h \in excused' /\ owes'[h] = {} /\ missed' = missed /\ sinceQuery' = sinceQuery
      BY ZenonT(30), <1>2, <2>2 DEF Vanish, TypeOK
    <3>. QED  BY ZenonT(30), <1>0, <3>1, HeardIsTimed
  <2>. QED  BY Zenon, <2>1, <2>2
<1>3. ASSUME NEW k \in Endpoint, Answer(k) PROVE Timed(h)'
  <2>. DEFINE report == StateReport(want[k])
  <2>1. /\ owes' = [owes EXCEPT ![k] = {}] /\ missed' = [missed EXCEPT ![k] = 0]
        /\ UNCHANGED <<want, session, sinceQuery, sincePrune>>
        /\ IF want[k] = EmptyMap THEN UNCHANGED <<excused, state, seen, advertised>>
           ELSE /\ Receive(k, report)
                /\ excused' = IF Accepted(k, report) THEN excused \ {k} ELSE excused \cup {k}
    BY Zenon, <1>3 DEF Answer
  <2>2. report \in Seq(MembershipRecord)
        /\ (want[k] # EmptyMap => k \in DOMAIN ApplyReport(state, k, report).endpoints)
    BY ZenonT(30), HostReports, WantAssumption
  <2>. HIDE DEF report
  <2>3. CASE k # h
    <3>1. owes'[h] = owes[h] /\ missed'[h] = missed[h] /\ (h \in excused' <=> h \in excused)
      BY ZenonT(30), <2>1, <2>3 DEF TypeOK
    <3>2. h \in DOMAIN seen' => h \in DOMAIN seen /\ seen'[h] = seen[h]
      <4>1. CASE Receive(k, report)
        BY ZenonT(30), <2>2, <2>3, <4>1, ReceiveRight
      <4>2. CASE UNCHANGED seen
        BY Zenon, <4>2
      <4>. QED  BY ZenonT(30), <2>1, <4>1, <4>2
    <3>. QED  BY ZenonT(30), <2>1, <3>1, <3>2, OthersTimed
  <2>4. CASE k = h
    <3>1. owes'[h] = {} /\ missed'[h] = 0
      BY Zenon, <2>1, <2>4 DEF TypeOK
    <3>2. want'[h] = EmptyMap => h \in excused'
      BY Zenon, <2>1, <2>4 DEF Timed
    <3>3. h \in DOMAIN seen' => h \in excused' \/ seen'[h] = 0
      <4>1. CASE want[h] = EmptyMap
        BY ZenonT(30), <2>1, <2>4, <3>2, <4>1
      <4>2. CASE want[h] # EmptyMap /\ Accepted(h, report)
        BY ZenonT(30), <2>1, <2>2, <2>4, <4>2, ReceiveRight
      <4>3. CASE want[h] # EmptyMap /\ ~Accepted(h, report)
        BY ZenonT(30), <2>1, <2>4, <4>3
      <4>. QED  BY ZenonT(30), <4>1, <4>2, <4>3
    <3>. QED  BY ZenonT(30), <1>0, <2>1, <3>1, <3>2, <3>3, HeardIsTimed
  <2>. QED  BY Zenon, <2>3, <2>4
<1>4. ASSUME NEW k \in Endpoint, AnswerLost(k) PROVE Timed(h)'
  <2>1. CASE k # h
    BY ZenonT(30), <1>4, <2>1, OthersTimed DEF AnswerLost, TypeOK
  <2>2. CASE k = h
    <3>1. /\ owes[h] # {} /\ owes'[h] = {} /\ missed'[h] = missed[h] + 1 /\ missed[h] + 1 < Robustness
          /\ UNCHANGED <<want, excused, seen, sinceQuery>>
      BY Zenon, <1>4, <2>2 DEF AnswerLost, TypeOK
    <3>0. missed[h] \in Nat
      BY Zenon, HostTypes
    <3>2. missed[h] \in Nat /\ missed'[h] <= 1
      BY SMTT(30), <3>0, <3>1
    <3>3. Waited(h)' = Waited(h)
      <4>1. Waited(h) = missed[h] + 1
        BY Zenon, <3>1 DEF Waited
      <4>2. Waited(h)' = missed'[h] + 0
        BY Zenon, <3>1 DEF Waited
      <4>. QED  BY SMTT(30), <3>1, <3>2, <4>1, <4>2
    <3>4. sinceQuery # {}
      BY Zenon, <3>1 DEF Timed
    <3>. QED  BY ZenonT(30), <3>1, <3>2, <3>3, <3>4 DEF Timed
  <2>. QED  BY Zenon, <2>1, <2>2
<1>5. ASSUME NEW hear \in SUBSET Endpoint, Query(hear) PROVE Timed(h)'
  <2>1. /\ sinceQuery' = {0} /\ UNCHANGED <<want, seen>>
        /\ excused' = excused \cup {k \in hear : owes[k] # {}}
        /\ \A elapsed \in sinceQuery : elapsed >= QueryInterval
        /\ owes'[h] = IF h \in hear /\ owes[h] = {} THEN {0} ELSE owes[h]
        /\ missed'[h] = IF h \in hear THEN missed[h] ELSE missed[h] + 1
        /\ h \notin hear => missed[h] + 1 < Robustness
    BY Zenon, <1>5 DEF Query, QueryDue
  <2>0. /\ missed[h] \in Nat
        /\ owes[h] = {} \/ \E x \in 0..MaxResponse : owes[h] = {x}
        /\ sinceQuery = {} \/ \E x \in 0..QueryInterval : sinceQuery = {x}
    BY Zenon, HostTypes
  <2>2. missed[h] \in Nat /\ missed'[h] <= 1 /\ missed'[h] \in Nat
    <3>1. CASE h \in hear
      <4>1. missed'[h] = missed[h] /\ missed[h] <= 1
        BY ZenonT(30), <2>1, <3>1 DEF Timed
      <4>. QED  BY ZenonT(30), <2>0, <4>1
    <3>2. CASE h \notin hear
      <4>1. missed'[h] = missed[h] + 1 /\ missed[h] + 1 < Robustness
        BY Zenon, <2>1, <3>2
      <4>. QED  BY SMTT(30), <2>0, <4>1
    <3>. QED  BY ZenonT(30), <3>1, <3>2
  <2>3. Waited(h) \in Nat
    <3>1. Waited(h) = missed[h] + 0 \/ Waited(h) = missed[h] + 1
      BY Zenon DEF Waited
    <3>. QED  BY SMTT(30), <2>0, <3>1
  <2>4. h \notin excused' => Waited(h)' = Waited(h) + 1
    <3>1. CASE h \in hear /\ owes[h] = {}
      <4>1. Waited(h)' = missed'[h] + 1 /\ Waited(h) = missed[h] + 0
        BY Zenon, <2>1, <3>1 DEF Waited
      <4>2. missed'[h] = missed[h]
        BY Zenon, <2>1, <3>1
      <4>. QED  BY SMTT(30), <2>0, <4>1, <4>2
    <3>2. CASE h \in hear /\ owes[h] # {}
      BY Zenon, <2>1, <3>2
    <3>3. CASE h \notin hear
      <4>1. owes'[h] = owes[h] /\ missed'[h] = missed[h] + 1
        BY ZenonT(30), <2>1, <3>3
      <4>2. CASE owes[h] = {}
        <5>1. Waited(h)' = missed'[h] + 0 /\ Waited(h) = missed[h] + 0
          BY Zenon, <4>1, <4>2 DEF Waited
        <5>. QED  BY SMTT(30), <2>0, <4>1, <5>1
      <4>3. CASE owes[h] # {}
        <5>1. Waited(h)' = missed'[h] + 1 /\ Waited(h) = missed[h] + 1
          BY Zenon, <4>1, <4>3 DEF Waited
        <5>. QED  BY Zenon, <2>0, <4>1, <5>1
      <4>. QED  BY Zenon, <4>2, <4>3
    <3>. QED  BY Zenon, <3>1, <3>2, <3>3
  <2>5. /\ Waited(h) * QueryInterval \in Nat
        /\ (Waited(h) + 1) * QueryInterval = Waited(h) * QueryInterval + QueryInterval
    BY Zenon, <2>3, OneMore
  <2>6. ASSUME h \in DOMAIN seen \ excused'
        PROVE  seen[h] <= 0 + (Waited(h) + 1) * QueryInterval
    <3>0. h \in DOMAIN seen \ excused
      BY Zenon, <2>1, <2>6
    <3>1. CASE sinceQuery = {}
      <4>1. seen[h] = 0
        BY Zenon, <3>0, <3>1 DEF Timed
      <4>. QED  BY SMTT(30), <2>5, <4>1
    <3>2. CASE \E x \in 0..QueryInterval : sinceQuery = {x}
      <4>1. PICK x \in 0..QueryInterval : sinceQuery = {x}
        BY Zenon, <3>2
      <4>2. seen[h] <= x + Waited(h) * QueryInterval
        BY Zenon, <3>0, <4>1 DEF Timed
      <4>3. seen[h] \in Nat
        BY SMTT(30), <3>0, HostTypes
      <4>. QED  BY SMTT(30), <2>5, <4>2, <4>3
    <3>. QED  BY ZenonT(30), <2>0, <3>1, <3>2
  <2>7. \A elapsed \in owes'[h] : elapsed < MaxResponse /\ 0 <= elapsed
    <3>1. \A elapsed \in owes[h] : elapsed < MaxResponse /\ elapsed \in Nat
      BY SMTT(30), <2>0 DEF Timed
    <3>. QED  BY SMTT(30), <2>1, <3>1
  <2>8. want'[h] = EmptyMap => h \in excused'
    BY Zenon, <2>1 DEF Timed
  <2>9. h \in DOMAIN seen' \ excused' =>
          \A elapsed \in sinceQuery' : seen'[h] <= elapsed + Waited(h)' * QueryInterval
    BY Zenon, <2>1, <2>4, <2>6
  <2>. QED  BY ZenonT(30), <2>1, <2>2, <2>7, <2>8, <2>9 DEF Timed
<1>6. ASSUME Prune PROVE Timed(h)'
  <2>1. seen' = RemoveAll(seen, Stale) /\ UNCHANGED <<want, owes, missed, excused, sinceQuery>>
    BY Zenon, <1>6 DEF Prune, hostVars
  <2>2. DOMAIN seen' = DOMAIN seen \ Stale /\ \A x \in DOMAIN seen' : seen'[x] = seen[x]
    BY Zenon, <2>1 DEF RemoveAll
  <2>. QED  BY ZenonT(30), <2>1, <2>2, OthersTimed
<1>7. ASSUME SessionOpens \/ SessionEnds \/ UNCHANGED vars PROVE Timed(h)'
  <2>1. UNCHANGED <<want, owes, missed, excused, seen, sinceQuery>>
    BY Zenon, <1>7 DEF SessionOpens, SessionEnds, vars, hostVars
  <2>. QED  BY Zenon, <2>1, OthersTimed
<1>8. ASSUME Tick PROVE Timed(h)'
  <2>1. /\ owes'[h] = {elapsed + 1 : elapsed \in owes[h]}
        /\ \A elapsed \in owes[h] : elapsed + 1 < MaxResponse
        /\ DOMAIN seen' = DOMAIN seen
        /\ h \in DOMAIN seen => seen'[h] = Older(seen[h], ReporterTimeout)
        /\ sinceQuery' = {Older(elapsed, QueryInterval) : elapsed \in sinceQuery}
        /\ UNCHANGED <<want, missed, excused>>
    BY Zenon, <1>8 DEF Tick
  <2>2. PICK q \in 0..QueryInterval : sinceQuery = {q} /\ q < QueryInterval
    BY SMTT(30), <1>8, HostTypes DEF Tick, QueryDue
  <2>3. sinceQuery' = {q + 1}
    BY Zenon, <2>1, <2>2 DEF Older
  <2>4. Waited(h)' = Waited(h) /\ Waited(h) \in Nat
    <3>1. Waited(h)' = Waited(h)
      BY Zenon, <2>1 DEF Waited
    <3>2. missed[h] \in Nat
      BY Zenon, HostTypes
    <3>3. Waited(h) = missed[h] + 0 \/ Waited(h) = missed[h] + 1
      BY Zenon DEF Waited
    <3>. QED  BY SMTT(30), <3>1, <3>2, <3>3
  <2>5. Waited(h) * QueryInterval \in Nat
    BY ZenonT(30), <2>4, OneMore
  <2>6. ASSUME h \in DOMAIN seen' \ excused'
        PROVE  seen'[h] <= (q + 1) + Waited(h) * QueryInterval
    <3>1. seen[h] \in 0..ReporterTimeout
      BY ZenonT(30), <2>1, <2>6, HostTypes
    <3>2. seen[h] <= q + Waited(h) * QueryInterval
      BY ZenonT(30), <2>1, <2>2, <2>6 DEF Timed
    <3>3. seen'[h] <= seen[h] + 1 /\ seen'[h] \in Nat
      BY <2>1, <2>6, <3>1, SMTT(30) DEF Older
    <3>. QED  BY SMTT(30), <2>5, <3>1, <3>2, <3>3
  <2>7. \A elapsed \in owes'[h] : elapsed < MaxResponse /\ q + 1 <= elapsed
    <3>1. \A elapsed \in owes[h] : elapsed \in Nat /\ q <= elapsed
      BY SMTT(30), <2>2, HostTypes DEF Timed
    <3>. QED  BY SMTT(30), <2>1, <3>1
  <2>. QED  BY ZenonT(30), <2>1, <2>3, <2>4, <2>6, <2>7 DEF Timed
<1>. QED  BY Zenon, <1>1, <1>2, <1>3, <1>4, <1>5, <1>6, <1>7, <1>8 DEF Next

(* A host is forgotten only when it has nothing to say, or too much, or says  *)
(* it too late.                                                               *)
LEMMA KeptStep ==
  ASSUME Robustness <= 2, TypeOK, TimersMatch, QueryInterval > 0 => \A h \in Endpoint : Timed(h), Next,
         NEW h \in Endpoint, h \in DOMAIN seen, h \notin DOMAIN seen'
  PROVE  h \in excused'
<1>. USE TimeoutAssumption
<1>1. ASSUME NEW k \in Endpoint, Change(k) PROVE h \in excused'
  <2>1. PICK interests \in Want \ {want[k]} :
          /\ Receive(k, ChangeReport(want[k], interests))
          /\ excused' = IF interests = EmptyMap THEN excused \cup {k}
                       ELSE IF Accepted(k, ChangeReport(want[k], interests)) THEN excused \ {k}
                       ELSE excused
    BY Zenon, <1>1 DEF Change
  <2>2. ChangeReport(want[k], interests) \in Seq(MembershipRecord)
        /\ (interests # EmptyMap =>
              k \in DOMAIN ApplyReport(state, k, ChangeReport(want[k], interests)).endpoints)
    BY Zenon, HostReports
  <2>3. k = h
    BY ZenonT(30), <2>1, <2>2, ReceiveRight
  <2>4. interests = EmptyMap
    BY ZenonT(30), <2>1, <2>2, <2>3, ReceiveRight
  <2>. QED  BY ZenonT(30), <2>1, <2>3, <2>4
<1>2. ASSUME NEW k \in Endpoint, Answer(k) PROVE h \in excused'
  <2>1. /\ Receive(k, StateReport(want[k])) /\ want[k] # EmptyMap
    BY Zenon, <1>2 DEF Answer
  <2>2. StateReport(want[k]) \in Seq(MembershipRecord)
        /\ k \in DOMAIN ApplyReport(state, k, StateReport(want[k])).endpoints
    BY ZenonT(30), <2>1, HostReports, WantAssumption
  <2>3. k = h
    BY ZenonT(30), <2>1, <2>2, ReceiveRight
  <2>. QED  BY ZenonT(30), <2>1, <2>2, <2>3, ReceiveRight
<1>3. ASSUME Prune PROVE h \in excused'
  <2>1. seen' = RemoveAll(seen, Stale) /\ excused' = excused
    BY Zenon, <1>3 DEF Prune, hostVars
  <2>2. h \in Stale
    BY Zenon, <2>1 DEF RemoveAll
  <2>3. QueryInterval > 0 /\ seen[h] >= ReporterTimeout
    BY SMTT(30), <2>2 DEF Stale
  <2>4. ReporterTimeout >= 2 * QueryInterval + MaxResponse /\ MaxResponse \in Nat \ {0} /\ Timed(h)
    BY Zenon, <2>3
  <2>. SUFFICES ASSUME h \notin excused PROVE FALSE
    BY Zenon, <2>1
  <2>5. CASE sinceQuery = {}
    <3>1. seen[h] = 0
      BY Zenon, <2>4, <2>5 DEF Timed
    <3>. QED  BY SMTT(30), <2>3, <2>4, <3>1
  <2>6. CASE \E x \in 0..QueryInterval : sinceQuery = {x}
    <3>1. PICK q \in 0..QueryInterval : sinceQuery = {q}
      BY Zenon, <2>6
    <3>2. seen[h] <= q + Waited(h) * QueryInterval
      BY Zenon, <2>4, <3>1 DEF Timed
    <3>3. missed[h] \in {0, 1}
      BY SMTT(30), <2>4, HostTypes DEF Timed
    <3>4. seen[h] \in Nat
      BY SMTT(30), HostTypes
    <3>5. CASE owes[h] = {}
      <4>1. Waited(h) = missed[h] + 0
        BY Zenon, <3>5 DEF Waited
      <4>. QED  BY SMTT(30), <2>3, <2>4, <3>2, <3>3, <3>4, <4>1
    <3>6. CASE owes[h] # {}
      <4>1. PICK x \in 0..MaxResponse : owes[h] = {x}
        BY ZenonT(30), <3>6, HostTypes
      <4>3. q <= x /\ x < MaxResponse
        BY ZenonT(30), <2>4, <3>1, <4>1 DEF Timed
      <4>2. Waited(h) = missed[h] + 1
        BY Zenon, <3>6 DEF Waited
      <4>. QED  BY SMTT(30), <2>3, <2>4, <3>2, <3>3, <3>4, <4>2, <4>3
    <3>. QED  BY Zenon, <3>5, <3>6
  <2>. QED  BY ZenonT(30), <2>5, <2>6, HostTypes
<1>4. ASSUME Tick PROVE FALSE
  BY Zenon, <1>4 DEF Tick
<1>5. ASSUME NEW k \in Endpoint, Vanish(k) \/ AnswerLost(k) PROVE FALSE
  BY Zenon, <1>5 DEF Vanish, AnswerLost
<1>6. ASSUME NEW hear \in SUBSET Endpoint, Query(hear) PROVE FALSE
  BY Zenon, <1>6 DEF Query
<1>7. ASSUME SessionOpens \/ SessionEnds PROVE FALSE
  BY Zenon, <1>7 DEF SessionOpens, SessionEnds
<1>. QED  BY Zenon, <1>1, <1>2, <1>3, <1>4, <1>5, <1>6, <1>7 DEF Next

(* A timer runs for exactly the hosts that are known, and a host that goes on  *)
(* wanting something, fits the limits and answers before the next query is    *)
(* never forgotten, when no two queries in a row come to nothing: for every   *)
(* query interval and response time, with the timeout that gateway_command    *)
(* demands (prune_stale_reporters_at).                                        *)
THEOREM HostsAreTimed == Spec => HostsTimed
<1>. DEFINE InTime == QueryInterval > 0 /\ Robustness <= 2 => \A h \in Endpoint : Timed(h)
            IInv == TypeOK /\ TimersMatch /\ InTime
            Kept == Robustness <= 2 =>
                      \A h \in Endpoint : h \in DOMAIN seen /\ h \notin DOMAIN seen' => h \in excused'
<1>1. Init => IInv
  <2>. SUFFICES ASSUME Init, NEW h \in Endpoint PROVE Timed(h)
    BY Zenon, InitType
  <2>. QED  BY SMTT(30), EmptyMapType DEF Init, Timed
<1>2. IInv /\ [Next]_vars => IInv'
  BY ZenonT(30), TypeStep, TimedStep
<1>3. IInv /\ [Next]_vars => [Kept]_vars
  BY ZenonT(30), KeptStep
<1>. HIDE DEF Kept
<1>4. Spec => [](TypeOK /\ TimersMatch) /\ [][Kept]_vars
  BY <1>1, <1>2, <1>3, PTL DEF Spec
<1>. QED  BY Zenon, <1>4 DEF HostsTimed, HostKept, Kept
=============================================================================
