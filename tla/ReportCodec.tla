---------------------------- MODULE ReportCodec -----------------------------
(***************************************************************************)
(* Membership reports on the wire (membership.rs): what the builder writes *)
(* and what the parser, with the relay's limits, makes of a packet.        *)
(*                                                                         *)
(* A packet is built from records, or is the report of an older host, and  *)
(* is then changed a word or a header field at a time.  A host that writes *)
(* something else computes its checksum (fitted); damage on the way does   *)
(* not.  The errors of the parser are not told apart.                      *)
(***************************************************************************)
EXTENDS IpWire, Functions

CONSTANTS Reports,       \* the reports that are built, sequences of records
          LegacyGroups,  \* the groups that older hosts join and leave
          Words,         \* what a word may be changed to
          MaxRecords, MaxSources,  \* MembershipParseLimits
          MaxChanges     \* bound on the changes to one packet

VARIABLES packet,   \* the packet that arrives
          sent,     \* the report it was built from, {} once it has been changed
          damage,   \* the one change made on the way to the message as it was sent
          changes,  \* how often it has been changed
          parsed    \* the report the parser makes of it, {} if it is refused

vars == <<packet, sent, damage, changes, parsed>>
-----------------------------------------------------------------------------
(* record_kind and encode_record_kind; the number of a kind is its place. *)
RecordKinds == <<"ModeIsInclude", "ModeIsExclude", "ChangeToInclude", "ChangeToExclude",
                 "AllowNewSources", "BlockOldSources">>

KindNumber(kind) == CHOOSE n \in DOMAIN RecordKinds : RecordKinds[n] = kind

ReportType == IF Protocol = "Igmpv3" THEN 34 ELSE 143
LegacyReportType == IF Protocol = "Igmpv3" THEN 22 ELSE 131
LegacyLeaveType == IF Protocol = "Igmpv3" THEN 23 ELSE 132

(* An address of the routers' block. *)
LinkLocal(last) == [[n \in 1..AddressWords |-> 0] EXCEPT ![1] = IF AddressWords = 2 THEN 57344 ELSE 65282,
                                                         ![AddressWords] = last]
ReportDestination == LinkLocal(22)
AllRouters == LinkLocal(2)

(* validate_build_records, with the length limit of the builders. *)
Buildable(records) ==
  /\ records # <<>> /\ Len(records) <= 65535
  /\ \A n \in DOMAIN records :
       /\ \E m \in DOMAIN RecordKinds : RecordKinds[m] = records[n].kind
       /\ IsForwardable(records[n].group)
       /\ Len(records[n].group) = AddressWords
       /\ Len(records[n].sources) <= 65535
       /\ \A m \in DOMAIN records[n].sources :
            Len(records[n].sources[m]) = AddressWords /\ IsValidSource(records[n].sources[m])

(* One group record: kind, no auxiliary data, number of sources, group,     *)
(* sources.                                                                 *)
RecordWords(record) ==
  LET sources[n \in 0..Len(record.sources)] ==
        IF n = 0 THEN <<>> ELSE sources[n - 1] \o record.sources[n]
  IN  <<KindNumber(record.kind) * 256, Len(record.sources)>> \o record.group \o sources[Len(record.sources)]

ReportBody(records) ==
  LET upto[n \in 0..Len(records)] == IF n = 0 THEN <<>> ELSE upto[n - 1] \o RecordWords(records[n])
  IN  <<ReportType * 256, 0, 0, Len(records)>> \o upto[Len(records)]

(* build_membership_report. *)
BuildMembershipReport(records) ==
  IF Buildable(records) /\ Packet(ReportDestination, ReportBody(records)).total <= 65535 + (IF Version = 6 THEN 40 ELSE 0)
  THEN {Packet(ReportDestination, ReportBody(records))} ELSE {}
-----------------------------------------------------------------------------
(* Parsing.  A read outside the message would be a panic.                  *)

Panic == -1
At(body, n) == IF n \in DOMAIN body THEN body[n] ELSE Panic
AddressAt(body, offset) == [n \in 1..AddressWords |-> At(body, offset + n)]

(* Where the message begins, in octets: after the options that the header    *)
(* length gives, or after the hop-by-hop header.                             *)
MessageOffset(p) ==
  IF Protocol = "Igmpv3" THEN p.header
  ELSE IF p.protocol = 0 THEN 40 + (Low(p.content[1]) + 1) * 8 ELSE 40

Body(p) == Between(p, MessageOffset(p), p.total)

(* The checks on an IPv6 header, up to the message. *)
Ipv6HeaderValid(p) ==
  /\ p.version = 6
  /\ p.total <= Available(p)
  /\ p.ttl = 1
  /\ IsValidSender(p.source)
  /\ p.protocol = 0
  /\ p.total - 40 >= 8 /\ p.total >= MessageOffset(p)
  /\ HasIpv6RouterAlert(Tail(Tail(Octets(Between(p, 40, MessageOffset(p))))))
  /\ High(p.content[1]) = 58

HeaderValid(p) == IF Protocol = "Igmpv3" THEN Ipv4HeaderValid(p) ELSE Ipv6HeaderValid(p)

(* validate_record. *)
ValidRecord(record) ==
  IsMulticast(record.group) /\ \A n \in DOMAIN record.sources : IsValidSource(record.sources[n])

RecordHeader == 2 + AddressWords

(* Mutant: the length of a record is checked without its auxiliary data. *)
NextRecordShort(body, s) ==
  LET left == Len(body) - s.offset
      kind == High(body[s.offset + 1])
      count == body[s.offset + 2]
      words == RecordHeader + count * AddressWords
      record == [kind |-> RecordKinds[kind], group |-> AddressAt(body, s.offset + 2),
                 sources |-> [n \in 1..count |-> AddressAt(body, s.offset + RecordHeader + (n - 1) * AddressWords)]]
  IN  IF /\ s.ok /\ left >= RecordHeader
         /\ kind \in DOMAIN RecordKinds /\ count <= MaxSources
         /\ left >= words /\ ValidRecord(record)
      THEN [s EXCEPT !.offset = @ + words, !.records = Append(@, record)]
      ELSE [s EXCEPT !.ok = FALSE]

(* One pass of the loop in parse_igmpv3_records and parse_mldv2_records.    *)
NextRecord(body, s) ==
  LET left == Len(body) - s.offset
      kind == High(body[s.offset + 1])
      aux == 2 * Low(body[s.offset + 1])
      count == body[s.offset + 2]
      words == RecordHeader + count * AddressWords + aux
      record == [kind |-> RecordKinds[kind], group |-> AddressAt(body, s.offset + 2),
                 sources |-> [n \in 1..count |-> AddressAt(body, s.offset + RecordHeader + (n - 1) * AddressWords)]]
  IN  IF /\ s.ok /\ left >= RecordHeader
         /\ kind \in DOMAIN RecordKinds /\ count <= MaxSources
         /\ left >= words /\ ValidRecord(record)
      THEN [s EXCEPT !.offset = @ + words, !.records = Append(@, record)]
      ELSE [s EXCEPT !.ok = FALSE]

(* parse_igmpv3_records and parse_mldv2_records. *)
ParseRecords(body) ==
  LET count == body[4]
      after[n \in 0..count] == IF n = 0 THEN [offset |-> 4, records |-> <<>>, ok |-> TRUE]
                                        ELSE NextRecord(body, after[n - 1])
  IN  IF count <= MaxRecords /\ count <= (Len(body) - 4) \div RecordHeader
         /\ after[count].ok /\ after[count].offset = Len(body)
      THEN {after[count].records} ELSE {}

(* A report or a leave of an older host: one group and nothing else. *)
LegacyRecord(kind, body) ==
  IF Len(body) = (IF Protocol = "Igmpv3" THEN 4 ELSE 12)
  THEN {[kind |-> kind, group |-> AddressAt(body, Len(body) - AddressWords), sources |-> <<>>]} ELSE {}

(* The records of a message, by its type. *)
MessageRecords(p, body) ==
  LET type == High(body[1])
  IN  CASE type = LegacyReportType ->
             {<<r>> : r \in {x \in LegacyRecord("LegacyReport", body) : x.group = p.destination}}
        [] type = LegacyLeaveType ->
             {<<r>> : r \in {x \in LegacyRecord("LegacyLeave", body) : p.destination = AllRouters}}
        [] type = ReportType /\ p.destination = ReportDestination -> ParseRecords(body)
        [] OTHER -> {}

(* parse_membership_report_with_limits. *)
ParseMembershipReport(p) ==
  IF HeaderValid(p) /\ Len(Body(p)) >= 4 /\ ChecksumValid(p, Body(p))
  THEN {records \in MessageRecords(p, Body(p)) : \A n \in DOMAIN records : ValidRecord(records[n])} ELSE {}
-----------------------------------------------------------------------------
LegacyPacket(type, destination, group) ==
  Packet(destination, <<type * 256, 0>> \o (IF Protocol = "Igmpv3" THEN <<>> ELSE <<0, 0>>) \o group)

(* A report is sent, and the packet it becomes arrives. *)
Sent(p, report) ==
  /\ packet = p /\ sent = report /\ damage = {} /\ changes = 0
  /\ parsed = ParseMembershipReport(p)

Init ==
  \/ \E report \in Reports : \E p \in BuildMembershipReport(report) : Sent(p, {report})
  \/ \E group \in LegacyGroups :
       \/ Sent(LegacyPacket(LegacyReportType, group, group),
               {<<[kind |-> "LegacyReport", group |-> group, sources |-> <<>>]>>})
       \/ Sent(LegacyPacket(LegacyLeaveType, AllRouters, group),
               {<<[kind |-> "LegacyLeave", group |-> group, sources |-> <<>>]>>})

(* Where the message begins in the content as it was built. *)
Start == IF Protocol = "Igmpv3" THEN 2 ELSE 4

Fitted(p) ==
  [p EXCEPT !.content = SubSeq(@, 1, Start) \o WithChecksum(p.source, p.destination, SubSeq(@, Start + 1, Len(@)))]

Arrives(p) ==
  /\ changes < MaxChanges /\ changes' = changes + 1
  /\ packet' = p /\ sent' = {} /\ parsed' = ParseMembershipReport(p)

(* A word of the content is another one.  In the header of an IPv4 packet   *)
(* that may show in its checksum.                                            *)
ChangeWord ==
  \E n \in DOMAIN packet.content, word \in Words :
    LET changed == [packet EXCEPT !.content[n] = word]
    IN  /\ packet.content[n] # word
        /\ \/ /\ n <= Start
              /\ \E sum \in BOOLEAN : Arrives([changed EXCEPT !.sum = sum])
              /\ damage' = {}
           \/ /\ n > Start /\ Arrives(changed)
              /\ damage' = IF sent # {} THEN {{packet.content[n], word}} ELSE {}
           \/ n > Start /\ Arrives(Fitted(changed)) /\ damage' = {}

(* The packet is longer or shorter by a word, and its header may say so. *)
ChangeLength ==
  /\ Len(packet.content) > Start + 2
  /\ \E word \in {<<>>} \cup {<<w>> : w \in Words}, told \in BOOLEAN :
       LET content == IF word = <<>> THEN SubSeq(packet.content, 1, Len(packet.content) - 1)
                                     ELSE packet.content \o word
           total == packet.total + (IF ~told THEN 0 ELSE IF word = <<>> THEN -2 ELSE 2)
       IN  Arrives(Fitted([packet EXCEPT !.content = content, !.total = total]))
  /\ damage' = {}

(* A field of the header is another one, and its checksum right or not. *)
ChangeHeader ==
  /\ \/ \E v \in {4, 5, 6} \ {packet.version} : Arrives([packet EXCEPT !.version = v])
     \/ \E h \in {16, 20, 28} : Arrives([packet EXCEPT !.header = h])
     \/ \E t \in {packet.total - 2, packet.total - 4, packet.total + 2} : Arrives([packet EXCEPT !.total = t])
     \/ \E q \in {0, 2, 58} \ {packet.protocol} : Arrives([packet EXCEPT !.protocol = q])
     \/ Arrives([packet EXCEPT !.ttl = 2]) \/ Arrives([packet EXCEPT !.fragment = TRUE])
     \/ Arrives([packet EXCEPT !.sum = FALSE])
     \/ Arrives([packet EXCEPT !.destination = AllRouters])
     \/ Arrives(Fitted([packet EXCEPT !.source = ReportDestination]))
  /\ damage' = {}

Again ==
  /\ changes = MaxChanges
  /\ \E report \in Reports : \E p \in BuildMembershipReport(report) :
       /\ packet' = p /\ sent' = {report} /\ damage' = {} /\ changes' = 0
       /\ parsed' = ParseMembershipReport(p)

Next == ChangeWord \/ ChangeLength \/ ChangeHeader \/ Again

Spec == Init /\ [][Next]_vars
-----------------------------------------------------------------------------
(* Properties.                                                             *)

WithinLimits(records) ==
  Len(records) <= MaxRecords /\ \A n \in DOMAIN records : Len(records[n].sources) <= MaxSources

(* What a gateway builds, or an older host reports, is what the relay reads,  *)
(* record by record and in order, if it is within the relay's limits; if not  *)
(* all of it is refused (build_membership_report, parse_membership_report).   *)
RoundTrip == \A report \in sent : parsed = IF WithinLimits(report) THEN {report} ELSE {}

IsLegacy(records) == records # <<>> /\ records[1].kind \in {"LegacyReport", "LegacyLeave"}

(* Whatever a packet holds, the parser reads inside its message, and a report *)
(* it accepts is within the limits, names only groups and sources that can be *)
(* such, and says all that is in the packet: built again it gives the same    *)
(* words, unless there was auxiliary data (the loops of parse_igmpv3_records  *)
(* and parse_mldv2_records).                                                  *)
NothingIgnored ==
  \A records \in parsed :
    LET again == ReportBody(records)
        body == Body(packet)
    IN  /\ WithinLimits(records)
        /\ \A n \in DOMAIN records :
             /\ IsMulticast(records[n].group) /\ Panic \notin Range(records[n].group)
             /\ \A m \in DOMAIN records[n].sources :
                  IsValidSource(records[n].sources[m]) /\ Panic \notin Range(records[n].sources[m])
        /\ IF IsLegacy(records) THEN records[1].group = SubSeq(body, Len(body) - AddressWords + 1, Len(body))
           ELSE /\ Len(again) <= Len(body)
                /\ Len(again) = Len(body) => \A n \in DOMAIN body \ 1..3 : again[n] = body[n]

(* A message with one word changed on the way is refused: only a word of all  *)
(* zeros and one of all ones have the same checksum (ones_complement_sum).    *)
DamageNoticed == \A change \in damage : change # {0, 65535} => parsed = {}
=============================================================================
