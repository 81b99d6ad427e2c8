------------------------------ MODULE MCInputs ------------------------------
(***************************************************************************)
(* Values for model checking everything the programs read: AMT messages,   *)
(* membership reports and general queries of both protocols, DNS names,    *)
(* and the options of the gateway and the relay.  Each behaviour reads one *)
(* kind of input; the variables of the others are empty.                   *)
(***************************************************************************)
EXTENDS Integers, Sequences

VARIABLES input,
          message, datagram, decoded,              \* AMT messages; DNS names use the first
          packet, sent, damage, changes, parsed,   \* reports; queries use packet and changes
          seconds, interval,                       \* queries
          phase, options, given                    \* options

messageVars == <<message, datagram, decoded>>
reportVars == <<packet, sent, damage, changes, parsed>>
queryVars == <<seconds, interval>>
optionVars == <<phase, options, given>>
inputVars == <<input, messageVars, reportVars, queryVars, optionVars>>
-----------------------------------------------------------------------------
Amt == INSTANCE AmtMessage WITH
  Nonces <- {<<1, 2, 3, 4>>}, Macs <- {<<21, 22, 23, 24, 25, 26>>},
  Addresses <- {<<192, 0, 2, 9>>, [n \in 1..16 |-> 31 + n]}, Ports <- {<<8, 220>>},
  Payloads <- {<<>>, <<5>>, [n \in 1..19 |-> 60 + n]},
  FirstOctets <- (0..8) \cup {20}, MaxLength <- 32

(* 232.1.0.1 and 198.51.100.n, or ff3e::1 and 2001:db8::n. *)
Group4 == <<59393, 1>>
Host4(n) == <<50739, 25600 + n>>
Group6 == <<65342, 0, 0, 0, 0, 0, 0, 1>>
Host6(n) == <<8193, 3512, 0, 0, 0, 0, 0, n>>

Record(kind, group, sources) == [kind |-> kind, group |-> group, sources |-> sources]

Reports4 ==
  {<<Record("ModeIsExclude", Group4, <<>>), Record("BlockOldSources", Group4, <<Host4(1), Host4(2)>>)>>,
   <<Record("AllowNewSources", Group4, <<Host4(1), Host4(2), Host4(3)>>)>>,
   <<Record("ModeIsInclude", Group4, <<Host4(1)>>), Record("ChangeToInclude", Group4, <<>>),
     Record("ChangeToExclude", Group4, <<>>)>>}

(* IPv6 reports are long: one of them. *)
Reports6 ==
  {<<Record("ModeIsExclude", Group6, <<>>), Record("BlockOldSources", Group6, <<Host6(2)>>)>>}

(* Among the words there are the head of a record with auxiliary data, a group *)
(* of the routers' block and a message type.                                  *)
Igmpv3Report == INSTANCE ReportCodec WITH
  Protocol <- "Igmpv3", Reports <- Reports4, LegacyGroups <- {Group4},
  Words <- {0, 769, 57344, 22 * 256}, MaxRecords <- 2, MaxSources <- 2, MaxChanges <- 2

Mldv2Report == INSTANCE ReportCodec WITH
  Protocol <- "Mldv2", Reports <- Reports6, LegacyGroups <- {Group6},
  Words <- {0, 769, 65535}, MaxRecords <- 2, MaxSources <- 2, MaxChanges <- 2

(* Around every interval a code can say, and beyond. *)
SomeSeconds ==
  {s + d : s \in 1..128 \cup {m * 2^e : m \in 16..32, e \in 3..10}, d \in {-1, 0, 1}}
SomeWords == {0, 1, 125, 512, 58624, 65535}

Igmpv3Query == INSTANCE QueryCodec WITH
  Protocol <- "Igmpv3", Seconds <- SomeSeconds, Words <- SomeWords, MaxChanges <- 1
Mldv2Query == INSTANCE QueryCodec WITH
  Protocol <- "Mldv2", Seconds <- {s \in SomeSeconds : s < 600}, Words <- SomeWords, MaxChanges <- 1

(* The zero, lengths of labels that are also the low octets of pointers, a    *)
(* dot, a length that is neither, a letter, and pointers into and beyond the  *)
(* message.  The limits leave room for names of two labels, are small enough  *)
(* to be passed, and two apart as those of the code.                          *)
Dns == INSTANCE DnsName WITH
  Octets <- {0, 1, 2, 3, 46, 64, 97, 192, 193},
  Texts <- (UNION {[1..n -> {97, 46}] : n \in 0..3}) \cup {<<97, 46, 97, 46>>, <<97, 97, 46, 97>>},
  Steps <- 8, MaxText <- 3, MaxWire <- 5, MaxLength <- 5

ASSUME Igmpv3Report!ProtocolAssumption /\ Mldv2Report!ProtocolAssumption
ASSUME Igmpv3Query!ProtocolAssumption /\ Mldv2Query!ProtocolAssumption
ASSUME Dns!OctetsAssumption
-----------------------------------------------------------------------------
(* Gateway options: files that set little, and a flag or two for every option *)
(* that some check looks at.                                                  *)

Address(family, kind) == [family |-> family, kind |-> kind]
Socket(family, kind, port) == [family |-> family, kind |-> kind, port |-> port]
EmptyGatewayFile ==
  [bind |-> {}, relay |-> {}, discovery |-> {}, resolvers |-> <<>>, insecure |-> {}, timeout |-> {},
   limit |-> {}, initial |-> {}, maximum |-> {}, protocol |-> {}, group |-> {}, source |-> {},
   joins |-> <<>>, no_downstream |-> {}, downstream |-> {}, transparent |-> {}, local |-> {}]

Unicast4 == Address("v4", "unicast")
Unicast6 == Address("v6", "unicast")
Resolver(n, loopback) == [n |-> n, loopback |-> loopback]
Join(family, kind, source) == [group |-> Address(family, kind), source |-> source]

LocalTable(interface, query, timeout) ==
  [interface |-> interface, query_interval |-> query, reporter_timeout |-> timeout]
DownTable(interface, index, loopback, ttl) ==
  [interface |-> interface, index |-> index, loopback |-> loopback, ttl |-> ttl]

(* What is wanted, how the relay is found, and the interfaces. *)
Wanting ==
  {[EmptyGatewayFile EXCEPT !.joins = <<Join("v4", "ssm", {Unicast4})>>],
   [EmptyGatewayFile EXCEPT !.joins = <<Join("v4", "asm", {})>>, !.protocol = {"v6"}],
   [EmptyGatewayFile EXCEPT !.joins = <<Join("v6", "asm", {})>>],
   [EmptyGatewayFile EXCEPT !.group = {Address("v6", "ssm")}, !.source = {Unicast6}],
   [EmptyGatewayFile EXCEPT !.local = {LocalTable({}, {}, {})}, !.transparent = {FALSE}],
   [EmptyGatewayFile EXCEPT !.local = {LocalTable({Unicast4}, {30}, {70})}],
   [EmptyGatewayFile EXCEPT !.local = {LocalTable({Address("v4", "zero")}, {}, {0})}],
   [EmptyGatewayFile EXCEPT !.local = {LocalTable({}, {30}, {60})}]}

WithRelay(files) ==
  UNION {{f, [f EXCEPT !.relay = {Socket("v4", "unicast", "amt")}],
          [f EXCEPT !.discovery = {"auto"}, !.resolvers = <<Resolver(1, TRUE)>>, !.limit = {0}],
          [f EXCEPT !.discovery = {"driad"}, !.resolvers = <<Resolver(1, TRUE)>>]} : f \in files}

WithDownstream(files) ==
  UNION {{f, [f EXCEPT !.no_downstream = {TRUE}],
          [f EXCEPT !.no_downstream = {TRUE}, !.downstream = {DownTable({Unicast4}, {}, {TRUE}, FALSE)}],
          [f EXCEPT !.downstream = {DownTable({}, {0}, {}, FALSE)}],
          [f EXCEPT !.downstream = {DownTable({Unicast6}, {}, {}, FALSE)}]} : f \in files}

GatewayFiles == WithDownstream(WithRelay(Wanting)) \cup {EmptyGatewayFile, [EmptyGatewayFile EXCEPT !.timeout = {0}],
             [EmptyGatewayFile EXCEPT !.downstream = {DownTable({}, {}, {}, TRUE)}]}

Flag(option, values) == [name : {"set"}, option : {option}, value : values]

GatewayFlags ==
  UNION {Flag("bind", {{Socket("v4", "zero", "zero")}, {Socket("v6", "zero", "zero")}, {Socket("v4", "zero", "fixed")}}),
         Flag("relay", {{Socket("v4", "unicast", "amt")}, {Socket("v4", "zero", "amt")}, {Socket("v6", "unicast", "zero")}}),
         Flag("discovery", {"static", "driad", "auto"}), Flag("limit", {1}), Flag("insecure", {TRUE}),
         Flag("initial", {200}), Flag("maximum", {200}), Flag("protocol", {{"v4"}, {"v6"}}),
         Flag("group", {{Address("v4", "ssm")}, {Address("v6", "asm")}, {Address("v4", "link")}}),
         Flag("source", {{Unicast4}}), Flag("transparent", {TRUE}),
         Flag("local_interface", {{Unicast4}, {Unicast6}}), Flag("query_interval", {{}}),
         Flag("reporter_timeout", {69}), Flag("downstream", {{}}),
         [name : {"downstream"}, option : {"interface"}, value : {{Unicast4}, {Unicast6}}],
         [name : {"downstream"}, option : {"index"}, value : {{1}}],
         [name : {"downstream"}, option : {"loopback"}, value : {{FALSE}}],
         [name : {"driad-resolver"}, option : {"resolvers"}, value : {Resolver(2, TRUE), Resolver(3, FALSE)}]}

Linux == [route |-> {"v4", "v6"}, header |-> {"route", "explicit"}]
MacOs == [route |-> {"v4"}, header |-> {"explicit"}]
Windows == [route |-> {}, header |-> {}]

GatewayConfig == INSTANCE GatewayOptions WITH
  Files <- GatewayFiles, Flags <- GatewayFlags, SystemResolvers <- <<Resolver(0, FALSE)>>,
  Platforms <- {Linux, MacOs, Windows}, MaxFlags <- 2
-----------------------------------------------------------------------------
(* Relay options: the boundary of every check. *)

RelayAddress(family, name) == [family |-> family, name |-> name]
EmptyRelayFile ==
  [bind |-> {}, addresses |-> <<>>, upstream |-> {}, idle_timeout |-> {}, prune_interval |-> {},
   path_mtu |-> {}, pmtu_feedback |-> {}, rate |-> {}, limit |-> {}]

A4 == RelayAddress("v4", "a")
B4 == RelayAddress("v4", "b")
A6 == RelayAddress("v6", "a")

RelayFiles ==
  [bind : {{}, {A4}, {RelayAddress("v6", "zero")}}, addresses : {<<>>, <<A4>>, <<A6>>, <<A6, B4>>, <<RelayAddress("v6", "zero")>>},
   upstream : {{}, {A4}}, idle_timeout : {{}, {0}, {125}, {126}}, prune_interval : {{}},
   path_mtu : {{}, {1280}}, pmtu_feedback : {{}, {TRUE}}, rate : {{}}, limit : {{}, {0}}]
  \cup {[EmptyRelayFile EXCEPT !.prune_interval = {0}], [EmptyRelayFile EXCEPT !.path_mtu = {1279}],
        [EmptyRelayFile EXCEPT !.rate = {0}]}

RelayFlag(option, values) == [option : {option}, value : values]

RelayFlags ==
  UNION {RelayFlag("bind", {{B4}, {A6}}), RelayFlag("addresses", {A4, B4, A6}),
         RelayFlag("upstream", {{A4}}), RelayFlag("idle_timeout", {{}, {125}, {126}}), RelayFlag("prune_interval", {1}),
         RelayFlag("path_mtu", {65535}), RelayFlag("pmtu_feedback", {TRUE, FALSE})}

RelayConfig == INSTANCE RelayOptions WITH
  Files <- RelayFiles, Flags <- RelayFlags, QueryInterval <- 125, Mtu <- 1280..65535,
  Feedback <- TRUE, MaxFlags <- 2
-----------------------------------------------------------------------------
NoMessage == message = {} /\ datagram = {} /\ decoded = {}
NoDatagram == datagram = {} /\ decoded = {}
NoReport == packet = {} /\ sent = {} /\ damage = {} /\ changes = 0 /\ parsed = {}
NotReported == sent = {} /\ damage = {} /\ parsed = {}
NoQuery == seconds = 0 /\ interval = {}
NoOptions == phase = "none" /\ options = {} /\ given = {}

Init ==
  \/ input = "message" /\ Amt!Init /\ NoReport /\ NoQuery /\ NoOptions
  \/ input = "igmpv3 report" /\ NoMessage /\ Igmpv3Report!Init /\ NoQuery /\ NoOptions
  \/ input = "mldv2 report" /\ NoMessage /\ Mldv2Report!Init /\ NoQuery /\ NoOptions
  \/ input = "igmpv3 query" /\ NoMessage /\ NotReported /\ Igmpv3Query!Init /\ NoOptions
  \/ input = "mldv2 query" /\ NoMessage /\ NotReported /\ Mldv2Query!Init /\ NoOptions
  \/ input = "name" /\ Dns!Init /\ NoDatagram /\ NoReport /\ NoQuery /\ NoOptions
  \/ input = "gateway options" /\ NoMessage /\ NoReport /\ NoQuery /\ GatewayConfig!Init
  \/ input = "relay options" /\ NoMessage /\ NoReport /\ NoQuery /\ RelayConfig!Init

OnlyReport == UNCHANGED <<input, messageVars, queryVars, optionVars>>
OnlyQuery == UNCHANGED <<input, messageVars, sent, damage, parsed, optionVars>>
OnlyOptions == UNCHANGED <<input, messageVars, reportVars, queryVars>>

Next ==
  \/ input = "message" /\ Amt!Next /\ UNCHANGED <<input, reportVars, queryVars, optionVars>>
  \/ input = "igmpv3 report" /\ Igmpv3Report!Next /\ OnlyReport
  \/ input = "mldv2 report" /\ Mldv2Report!Next /\ OnlyReport
  \/ input = "igmpv3 query" /\ Igmpv3Query!Next /\ OnlyQuery
  \/ input = "mldv2 query" /\ Mldv2Query!Next /\ OnlyQuery
  \/ input = "name" /\ Dns!Next /\ UNCHANGED <<input, datagram, decoded, reportVars, queryVars, optionVars>>
  \/ input = "gateway options" /\ GatewayConfig!Next /\ OnlyOptions
  \/ input = "relay options" /\ RelayConfig!Next /\ OnlyOptions

Spec == Init /\ [][Next]_inputVars
-----------------------------------------------------------------------------
(* What is read is what was sent, or nothing: every decoder undoes its        *)
(* encoder, and accepts a datagram that was cut or changed only where that    *)
(* can be told from nothing else.  An interval is read as the least a code    *)
(* can say that is no shorter, and the reader of names moves forward whatever *)
(* the pointers are (AmtMessage, ReportCodec, QueryCodec, DnsName).           *)
ReadAsSent ==
  /\ input = "message" => Amt!RoundTrip /\ Amt!NothingIgnored
  /\ input = "igmpv3 report" =>
       Igmpv3Report!RoundTrip /\ Igmpv3Report!NothingIgnored /\ Igmpv3Report!DamageNoticed
  /\ input = "mldv2 report" =>
       Mldv2Report!RoundTrip /\ Mldv2Report!NothingIgnored /\ Mldv2Report!DamageNoticed
  /\ input = "igmpv3 query" => Igmpv3Query!IntervalLeast /\ Igmpv3Query!ReadAsSent
  /\ input = "mldv2 query" => Mldv2Query!IntervalLeast /\ Mldv2Query!ReadAsSent
  /\ input = "name" => Dns!NamesReadBack /\ Dns!ReaderMovesOn /\ Dns!RelayNameCanBeAsked

=============================================================================
