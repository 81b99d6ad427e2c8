--------------------------- MODULE GatewayOptions ---------------------------
(***************************************************************************)
(* How `amt gateway` gets its configuration (main.rs, daemon.rs): the file *)
(* is read, the flags are applied in the order they are given, the result  *)
(* is checked and turned into a GatewayDaemonConfig, which run_gateway     *)
(* checks again before anything is started.                                *)
(*                                                                         *)
(* An Option is a set of at most one element.  An address is its family    *)
(* and its kind: unicast, zero (unspecified), ssm and asm (multicast that  *)
(* is forwarded) or link (multicast that is not).  The limits and timers   *)
(* of DRIAD that are only required to be positive are one, limit, and so   *)
(* are those that the file may not even hold as 0, timeout.  ECN, metrics  *)
(* and the refresh interval meet no check.  A platform is the families     *)
(* whose packets it can send by its routes, and the ways in which it sends *)
(* an IPv6 packet with the header it is given.                             *)
(***************************************************************************)
EXTENDS Integers, Sequences

CONSTANTS Files,            \* what the configuration file may say
          Flags,            \* the flags that may be given, well formed
          SystemResolvers,  \* the resolvers of /etc/resolv.conf
          Platforms,        \* what the operating systems can send
          MaxFlags          \* bound on the number of flags

VARIABLES phase,    \* "file", "flags", "accepted", "running", "refused"
          options,  \* what is known so far
          given     \* the flags so far

vars == <<phase, options, given>>

Else(option, default) == IF option = {} THEN default ELSE CHOOSE x \in option : TRUE

Address(family, kind) == [family |-> family, kind |-> kind]
Socket(family, kind, port) == [family |-> family, kind |-> kind, port |-> port]
IsMulticast(a) == a.kind \in {"ssm", "asm", "link"}
IsValidSource(a) == a.kind = "unicast"
-----------------------------------------------------------------------------
(* The file.                                                               *)

(* Zero seconds turn a timer off. *)
Seconds(option, default) == IF option = {} THEN {default} ELSE option \ {0}

FileFails(f) ==
  \/ f.timeout = {0}
  \/ \E d \in f.downstream : d.ttl
  \/ \E l \in f.local : l.reporter_timeout = {0}

NoOptions == [interface |-> {}, index |-> {}, loopback |-> {}]

(* The table of the downstream counts even beside no_downstream. *)
FileDownstream(f) ==
  IF f.downstream # {}
  THEN {[interface |-> d.interface, index |-> d.index, loopback |-> d.loopback] : d \in f.downstream}
  ELSE IF f.no_downstream = {TRUE} THEN {} ELSE {NoOptions}

FromFile(f) ==
  LET local == Else(f.local, [interface |-> {}, query_interval |-> {}, reporter_timeout |-> {}])
  IN  [bind |-> f.bind, relay |-> f.relay, discovery |-> Else(f.discovery, "static"),
       resolvers |-> f.resolvers, insecure |-> Else(f.insecure, FALSE),
       timeout |-> Else(f.timeout, 1), limit |-> Else(f.limit, 1),
       initial |-> Else(f.initial, 4), maximum |-> Else(f.maximum, 120),
       protocol |-> f.protocol, group |-> f.group, source |-> f.source, joins |-> f.joins,
       downstream |-> FileDownstream(f),
       transparent |-> Else(f.transparent, f.local # {}),
       local_interface |-> local.interface,
       query_interval |-> Seconds(local.query_interval, 30),
       reporter_timeout |-> Else(local.reporter_timeout, 260)]
-----------------------------------------------------------------------------
(* The flags.  One that sets an option holds the name and the new value.   *)

(* A flag of the downstream brings it back after --no-downstream. *)
ApplyDownstream(o, flag) ==
  [o EXCEPT !.downstream = {[Else(@, NoOptions) EXCEPT ![flag.option] = flag.value]}]

ApplyFlag(o, flag) ==
  CASE flag.name = "driad-resolver" -> [o EXCEPT !.resolvers = Append(@, flag.value)]
    [] flag.name = "downstream" -> ApplyDownstream(o, flag)
    [] flag.name = "set" -> [o EXCEPT ![flag.option] = flag.value]
-----------------------------------------------------------------------------
(* The checks of parse_gateway_config.                                     *)

ValidDriadOptions(o) ==
  /\ o.timeout > 0 /\ o.limit > 0 /\ o.initial > 0 /\ o.maximum > 0
  /\ o.initial <= o.maximum

(* validate_gateway_join *)
ValidJoin(join) ==
  /\ join.group.kind \in {"ssm", "asm"}
  /\ \A s \in join.source : s.family = join.group.family /\ IsValidSource(s)

Joins(o) == o.joins \o (IF o.group = {} THEN <<>> ELSE <<[group |-> Else(o.group, {}), source |-> o.source]>>)

(* The protocol is given, or that of the group, or of the first join. *)
Protocol(o) ==
  LET first == IF o.group # {} THEN o.group ELSE {o.joins[n].group : n \in 1..Len(o.joins) \cap {1}}
  IN  Else(o.protocol, Else({a.family : a \in first}, "v4"))

(* DownstreamConfig::validate_options_for_family *)
ValidDownstream(d, family) ==
  /\ \A a \in d.interface : a.family = family
  /\ d.index # {0}
  /\ family = "v4" => d.index = {}
  /\ family = "v6" => d.loopback # {TRUE}

JoinsMatch(o) ==
  \A n \in 1..Len(Joins(o)) : ValidJoin(Joins(o)[n]) /\ Joins(o)[n].group.family = Protocol(o)


InterfacesMatch(o) ==
  /\ \A a \in o.local_interface : a.family = Protocol(o)
  /\ \A d \in o.downstream : ValidDownstream(d, Protocol(o))

(* Two queries may be lost before a reporter is forgotten. *)
AgingCovered(o) ==
  o.transparent => \A i \in o.query_interval : o.reporter_timeout >= 2 * i + 10
-----------------------------------------------------------------------------
(* Relays.                                                                 *)

(* resolve_gateway_relays *)
UsesDriad(o) == o.discovery = "driad" \/ (o.discovery = "auto" /\ o.relay = {})

Resolvers(o) == IF o.resolvers = <<>> THEN SystemResolvers ELSE o.resolvers

(* DriadResolver::validate; the timers were checked before. *)
ValidResolvers(r, insecure) ==
  r # <<>> /\ (insecure \/ \A n \in 1..Len(r) : r[n].loopback)

(* driad_sources_for_joins *)
ValidDriadJoins(o) ==
  /\ Joins(o) # <<>> \/ o.transparent
  /\ \A n \in 1..Len(Joins(o)) :
       /\ Joins(o)[n].group.kind = "ssm"
       /\ Joins(o)[n].source # {}

Anycast(o) == Socket(Else({b.family : b \in o.bind}, "v4"), "unicast", "amt")

(* resolve_driad_relays, or the configured relay. *)
Relay(o) ==
  IF ~UsesDriad(o) THEN o.relay
  ELSE IF /\ \A b \in o.bind : b.port = "zero"
          /\ ValidDriadJoins(o)
          /\ ValidResolvers(Resolvers(o), o.insecure)
       THEN {Anycast(o)} ELSE {}

ValidRelay(o) ==
  /\ Relay(o) # {}
  /\ \A r \in Relay(o) :
       IsValidSource(r) /\ r.port # "zero" /\ \A b \in o.bind : b.family = r.family

Acceptable(o) ==
  /\ ValidDriadOptions(o)
  /\ o.group # {} \/ o.joins # <<>> \/ o.transparent
  /\ o.source # {} => o.group # {}
  /\ AgingCovered(o)
  /\ JoinsMatch(o)
  /\ InterfacesMatch(o)
  /\ ValidRelay(o)
-----------------------------------------------------------------------------
(* The GatewayDaemonConfig and its second check.                           *)

(* A local membership without an interface uses that of the downstream. *)
LocalInterface(o) ==
  IF o.local_interface # {} THEN o.local_interface ELSE UNION {d.interface : d \in o.downstream}

RouteSelected(d) == d.interface = {} /\ d.index = {}

(* GatewayDaemonConfig::validate, on the local queries. *)
CanQuery(o) ==
  (o.transparent /\ o.downstream # {} /\ o.query_interval # {})
    => /\ \E a \in LocalInterface(o) : a.family = Protocol(o) /\ a.kind # "zero"
       /\ Protocol(o) = "v6" => \A d \in o.downstream : ~RouteSelected(d)

(* GatewayDriadConfig::validate *)
ValidDriadConfig(o) ==
  UsesDriad(o) => /\ ValidResolvers(Resolvers(o), o.insecure)
                  /\ \A b \in o.bind : b.port = "zero"
                  /\ ValidDriadOptions(o)

(* DownstreamConfig::validate_for_family, what it asks of the platform. *)
CanPublish(d, family, platform) ==
  /\ RouteSelected(d) => family \in platform.route
  /\ family = "v6" => (IF RouteSelected(d) THEN "route" ELSE "explicit") \in platform.header

ValidateDaemon(o, platform) ==
  /\ CanQuery(o)
  /\ \A d \in o.downstream :
       ValidDownstream(d, Protocol(o)) /\ CanPublish(d, Protocol(o), platform)
  /\ ValidDriadConfig(o)
-----------------------------------------------------------------------------
Init == phase = "file" /\ options = <<>> /\ given = <<>>

LoadFile ==
  /\ phase = "file"
  /\ \E f \in Files :
       /\ phase' = IF FileFails(f) THEN "refused" ELSE "flags"
       /\ options' = IF FileFails(f) THEN options ELSE FromFile(f)
  /\ UNCHANGED given

Flag ==
  /\ phase = "flags" /\ Len(given) < MaxFlags
  /\ \E flag \in Flags : options' = ApplyFlag(options, flag) /\ given' = Append(given, flag)
  /\ UNCHANGED phase

(* A flag that is malformed, unknown, or zero where that is not allowed. *)
WrongFlag ==
  /\ phase = "flags"
  /\ phase' = "refused" /\ options' = <<>> /\ given' = <<>>

Finish ==
  /\ phase = "flags"
  /\ phase' = IF Acceptable(options) THEN "accepted" ELSE "refused"
  /\ UNCHANGED <<options, given>>

(* run_gateway.  The library that sends the packets has the last word on how *)
(* it is to send them (RawPublicationConfig::validate).                       *)
Run ==
  /\ phase = "accepted"
  /\ \E platform \in Platforms, valid \in BOOLEAN :
       phase' = IF ValidateDaemon(options, platform) /\ (options.downstream = {} \/ valid)
                THEN "running" ELSE "refused"
  /\ UNCHANGED <<options, given>>

(* The next start of the program. *)
Again == phase \in {"running", "refused"} /\ phase' = "file" /\ options' = <<>> /\ given' = <<>>

Next == LoadFile \/ Flag \/ WrongFlag \/ Finish \/ Run \/ Again

Spec == Init /\ [][Next]_vars
-----------------------------------------------------------------------------
(* A gateway that runs was given what the loops rely on, whatever mixture of  *)
(* file and flags it came from (parse_gateway_config, then validate): tunnel  *)
(* addresses of one family, joins that the protocol can report, with DRIAD a  *)
(* source for every join and a port that every tunnel can share, growing      *)
(* traffic timeouts, and a source address for the local queries.              *)
RunningIsSound ==
  phase = "running" =>
    LET joins == Joins(options)
    IN  /\ \A r \in Relay(options), b \in options.bind : r.family = b.family
        /\ \A n \in 1..Len(joins) :
             /\ joins[n].group.family = Protocol(options)
             /\ joins[n].group.kind # "link" /\ IsMulticast(joins[n].group)
             /\ UsesDriad(options) => joins[n].source # {}
        /\ UsesDriad(options) => /\ \A b \in options.bind : b.port = "zero"
                                 /\ options.initial \in 1..options.maximum
        /\ (options.transparent /\ options.downstream # {} /\ options.query_interval # {})
             => \E a \in LocalInterface(options) : a = Address(Protocol(options), "unicast")

(* The two checks agree: what parse_gateway_config accepts is refused by      *)
(* run_gateway only because local queries could not be sent, because the      *)
(* platform cannot send the packets in the way that is asked for, or by the   *)
(* library that sends them.                                                   *)
ChecksAgree ==
  phase = "accepted" =>
    \A platform \in Platforms :
      \/ ValidateDaemon(options, platform)
      \/ ~CanQuery(options)
      \/ \E d \in options.downstream : ~CanPublish(d, Protocol(options), platform)

(* Every option but --driad-resolver has the value of the last flag about it, *)
(* whatever the file says; of the flags about the downstream the last one     *)
(* also says whether there is one.                                            *)
LastFlagWins ==
  phase \in {"flags", "accepted", "running"} =>
    \A n \in 1..Len(given) :
      LET flag == given[n]
          later == {given[m] : m \in n + 1..Len(given)}
          overridden ==
            \E l \in later : \/ l.name = flag.name /\ l.option = flag.option
                             \/ l.name = "downstream" /\ flag.option = "downstream"
                             \/ l.option = "downstream" /\ flag.name = "downstream"
      IN  \/ overridden \/ flag.name = "driad-resolver"
          \/ flag.name = "set" /\ options[flag.option] = flag.value
          \/ flag.name = "downstream" /\ \E d \in options.downstream : d[flag.option] = flag.value

(* Each --driad-resolver adds to the resolvers of the file: those of the      *)
(* flags are the last ones, in their order.                                   *)
ResolversAdded ==
  phase \in {"flags", "accepted", "running"} =>
    LET added == SelectSeq(given, LAMBDA flag : flag.name = "driad-resolver")
        before == Len(options.resolvers) - Len(added)
    IN  before >= 0 /\ \A n \in 1..Len(added) : options.resolvers[before + n] = added[n].value
=============================================================================
