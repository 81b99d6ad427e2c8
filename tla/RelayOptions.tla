---------------------------- MODULE RelayOptions ----------------------------
(***************************************************************************)
(* How `amt relay` gets its configuration (main.rs, daemon.rs, relay.rs):  *)
(* the file is read and checked, the flags are applied in the order they   *)
(* are given, the result is checked.  What a relay that starts was given   *)
(* is what the modules of the running relay assume of their constants.     *)
(*                                                                         *)
(* An Option is a set of at most one element.  An address is its family    *)
(* and a name, with "zero" for the unspecified one.  The limits are one    *)
(* option, and so are the rates.                                           *)
(***************************************************************************)
EXTENDS Integers, Sequences, FiniteSetsExt

CONSTANTS Files,          \* what the configuration file may say
          Flags,          \* the flags that may be given, well formed
          QueryInterval,  \* the interval that the relay advertises, 125
          Mtu,            \* the path MTUs that are allowed, 1280..65535
          Feedback,       \* built with the feature pmtu-feedback
          MaxFlags        \* bound on the number of flags

VARIABLES phase,    \* "file", "flags", "running", "refused"
          options,  \* what is known so far
          given     \* the number of flags so far

vars == <<phase, options, given>>

Else(option, default) == IF option = {} THEN default ELSE CHOOSE x \in option : TRUE

Address(family, name) == [family |-> family, name |-> name]
Loopback(family) == Address(family, "loopback")
-----------------------------------------------------------------------------
(* What the file may not say, even if a flag would override it. *)
FileFails(f) ==
  \/ f.prune_interval = {0}
  \/ \E mtu \in f.path_mtu : mtu \notin Mtu
  \/ f.rate = {0}

FromFile(f) ==
  [bind |-> f.bind, addresses |-> f.addresses, upstream |-> f.upstream,
   idle_timeout |-> IF f.idle_timeout = {} THEN {260} ELSE f.idle_timeout \ {0},
   prune_interval |-> Else(f.prune_interval, 5), path_mtu |-> Else(f.path_mtu, 1500),
   pmtu_feedback |-> Else(f.pmtu_feedback, FALSE), rate |-> Else(f.rate, 10),
   limit |-> Else(f.limit, 256)]

(* --relay-address adds one; the other flags set their option. *)
ApplyFlag(o, flag) ==
  IF flag.option = "addresses" THEN [o EXCEPT !.addresses = Append(@, flag.value)]
  ELSE [o EXCEPT ![flag.option] = flag.value]

(* Without --bind, the family of the addresses decides; IPv4 if in doubt. *)
Bind(o) ==
  LET families == {o.addresses[n].family : n \in 1..Len(o.addresses)}
  IN  Else(o.bind, Address(IF families = {"v6"} THEN "v6" ELSE "v4", "zero"))

(* RelayConfig::for_bind, then with_advertise_addr for every address.  *)
Advertised(o, family) ==
  LET configured == {n \in 1..Len(o.addresses) : o.addresses[n].family = family}
  IN  IF configured # {} THEN o.addresses[Max(configured)]
      ELSE IF Bind(o).family = family /\ Bind(o).name # "zero" THEN Bind(o)
      ELSE Loopback(family)

(* RelayDaemonConfig::validate *)
Validate(o) == \A timeout \in o.idle_timeout : timeout > QueryInterval

Acceptable(o) ==
  /\ \A n \in 1..Len(o.addresses) : o.addresses[n].name # "zero"
  /\ o.pmtu_feedback => Feedback /\ o.upstream # {}
  /\ o.limit # 0
  /\ Validate(o)
-----------------------------------------------------------------------------
Init == phase = "file" /\ options = <<>> /\ given = 0

LoadFile ==
  /\ phase = "file"
  /\ \E f \in Files :
       /\ phase' = IF FileFails(f) THEN "refused" ELSE "flags"
       /\ options' = FromFile(f)
  /\ UNCHANGED given

Flag ==
  /\ phase = "flags" /\ given < MaxFlags
  /\ \E flag \in Flags : options' = ApplyFlag(options, flag)
  /\ given' = given + 1
  /\ UNCHANGED phase

(* A flag that is malformed, unknown or out of range. *)
WrongFlag == phase = "flags" /\ phase' = "refused" /\ UNCHANGED <<options, given>>

Finish ==
  /\ phase = "flags"
  /\ phase' = IF Acceptable(options) THEN "running" ELSE "refused"
  /\ UNCHANGED <<options, given>>

(* The next start of the program. *)
Again == phase \in {"running", "refused"} /\ phase' = "file" /\ options' = <<>> /\ given' = 0

Next == LoadFile \/ Flag \/ WrongFlag \/ Finish \/ Again

Spec == Init /\ [][Next]_vars
-----------------------------------------------------------------------------
(* A relay that runs prunes a gateway only after it has missed a query; its   *)
(* rates, limits and intervals are positive and its MTU is one that every IPv6 *)
(* path has, as RelayState and DataPath assume, by the file and by the flags    *)
(* (parse_relay_config).                                                      *)
AssumptionsKept ==
  phase = "running" =>
    /\ \A timeout \in options.idle_timeout : timeout > QueryInterval
    /\ options.prune_interval > 0 /\ options.rate > 0 /\ options.limit > 0
    /\ options.path_mtu \in Mtu
    /\ options.pmtu_feedback => options.upstream # {}

(* A relay that was given addresses and no --bind advertises one of them to   *)
(* the gateways that can reach it: it listens in a family it has one for.     *)
GivenIsAdvertised ==
  (phase = "running" /\ options.bind = {} /\ options.addresses # <<>>)
    => \E n \in 1..Len(options.addresses) :
         Advertised(options, Bind(options).family) = options.addresses[n]
=============================================================================
