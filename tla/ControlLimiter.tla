--------------------------- MODULE ControlLimiter ---------------------------
(***************************************************************************)
(* The relay's limit on control datagrams (ControlRateLimiter in           *)
(* daemon.rs): a token bucket for each source address, in a table of       *)
(* bounded size, and one for all of them.                                  *)
(*                                                                         *)
(* A datagram costs Cost units, so that a refill of a fraction of a token  *)
(* is a whole number of units; the rounding of f64 is left out.  A bucket  *)
(* is refilled when it is used: until then it only has an age.             *)
(***************************************************************************)
EXTENDS Integers, FiniteSets

CONSTANTS Ip,          \* source addresses
          Cost,        \* the units of one token
          Rate,        \* per_source_rate: units per tick
          Burst,       \* per_source_burst, in units
          GlobalRate,  \* global_rate
          GlobalBurst, \* global_burst
          Capacity,    \* source_capacity
          Cleanup,     \* the 60 seconds between and before cleanups, in ticks
          AgeCap       \* ages are not counted further

(* A bucket is full when its age reaches the cap. *)
AgesSuffice == AgeCap * Rate >= Burst /\ AgeCap * GlobalRate >= GlobalBurst

ASSUME LimiterAssumption ==
         /\ Cost \in Nat \ {0} /\ Rate \in Nat \ {0} /\ GlobalRate \in Nat \ {0}
         /\ Burst \in Nat /\ GlobalBurst \in Nat /\ Capacity \in Nat
         /\ Cleanup \in Nat \ {0} /\ AgeCap \in Nat
         /\ Burst >= Cost /\ GlobalBurst >= Cost
         /\ AgesSuffice
         /\ AgeCap >= 2 * Cleanup

VARIABLES sources,   \* sources: address -> tokens and the time since they were counted
          global,    \* global
          cleaned,   \* the time since last_cleanup
          quiet,     \* for each address: the time since its bucket was used, up to Cleanup
          debt,      \* for each address: what its datagrams cost since it was last quiet for
                     \* that long, less what time has paid
          owed       \* the same for all datagrams, from the start

vars == <<sources, global, cleaned, quiet, debt, owed>>
-----------------------------------------------------------------------------
Least(a, b) == IF a <= b THEN a ELSE b
Most(a, b) == IF a >= b THEN a ELSE b

(* The first statement of TokenBucket::take. *)
Refilled(bucket, rate, burst) == Least(bucket.tokens + bucket.age * rate, burst)

Bucket(tokens) == [tokens |-> tokens, age |-> 0]

(* TokenBucket::take, given the refilled tokens: the bucket after it. *)
Taken(tokens) == Bucket(IF tokens < Cost THEN tokens ELSE tokens - Cost)

Init ==
  /\ sources = [x \in {} |-> Bucket(0)]
  /\ global = Bucket(GlobalBurst)
  /\ cleaned = 0
  /\ quiet = [x \in Ip |-> Cleanup]
  /\ debt = [x \in Ip |-> 0]
  /\ owed = 0

(* The cleanup in ControlRateLimiter::allow. *)
Kept ==
  IF cleaned >= Cleanup THEN {x \in DOMAIN sources : sources[x].age < Cleanup} ELSE DOMAIN sources

(* What a source's bucket holds when it is used; a new one is full. *)
Tokens(ip) == IF ip \in Kept THEN Refilled(sources[ip], Rate, Burst) ELSE Burst

Refused(ip) == ip \notin Kept /\ Cardinality(Kept) >= Capacity

(* Mutant: the global token is taken first. *)
AllowGlobalFirst(ip) ==
  LET all == Refilled(global, GlobalRate, GlobalBurst)
  IN  /\ cleaned' = IF cleaned >= Cleanup THEN 0 ELSE cleaned
      /\ global' = Taken(all)
      /\ IF Refused(ip) \/ all < Cost
         THEN sources' = [x \in Kept |-> sources[x]] /\ UNCHANGED <<quiet, debt, owed>>
         ELSE /\ sources' = [x \in Kept \cup {ip} |-> IF x = ip THEN Taken(Tokens(ip)) ELSE sources[x]]
              /\ quiet' = [quiet EXCEPT ![ip] = 0]
              /\ IF Tokens(ip) >= Cost
                 THEN debt' = [debt EXCEPT ![ip] = @ + Cost] /\ owed' = owed + Cost
                 ELSE UNCHANGED <<debt, owed>>

(* ControlRateLimiter::allow for a datagram from ip.  A refused datagram still  *)
(* has its source seen, and one the global bucket refuses has used a token of   *)
(* its source.                                                                  *)
Allow(ip) ==
  LET all == Refilled(global, GlobalRate, GlobalBurst)
  IN  /\ cleaned' = IF cleaned >= Cleanup THEN 0 ELSE cleaned
      /\ IF Refused(ip)
         THEN /\ sources' = [x \in Kept |-> sources[x]]
              /\ UNCHANGED <<global, quiet, debt, owed>>
         ELSE /\ sources' = [x \in Kept \cup {ip} |-> IF x = ip THEN Taken(Tokens(ip)) ELSE sources[x]]
              /\ quiet' = [quiet EXCEPT ![ip] = 0]
              /\ IF Tokens(ip) < Cost THEN UNCHANGED <<global, debt, owed>>
                 ELSE /\ global' = Taken(all)
                      /\ IF all < Cost THEN UNCHANGED <<debt, owed>>
                         ELSE debt' = [debt EXCEPT ![ip] = @ + Cost] /\ owed' = owed + Cost

Older(bucket) == [bucket EXCEPT !.age = Least(@ + 1, AgeCap)]

Tick ==
  /\ sources' = [x \in DOMAIN sources |-> Older(sources[x])]
  /\ global' = Older(global)
  /\ cleaned' = Least(cleaned + 1, Cleanup)
  /\ quiet' = [x \in Ip |-> Least(quiet[x] + 1, Cleanup)]
  /\ debt' = [x \in Ip |-> IF quiet[x] + 1 >= Cleanup THEN 0 ELSE Most(0, debt[x] - Rate)]
  /\ owed' = Most(0, owed - GlobalRate)

Next == Tick \/ \E ip \in Ip : Allow(ip)

Spec == Init /\ [][Next]_vars
-----------------------------------------------------------------------------
IsBucket(bucket, burst) ==
  bucket = [tokens |-> bucket.tokens, age |-> bucket.age]
  /\ bucket.tokens \in 0..burst /\ bucket.age \in 0..AgeCap

(* The types of the buckets and of the table (ControlRateLimiter, TokenBucket). *)
TypeOK ==
  /\ DOMAIN sources \subseteq Ip
  /\ sources = [x \in DOMAIN sources |-> sources[x]]
  /\ \A x \in DOMAIN sources : IsBucket(sources[x], Burst)
  /\ IsBucket(global, GlobalBurst)
  /\ cleaned \in 0..Cleanup
  /\ quiet \in [Ip -> 0..Cleanup]
  /\ debt \in [Ip -> Nat]
  /\ owed \in Nat

(* The global bucket lacks exactly what the datagrams that were let through     *)
(* have used: in no interval are there more of them than burst and rate allow,  *)
(* and what a source sends in excess costs the others nothing (allow).          *)
GlobalExact == Refilled(global, GlobalRate, GlobalBurst) + owed = GlobalBurst

(* In no interval without a silence of Cleanup does a source get more datagrams *)
(* through than its burst and rate allow, whatever the cleanups, the full table *)
(* and the other sources do meanwhile (allow).                                  *)
SourceBounded == \A x \in Ip : debt[x] <= Burst

(* If a burst is paid within Cleanup, such a silence forgives nothing: it ends  *)
(* with a tick that pays what is left.  The code does not relate the two; with  *)
(* a larger burst a source that keeps silent for a minute starts afresh.        *)
SilencePays ==
  Cleanup * Rate >= Burst => \A x \in Ip : quiet[x] + 1 >= Cleanup => debt[x] <= Rate

(* The table never holds more than its capacity, and a source is turned away    *)
(* for want of room only if every place is taken by one that was seen within    *)
(* the last two cleanup intervals.                                              *)
RefusalJustified ==
  /\ Cardinality(DOMAIN sources) <= Capacity
  /\ \A ip \in Ip : Refused(ip) => \A x \in Kept : sources[x].age < 2 * Cleanup

(* Admission is exact: all sources together get what their burst and rate     *)
(* allow and no more, none exceeds its own until it has been silent for a     *)
(* cleanup interval, and only a full table turns a new source away            *)
(* (ControlRateLimiter::allow).                                               *)
AdmissionExact == TypeOK /\ GlobalExact /\ SourceBounded /\ RefusalJustified
=============================================================================
