-------------------------- MODULE ServicesProofs --------------------------
(***************************************************************************)
(* Three parts that the relay and the gateway call: the limiter of control *)
(* datagrams, whose records are compared with what each address really     *)
(* spent, the native subscriptions, whose inductive invariant says where a *)
(* subscription can be at each point of reconcile's loop, and the data     *)
(* path with the limiter of its feedback, where every piece of a packet is *)
(* followed from the relay to the hosts.                                   *)
(***************************************************************************)
EXTENDS ControlLimiter, UpstreamManager, DataPath,
        FiniteSetTheorems, TLAPS

-----------------------------------------------------------------------------
(* The control limiter.                                                    *)

(* A refill is between nothing and the burst, and complete at the age cap      *)
(* (TokenBucket::take).                                                        *)
LEMMA RefilledType ==
  ASSUME NEW rate \in Nat, NEW burst \in Nat, NEW b, IsBucket(b, burst)
  PROVE  Refilled(b, rate, burst) \in 0..burst
<1>1. b.tokens \in Nat /\ b.age \in Nat /\ b.tokens <= burst
  BY SMTT(30), LimiterAssumption DEF IsBucket
<1>2. b.age * rate \in Nat
  BY SMTT(30), <1>1
<1>. QED  BY SMTT(30), <1>1, <1>2 DEF Refilled, Least

(* After a tick a refill is larger by the rate, up to the burst.               *)
LEMMA RefilledOlder ==
  ASSUME NEW rate \in Nat, NEW burst \in Nat, NEW b, IsBucket(b, burst), AgeCap * rate >= burst
  PROVE  /\ IsBucket(Older(b), burst)
         /\ Refilled(Older(b), rate, burst) = Least(Refilled(b, rate, burst) + rate, burst)
<1>1. b.tokens \in Nat /\ b.age \in Nat /\ b.tokens <= burst /\ b.age <= AgeCap /\ AgeCap \in Nat
  BY SMTT(30), LimiterAssumption DEF IsBucket
<1>2. Older(b) = [tokens |-> b.tokens, age |-> Least(b.age + 1, AgeCap)]
  BY SMTT(30), <1>1 DEF Older, IsBucket
<1>3. b.age * rate \in Nat /\ (b.age + 1) * rate = b.age * rate + rate
  BY SMTT(30), <1>1
<1>4. CASE b.age = AgeCap
  <2>1. Least(b.age + 1, AgeCap) = AgeCap
    BY SMTT(30), <1>1, <1>4 DEF Least
  <2>. QED  BY SMTT(30), <1>1, <1>2, <1>3, <1>4, <2>1 DEF IsBucket, Refilled, Least
<1>5. CASE b.age < AgeCap
  <2>1. Least(b.age + 1, AgeCap) = b.age + 1
    BY SMTT(30), <1>1, <1>5 DEF Least
  <2>. QED  BY SMTT(30), <1>1, <1>2, <1>3, <1>5, <2>1 DEF IsBucket, Refilled, Least
<1>. QED  BY SMTT(30), <1>1, <1>4, <1>5

(* A fresh bucket holds what it was given. *)
LEMMA RefilledBucket ==
  ASSUME NEW rate \in Nat, NEW burst \in Nat, NEW n \in 0..burst
  PROVE  IsBucket(Bucket(n), burst) /\ Refilled(Bucket(n), rate, burst) = n
<1>1. Bucket(n).tokens = n /\ Bucket(n).age = 0 /\ 0 * rate = 0
  BY SMTT(30) DEF Bucket
<1>. QED  BY SMTT(30), <1>1, LimiterAssumption DEF IsBucket, Bucket, Refilled, Least

(* What take leaves behind (TokenBucket::take). *)
LEMMA TakenType ==
  ASSUME NEW burst \in Nat, NEW n \in 0..burst, NEW rate \in Nat
  PROVE  /\ IsBucket(Taken(n), burst)
         /\ Refilled(Taken(n), rate, burst) = IF n < Cost THEN n ELSE n - Cost
<1>1. (IF n < Cost THEN n ELSE n - Cost) \in 0..burst
  BY SMTT(30), LimiterAssumption
<1>. QED  BY Zenon, <1>1, RefilledBucket DEF Taken

(* The types of the limiter's state are kept (ControlRateLimiter). *)
THEOREM TypeCorrect == Spec => []TypeOK
<1>1. Init => TypeOK
  <2>. SUFFICES ASSUME Init PROVE TypeOK
    BY Zenon
  <2>1. IsBucket(global, GlobalBurst)
    BY SMTT(30), RefilledBucket, LimiterAssumption DEF Init
  <2>. QED  BY SMTT(30), <2>1, LimiterAssumption DEF Init, TypeOK
<1>2. TypeOK /\ [Next]_vars => TypeOK'
  <2>. SUFFICES ASSUME TypeOK, [Next]_vars PROVE TypeOK'
    BY Zenon
  <2>1. CASE Tick
    <3>1. \A x \in DOMAIN sources : IsBucket(Older(sources[x]), Burst)
      BY SMTT(30), RefilledOlder, LimiterAssumption DEF TypeOK
    <3>2. IsBucket(Older(global), GlobalBurst)
      BY SMTT(30), RefilledOlder, LimiterAssumption DEF TypeOK
    <3>3. /\ DOMAIN sources' = DOMAIN sources
          /\ \A x \in DOMAIN sources : sources'[x] = Older(sources[x])
          /\ sources' = [x \in DOMAIN sources' |-> sources'[x]]
      BY Zenon, <2>1 DEF Tick
    <3>4. cleaned' \in 0..Cleanup
      BY SMTT(30), <2>1, LimiterAssumption DEF Tick, TypeOK, Least
    <3>5. debt' \in [Ip -> Nat] /\ owed' \in Nat
      BY SMTT(30), <2>1, LimiterAssumption DEF Tick, TypeOK, Most
    <3>6. quiet' \in [Ip -> 0..Cleanup]
      BY SMTT(30), <2>1, LimiterAssumption DEF Tick, TypeOK, Least
    <3>. QED  BY Zenon, <2>1, <3>1, <3>2, <3>3, <3>4, <3>5, <3>6 DEF Tick, TypeOK
  <2>2. ASSUME NEW ip \in Ip, Allow(ip) PROVE TypeOK'
    <3>1. Kept \subseteq DOMAIN sources
      BY Zenon DEF Kept
    <3>2. Tokens(ip) \in 0..Burst
      BY SMTT(30), <3>1, RefilledType, LimiterAssumption DEF Tokens, TypeOK
    <3>3. IsBucket(Taken(Tokens(ip)), Burst)
      BY Zenon, <3>2, TakenType, LimiterAssumption
    <3>4. IsBucket(Taken(Refilled(global, GlobalRate, GlobalBurst)), GlobalBurst)
      BY Zenon, RefilledType, TakenType, LimiterAssumption DEF TypeOK
    <3>5. /\ DOMAIN sources' \subseteq Ip
          /\ sources' = [x \in DOMAIN sources' |-> sources'[x]]
          /\ \A x \in DOMAIN sources' : IsBucket(sources'[x], Burst)
      BY SMTT(30), <2>2, <3>1, <3>3 DEF Allow, TypeOK
    <3>6. IsBucket(global', GlobalBurst)
      BY Zenon, <2>2, <3>4 DEF Allow, TypeOK
    <3>7. cleaned' \in 0..Cleanup
      BY SMTT(30), <2>2, LimiterAssumption DEF Allow, TypeOK
    <3>8. debt' \in [Ip -> Nat] /\ owed' \in Nat
      BY SMTT(30), <2>2, LimiterAssumption DEF Allow, TypeOK
    <3>9. quiet' \in [Ip -> 0..Cleanup]
      BY SMTT(30), <2>2, LimiterAssumption DEF Allow, TypeOK
    <3>. QED  BY Zenon, <3>5, <3>6, <3>7, <3>8, <3>9 DEF TypeOK
  <2>3. CASE UNCHANGED vars
    BY Zenon, <2>3 DEF vars, TypeOK
  <2>. QED  BY Zenon, <2>1, <2>2, <2>3 DEF Next
<1>. QED  BY <1>1, <1>2, PTL DEF Spec
-----------------------------------------------------------------------------
(* The global bucket and the datagrams let through always add up to the burst, *)
(* so that bursts and rates are kept for all sources together (allow).         *)
THEOREM GlobalRateKept == Spec => []GlobalExact
<1>1. Init => GlobalExact
  <2>. SUFFICES ASSUME Init PROVE GlobalExact
    BY Zenon
  <2>1. Refilled(global, GlobalRate, GlobalBurst) = GlobalBurst
    BY SMTT(30), RefilledBucket, LimiterAssumption DEF Init
  <2>. QED  BY SMTT(30), <2>1, LimiterAssumption DEF Init, GlobalExact
<1>2. TypeOK /\ GlobalExact /\ [Next]_vars => GlobalExact'
  <2>. SUFFICES ASSUME TypeOK, GlobalExact, [Next]_vars PROVE GlobalExact'
    BY Zenon
  <2>. DEFINE all == Refilled(global, GlobalRate, GlobalBurst)
  <2>0. all \in 0..GlobalBurst /\ owed \in Nat /\ all + owed = GlobalBurst
    BY Zenon, RefilledType, LimiterAssumption DEF TypeOK, GlobalExact
  <2>1. CASE Tick
    <3>1. Refilled(global', GlobalRate, GlobalBurst) = Least(all + GlobalRate, GlobalBurst)
      BY Zenon, <2>1, RefilledOlder, LimiterAssumption DEF Tick, TypeOK, AgesSuffice
    <3>2. owed' = Most(0, owed - GlobalRate)
      BY Zenon, <2>1 DEF Tick
    <3>. QED  BY SMTT(30), <2>0, <3>1, <3>2, LimiterAssumption DEF Least, Most, GlobalExact
  <2>2. ASSUME NEW ip \in Ip, Allow(ip) PROVE GlobalExact'
    <3>1. Refilled(Taken(all), GlobalRate, GlobalBurst) = IF all < Cost THEN all ELSE all - Cost
      BY Zenon, <2>0, TakenType, LimiterAssumption
    <3>2. CASE global' = global /\ owed' = owed
      BY Zenon, <3>2 DEF GlobalExact
    <3>3. CASE global' = Taken(all) /\ owed' = IF all < Cost THEN owed ELSE owed + Cost
      BY SMTT(30), <2>0, <3>1, <3>3, LimiterAssumption DEF GlobalExact
    <3>. QED  BY Zenon, <2>2, <3>2, <3>3 DEF Allow
  <2>3. CASE UNCHANGED vars
    BY Zenon, <2>3 DEF vars, GlobalExact
  <2>. QED  BY Zenon, <2>1, <2>2, <2>3 DEF Next
<1>. QED  BY <1>1, <1>2, TypeCorrect, PTL DEF Spec
-----------------------------------------------------------------------------
(* The bucket of a source lacks at least what its datagrams have used since it *)
(* was last quiet for a cleanup interval, it is as old as the source has been  *)
(* quiet, and a source without a bucket has nothing to pay.                    *)
SourceOK(x) ==
  IF x \in DOMAIN sources
  THEN /\ Refilled(sources[x], Rate, Burst) + debt[x] <= Burst
       /\ quiet[x] = Least(sources[x].age, Cleanup)
       /\ quiet[x] = Cleanup => debt[x] = 0
  ELSE debt[x] = 0 /\ quiet[x] = Cleanup

SourceInv == \A x \in Ip : SourceOK(x)

(* A bucket and its source's silence grow together up to a cleanup interval.   *)
LEMMA AgesTogether ==
  ASSUME NEW age \in Nat
  PROVE  Least(Least(age + 1, AgeCap), Cleanup) = Least(Least(age, Cleanup) + 1, Cleanup)
  BY SMTT(30), LimiterAssumption DEF Least

(* A tick keeps the account of each source. *)
LEMMA TickKeepsAccount ==
  ASSUME TypeOK, SourceInv, Tick, NEW x \in Ip
  PROVE  SourceOK(x)'
<1>1. /\ debt[x] \in Nat /\ quiet[x] \in 0..Cleanup /\ DOMAIN sources' = DOMAIN sources
      /\ debt'[x] = (IF quiet[x] + 1 >= Cleanup THEN 0 ELSE Most(0, debt[x] - Rate))
      /\ quiet'[x] = Least(quiet[x] + 1, Cleanup)
  BY Zenon DEF Tick, TypeOK
<1>2. quiet'[x] = Cleanup => debt'[x] = 0
  BY SMTT(30), <1>1, LimiterAssumption DEF Least
<1>3. CASE x \in DOMAIN sources
  <2>1. sources'[x] = Older(sources[x]) /\ IsBucket(sources[x], Burst)
    BY Zenon, <1>3 DEF Tick, TypeOK
  <2>2. Refilled(sources'[x], Rate, Burst) = Least(Refilled(sources[x], Rate, Burst) + Rate, Burst)
    BY Zenon, <2>1, RefilledOlder, LimiterAssumption DEF AgesSuffice
  <2>3. Refilled(sources[x], Rate, Burst) \in 0..Burst
    BY Zenon, <2>1, RefilledType, LimiterAssumption
  <2>4. /\ Refilled(sources[x], Rate, Burst) + debt[x] <= Burst
        /\ quiet[x] = Least(sources[x].age, Cleanup)
    BY Zenon, <1>3 DEF SourceInv, SourceOK
  <2>5. debt'[x] \in Nat /\ (debt'[x] = 0 \/ debt'[x] = debt[x] - Rate)
    BY SMTT(30), <1>1, LimiterAssumption DEF Most
  <2>6. Refilled(sources'[x], Rate, Burst) + debt'[x] <= Burst
    BY SMTT(30), <1>1, <2>2, <2>3, <2>4, <2>5, LimiterAssumption DEF Least
  <2>7. sources[x].age \in Nat /\ sources'[x].age = Least(sources[x].age + 1, AgeCap)
    BY SMTT(30), <2>1 DEF Older, IsBucket
  <2>8. quiet'[x] = Least(sources'[x].age, Cleanup)
    BY Zenon, <1>1, <2>4, <2>7, AgesTogether
  <2>. QED  BY Zenon, <1>1, <1>2, <1>3, <2>6, <2>8 DEF SourceOK
<1>4. CASE x \notin DOMAIN sources
  <2>1. quiet[x] = Cleanup
    BY Zenon, <1>4 DEF SourceInv, SourceOK
  <2>2. quiet'[x] = Cleanup
    BY SMTT(30), <1>1, <2>1, LimiterAssumption DEF Least
  <2>. QED  BY Zenon, <1>1, <1>2, <1>4, <2>2 DEF SourceOK
<1>. QED  BY Zenon, <1>3, <1>4

(* A datagram, admitted or not, keeps the account of each source: a bucket     *)
(* that a cleanup throws away is one whose source has nothing to pay.          *)
LEMMA AllowKeepsAccount ==
  ASSUME TypeOK, SourceInv, NEW ip \in Ip, Allow(ip), NEW x \in Ip
  PROVE  SourceOK(x)'
<1>1. ASSUME NEW y \in Ip, y \notin Kept PROVE debt[y] = 0 /\ quiet[y] = Cleanup
  <2>1. CASE y \notin DOMAIN sources
    BY Zenon, <2>1 DEF SourceInv, SourceOK
  <2>2. CASE y \in DOMAIN sources
    <3>1. sources[y].age >= Cleanup /\ sources[y].age \in Nat
      BY SMTT(30), <1>1, <2>2, LimiterAssumption DEF Kept, TypeOK, IsBucket
    <3>2. Least(sources[y].age, Cleanup) = Cleanup
      BY SMTT(30), <3>1, LimiterAssumption DEF Least
    <3>. QED  BY Zenon, <2>2, <3>2 DEF SourceInv, SourceOK
  <2>. QED  BY Zenon, <2>1, <2>2
<1>2. Tokens(ip) \in 0..Burst /\ Tokens(ip) + debt[ip] <= Burst /\ debt[ip] \in Nat
  <2>1. CASE ip \in Kept
    <3>1. ip \in DOMAIN sources
      BY Zenon, <2>1 DEF Kept
    <3>. QED  BY Zenon, <2>1, <3>1, RefilledType, LimiterAssumption DEF Tokens, SourceInv, SourceOK, TypeOK
  <2>2. CASE ip \notin Kept
    BY SMTT(30), <2>2, <1>1, LimiterAssumption DEF Tokens, TypeOK
  <2>. QED  BY Zenon, <2>1, <2>2
<1>3. CASE Refused(ip) \/ x # ip
  <2>1. debt'[x] = debt[x] /\ quiet'[x] = quiet[x] /\ (x \in DOMAIN sources' <=> x \in Kept)
    BY SMTT(30), <1>3 DEF Allow, TypeOK, Refused
  <2>2. CASE x \in Kept
    <3>1. x \in DOMAIN sources /\ sources'[x] = sources[x]
      BY Zenon, <1>3, <2>2 DEF Allow, Kept
    <3>. QED  BY Zenon, <2>1, <2>2, <3>1 DEF SourceInv, SourceOK
  <2>3. CASE x \notin Kept
    BY Zenon, <1>1, <2>1, <2>3 DEF SourceOK
  <2>. QED  BY Zenon, <2>2, <2>3
<1>4. CASE ~Refused(ip) /\ x = ip
  <2>1. x \in DOMAIN sources' /\ sources'[x] = Taken(Tokens(ip)) /\ quiet'[x] = 0
    BY ZenonT(60), <1>4 DEF Allow, TypeOK
  <2>2. Refilled(sources'[x], Rate, Burst) = IF Tokens(ip) < Cost THEN Tokens(ip) ELSE Tokens(ip) - Cost
    <3>1. Burst \in Nat /\ Rate \in Nat
      BY Zenon, LimiterAssumption
    <3>2. Refilled(Taken(Tokens(ip)), Rate, Burst) = IF Tokens(ip) < Cost THEN Tokens(ip) ELSE Tokens(ip) - Cost
      BY ZenonT(60), <1>2, <3>1, TakenType
    <3>. QED  BY Zenon, <2>1, <3>2
  <2>3. debt'[x] = debt[ip] \/ (Tokens(ip) >= Cost /\ debt'[x] = debt[ip] + Cost)
    BY SMTT(30), <1>2, <1>4, LimiterAssumption DEF Allow, TypeOK
  <2>4. Refilled(sources'[x], Rate, Burst) + debt'[x] <= Burst
    BY SMTT(30), <1>2, <2>2, <2>3, LimiterAssumption
  <2>5. sources'[x].age = 0
    BY SMTT(30), <2>1 DEF Taken, Bucket
  <2>6. Least(0, Cleanup) = 0 /\ 0 # Cleanup
    BY SMTT(30), LimiterAssumption DEF Least
  <2>. QED  BY Zenon, <2>1, <2>4, <2>5, <2>6 DEF SourceOK
<1>. QED  BY Zenon, <1>3, <1>4

(* The accounts of the sources are right at all times (allow). *)
LEMMA AccountsRight == Spec => []SourceInv
<1>1. Init => SourceInv
  BY Zenon DEF Init, SourceInv, SourceOK
<1>2. TypeOK /\ SourceInv /\ [Next]_vars => SourceInv'
  <2>. SUFFICES ASSUME TypeOK, SourceInv, [Next]_vars, NEW x \in Ip PROVE SourceOK(x)'
    BY Zenon DEF SourceInv
  <2>1. CASE Tick
    BY Zenon, <2>1, TickKeepsAccount
  <2>2. ASSUME NEW ip \in Ip, Allow(ip) PROVE SourceOK(x)'
    BY Zenon, <2>2, AllowKeepsAccount
  <2>3. CASE UNCHANGED vars
    BY Zenon, <2>3 DEF vars, SourceInv, SourceOK
  <2>. QED  BY Zenon, <2>1, <2>2, <2>3 DEF Next
<1>. QED  BY <1>1, <1>2, TypeCorrect, PTL DEF Spec

(* In no interval without a silence of a whole cleanup interval does a source  *)
(* get more datagrams through than its burst and rate allow (allow).           *)
THEOREM SourceRateKept == Spec => []SourceBounded
<1>1. TypeOK /\ SourceInv => SourceBounded
  <2>. SUFFICES ASSUME TypeOK, SourceInv, NEW x \in Ip PROVE debt[x] <= Burst
    BY Zenon DEF SourceBounded
  <2>1. CASE x \in DOMAIN sources
    <3>1. Refilled(sources[x], Rate, Burst) \in 0..Burst
      BY Zenon, <2>1, RefilledType, LimiterAssumption DEF TypeOK
    <3>2. Refilled(sources[x], Rate, Burst) + debt[x] <= Burst /\ debt[x] \in Nat
      BY Zenon, <2>1 DEF SourceInv, SourceOK, TypeOK
    <3>. QED  BY SMTT(30), <3>1, <3>2, LimiterAssumption
  <2>2. CASE x \notin DOMAIN sources
    BY SMTT(30), <2>2, LimiterAssumption DEF SourceInv, SourceOK
  <2>. QED  BY Zenon, <2>1, <2>2
<1>. QED  BY <1>1, TypeCorrect, AccountsRight, PTL

(* If a burst is paid within a cleanup interval, a source that is quiet for    *)
(* that long has paid for all it got: the rate holds over any interval, also   *)
(* when a cleanup throws its bucket away (allow).                              *)
THEOREM SilenceForgivesNothing == Spec => []SilencePays
<1>1. TypeOK /\ SourceInv => SilencePays
  <2>. SUFFICES ASSUME TypeOK, SourceInv, Cleanup * Rate >= Burst, NEW x \in Ip, quiet[x] + 1 >= Cleanup
                PROVE  debt[x] <= Rate
    BY Zenon DEF SilencePays
  <2>1. quiet[x] \in 0..Cleanup /\ debt[x] \in Nat
    BY Zenon DEF TypeOK
  <2>2. CASE quiet[x] = Cleanup
    <3>1. debt[x] = 0
      BY Zenon, <2>2 DEF SourceInv, SourceOK
    <3>. QED  BY SMTT(30), <3>1, LimiterAssumption
  <2>3. CASE quiet[x] # Cleanup
    <3>1. x \in DOMAIN sources
      BY Zenon, <2>3 DEF SourceInv, SourceOK
    <3>2. /\ Refilled(sources[x], Rate, Burst) + debt[x] <= Burst
          /\ quiet[x] = Least(sources[x].age, Cleanup)
      BY Zenon, <3>1 DEF SourceInv, SourceOK
    <3>3. sources[x].age \in Nat /\ sources[x].tokens \in Nat
      BY SMTT(30), <3>1 DEF TypeOK, IsBucket
    <3>4. sources[x].age + 1 = Cleanup
      BY SMTT(30), <2>1, <2>3, <3>2, <3>3, LimiterAssumption DEF Least
    <3>5. sources[x].age * Rate \in Nat /\ sources[x].age * Rate + Rate = Cleanup * Rate
      BY SMTT(30), <3>3, <3>4, LimiterAssumption
    <3>6. ASSUME NEW t \in Nat, NEW m \in Nat, NEW d \in Nat, m + Rate >= Burst,
                 Least(t + m, Burst) + d <= Burst
          PROVE  d <= Rate
      BY SMTT(30), <3>6, LimiterAssumption DEF Least
    <3>7. sources[x].age * Rate + Rate >= Burst
      BY Zenon, <3>5
    <3>. QED  BY Zenon, <2>1, <3>2, <3>3, <3>5, <3>6, <3>7 DEF Refilled
  <2>. QED  BY Zenon, <2>2, <2>3
<1>. QED  BY <1>1, TypeCorrect, AccountsRight, PTL
-----------------------------------------------------------------------------
(* The table is finite and within its capacity, and between cleanups its        *)
(* sources are no older than the last cleanup allowed.                          *)
TableInv ==
  /\ IsFiniteSet(DOMAIN sources)
  /\ Cardinality(DOMAIN sources) <= Capacity
  /\ cleaned < Cleanup => \A x \in DOMAIN sources : sources[x].age < Cleanup + cleaned

(* The limit on the age of a source is never zero, even right after a cleanup.  *)
LEMMA LimitPositive ==
  ASSUME NEW t \in Nat
  PROVE  Cleanup + t > 0
  BY SMTT(30), LimiterAssumption

(* Only a table full of sources seen within two cleanup intervals turns a new   *)
(* source away (allow).                                                         *)
THEOREM RefusalsJustified == Spec => []RefusalJustified
<1>1. Init => TableInv
  BY SMTT(30), FS_EmptySet, LimiterAssumption DEF Init, TableInv
<1>2. TypeOK /\ TableInv /\ [Next]_vars => TableInv'
  <2>. SUFFICES ASSUME TypeOK, TableInv, [Next]_vars PROVE TableInv'
    BY Zenon
  <2>1. CASE Tick
    <3>1. DOMAIN sources' = DOMAIN sources
      BY Zenon, <2>1 DEF Tick
    <3>2. ASSUME cleaned' < Cleanup, NEW x \in DOMAIN sources PROVE sources'[x].age < Cleanup + cleaned'
      <4>1. cleaned' = cleaned + 1 /\ cleaned < Cleanup /\ cleaned \in Nat
        BY SMTT(30), <2>1, <3>2, LimiterAssumption DEF Tick, TypeOK, Least
      <4>2. sources[x].age < Cleanup + cleaned /\ sources[x].age \in Nat
        BY SMTT(30), <3>2, <4>1 DEF TableInv, TypeOK, IsBucket
      <4>3. sources'[x] = [tokens |-> sources[x].tokens, age |-> Least(sources[x].age + 1, AgeCap)]
        BY SMTT(30), <2>1, <3>2 DEF Tick, Older, TypeOK, IsBucket
      <4>. QED  BY SMTT(30), <4>1, <4>2, <4>3, LimiterAssumption DEF Least
    <3>. QED  BY Zenon, <3>1, <3>2 DEF TableInv
  <2>2. ASSUME NEW ip \in Ip, Allow(ip) PROVE TableInv'
    <3>1. IsFiniteSet(Kept) /\ Cardinality(Kept) <= Capacity
      <4>1. Kept \subseteq DOMAIN sources
        BY Zenon DEF Kept
      <4>2. IsFiniteSet(Kept) /\ Cardinality(Kept) <= Cardinality(DOMAIN sources)
        BY Zenon, <4>1, FS_Subset DEF TableInv
      <4>3. Cardinality(Kept) \in Nat /\ Cardinality(DOMAIN sources) \in Nat
        BY Zenon, <4>2, FS_CardinalityType DEF TableInv
      <4>. QED  BY SMTT(30), <4>2, <4>3, LimiterAssumption DEF TableInv
    <3>2. Cardinality(Kept) \in Nat
      BY Zenon, <3>1, FS_CardinalityType
    <3>3. IsFiniteSet(DOMAIN sources') /\ Cardinality(DOMAIN sources') <= Capacity
      <4>1. CASE Refused(ip)
        <5>1. DOMAIN sources' = Kept
          BY Zenon, <2>2, <4>1 DEF Allow
        <5>. QED  BY Zenon, <3>1, <5>1
      <4>2. CASE ~Refused(ip)
        <5>1. DOMAIN sources' = Kept \cup {ip}
          BY Zenon, <2>2, <4>2 DEF Allow
        <5>2. /\ IsFiniteSet(Kept \cup {ip})
              /\ Cardinality(Kept \cup {ip}) = IF ip \in Kept THEN Cardinality(Kept) ELSE Cardinality(Kept) + 1
          BY Zenon, <3>1, FS_AddElement
        <5>3. ip \in Kept \/ Cardinality(Kept) < Capacity
          BY SMTT(30), <3>2, <4>2, LimiterAssumption DEF Refused
        <5>. QED  BY SMTT(30), <3>1, <3>2, <5>1, <5>2, <5>3, LimiterAssumption
      <4>. QED  BY Zenon, <4>1, <4>2
    <3>4. ASSUME cleaned' < Cleanup, NEW x \in DOMAIN sources' PROVE sources'[x].age < Cleanup + cleaned'
      <4>0. cleaned \in Nat /\ cleaned' \in Nat
        BY SMTT(30), <2>2, LimiterAssumption DEF Allow, TypeOK
      <4>1. CASE x \in Kept /\ sources'[x] = sources[x]
        <5>1. x \in DOMAIN sources /\ sources[x].age \in Nat
          BY SMTT(30), <4>1 DEF Kept, TypeOK, IsBucket
        <5>2. CASE cleaned >= Cleanup
          BY SMTT(30), <2>2, <4>1, <5>1, <5>2, LimiterAssumption DEF Allow, Kept
        <5>3. CASE cleaned < Cleanup
          <6>1. cleaned' = cleaned
            BY SMTT(30), <2>2, <4>0, <5>3, LimiterAssumption DEF Allow
          <6>. QED  BY Zenon, <4>1, <5>1, <5>3, <6>1 DEF TableInv
        <5>. QED  BY SMTT(30), <4>0, <5>2, <5>3, LimiterAssumption
      <4>2. CASE sources'[x] = Taken(Tokens(ip))
        <5>1. sources'[x].age = 0
          BY SMTT(30), <4>2 DEF Taken, Bucket
        <5>2. Cleanup + cleaned' > 0
          BY Zenon, <4>0, LimitPositive
        <5>. QED  BY Zenon, <5>1, <5>2
      <4>. QED  BY Zenon, <2>2, <4>1, <4>2 DEF Allow
    <3>. QED  BY Zenon, <3>3, <3>4 DEF TableInv
  <2>3. CASE UNCHANGED vars
    BY Zenon, <2>3 DEF vars, TableInv
  <2>. QED  BY Zenon, <2>1, <2>2, <2>3 DEF Next
<1>3. TypeOK /\ TableInv => RefusalJustified
  <2>. SUFFICES ASSUME TypeOK, TableInv, NEW x \in Kept PROVE sources[x].age < 2 * Cleanup
    BY Zenon DEF RefusalJustified, TableInv
  <2>1. x \in DOMAIN sources /\ sources[x].age \in Nat /\ cleaned \in Nat
    BY SMTT(30), LimiterAssumption DEF Kept, TypeOK, IsBucket
  <2>2. CASE cleaned >= Cleanup
    BY SMTT(30), <2>1, <2>2, LimiterAssumption DEF Kept
  <2>3. CASE cleaned < Cleanup
    BY SMTT(30), <2>1, <2>3, LimiterAssumption DEF TableInv
  <2>. QED  BY SMTT(30), <2>1, <2>2, <2>3, LimiterAssumption
<1>. QED  BY <1>1, <1>2, <1>3, TypeCorrect, PTL DEF Spec
-----------------------------------------------------------------------------
(* Native subscriptions.                                                   *)

PlaceInv ==
  /\ \A s, t \in current : s = t
  /\ current # {} => pc = "joining" /\ current \subseteq desired \ active
  /\ fresh \subseteq active \cap desired
  /\ stale \cap desired = {}
  /\ left \cap active = {} /\ left \cap desired = {}
  /\ stale \subseteq active \ fresh
  /\ pc = "idle" => fresh = {} /\ left = {}
  /\ pc \in {"adding", "joining", "undoing"} => left = {}
  /\ pc = "removing" => desired \subseteq active

ManagerInv == ManagerTypeOK /\ LibraryMatches /\ PlaceInv

(* The invariant holds before the first reconcile. *)
LEMMA ManagerInitInv == ManagerInit => ManagerInv
  BY Zenon DEF ManagerInit, ManagerInv, ManagerTypeOK, LibraryMatches, PlaceInv

(* Every library call and its outcome keep the invariant. *)
LEMMA ManagerNextInv == ManagerInv /\ [ManagerNext]_managerVars => ManagerInv'
<1> SUFFICES ASSUME ManagerInv, [ManagerNext]_managerVars PROVE ManagerInv'
  BY Zenon
<1> USE DEF ManagerInv, ManagerTypeOK, LibraryMatches, PlaceInv
<1>1. ASSUME NEW d \in SUBSET Subscription, Start(d) PROVE ManagerInv'
  BY Zenon, <1>1 DEF Start
<1>2. ASSUME NEW s \in Subscription, AddSubscription(s) PROVE ManagerInv'
  BY Zenon, <1>2 DEF AddSubscription
<1>3. ASSUME NEW s \in Subscription, JoinSubscription(s) PROVE ManagerInv'
  BY SMTT(30), <1>3 DEF JoinSubscription
<1>4. ASSUME NEW s \in Subscription, JoinFails(s) PROVE ManagerInv'
  BY Zenon, <1>4 DEF JoinFails
<1>5. ASSUME NEW s \in Subscription, Undo(s) PROVE ManagerInv'
  BY Zenon, <1>5 DEF Undo
<1>6. ASSUME NEW s \in Subscription, LeaveSubscription(s) PROVE ManagerInv'
  BY SMTT(30), <1>6 DEF LeaveSubscription
<1>7. ASSUME NEW s \in Subscription, LeaveFails(s) PROVE ManagerInv'
  BY Zenon, <1>7 DEF LeaveFails
<1>8. CASE AddFails
  BY Zenon, <1>8 DEF AddFails
<1>9. CASE ReturnError
  BY Zenon, <1>9 DEF ReturnError
<1>10. CASE AllAdded
  BY Zenon, <1>10 DEF AllAdded
<1>11. CASE Return
  BY Zenon, <1>11 DEF Return
<1>12. CASE UNCHANGED managerVars
  BY Zenon, <1>12 DEF managerVars
<1> QED
  BY Zenon, <1>1, <1>2, <1>3, <1>4, <1>5, <1>6, <1>7, <1>8, <1>9, <1>10, <1>11, <1>12 DEF ManagerNext

(* The loop of reconcile keeps its books with the library, for any set of     *)
(* subscriptions and any calls that fail: nothing is leaked.                  *)
THEOREM LibraryMatchesTheorem == ManagerSpec => []LibraryMatches
<1>1. ManagerInit => ManagerInv
  BY Zenon, ManagerInitInv
<1>2. ManagerInv /\ [ManagerNext]_managerVars => ManagerInv'
  BY Zenon, ManagerNextInv
<1>3. ManagerInv => LibraryMatches
  BY Zenon DEF ManagerInv
<1> QED
  BY <1>1, <1>2, <1>3, PTL DEF ManagerSpec

(* A reconcile never interrupts a subscription that was active and is still   *)
(* desired.                                                                   *)
THEOREM UninterruptedTheorem == ManagerSpec => []Uninterrupted
<1>1. ManagerInit => ManagerInv
  BY Zenon, ManagerInitInv
<1>2. ManagerInv /\ [ManagerNext]_managerVars => ManagerInv'
  BY Zenon, ManagerNextInv
<1>3. ManagerInv => Uninterrupted
  BY SMTT(30) DEF ManagerInv, LibraryMatches, PlaceInv, Uninterrupted, Before
<1> QED
  BY <1>1, <1>2, <1>3, PTL DEF ManagerSpec

(* The refinement, step by step: a call asks, the last step of a successful    *)
(* reconcile is the change, and every other step is invisible.                 *)
LEMMA AtomicStep ==
  ASSUME ManagerInv, [ManagerNext]_managerVars
  PROVE  [Abstract!SubscriptionsNext]_<<desired, Visible>>
<1> USE DEF ManagerInv, ManagerTypeOK, PlaceInv, Before, Visible
<1>1. ASSUME NEW d \in SUBSET Subscription, Start(d)
      PROVE [Abstract!SubscriptionsNext]_<<desired, Visible>>
  BY Zenon, <1>1 DEF Start, Abstract!SubscriptionsNext, Abstract!Ask
<1>2. ASSUME NEW s \in Subscription, AddSubscription(s)
      PROVE [Abstract!SubscriptionsNext]_<<desired, Visible>>
  BY Zenon, <1>2 DEF AddSubscription
<1>3. ASSUME NEW s \in Subscription, JoinSubscription(s)
      PROVE [Abstract!SubscriptionsNext]_<<desired, Visible>>
  BY SMTT(30), <1>3 DEF JoinSubscription
<1>4. ASSUME NEW s \in Subscription, JoinFails(s)
      PROVE [Abstract!SubscriptionsNext]_<<desired, Visible>>
  BY Zenon, <1>4 DEF JoinFails
<1>5. ASSUME NEW s \in Subscription, Undo(s)
      PROVE [Abstract!SubscriptionsNext]_<<desired, Visible>>
  BY Zenon, <1>5 DEF Undo
<1>6. ASSUME NEW s \in Subscription, LeaveSubscription(s)
      PROVE [Abstract!SubscriptionsNext]_<<desired, Visible>>
  BY Zenon, <1>6 DEF LeaveSubscription
<1>7. ASSUME NEW s \in Subscription, LeaveFails(s)
      PROVE [Abstract!SubscriptionsNext]_<<desired, Visible>>
  BY Zenon, <1>7 DEF LeaveFails
<1>8. CASE AddFails
  BY Zenon, <1>8 DEF AddFails
<1>9. CASE ReturnError
  BY Zenon, <1>9 DEF ReturnError
<1>10. CASE AllAdded
  BY Zenon, <1>10 DEF AllAdded
<1>11. CASE Return
  <2> DEFINE stuck == active \ desired
  <2>1. stuck \in SUBSET (Visible \ desired)
    BY Zenon, <1>11 DEF Return
  <2>2. Visible' = desired \cup stuck /\ desired' = desired
    BY Zenon, <1>11 DEF Return
  <2> QED
    BY Zenon, <2>1, <2>2 DEF Abstract!SubscriptionsNext, Abstract!Succeed
<1>12. CASE UNCHANGED managerVars
  BY Zenon, <1>12 DEF managerVars
<1> QED
  BY SMTT(30), <1>1, <1>2, <1>3, <1>4, <1>5, <1>6, <1>7, <1>8, <1>9, <1>10, <1>11, <1>12 DEF ManagerNext

(* Module UpstreamManager implements module Subscriptions: to the relay a      *)
(* reconcile is one step.                                                      *)
THEOREM ReconcileAtomicTheorem == ManagerSpec => ReconcileAtomic
<1>1. ManagerInit => ManagerInv
  BY Zenon, ManagerInitInv
<1>2. ManagerInv /\ [ManagerNext]_managerVars => ManagerInv'
  BY Zenon, ManagerNextInv
<1>3. ManagerInit => Abstract!SubscriptionsInit
  BY Zenon DEF ManagerInit, Abstract!SubscriptionsInit, Visible
<1>4. ManagerInv /\ [ManagerNext]_managerVars => [Abstract!SubscriptionsNext]_<<desired, Visible>>
  BY Zenon, AtomicStep
<1> QED
  BY <1>1, <1>2, <1>3, <1>4, PTL DEF ManagerSpec, ReconcileAtomic, Abstract!SubscriptionsSpec

(* A reconcile is one step to its caller, and loses nothing on the way        *)
(* (UpstreamManager::reconcile).                                              *)
THEOREM ReconcileIsSound == ManagerSpec => ReconcileSound
  BY LibraryMatchesTheorem, UninterruptedTheorem, ReconcileAtomicTheorem, PTL DEF ReconcileSound
-----------------------------------------------------------------------------
(* A datagram passes the limiter when, and only when, its source and all      *)
(* sources together are within their rates and there is room to tell          *)
(* (ControlRateLimiter::allow).                                               *)
THEOREM AdmissionIsExact == Spec => []AdmissionExact
<1>1. TypeOK /\ GlobalExact /\ SourceBounded /\ RefusalJustified => AdmissionExact
  BY Zenon DEF AdmissionExact
<1>. QED  BY <1>1, TypeCorrect, GlobalRateKept, SourceRateKept, RefusalsJustified, PTL
-----------------------------------------------------------------------------
(* The feedback limiter.                                                   *)

Entry == [flow : Flow, age : 0..Interval]

(* Inductive: the queue is in order of age and holds every flow once, and the *)
(* map holds the flows of the queue, with the ages the slots really have      *)
(* (FeedbackRateLimiter).                                                     *)
QueueOK(l, q, s) ==
  /\ q \in Seq(Entry)
  /\ \A m, n \in 1..Len(q) : m < n => q[m].age >= q[n].age /\ q[m].flow # q[n].flow
  /\ DOMAIN l = {q[n].flow : n \in 1..Len(q)}
  /\ \A n \in 1..Len(q) : l[q[n].flow] = q[n].age
  /\ s \in [Flow -> 0..Interval]
  /\ \A f \in Flow : s[f] = IF f \in DOMAIN l THEN l[f] ELSE Interval
QueueInv == QueueOK(last, queue, since)

(* A non-empty set of numbers has a least one. *)
LEMMA LeastNumber ==
  ASSUME NEW T \in SUBSET Nat, T # {}
  PROVE  \E x \in T : \A y \in T : x <= y
<1> DEFINE R == {pair \in Nat \X Nat : pair[1] < pair[2]}
<1>1. IsWellFoundedOn(R, Nat)
  BY NatLessThanWellFounded, Zenon DEF OpToRel
<1>2. \A x, y \in Nat : <<y, x>> \notin R => x <= y
  BY SMTT(30)
<1> HIDE DEF R
<1>3. \E x \in T : \A y \in T : ~ (<<y, x>> \in R)
  BY ZenonT(30), <1>1, WFMin
<1> QED
  BY Zenon, <1>2, <1>3

(* The loop takes the expired entries, and no other: they are the first ones   *)
(* (FeedbackRateLimiter::allow).                                               *)
LEMMA ExpiredFirst ==
  ASSUME QueueInv
  PROVE  /\ ExpiredCount \in 0..Len(queue)
         /\ \A m \in 1..Len(queue) : Expired(m) <=> m <= ExpiredCount
<1> DEFINE Ends(n) == /\ \A m \in 1..n : Expired(m)
                      /\ n = Len(queue) \/ ~Expired(n + 1)
<1>0. Len(queue) \in Nat /\ Interval \in Nat /\ \A n \in 1..Len(queue) : queue[n].age \in Nat
  <2>1. queue \in Seq(Entry)
    BY Zenon DEF QueueInv, QueueOK
  <2>2. \A n \in 1..Len(queue) : queue[n] \in Entry
    BY SMTT(30), <2>1
  <2>. QED  BY SMTT(30), <2>1, <2>2, FeedbackAssumption DEF Entry
<1>1. \E n \in 0..Len(queue) : Ends(n)
  <2>1. CASE \A m \in 1..Len(queue) : Expired(m)
    BY SMTT(30), <1>0, <2>1
  <2>2. CASE \E m \in 1..Len(queue) : ~Expired(m)
    <3> DEFINE T == {m \in 1..Len(queue) : ~Expired(m)}
    <3>1. T \in SUBSET Nat /\ T # {}
      BY SMTT(30), <1>0, <2>2
    <3>2. PICK x \in T : \A y \in T : x <= y
      BY Zenon, <3>1, LeastNumber
    <3>3. x - 1 \in 0..Len(queue) /\ (x - 1) + 1 = x /\ ~Expired(x)
      BY SMTT(30), <1>0, <3>2
    <3>4. \A m \in 1..(x - 1) : Expired(m)
      BY SMTT(30), <1>0, <3>2
    <3>5. Ends(x - 1)
      BY Zenon, <3>3, <3>4
    <3>. QED  BY Zenon, <3>3, <3>5
  <2>. QED  BY Zenon, <2>1, <2>2
<1>2. ExpiredCount \in 0..Len(queue) /\ Ends(ExpiredCount)
  BY Zenon, <1>1 DEF ExpiredCount
<1>. SUFFICES ASSUME NEW m \in 1..Len(queue), Expired(m) PROVE m <= ExpiredCount
  BY SMTT(30), <1>0, <1>2
<1>3. SUFFICES ASSUME m > ExpiredCount PROVE FALSE
  BY SMTT(30), <1>0, <1>2
<1> DEFINE next == ExpiredCount + 1
<1>4. next \in 1..Len(queue) /\ ~Expired(next) /\ (next = m \/ next < m)
  BY SMTT(30), <1>0, <1>2, <1>3
<1>5. queue[next].age >= queue[m].age
  BY Zenon, <1>0, <1>4 DEF QueueInv, QueueOK
<1>. QED  BY SMTT(30), <1>0, <1>4, <1>5 DEF Expired

(* What is left after the loop are the flows whose slot is younger than the    *)
(* interval, in the map and in the queue (FeedbackRateLimiter::allow).         *)
LEMMA ExpiryExact ==
  ASSUME QueueInv
  PROVE  /\ DOMAIN AfterExpiry.last = {f \in Flow : since[f] < Interval}
         /\ \A f \in DOMAIN AfterExpiry.last : AfterExpiry.last[f] = since[f]
         /\ AfterExpiry.queue \in Seq(Entry)
         /\ Len(AfterExpiry.queue) = Len(queue) - ExpiredCount
         /\ \A n \in 1..Len(AfterExpiry.queue) : AfterExpiry.queue[n] = queue[n + ExpiredCount]
<1> DEFINE gone == {f \in DOMAIN last : \E n \in 1..ExpiredCount :
                      queue[n] = [flow |-> f, age |-> last[f]]}
<1>0. /\ Len(queue) \in Nat /\ Interval \in Nat
      /\ \A n \in 1..Len(queue) : queue[n] \in Entry
      /\ \A f \in Flow : since[f] \in 0..Interval
  BY SMTT(30), FeedbackAssumption DEF QueueInv, QueueOK
<1>1. /\ ExpiredCount \in 0..Len(queue)
      /\ \A m \in 1..Len(queue) : Expired(m) <=> m <= ExpiredCount
  BY Zenon, ExpiredFirst
<1>2. /\ AfterExpiry.last = [f \in DOMAIN last \ gone |-> last[f]]
      /\ AfterExpiry.queue = SubSeq(queue, ExpiredCount + 1, Len(queue))
  BY Zenon DEF AfterExpiry
<1>3. DOMAIN last \subseteq Flow
  <2>1. \A n \in 1..Len(queue) : queue[n].flow \in Flow
    BY Zenon, <1>0 DEF Entry
  <2>2. DOMAIN last = {queue[n].flow : n \in 1..Len(queue)}
    BY Zenon DEF QueueInv, QueueOK
  <2>. QED  BY Zenon, <2>1, <2>2
<1>4. \A f \in DOMAIN last : f \in gone <=> last[f] >= Interval
  <2> SUFFICES ASSUME NEW f \in DOMAIN last PROVE f \in gone <=> last[f] >= Interval
    BY Zenon
  <2>1. PICK n \in 1..Len(queue) : f = queue[n].flow
    BY SMTT(30) DEF QueueInv, QueueOK
  <2>2. queue[n] = [flow |-> f, age |-> last[f]]
    BY Zenon, <1>0, <2>1 DEF QueueInv, QueueOK, Entry
  <2>3. Expired(n) <=> last[f] >= Interval
    BY SMTT(30), <2>2 DEF Expired
  <2>4. ASSUME last[f] >= Interval PROVE f \in gone
    BY SMTT(30), <1>0, <1>1, <2>2, <2>3, <2>4
  <2>5. ASSUME f \in gone PROVE last[f] >= Interval
    <3>1. PICK m \in 1..ExpiredCount : queue[m] = [flow |-> f, age |-> last[f]]
      BY Zenon, <2>5
    <3>2. m \in 1..Len(queue) /\ Expired(m)
      BY SMTT(30), <1>0, <1>1
    <3>. QED  BY SMTT(30), <3>1, <3>2 DEF Expired
  <2>. QED  BY SMTT(30), <2>4, <2>5
<1>5. \A f \in DOMAIN last : last[f] = since[f]
  BY Zenon, <1>3 DEF QueueInv, QueueOK
<1>6. \A f \in Flow : since[f] < Interval => f \in DOMAIN last
  BY SMTT(30), <1>0 DEF QueueInv, QueueOK
<1>7. DOMAIN AfterExpiry.last = DOMAIN last \ gone
  BY SMTT(30), <1>2
<1>8. DOMAIN AfterExpiry.last = {f \in Flow : since[f] < Interval}
  BY SMTT(30), <1>0, <1>3, <1>4, <1>5, <1>6, <1>7
<1>9. \A f \in DOMAIN AfterExpiry.last : AfterExpiry.last[f] = since[f]
  BY SMTT(30), <1>2, <1>5, <1>7
<1>10. queue \in Seq(Entry)
  BY Zenon DEF QueueInv, QueueOK
<1>11. /\ AfterExpiry.queue \in Seq(Entry)
       /\ Len(AfterExpiry.queue) = Len(queue) - ExpiredCount
       /\ \A n \in 1..Len(AfterExpiry.queue) : AfterExpiry.queue[n] = queue[n + ExpiredCount]
  BY SMTT(30), <1>0, <1>1, <1>2, <1>10
<1>. QED  BY Zenon, <1>8, <1>9, <1>11

(* The limiter refuses exactly what it must. *)
LEMMA ExactFromQueue == QueueInv => LimiterExact
<1> SUFFICES ASSUME QueueInv, NEW f \in Flow
             PROVE  Allows(f) <=>
                      /\ since[f] = Interval
                      /\ Cardinality({x \in Flow : since[x] < Interval}) < MaxFlows
  BY Zenon DEF LimiterExact
<1>1. DOMAIN AfterExpiry.last = {x \in Flow : since[x] < Interval}
  BY Zenon, ExpiryExact
<1>2. since[f] \in 0..Interval /\ Interval \in Nat
  BY Zenon, FeedbackAssumption DEF QueueInv, QueueOK
<1>3. f \notin DOMAIN AfterExpiry.last <=> since[f] = Interval
  BY SMTT(30), <1>1, <1>2
<1>. QED  BY Zenon, <1>1, <1>3 DEF Allows

(* The limiter's tables start empty. *)
LEMMA QueueInit == DataInit => QueueInv
<1> SUFFICES ASSUME DataInit PROVE QueueInv
  BY Zenon
<1>1. queue = <<>> /\ DOMAIN last = {} /\ since = [f \in Flow |-> Interval]
  BY Zenon DEF DataInit
<1>2. queue \in Seq(Entry) /\ Len(queue) = 0
  BY SMTT(30), <1>1
<1>3. Interval \in 0..Interval
  BY SMTT(30), FeedbackAssumption
<1>. QED  BY SMTT(30), <1>1, <1>2, <1>3 DEF QueueInv, QueueOK

(* Without the expired entries the tables still agree                          *)
(* (FeedbackRateLimiter::allow).                                               *)
LEMMA QueueExpired ==
  ASSUME QueueInv
  PROVE  QueueOK(AfterExpiry.last, AfterExpiry.queue, since)
<1>1. PICK l, q : l = AfterExpiry.last /\ q = AfterExpiry.queue
  BY Zenon
<1>2. PICK c \in Nat : c = ExpiredCount /\ c <= Len(queue)
  BY SMTT(30), ExpiredFirst
<1>3. /\ DOMAIN l = {x \in Flow : since[x] < Interval}
      /\ \A x \in DOMAIN l : l[x] = since[x]
      /\ q \in Seq(Entry) /\ Len(q) = Len(queue) - c
      /\ \A n \in 1..Len(q) : q[n] = queue[n + c]
  BY SMTT(30), <1>1, <1>2, ExpiryExact
<1>4. /\ Len(queue) \in Nat /\ Interval \in Nat /\ Len(q) \in Nat
      /\ \A n \in 1..Len(queue) : queue[n].flow \in Flow /\ queue[n].age \in 0..Interval
      /\ \A x \in Flow : since[x] \in 0..Interval
  <2>1. queue \in Seq(Entry) /\ since \in [Flow -> 0..Interval]
    BY Zenon DEF QueueInv, QueueOK
  <2>2. \A n \in 1..Len(queue) : queue[n] \in Entry
    BY SMTT(30), <2>1
  <2>. QED  BY SMTT(30), <1>3, <2>1, <2>2, FeedbackAssumption DEF Entry
<1>5. \A n \in 1..Len(q) : n + c \in 1..Len(queue) /\ n + c > c
  BY SMTT(30), <1>2, <1>3, <1>4
<1>6. \A m, n \in 1..Len(q) : m < n => /\ q[m].age >= q[n].age
                                            /\ q[m].flow # q[n].flow
  <2> SUFFICES ASSUME NEW m \in 1..Len(q), NEW n \in 1..Len(q), m < n
               PROVE  q[m].age >= q[n].age /\ q[m].flow # q[n].flow
    BY Zenon
  <2>1. m + c \in 1..Len(queue) /\ n + c \in 1..Len(queue) /\ m + c < n + c
    BY SMTT(30), <1>2, <1>4, <1>5
  <2>2. q[m] = queue[m + c] /\ q[n] = queue[n + c]
    BY Zenon, <1>3
  <2>3. queue[m + c].age >= queue[n + c].age /\ queue[m + c].flow # queue[n + c].flow
    BY SMTT(30), <2>1 DEF QueueInv, QueueOK
  <2>. QED  BY Zenon, <2>2, <2>3
<1>7. \A n \in 1..Len(queue) : since[queue[n].flow] = queue[n].age
  BY Zenon, <1>4 DEF QueueInv, QueueOK
<1>8. \A n \in 1..Len(queue) : since[queue[n].flow] < Interval <=> n > c
  <2> SUFFICES ASSUME NEW n \in 1..Len(queue)
               PROVE  since[queue[n].flow] < Interval <=> n > c
    BY Zenon
  <2>1. Expired(n) <=> n <= c
    BY Zenon, <1>2, ExpiredFirst
  <2>. QED  BY SMTT(30), <1>2, <1>4, <1>7, <2>1 DEF Expired
<1>9. \A x \in DOMAIN l : \E n \in 1..Len(q) : x = q[n].flow
  <2> SUFFICES ASSUME NEW x \in Flow, since[x] < Interval
               PROVE  \E n \in 1..Len(q) : x = q[n].flow
    BY Zenon, <1>3
  <2>1. x \in DOMAIN last
    BY SMTT(30), <1>4 DEF QueueInv, QueueOK
  <2>2. PICK n \in 1..Len(queue) : x = queue[n].flow
    BY SMTT(30), <2>1 DEF QueueInv, QueueOK
  <2>3. n > c
    BY SMTT(30), <1>8, <2>2
  <2>4. n - c \in 1..Len(q) /\ (n - c) + c = n
    BY SMTT(30), <1>2, <1>3, <1>4, <2>3
  <2>. QED  BY Zenon, <1>3, <2>2, <2>4
<1>10. \A n \in 1..Len(q) : q[n].flow \in DOMAIN l
  BY Zenon, <1>3, <1>4, <1>5, <1>8
<1>11. \A n \in 1..Len(q) : l[q[n].flow] = q[n].age
  BY SMTT(30), <1>3, <1>5, <1>7, <1>10
<1>12. \A x \in Flow : since[x] = IF x \in DOMAIN l THEN l[x] ELSE Interval
  BY SMTT(30), <1>3, <1>4
<1>13. DOMAIN l = {q[n].flow : n \in 1..Len(q)}
  BY Zenon, <1>9, <1>10
<1>14. since \in [Flow -> 0..Interval]
  BY SMTT(30) DEF QueueInv, QueueOK
<1>15. QueueOK(l, q, since)
  BY SMTT(30), <1>3, <1>6, <1>11, <1>12, <1>13, <1>14 DEF QueueOK
<1>. QED  BY Zenon, <1>1, <1>15

(* A new slot goes to the end of the queue, younger than all others            *)
(* (FeedbackRateLimiter::allow).                                               *)
LEMMA SlotOK ==
  ASSUME NEW l, NEW q, NEW s, QueueOK(l, q, s), NEW f \in Flow \ DOMAIN l
  PROVE  QueueOK([x \in DOMAIN l \cup {f} |-> IF x = f THEN 0 ELSE l[x]],
                 Append(q, [flow |-> f, age |-> 0]), [s EXCEPT ![f] = 0])
<1>1. PICK m, r, t : /\ m = [x \in DOMAIN l \cup {f} |-> IF x = f THEN 0 ELSE l[x]]
                     /\ r = Append(q, [flow |-> f, age |-> 0])
                     /\ t = [s EXCEPT ![f] = 0]
  BY Zenon
<1>2. q \in Seq(Entry) /\ s \in [Flow -> 0..Interval] /\ Interval \in Nat
  BY Zenon, FeedbackAssumption DEF QueueOK
<1>3. /\ [flow |-> f, age |-> 0] \in Entry
      /\ Len(q) \in Nat /\ \A n \in 1..Len(q) : q[n] \in Entry
  <2>1. [flow |-> f, age |-> 0] \in Entry
    BY SMTT(30), <1>2 DEF Entry
  <2>. QED  BY SMTT(30), <1>2, <2>1
<1>4. /\ r \in Seq(Entry) /\ Len(r) = Len(q) + 1
      /\ \A n \in 1..Len(q) : r[n] = q[n]
      /\ r[Len(q) + 1] = [flow |-> f, age |-> 0]
  BY SMTT(30), <1>1, <1>2, <1>3
<1>5. \A n \in 1..Len(q) : /\ q[n].flow \in DOMAIN l /\ q[n].flow # f
                           /\ q[n].age \in Nat /\ q[n].flow \in Flow
  BY SMTT(30), <1>2, <1>3 DEF QueueOK, Entry
<1>6. \A i, n \in 1..Len(r) : i < n => r[i].age >= r[n].age /\ r[i].flow # r[n].flow
  <2> SUFFICES ASSUME NEW i \in 1..Len(r), NEW n \in 1..Len(r), i < n
               PROVE  r[i].age >= r[n].age /\ r[i].flow # r[n].flow
    BY SMTT(30)
  <2>1. i \in 1..Len(q) /\ r[i] = q[i]
    BY SMTT(30), <1>3, <1>4
  <2>2. CASE n \in 1..Len(q)
    <3>1. r[n] = q[n] /\ q[i].age >= q[n].age /\ q[i].flow # q[n].flow
      BY SMTT(30), <1>4, <2>1, <2>2 DEF QueueOK
    <3>. QED  BY SMTT(30), <2>1, <3>1
  <2>3. CASE n = Len(q) + 1
    <3>1. r[n].age = 0 /\ r[n].flow = f
      BY SMTT(30), <1>4, <2>3
    <3>. QED  BY SMTT(30), <1>5, <2>1, <3>1
  <2>. QED  BY SMTT(30), <1>3, <1>4, <2>2, <2>3
<1>7. DOMAIN m = DOMAIN l \cup {f} /\ m[f] = 0 /\ \A x \in DOMAIN l : m[x] = l[x]
  BY Zenon, <1>1
<1>8. DOMAIN m = {r[n].flow : n \in 1..Len(r)}
  <2>1. \A n \in 1..Len(r) : r[n].flow \in DOMAIN m
    <3> SUFFICES ASSUME NEW n \in 1..Len(r) PROVE r[n].flow \in DOMAIN m
      BY SMTT(30)
    <3>1. n \in 1..Len(q) \/ n = Len(q) + 1
      BY SMTT(30), <1>3, <1>4
    <3>. QED  BY SMTT(30), <1>4, <1>5, <1>7, <3>1
  <2>2. \A x \in DOMAIN m : \E n \in 1..Len(r) : x = r[n].flow
    <3>1. \A x \in DOMAIN l : \E n \in 1..Len(q) : x = q[n].flow
      BY SMTT(30) DEF QueueOK
    <3>2. \A n \in 1..Len(q) : n \in 1..Len(r)
      BY SMTT(30), <1>3, <1>4
    <3>3. Len(q) + 1 \in 1..Len(r) /\ r[Len(q) + 1].flow = f
      BY SMTT(30), <1>3, <1>4
    <3>. QED  BY SMTT(30), <1>4, <1>7, <3>1, <3>2, <3>3
  <2>. QED  BY Zenon, <2>1, <2>2
<1>9. \A n \in 1..Len(r) : m[r[n].flow] = r[n].age
  <2> SUFFICES ASSUME NEW n \in 1..Len(r) PROVE m[r[n].flow] = r[n].age
    BY SMTT(30)
  <2>1. CASE n \in 1..Len(q)
    <3>1. l[q[n].flow] = q[n].age
      BY SMTT(30), <2>1 DEF QueueOK
    <3>. QED  BY SMTT(30), <1>4, <1>5, <1>7, <2>1, <3>1
  <2>2. CASE n = Len(q) + 1
    BY SMTT(30), <1>4, <1>7, <2>2
  <2>. QED  BY SMTT(30), <1>3, <1>4, <2>1, <2>2
<1>10. t \in [Flow -> 0..Interval] /\ t[f] = 0 /\ \A x \in Flow \ {f} : t[x] = s[x]
  BY SMTT(30), <1>1, <1>2
<1>11. \A x \in Flow : t[x] = IF x \in DOMAIN m THEN m[x] ELSE Interval
  <2> SUFFICES ASSUME NEW x \in Flow PROVE t[x] = IF x \in DOMAIN m THEN m[x] ELSE Interval
    BY SMTT(30)
  <2>1. s[x] = IF x \in DOMAIN l THEN l[x] ELSE Interval
    BY SMTT(30) DEF QueueOK
  <2>2. CASE x = f
    BY SMTT(30), <1>7, <1>10, <2>2
  <2>3. CASE x # f
    BY SMTT(30), <1>7, <1>10, <2>1, <2>3
  <2>. QED  BY SMTT(30), <2>2, <2>3
<1>12. QueueOK(m, r, t)
  BY SMTT(30), <1>4, <1>6, <1>8, <1>9, <1>10, <1>11 DEF QueueOK
<1>. QED  BY Zenon, <1>1, <1>12

(* FeedbackRateLimiter::allow leaves tables that agree, whatever it answers. *)
LEMMA AllowKeeps ==
  ASSUME QueueInv, NEW f \in Flow, AllowFeedback(f, Allows(f))
  PROVE  QueueInv'
<1>1. QueueOK(AfterExpiry.last, AfterExpiry.queue, since)
  BY SMTT(30), QueueExpired
<1>2. CASE ~Allows(f)
  BY SMTT(30), <1>1, <1>2 DEF AllowFeedback, QueueInv
<1>3. CASE Allows(f)
  <2>1. f \in Flow \ DOMAIN AfterExpiry.last
    BY Zenon, <1>3 DEF Allows
  <2>2. PICK l, q : l = AfterExpiry.last /\ q = AfterExpiry.queue
    BY SMTT(30)
  <2>3. QueueOK([x \in DOMAIN l \cup {f} |-> IF x = f THEN 0 ELSE l[x]],
                Append(q, [flow |-> f, age |-> 0]), [since EXCEPT ![f] = 0])
    BY SMTT(30), <1>1, <2>1, <2>2, SlotOK
  <2>4. /\ last' = [x \in DOMAIN l \cup {f} |-> IF x = f THEN 0 ELSE l[x]]
        /\ queue' = Append(q, [flow |-> f, age |-> 0])
        /\ since' = [since EXCEPT ![f] = 0]
    BY Zenon, <1>3, <2>2 DEF AllowFeedback
  <2>. QED  BY Zenon, <2>3, <2>4 DEF QueueInv
<1>. QED  BY Zenon, <1>2, <1>3

Grown(age) == IF age < Interval THEN age + 1 ELSE Interval

(* Ages are ordered as before when all have grown. *)
LEMMA GrownType ==
  ASSUME NEW a \in 0..Interval, NEW b \in 0..Interval
  PROVE  Grown(a) \in 0..Interval /\ (a >= b => Grown(a) >= Grown(b)) /\ Grown(Interval) = Interval
  BY SMTT(30), FeedbackAssumption DEF Grown

(* Time passes for the map, the queue and the slots alike. *)
LEMMA TickKeepsQueue == QueueInv /\ DataTick => QueueInv'
<1> SUFFICES ASSUME QueueInv, DataTick PROVE QueueInv'
  BY Zenon
<1>1. /\ since' = [f \in Flow |-> Grown(since[f])]
      /\ last' = [f \in DOMAIN last |-> Grown(last[f])]
      /\ queue' = [n \in DOMAIN queue |-> [queue[n] EXCEPT !.age = Grown(@)]]
  BY SMTT(30) DEF DataTick, Grown
<1>2. queue \in Seq(Entry) /\ since \in [Flow -> 0..Interval] /\ Interval \in Nat
  BY Zenon, FeedbackAssumption DEF QueueInv, QueueOK
<1>3. Len(queue) \in Nat /\ DOMAIN queue = 1..Len(queue) /\ \A n \in 1..Len(queue) : queue[n] \in Entry
  BY SMTT(30), <1>2
<1>4. \A n \in 1..Len(queue) : /\ queue'[n] \in Entry /\ queue'[n].flow = queue[n].flow
                               /\ queue'[n].age = Grown(queue[n].age)
  <2> SUFFICES ASSUME NEW n \in 1..Len(queue)
               PROVE  /\ queue'[n] \in Entry /\ queue'[n].flow = queue[n].flow
                      /\ queue'[n].age = Grown(queue[n].age)
    BY Zenon
  <2>1. queue[n].flow \in Flow /\ queue[n].age \in 0..Interval
    BY Zenon, <1>3 DEF Entry
  <2>2. queue'[n] = [queue[n] EXCEPT !.age = Grown(queue[n].age)]
    BY Zenon, <1>1, <1>3
  <2>3. queue'[n] = [flow |-> queue[n].flow, age |-> Grown(queue[n].age)]
    BY Zenon, <1>3, <2>2 DEF Entry
  <2>4. Grown(queue[n].age) \in 0..Interval
    BY Zenon, <2>1, GrownType
  <2>. QED  BY SMTT(30), <2>1, <2>3, <2>4 DEF Entry
<1>5. queue' \in Seq(Entry) /\ Len(queue') = Len(queue)
  <2>1. queue' \in [1..Len(queue) -> Entry]
    BY Zenon, <1>1, <1>3, <1>4
  <2>. QED  BY SMTT(30), <1>3, <2>1
<1>6. \A m, n \in 1..Len(queue') : m < n => queue'[m].age >= queue'[n].age /\ queue'[m].flow # queue'[n].flow
  <2> SUFFICES ASSUME NEW m \in 1..Len(queue), NEW n \in 1..Len(queue), m < n
               PROVE  queue'[m].age >= queue'[n].age /\ queue'[m].flow # queue'[n].flow
    BY SMTT(30), <1>5
  <2>1. queue[m].age >= queue[n].age /\ queue[m].flow # queue[n].flow
    BY Zenon DEF QueueInv, QueueOK
  <2>2. queue[m].age \in 0..Interval /\ queue[n].age \in 0..Interval
    BY SMTT(30), <1>3 DEF Entry
  <2>3. Grown(queue[m].age) >= Grown(queue[n].age)
    BY Zenon, <2>1, <2>2, GrownType
  <2>. QED  BY SMTT(30), <1>4, <2>1, <2>3
<1>7. DOMAIN last' = DOMAIN last /\ \A f \in DOMAIN last : last'[f] = Grown(last[f])
  BY SMTT(30), <1>1
<1>8. DOMAIN last' = {queue'[n].flow : n \in 1..Len(queue')}
  <2>1. DOMAIN last = {queue[n].flow : n \in 1..Len(queue)}
    BY Zenon DEF QueueInv, QueueOK
  <2>. QED  BY SMTT(30), <1>4, <1>5, <1>7, <2>1
<1>9. \A n \in 1..Len(queue') : last'[queue'[n].flow] = queue'[n].age
  <2>1. \A n \in 1..Len(queue) : queue[n].flow \in DOMAIN last /\ last[queue[n].flow] = queue[n].age
    BY Zenon DEF QueueInv, QueueOK
  <2>. QED  BY SMTT(30), <1>4, <1>5, <1>7, <2>1
<1>10. since' \in [Flow -> 0..Interval] /\ \A f \in Flow : since'[f] = Grown(since[f])
  <2>1. \A f \in Flow : Grown(since[f]) \in 0..Interval
    BY Zenon, <1>2, GrownType
  <2>. QED  BY Zenon, <1>1, <2>1
<1>11. \A f \in Flow : since'[f] = IF f \in DOMAIN last' THEN last'[f] ELSE Interval
  <2>1. \A f \in Flow : since[f] = IF f \in DOMAIN last THEN last[f] ELSE Interval
    BY Zenon DEF QueueInv, QueueOK
  <2>2. Grown(Interval) = Interval
    BY SMTT(30), <1>2 DEF Grown
  <2>. QED  BY SMTT(30), <1>7, <1>10, <2>1, <2>2
<1>. QED  BY Zenon, <1>5, <1>6, <1>8, <1>9, <1>10, <1>11 DEF QueueInv, QueueOK
-----------------------------------------------------------------------------
(* Fragmentation.                                                          *)

(* Rounding a quotient up: as many parts of size b as a needs, and no more. *)
LEMMA RoundedUp ==
  ASSUME NEW a \in Nat \ {0}, NEW b \in Nat \ {0},
         NEW c, c = (a + b - 1) \div b
  PROVE  c \in Nat \ {0} /\ a <= c * b /\ (c - 1) * b < a
  BY SMTT(30)

(* Products grow with their factor. *)
LEMMA Monotone ==
  ASSUME NEW k \in Nat, NEW m \in Nat, NEW n \in Nat, m <= n
  PROVE  m * k <= n * k
  BY SMTT(30)

(* The packet as fragment_ipv4_for_tunnel writes one fragment of it. *)
AsFragment(q, length, offset, more) ==
  [q EXCEPT !.total = length, !.captured = length, !.sum = TRUE, !.offset = offset, !.mf = more]

HasFields(x, q, length, offset, more) ==
  /\ x \in Packet
  /\ x.total = length /\ x.captured = length /\ x.sum = TRUE /\ x.offset = offset
  /\ x.mf = more /\ x.header = q.header /\ x.family = q.family /\ x.ecn = q.ecn
  /\ x.udpsum = q.udpsum

(* Its other fields are those of the packet. *)
LEMMA FragmentFields ==
  ASSUME NEW q \in Packet, NEW length \in Nat, NEW offset \in Nat, NEW more \in BOOLEAN
  PROVE  HasFields(AsFragment(q, length, offset, more), q, length, offset, more)
  BY Zenon DEF Packet, AsFragment, HasFields

(* x is the n-th of count pieces of q, which all but the last have size octets *)
(* of its payload.                                                             *)
IsPiece(x, n, count, size, q) ==
  /\ Parses(x) /\ x.header = q.header /\ x.ecn = q.ecn /\ x.udpsum = q.udpsum
  /\ 8 * x.offset = 8 * q.offset + (n - 1) * size
  /\ Payload(x) = IF n < count THEN size ELSE Payload(q) - (n - 1) * size
  /\ x.mf = (q.mf \/ n < count)

(* The sequence s cuts q into such pieces. *)
IsCut(s, q) ==
  \E size \in Nat :
    /\ Len(s) \in Nat \ {0}
    /\ Len(s) > 1 => (Len(s) - 1) * size < Payload(q)
    /\ \A n \in 1..Len(s) : s[n] \in Packet /\ IsPiece(s[n], n, Len(s), size, q)

(* fragment_ipv4_for_tunnel cuts a packet into pieces no longer than the MTU.  *)
LEMMA FragmentsCut ==
  ASSUME NEW q \in Packet, NEW mtu \in Nat, q.family = 4, q.header >= 20, q.total >= q.header,
         MaxPayload(q, mtu) >= 8, Payload(q) # 0
  PROVE  /\ IsCut(Fragments(q, mtu), q)
         /\ \A n \in 1..Len(Fragments(q, mtu)) : Fragments(q, mtu)[n].captured <= mtu
<1> DEFINE size == MaxPayload(q, mtu)
           count == (Payload(q) + size - 1) \div size
           Length(n) == IF n < count THEN q.header + size
                        ELSE q.header + Payload(q) - (n - 1) * size
           Fragment(n) == [q EXCEPT !.total = Length(n), !.captured = Length(n), !.sum = TRUE,
                                    !.offset = q.offset + (n - 1) * (size \div 8),
                                    !.mf = q.mf \/ n < count]
           s == Fragments(q, mtu)
<1>1. /\ q.header \in Nat /\ q.total \in Nat /\ q.offset \in Nat /\ q.mf \in BOOLEAN
      /\ q.header >= 20 /\ q.total >= q.header
  BY Zenon DEF Packet
<1>2. Payload(q) \in Nat \ {0} /\ q.header + Payload(q) = q.total
  BY SMTT(30), <1>1 DEF Payload
<1>3. PICK k \in Nat : size = k * 8 /\ size \div 8 = k /\ size + q.header <= mtu
  <2>1. mtu >= q.header /\ size = ((mtu - q.header) \div 8) * 8
    BY SMTT(30), <1>1 DEF MaxPayload
  <2>. QED  BY SMTT(30), <1>1, <2>1
<1>4. size \in Nat \ {0}
  BY SMTT(30), <1>3
<1>5. s = [n \in 1..count |-> Fragment(n)]
  BY Zenon DEF Fragments
<1> HIDE DEF size
<1>6. count \in Nat \ {0} /\ Payload(q) <= count * size /\ (count - 1) * size < Payload(q)
  BY Zenon, <1>2, <1>4, RoundedUp
<1> HIDE DEF count, s, Fragment
<1>7. Len(s) = count /\ \A n \in 1..count : s[n] = Fragment(n)
  BY SMTT(30), <1>5, <1>6
<1>8. ASSUME NEW n \in 1..count
      PROVE  s[n] \in Packet /\ IsPiece(s[n], n, count, size, q) /\ s[n].captured <= mtu
  <2>1. (n - 1) * size \in Nat /\ (n - 1) * k \in Nat /\ 8 * ((n - 1) * k) = (n - 1) * size
    BY SMTT(30), <1>3, <1>4, <1>6
  <2>2. (n - 1) * size <= (count - 1) * size
    BY SMTT(30), <1>4, <1>6, Monotone
  <2>3. n = count \/ n < count
    BY SMTT(30), <1>6
  <2>4. /\ Length(n) \in Nat /\ Length(n) <= q.header + size
        /\ Length(n) >= q.header
    BY SMTT(30), <1>1, <1>2, <1>4, <1>6, <2>1, <2>2, <2>3
  <2>5. q.offset + (n - 1) * (size \div 8) \in Nat
    BY SMTT(30), <1>1, <1>3, <2>1
  <2>6. s[n] = Fragment(n)
    BY Zenon, <1>7
  <2> DEFINE x == s[n]
             offset == q.offset + (n - 1) * (size \div 8)
             more == q.mf \/ n < count
  <2>7. more \in BOOLEAN
    BY Zenon
  <2> HIDE DEF Length
  <2>8. HasFields(x, q, Length(n), offset, more)
    <3> HIDE DEF offset, more
    <3>1. x = AsFragment(q, Length(n), offset, more)
      BY Zenon, <2>6 DEF AsFragment, Fragment, offset, more
    <3>2. offset \in Nat
      BY SMTT(30), <2>5 DEF offset
    <3>. QED  BY Zenon, <2>4, <2>7, <3>1, <3>2, FragmentFields
  <2>9. 8 * x.offset = 8 * q.offset + (n - 1) * size
    BY SMTT(30), <1>1, <1>3, <2>1, <2>8 DEF HasFields
  <2>10. Payload(x) = IF n < count THEN size ELSE Payload(q) - (n - 1) * size
    BY SMTT(30), <1>1, <1>2, <1>4, <2>1, <2>8 DEF Payload, Length, HasFields
  <2>11. Parses(x)
    BY SMTT(30), <1>1, <2>4, <2>8 DEF Parses, MinHeader, HasFields
  <2>12. x.captured <= mtu
    BY SMTT(30), <1>1, <1>3, <1>4, <2>4, <2>8 DEF HasFields
  <2>. QED  BY Zenon, <2>8, <2>9, <2>10, <2>11, <2>12 DEF IsPiece, HasFields
<1>9. IsCut(s, q)
  BY Zenon, <1>4, <1>6, <1>7, <1>8 DEF IsCut
<1>. QED  BY Zenon, <1>7, <1>8, <1>9 DEF s

(* A tunnel's MTU leaves room for the outer headers (tunnel_mtu). *)
LEMMA TunnelMtuType ==
  ASSUME NEW e \in Endpoint
  PROVE  /\ TunnelMtu(PathMtu, OuterFamily[e]) \in Nat
         /\ TunnelMtu(PathMtu, OuterFamily[e]) + 10 + MinHeader(OuterFamily[e]) = PathMtu
         /\ MinHeader(OuterFamily[e]) \in Nat
<1>1. OuterFamily[e] \in {4, 6} /\ PathMtu \in Nat /\ PathMtu >= 1280
  BY SMTT(30), TunnelAssumption
<1>. QED  BY SMTT(30), <1>1 DEF TunnelMtu, MinHeader

(* Normalisation changes nothing but padding and checksums, and what was       *)
(* captured whole parses after it (normalized_amt_datagram).                   *)
Normalized(q, p) ==
  /\ q \in Packet
  /\ q.total = p.total /\ q.header = p.header /\ q.offset = p.offset /\ q.mf = p.mf
  /\ q.family = p.family /\ q.ecn = p.ecn /\ q.upper = p.upper
  /\ CapturedWhole(p) => /\ Parses(q)
                         /\ q.udpsum <=> p.udpsum \/ UdpWhole(p)
  /\ ~CapturedWhole(p) => q = p
LEMMA NormalizeKeeps ==
  ASSUME NEW p \in Packet
  PROVE  Normalized(Normalize(p), p)
<1>1. /\ p.captured \in Nat /\ p.total \in Nat /\ p.header \in Nat
      /\ p.family \in {4, 6}
  BY Zenon DEF Packet
<1>2. CASE ~CapturedWhole(p)
  <2>1. Normalize(p) = p
    BY SMTT(30), <1>2 DEF Normalize
  <2>. QED  BY Zenon, <1>2, <2>1 DEF Normalized
<1>3. CASE CapturedWhole(p)
  <2> DEFINE c == [p EXCEPT !.captured = p.total, !.sum = TRUE]
  <2>1. /\ c \in Packet
        /\ c.total = p.total /\ c.header = p.header /\ c.offset = p.offset /\ c.mf = p.mf
        /\ c.family = p.family /\ c.ecn = p.ecn /\ c.upper = p.upper
        /\ c.captured = p.total /\ c.sum = TRUE /\ c.udpsum = p.udpsum /\ c.udplen = p.udplen
    BY Zenon DEF Packet
  <2>2. Normalize(p) = RepairUdp(c)
    BY Zenon, <1>3 DEF Normalize
  <2> HIDE DEF c
  <2> DEFINE u == [c EXCEPT !.udpsum = TRUE]
  <2>3. /\ u \in Packet
        /\ u.total = c.total /\ u.header = c.header /\ u.offset = c.offset /\ u.mf = c.mf
        /\ u.family = c.family /\ u.ecn = c.ecn /\ u.upper = c.upper
        /\ u.captured = c.captured /\ u.sum = c.sum /\ u.udpsum
    BY Zenon, <2>1 DEF Packet
  <2> HIDE DEF u
  <2>4. UdpWhole(c) <=> UdpWhole(p)
    BY Zenon, <2>1 DEF UdpWhole, IsFragment
  <2>5. RepairUdp(c) = IF UdpWhole(p) THEN u ELSE c
    BY Zenon, <2>1, <2>4 DEF RepairUdp, u
  <2>6. PICK q : q = Normalize(p)
    BY SMTT(30)
  <2>7. /\ q \in Packet
        /\ q.total = p.total /\ q.header = p.header /\ q.offset = p.offset /\ q.mf = p.mf
        /\ q.family = p.family /\ q.ecn = p.ecn /\ q.upper = p.upper
        /\ q.captured = p.total /\ q.sum = TRUE
        /\ q.udpsum <=> p.udpsum \/ UdpWhole(p)
    BY Zenon, <2>1, <2>2, <2>3, <2>5, <2>6
  <2>8. MinHeader(p.family) \in Nat
    BY Zenon, <1>1 DEF MinHeader
  <2>9. Parses(q)
    BY SMTT(30), <1>1, <1>3, <2>7, <2>8 DEF Parses, CapturedWhole
  <2>. QED  BY Zenon, <1>3, <2>6, <2>7, <2>9 DEF Normalized
<1>. QED  BY Zenon, <1>2, <1>3

(* The two normalisations agree (normalize_forwarded_datagram). *)
LEMMA NormalizationsSame ==
  ASSUME NEW p \in Packet
  PROVE  NormalizeForwarded(p) = Normalize(p)
<1>1. /\ p.captured \in Nat /\ p.total \in Nat /\ p.header \in Nat
      /\ MinHeader(p.family) \in Nat
  BY Zenon DEF Packet, MinHeader
<1>2. CapturedWhole(p) <=> ~ (\/ p.captured < MinHeader(p.family)
                              \/ p.header < MinHeader(p.family) \/ p.captured < p.header
                              \/ p.total < p.header \/ p.captured < p.total)
  BY SMTT(30), <1>1 DEF CapturedWhole
<1>. QED  BY Zenon, <1>2 DEF Normalize, NormalizeForwarded

(* What is sent to an endpoint fits its tunnel and has the packet's ECN field; *)
(* it is a cut of the packet, unless the packet is too big                     *)
(* (prepare_oversized_tunnel_data).                                            *)
PiecesOK(s, q, e) ==
  /\ Len(s) \in Nat
  /\ \A n \in 1..Len(s) :
       /\ s[n] \in Packet /\ s[n].ecn = q.ecn
       /\ s[n].captured <= TunnelMtu(PathMtu, OuterFamily[e])
  /\ Parses(q) /\ ~TooBig(q, e) => IsCut(s, q)
  /\ Parses(q) => \A n \in 1..Len(s) : Parses(s[n])
LEMMA PiecesAreOK ==
  ASSUME NEW q \in Packet, NEW e \in Endpoint
  PROVE  PiecesOK(Pieces(q, e), q, e)
<1>1. PICK mtu \in Nat : mtu = TunnelMtu(PathMtu, OuterFamily[e])
  BY Zenon, TunnelMtuType
<1>2. /\ q.captured \in Nat /\ q.total \in Nat /\ q.header \in Nat /\ q.offset \in Nat
      /\ q.mf \in BOOLEAN /\ q.family \in {4, 6}
  BY SMTT(30) DEF Packet
<1>3. CASE q.captured <= mtu
  <2>1. PICK s : s = Pieces(q, e)
    BY Zenon
  <2>2. Len(s) = 1 /\ s[1] = q /\ \A n \in 1..Len(s) : s[n] = q
    BY SMTT(30), <1>1, <1>3, <2>1 DEF Pieces
  <2>3. ASSUME Parses(q) PROVE IsCut(s, q)
    <3>1. IsPiece(q, 1, 1, 0, q)
      BY SMTT(30), <1>2, <2>3 DEF IsPiece, Payload
    <3>2. \A n \in 1..Len(s) : s[n] \in Packet /\ IsPiece(s[n], n, Len(s), 0, q)
      <4> TAKE n \in 1..Len(s)
      <4>1. n = 1 /\ s[n] = q /\ Len(s) = 1
        BY SMTT(30), <2>2
      <4>. QED  BY Zenon, <3>1, <4>1
    <3>. QED  BY SMTT(30), <2>2, <3>2 DEF IsCut
  <2>. QED  BY SMTT(30), <1>1, <1>3, <2>1, <2>2, <2>3 DEF PiecesOK
<1>4. CASE q.captured > mtu /\ OversizedError(q, mtu) # "none"
  <2>1. Pieces(q, e) = <<>> /\ TooBig(q, e)
    BY SMTT(30), <1>1, <1>2, <1>4 DEF Pieces, TooBig
  <2>2. Len(<<>>) = 0 /\ 1..0 = {}
    BY SMTT(30)
  <2>. QED  BY Zenon, <2>1, <2>2 DEF PiecesOK
<1>5. CASE q.captured > mtu /\ OversizedError(q, mtu) = "none"
  <2>1. Pieces(q, e) = FragmentsOf(q, mtu)
    BY SMTT(30), <1>1, <1>2, <1>5 DEF Pieces
  <2>2. q.family = 4 /\ FragmentError(q, mtu) = "none"
    BY ZenonT(30), <1>2, <1>5 DEF OversizedError
  <2>3. q.captured >= 20 /\ q.header >= 20 /\ q.header <= q.captured /\ q.total = q.captured
    BY SMTT(30), <2>2 DEF FragmentError
  <2>4. ~ (q.total <= mtu) /\ q.total >= q.header
    BY SMTT(30), <1>1, <1>2, <1>5, <2>3
  <2>5. MaxPayload(q, mtu) >= 8 /\ Payload(q) # 0
    <3>1. MaxPayload(q, mtu) \in Int
      BY SMTT(30), <1>1, <1>2 DEF MaxPayload
    <3>. QED  BY SMTT(30), <2>2, <2>3, <2>4, <3>1 DEF FragmentError
  <2>6. PICK s : s = Pieces(q, e)
    BY Zenon
  <2>7. s = Fragments(q, mtu)
    BY SMTT(30), <2>1, <2>4, <2>6 DEF FragmentsOf
  <2>8. PiecesOK(s, q, e)
    <3>1. IsCut(s, q) /\ \A n \in 1..Len(s) : s[n].captured <= mtu
      BY SMTT(30), <2>2, <2>3, <2>4, <2>5, <2>7, FragmentsCut
    <3>2. /\ Len(s) \in Nat
          /\ \A n \in 1..Len(s) : s[n] \in Packet /\ s[n].ecn = q.ecn /\ Parses(s[n])
      BY SMTT(30), <3>1 DEF IsCut, IsPiece
    <3>. QED  BY SMTT(30), <1>1, <3>1, <3>2 DEF PiecesOK
  <2>. QED  BY Zenon, <2>6, <2>8
<1>. QED  BY SMTT(30), <1>1, <1>2, <1>3, <1>4, <1>5

(* x is y but for its ECN field, which decapsulation may have changed. *)
SameButEcn(x, y) ==
  /\ x \in Packet /\ y \in Packet
  /\ x.header = y.header /\ x.captured = y.captured /\ x.total = y.total /\ x.offset = y.offset
  /\ x.mf = y.mf /\ x.udpsum = y.udpsum

(* The n-th piece ends where the next one starts, and the last one where the   *)
(* packet ends.                                                                *)
LEMMA PieceEnds ==
  ASSUME NEW q \in Packet, NEW count \in Nat \ {0}, NEW size \in Nat, NEW n \in 1..count,
         NEW x \in Packet, IsPiece(x, n, count, size, q),
         count > 1 => (count - 1) * size < Payload(q)
  PROVE  /\ 8 * x.offset = 8 * q.offset + (n - 1) * size
         /\ n < count => /\ 8 * x.offset + Payload(x) = 8 * q.offset + n * size
                         /\ 8 * x.offset + Payload(x) < 8 * q.offset + Payload(q)
                         /\ x.mf
         /\ n = count => /\ 8 * x.offset + Payload(x) = 8 * q.offset + Payload(q)
                         /\ x.mf = q.mf
<1>1. q.offset \in Nat /\ x.offset \in Nat /\ Payload(q) \in Int /\ Payload(x) \in Int
  BY SMTT(30) DEF Packet, Payload
<1>2. (n - 1) * size \in Int /\ n * size = (n - 1) * size + size /\ n * size \in Int
  BY SMTT(30)
<1>3. 8 * x.offset = 8 * q.offset + (n - 1) * size
  BY Zenon DEF IsPiece
<1>4. ASSUME n < count
      PROVE  /\ 8 * x.offset + Payload(x) = 8 * q.offset + n * size
             /\ 8 * x.offset + Payload(x) < 8 * q.offset + Payload(q)
             /\ x.mf
  <2>1. Payload(x) = size /\ x.mf
    BY Zenon, <1>4 DEF IsPiece
  <2>2. n * size <= (count - 1) * size /\ (count - 1) * size \in Int
    BY SMTT(30), <1>4, Monotone
  <2>3. (count - 1) * size < Payload(q)
    BY SMTT(30), <1>4
  <2>. QED  BY SMTT(30), <1>1, <1>2, <1>3, <2>1, <2>2, <2>3
<1>5. ASSUME n = count
      PROVE  8 * x.offset + Payload(x) = 8 * q.offset + Payload(q) /\ x.mf = q.mf
  <2>1. Payload(x) = Payload(q) - (n - 1) * size
    BY SMTT(30), <1>5 DEF IsPiece
  <2>2. x.mf = q.mf
    BY SMTT(30), <1>5 DEF IsPiece, Packet
  <2>. QED  BY SMTT(30), <1>1, <1>2, <1>3, <2>1, <2>2
<1>. QED  BY Zenon, <1>3, <1>4, <1>5

(* A set that holds the pieces of a cut, and only those, reassembles to the    *)
(* packet that was cut.                                                        *)
LEMMA CutReassembles ==
  ASSUME NEW q \in Packet, NEW s, IsCut(s, q), NEW pieces,
         \A x \in pieces : \E n \in 1..Len(s) : SameButEcn(x, s[n]),
         \A n \in 1..Len(s) : \E x \in pieces : SameButEcn(x, s[n])
  PROVE  Reassembles(pieces, q)
<1> DEFINE StartOf(x) == 8 * x.offset
           EndOf(x) == StartOf(x) + Payload(x)
<1>1. PICK size \in Nat :
        /\ Len(s) \in Nat \ {0}
        /\ Len(s) > 1 => (Len(s) - 1) * size < Payload(q)
        /\ \A n \in 1..Len(s) : s[n] \in Packet /\ IsPiece(s[n], n, Len(s), size, q)
  BY Zenon DEF IsCut
<1>2. PICK count \in Nat \ {0} : count = Len(s)
  BY SMTT(30), <1>1
<1>3. \A n \in 1..count :
        /\ StartOf(s[n]) = StartOf(q) + (n - 1) * size
        /\ n < count => EndOf(s[n]) = StartOf(q) + n * size /\ EndOf(s[n]) < EndOf(q) /\ s[n].mf
        /\ n = count => EndOf(s[n]) = EndOf(q) /\ s[n].mf = q.mf
  <2> SUFFICES ASSUME NEW n \in 1..count
               PROVE  /\ StartOf(s[n]) = StartOf(q) + (n - 1) * size
                      /\ n < count => EndOf(s[n]) = StartOf(q) + n * size /\ EndOf(s[n]) < EndOf(q) /\ s[n].mf
                      /\ n = count => EndOf(s[n]) = EndOf(q) /\ s[n].mf = q.mf
    BY Zenon
  <2>1. /\ s[n] \in Packet /\ IsPiece(s[n], n, count, size, q)
        /\ count > 1 => (count - 1) * size < Payload(q)
    BY SMTT(30), <1>1, <1>2
  <2>. QED  BY SMTT(30), <2>1, PieceEnds
<1>4. \A x, y : SameButEcn(x, y) => StartOf(x) = StartOf(y) /\ EndOf(x) = EndOf(y) /\ x.mf = y.mf
  BY Zenon DEF SameButEcn, Payload
<1>5. StartOf(q) \in Int /\ EndOf(q) \in Int
  BY SMTT(30) DEF Packet, Payload
<1> HIDE DEF StartOf, EndOf
<1>6. \E x \in pieces : StartOf(x) = StartOf(q)
  <2>1. 1 \in 1..count /\ (1 - 1) * size = 0 /\ StartOf(q) + 0 = StartOf(q)
    BY SMTT(30), <1>5
  <2>2. StartOf(s[1]) = StartOf(q)
    BY SMTT(30), <1>3, <2>1
  <2>. QED  BY SMTT(30), <1>2, <1>4, <2>1, <2>2
<1>7. ASSUME NEW x \in pieces
      PROVE  /\ x.header = q.header /\ x.captured = x.total
             /\ \/ EndOf(x) = EndOf(q) /\ x.mf = q.mf
                \/ EndOf(x) < EndOf(q) /\ x.mf /\ \E r \in pieces : StartOf(r) = EndOf(x)
  <2>1. PICK n \in 1..count : SameButEcn(x, s[n])
    BY Zenon, <1>2
  <2>2. x.header = q.header /\ x.captured = x.total
    BY ZenonT(30), <1>1, <1>2, <2>1 DEF SameButEcn, IsPiece, Parses
  <2>3. CASE n = count
    BY Zenon, <1>3, <1>4, <2>1, <2>2, <2>3
  <2>4. CASE n < count
    <3>1. n + 1 \in 1..count /\ (n + 1) - 1 = n
      BY SMTT(30), <2>4
    <3>2. PICK r \in pieces : SameButEcn(r, s[n + 1])
      BY SMTT(30), <1>2, <3>1
    <3>3. StartOf(s[n + 1]) = StartOf(q) + n * size
      BY SMTT(30), <1>3, <3>1
    <3>4. EndOf(s[n]) = StartOf(q) + n * size /\ EndOf(s[n]) < EndOf(q) /\ s[n].mf
      BY Zenon, <1>3, <2>4
    <3>. QED  BY SMTT(30), <1>4, <2>1, <2>2, <3>2, <3>3, <3>4
  <2>. QED  BY SMTT(30), <2>3, <2>4
<1>8. ASSUME NEW x \in pieces, NEW r \in pieces, StartOf(x) < StartOf(r)
      PROVE  EndOf(x) <= StartOf(r)
  <2>1. PICK n \in 1..count : SameButEcn(x, s[n])
    BY Zenon, <1>2
  <2>2. PICK m \in 1..count : SameButEcn(r, s[m])
    BY SMTT(30), <1>2
  <2>3. /\ StartOf(x) = StartOf(q) + (n - 1) * size /\ StartOf(r) = StartOf(q) + (m - 1) * size
        /\ n < count => EndOf(x) = StartOf(q) + n * size
    BY Zenon, <1>3, <1>4, <2>1, <2>2
  <2>4. PICK i \in Int, j \in Int, k \in Int :
          i = (n - 1) * size /\ j = (m - 1) * size /\ k = n * size
    BY SMTT(30)
  <2>5. n < m
    <3>1. SUFFICES ASSUME m <= n PROVE FALSE
      BY SMTT(30)
    <3>2. (m - 1) * size <= (n - 1) * size
      BY SMTT(30), <3>1, Monotone
    <3>3. j <= i /\ StartOf(x) = StartOf(q) + i /\ StartOf(r) = StartOf(q) + j
      BY Zenon, <2>3, <2>4, <3>2
    <3>. QED  BY SMTT(30), <1>5, <1>8, <3>3
  <2>6. n * size <= (m - 1) * size
    BY SMTT(30), <2>5, Monotone
  <2>7. k <= j /\ EndOf(x) = StartOf(q) + k /\ StartOf(r) = StartOf(q) + j
    BY SMTT(30), <2>3, <2>4, <2>5, <2>6
  <2>. QED  BY SMTT(30), <1>5, <2>7
<1>. QED  BY Zenon, <1>6, <1>7, <1>8 DEF Reassembles, StartOf, EndOf
-----------------------------------------------------------------------------
(* A packet on its way.                                                    *)

Datagram == [to : Endpoint, inner : Packet, outer : Codepoint]

(* What the relay sends to e of the packet p. *)
Sent(p, e) == Pieces(Normalize(p), e)

(* The tunnel datagrams carry what was sent, and so do the published packets,  *)
(* but for their ECN fields.                                                   *)
InTransit(p) ==
  /\ \A d \in air : /\ d.to \in MatchingEndpoints(flow)
                    /\ \E n \in 1..Len(Sent(p, d.to)) : d.inner = Sent(p, d.to)[n]
  /\ \A x \in arrived : \E n \in 1..Len(Sent(p, x.at)) : SameButEcn(x.piece, Sent(p, x.at)[n])

(* The n-th piece for e is under way or was published. *)
Present(p, e, n) ==
  \/ \E d \in air : d.to = e /\ d.inner = Sent(p, e)[n]
  \/ \E x \in arrived : x.at = e /\ SameButEcn(x.piece, Sent(p, e)[n])
NoneMissing(p) ==
  CapturedWhole(p) => \A e \in MatchingEndpoints(flow) \ lossy : \A n \in 1..Len(Sent(p, e)) :
                        Present(p, e, n)

(* Inductive: what was sent of the packet is under way, was published, or      *)
(* missed by an endpoint that is known to have missed something.               *)
PathInv ==
  /\ interest \in [Endpoint -> [Flow -> Want]] /\ capable \subseteq EcnGateway
  /\ flow \in Flow /\ packet \subseteq Packet
  /\ air \subseteq Datagram
  /\ \A x \in arrived : x.at \in Endpoint /\ x.piece \in Packet /\ x.outer \in Codepoint
  /\ lossy \subseteq Endpoint
  /\ packet = {} => air = {} /\ arrived = {}
  /\ \A p \in packet : /\ InTransit(p) /\ NoneMissing(p)
                       /\ dropped = {e \in MatchingEndpoints(flow) : TooBig(Normalize(p), e)}
  /\ dropped \subseteq Endpoint
  /\ CongestionSeen

(* Inductive: the ICMP error is a justified one. *)
FeedbackInv == feedback \subseteq [mtu : Nat, length : Nat] /\ ErrorsJustified

(* What a gateway publishes (parse_multicast_packet, decapsulate_ecn). *)
LEMMA PublishesRight ==
  ASSUME NEW d \in Datagram
  PROVE  /\ \A c \in Publishes(d) :
              /\ Parses(d.inner) /\ c \in Codepoint
              /\ d.to \in EcnGateway /\ d.outer = "Ce" => c = "Ce"
              /\ d.inner.ecn = "Ce" => c = "Ce"
              /\ d.inner.ecn = "NotEct" => c = "NotEct"
         /\ Parses(d.inner) /\ d.outer # "Ce" => Publishes(d) # {}
<1>1. d.inner.ecn \in Codepoint /\ d.outer \in Codepoint
  BY SMTT(30) DEF Datagram, Packet
<1>2. CASE ~Parses(d.inner)
  BY SMTT(30), <1>2 DEF Publishes
<1>3. CASE Parses(d.inner) /\ d.to \in EcnGateway
  <2>1. Publishes(d) = Decapsulate(d.inner.ecn, d.outer)
    BY Zenon, <1>3 DEF Publishes
  <2>2. CASE d.outer = "Ce"
    BY Zenon, <1>1, <1>3, <2>1, <2>2 DEF Decapsulate, Codepoint
  <2>3. CASE d.outer # "Ce" /\ d.outer = "Ect1" /\ d.inner.ecn = "Ect0"
    BY SMTT(30), <1>1, <1>3, <2>1, <2>3 DEF Decapsulate, Codepoint
  <2>4. CASE d.outer # "Ce" /\ ~ (d.outer = "Ect1" /\ d.inner.ecn = "Ect0")
    <3>1. Publishes(d) = {d.inner.ecn}
      BY SMTT(30), <2>1, <2>4 DEF Decapsulate
    <3>. QED  BY Zenon, <1>1, <1>3, <2>4, <3>1
  <2>. QED  BY Zenon, <2>2, <2>3, <2>4
<1>4. CASE Parses(d.inner) /\ d.to \notin EcnGateway
  <2>1. Publishes(d) = {d.inner.ecn}
    BY SMTT(30), <1>4 DEF Publishes
  <2>. QED  BY Zenon, <1>1, <1>4, <2>1
<1>. QED  BY Zenon, <1>2, <1>3, <1>4

(* A packet as it is published with the codepoint c. *)
WithEcn(q, c) == [q EXCEPT !.ecn = c]
AsPublished(q, c) == [WithEcn(q, c) EXCEPT !.captured = WithEcn(q, c).total]
Delivery(d, c) == [at |-> d.to, piece |-> AsPublished(d.inner, c), outer |-> d.outer]

(* Only the ECN field is new (forward_ip_datagram). *)
LEMMA PublishedSame ==
  ASSUME NEW q \in Packet, Parses(q), NEW c \in Codepoint
  PROVE  /\ SameButEcn(AsPublished(q, c), q) /\ AsPublished(q, c).ecn = c
         /\ DownstreamParses(WithEcn(q, c))
<1>1. /\ q.captured \in Nat /\ q.total \in Nat /\ q.header \in Nat /\ MinHeader(q.family) \in Nat
  BY Zenon DEF Packet, MinHeader
<1>2. PICK w : w = WithEcn(q, c)
  BY Zenon
<1>3. /\ w \in Packet /\ w.ecn = c /\ w.header = q.header /\ w.captured = q.captured
      /\ w.total = q.total /\ w.offset = q.offset /\ w.mf = q.mf /\ w.udpsum = q.udpsum
      /\ w.family = q.family
  BY Zenon, <1>2 DEF Packet, WithEcn
<1>4. PICK x : x = AsPublished(q, c)
  BY Zenon
<1>5. x = [w EXCEPT !.captured = w.total]
  BY Zenon, <1>2, <1>4 DEF AsPublished
<1>6. /\ x \in Packet /\ x.ecn = c /\ x.header = q.header /\ x.captured = q.total
      /\ x.total = q.total /\ x.offset = q.offset /\ x.mf = q.mf /\ x.udpsum = q.udpsum
  BY Zenon, <1>3, <1>5 DEF Packet
<1>7. q.total = q.captured
  BY SMTT(30) DEF Parses
<1>8. SameButEcn(x, q)
  BY SMTT(30), <1>6, <1>7 DEF SameButEcn
<1>9. DownstreamParses(w)
  BY SMTT(30), <1>1, <1>3 DEF DownstreamParses, Parses
<1>. QED  BY SMTT(30), <1>2, <1>4, <1>6, <1>8, <1>9

(* Gateway::handle_datagram publishes a delivery for every codepoint it may    *)
(* publish, and nothing else.                                                  *)
LEMMA ReceiveAdds ==
  ASSUME NEW d \in Datagram, NEW ok \in BOOLEAN, Receive(d, ok)
  PROVE  /\ \A x \in arrived' : x \in arrived \/ \E c \in Publishes(d) : x = Delivery(d, c)
         /\ arrived \subseteq arrived'
         /\ ok => \A c \in Publishes(d) : Delivery(d, c) \in arrived'
         /\ Parses(d.inner) /\ d.to \notin lossy' => ok /\ Publishes(d) # {}
         /\ lossy \subseteq lossy' /\ lossy' \subseteq lossy \cup {d.to}
         /\ air' = air \ {d}
<1> DEFINE taken == {WithEcn(d.inner, c) : c \in Publishes(d)}
           sent == UNION {ForwardIpDatagram(q, ok) : q \in taken}
<1>1. /\ air' = air \ {d}
      /\ arrived' = arrived \cup {[at |-> d.to, piece |-> q, outer |-> d.outer] : q \in sent}
      /\ lossy' = lossy \cup IF ok /\ (taken # {} \/ d.outer # "Ce") THEN {} ELSE {d.to}
  BY Zenon DEF Receive, WithEcn
<1>2. \A c \in Publishes(d) : /\ DownstreamParses(WithEcn(d.inner, c)) /\ Parses(d.inner)
  BY Zenon, PublishesRight, PublishedSame DEF Datagram
<1>3. \A c \in Publishes(d) :
        ForwardIpDatagram(WithEcn(d.inner, c), ok) = IF ok THEN {AsPublished(d.inner, c)} ELSE {}
  BY Zenon, <1>2 DEF ForwardIpDatagram, AsPublished
<1>4. /\ \A q \in sent : \E c \in Publishes(d) : q = AsPublished(d.inner, c)
      /\ ok => \A c \in Publishes(d) : AsPublished(d.inner, c) \in sent
  BY Zenon, <1>3
<1>5. taken # {} <=> Publishes(d) # {}
  BY Zenon
<1> HIDE DEF taken, sent
<1>6. \A x \in arrived' : x \in arrived \/ \E c \in Publishes(d) : x = Delivery(d, c)
  BY Zenon, <1>1, <1>4 DEF Delivery
<1>7. ok => \A c \in Publishes(d) : Delivery(d, c) \in arrived'
  BY Zenon, <1>1, <1>4 DEF Delivery
<1>8. Parses(d.inner) /\ d.to \notin lossy' => ok /\ Publishes(d) # {}
  BY Zenon, <1>1, <1>5, PublishesRight
<1>. QED  BY Zenon, <1>1, <1>6, <1>7, <1>8

(* What is sent of a packet is one piece after another of it. *)
LEMMA SentOK ==
  ASSUME NEW p \in Packet, NEW e \in Endpoint
  PROVE  PiecesOK(Sent(p, e), Normalize(p), e) /\ Normalized(Normalize(p), p)
  BY Zenon, NormalizeKeeps, PiecesAreOK DEF Sent, Normalized

(* A lost datagram is missed by an endpoint that is known to have missed it. *)
LEMMA LoseKeeps ==
  ASSUME PathInv, NEW d \in air, Lose(d)
  PROVE  PathInv'
<1>1. /\ air' = air \ {d} /\ lossy' = lossy \cup {d.to} /\ UNCHANGED arrived
      /\ UNCHANGED <<interest, capable, flow, packet, dropped>>
  BY Zenon DEF Lose, transit
<1>2. d.to \in Endpoint
  BY Zenon DEF PathInv, Datagram
<1>3. MatchingEndpoints(flow)' = MatchingEndpoints(flow)
  BY Zenon, <1>1 DEF MatchingEndpoints
<1>4. ASSUME NEW p \in packet PROVE InTransit(p)' /\ NoneMissing(p)'
  <2>1. InTransit(p) /\ NoneMissing(p)
    BY Zenon DEF PathInv
  <2>2. InTransit(p)'
    BY Zenon, <1>1, <1>3, <2>1 DEF InTransit
  <2>3. ASSUME CapturedWhole(p), NEW e \in MatchingEndpoints(flow) \ lossy', NEW n \in 1..Len(Sent(p, e))
        PROVE  Present(p, e, n)'
    <3>1. Present(p, e, n) /\ e # d.to
      BY Zenon, <1>1, <2>1, <2>3 DEF NoneMissing
    <3>. QED  BY Zenon, <1>1, <3>1 DEF Present
  <2>. QED  BY Zenon, <1>3, <2>2, <2>3 DEF NoneMissing
<1>5. CongestionSeen'
  BY Zenon, <1>1 DEF PathInv, CongestionSeen
<1>. QED  BY Zenon, <1>1, <1>2, <1>3, <1>4, <1>5 DEF PathInv

(* A remarked datagram is the same but for its outer field. *)
LEMMA RemarkKeeps ==
  ASSUME PathInv, NEW d \in air, Remark(d)
  PROVE  PathInv'
<1>1. PICK r \in Remarks : air' = (air \ {d}) \cup {[d EXCEPT !.outer = r[2]]}
  BY Zenon DEF Remark
<1>2. UNCHANGED <<interest, capable, flow, packet, dropped, arrived, lossy>>
  BY Zenon DEF Remark, transit
<1>3. r[2] \in Codepoint /\ d \in Datagram
  BY Zenon, TrafficAssumption DEF PathInv
<1>4. PICK x : x = [d EXCEPT !.outer = r[2]]
  BY Zenon
<1>5. x \in Datagram /\ x.to = d.to /\ x.inner = d.inner
  BY Zenon, <1>3, <1>4 DEF Datagram
<1>6. MatchingEndpoints(flow)' = MatchingEndpoints(flow)
  BY Zenon, <1>2 DEF MatchingEndpoints
<1>7. air' = (air \ {d}) \cup {x} /\ air' \subseteq Datagram
  BY Zenon, <1>1, <1>4, <1>5 DEF PathInv
<1>8. ASSUME NEW p \in packet PROVE InTransit(p)' /\ NoneMissing(p)'
  <2>1. InTransit(p) /\ NoneMissing(p)
    BY Zenon DEF PathInv
  <2>2. InTransit(p)'
    BY Zenon, <1>2, <1>5, <1>6, <1>7, <2>1 DEF InTransit
  <2>3. ASSUME CapturedWhole(p), NEW e \in MatchingEndpoints(flow) \ lossy, NEW n \in 1..Len(Sent(p, e))
        PROVE  Present(p, e, n)'
    <3>1. Present(p, e, n)
      BY Zenon, <2>1, <2>3 DEF NoneMissing
    <3>. QED  BY Zenon, <1>2, <1>5, <1>7, <3>1 DEF Present
  <2>. QED  BY SMTT(30), <1>2, <1>6, <2>2, <2>3 DEF NoneMissing
<1>9. CongestionSeen'
  BY Zenon, <1>2 DEF PathInv, CongestionSeen
<1>10. packet # {}
  BY Zenon DEF PathInv
<1>. QED  BY Zenon, <1>2, <1>6, <1>7, <1>8, <1>9, <1>10 DEF PathInv

(* A received datagram is published, unless the gateway must drop it or its    *)
(* socket fails.                                                               *)
LEMMA ReceiveKeeps ==
  ASSUME PathInv, NEW d \in air, NEW ok \in BOOLEAN, Receive(d, ok)
  PROVE  PathInv'
<1>0. d \in Datagram /\ d.to \in Endpoint /\ d.inner \in Packet /\ d.outer \in Codepoint
  BY Zenon DEF PathInv, Datagram
<1>1. UNCHANGED <<interest, capable, flow, packet, dropped>>
  BY SMTT(30) DEF Receive, transit
<1>2. /\ \A x \in arrived' : x \in arrived \/ \E c \in Publishes(d) : x = Delivery(d, c)
      /\ arrived \subseteq arrived'
      /\ ok => \A c \in Publishes(d) : Delivery(d, c) \in arrived'
      /\ Parses(d.inner) /\ d.to \notin lossy' => ok /\ Publishes(d) # {}
      /\ lossy \subseteq lossy' /\ lossy' \subseteq lossy \cup {d.to}
      /\ air' = air \ {d}
  BY Zenon, <1>0, ReceiveAdds
<1>3. MatchingEndpoints(flow)' = MatchingEndpoints(flow)
  BY Zenon, <1>1 DEF MatchingEndpoints
<1>4. ASSUME NEW c \in Publishes(d)
      PROVE  /\ Delivery(d, c).at = d.to /\ Delivery(d, c).outer = d.outer
             /\ SameButEcn(Delivery(d, c).piece, d.inner) /\ Delivery(d, c).piece.ecn = c
  <2>1. Parses(d.inner) /\ c \in Codepoint
    BY Zenon, <1>0, PublishesRight
  <2>2. SameButEcn(AsPublished(d.inner, c), d.inner) /\ AsPublished(d.inner, c).ecn = c
    BY Zenon, <1>0, <2>1, PublishedSame
  <2>. QED  BY SMTT(30), <2>2 DEF Delivery
<1>5. \A x \in arrived' : x.at \in Endpoint /\ x.piece \in Packet /\ x.outer \in Codepoint
  <2> SUFFICES ASSUME NEW x \in arrived'
               PROVE  x.at \in Endpoint /\ x.piece \in Packet /\ x.outer \in Codepoint
    BY Zenon
  <2>1. CASE x \in arrived
    BY Zenon, <2>1 DEF PathInv
  <2>2. ASSUME NEW c \in Publishes(d), x = Delivery(d, c)
        PROVE  x.at \in Endpoint /\ x.piece \in Packet /\ x.outer \in Codepoint
    BY Zenon, <1>0, <1>4, <2>2 DEF SameButEcn
  <2>. QED  BY Zenon, <1>2, <2>1, <2>2
<1>6. ASSUME NEW p \in packet
      PROVE  \E n \in 1..Len(Sent(p, d.to)) : d.inner = Sent(p, d.to)[n]
  BY Zenon DEF PathInv, InTransit
<1>7. ASSUME NEW p \in packet PROVE InTransit(p)'
  <2>1. InTransit(p)
    BY SMTT(30) DEF PathInv
  <2>2. ASSUME NEW x \in arrived'
        PROVE  \E n \in 1..Len(Sent(p, x.at)) : SameButEcn(x.piece, Sent(p, x.at)[n])
    <3>1. CASE x \in arrived
      BY SMTT(30), <2>1, <3>1 DEF InTransit
    <3>2. ASSUME NEW c \in Publishes(d), x = Delivery(d, c)
          PROVE  \E n \in 1..Len(Sent(p, x.at)) : SameButEcn(x.piece, Sent(p, x.at)[n])
      BY SMTT(30), <1>4, <1>6, <3>2
    <3>. QED  BY SMTT(30), <1>2, <3>1, <3>2
  <2>. QED  BY ZenonT(30), <1>2, <1>3, <2>1, <2>2 DEF InTransit
<1>8. ASSUME NEW p \in packet PROVE NoneMissing(p)'
  <2>1. SUFFICES ASSUME CapturedWhole(p), NEW e \in MatchingEndpoints(flow) \ lossy',
                        NEW n \in 1..Len(Sent(p, e))
                 PROVE  Present(p, e, n)'
    BY Zenon, <1>3 DEF NoneMissing
  <2>2. Present(p, e, n) /\ p \in Packet /\ e \in Endpoint
    BY Zenon, <1>2, <2>1 DEF PathInv, NoneMissing, MatchingEndpoints
  <2>3. CASE \E x \in arrived : x.at = e /\ SameButEcn(x.piece, Sent(p, e)[n])
    BY Zenon, <1>2, <2>3 DEF Present
  <2>4. ASSUME NEW g \in air, g.to = e, g.inner = Sent(p, e)[n] PROVE Present(p, e, n)'
    <3>1. CASE g # d
      BY Zenon, <1>2, <2>4, <3>1 DEF Present
    <3>2. CASE g = d
      <4>1. Parses(Sent(p, e)[n])
        BY Zenon, <2>1, <2>2, SentOK DEF PiecesOK, Normalized
      <4>2. PICK c \in Publishes(d) : Delivery(d, c) \in arrived'
        BY Zenon, <1>2, <2>4, <3>2, <4>1
      <4>3. Delivery(d, c).at = e /\ SameButEcn(Delivery(d, c).piece, Sent(p, e)[n])
        BY Zenon, <1>4, <2>4, <3>2
      <4>. QED  BY Zenon, <4>2, <4>3 DEF Present
    <3>. QED  BY Zenon, <3>1, <3>2
  <2>. QED  BY Zenon, <2>2, <2>3, <2>4 DEF Present
<1>9. CongestionSeen'
  <2> SUFFICES ASSUME NEW p \in packet, NEW x \in arrived'
               PROVE  /\ x.at \in EcnGateway /\ x.outer = "Ce" => x.piece.ecn = "Ce"
                      /\ p.ecn = "Ce" => x.piece.ecn = "Ce"
                      /\ p.ecn = "NotEct" => x.piece.ecn = "NotEct"
    BY Zenon, <1>1 DEF CongestionSeen
  <2>1. CASE x \in arrived
    BY Zenon, <2>1 DEF PathInv, CongestionSeen
  <2>2. CASE \E c \in Publishes(d) : x = Delivery(d, c)
    <3>1. PICK c \in Publishes(d) : x = Delivery(d, c)
      BY SMTT(30), <2>2
    <3>2. PICK n \in 1..Len(Sent(p, d.to)) : d.inner = Sent(p, d.to)[n]
      BY Zenon, <1>6
    <3>3. p \in Packet
      BY Zenon DEF PathInv
    <3>4. d.inner.ecn = p.ecn
      <4>1. PiecesOK(Sent(p, d.to), Normalize(p), d.to) /\ Normalized(Normalize(p), p)
        BY Zenon, <1>0, <3>3, SentOK
      <4>2. Sent(p, d.to)[n].ecn = Normalize(p).ecn
        BY Zenon, <4>1 DEF PiecesOK
      <4>. QED  BY Zenon, <3>2, <4>1, <4>2 DEF Normalized
    <3>5. /\ d.to \in EcnGateway /\ d.outer = "Ce" => c = "Ce"
          /\ d.inner.ecn = "Ce" => c = "Ce"
          /\ d.inner.ecn = "NotEct" => c = "NotEct"
      BY Zenon, <1>0, PublishesRight
    <3>. QED  BY Zenon, <1>4, <3>1, <3>4, <3>5
  <2>. QED  BY Zenon, <1>2, <2>1, <2>2
<1>10. packet # {}
  BY Zenon DEF PathInv
<1>11. air' \subseteq Datagram /\ lossy' \subseteq Endpoint
  BY Zenon, <1>0, <1>2 DEF PathInv
<1>. QED  BY ZenonT(30), <1>1, <1>3, <1>5, <1>7, <1>8, <1>9, <1>10, <1>11 DEF PathInv

(* The first pieces of a packet are among all of its pieces. *)
LEMMA IntervalGrows ==
  ASSUME NEW a \in Int, NEW b \in Int, a <= b, NEW n \in 1..a
  PROVE  n \in 1..b
  BY SMTT(30)

(* A packet that fits is not longer than the tunnel's MTU. *)
LEMMA NotAbove ==
  ASSUME NEW a \in Nat, NEW b \in Nat, a <= b
  PROVE  ~(a > b)
  BY SMTT(30)

(* A count that cannot be below its limit has reached it. *)
LEMMA NotBelow ==
  ASSUME NEW a \in Int, NEW b \in Nat, a <= b, ~(a < b)
  PROVE  a = b
  BY SMTT(30)

(* drain_upstream sends the pieces of a packet, in order, to every endpoint    *)
(* that wants its flow, and drops what is too big.                             *)
LEMMA ForwardKeeps ==
  ASSUME PathInv, NEW f \in Flow, NEW p \in Packets[f], Forward(f, p)
  PROVE  PathInv'
<1> DEFINE to == MatchingEndpoints(f)
<1>0. p \in Packet /\ interest' = interest /\ capable' = capable
  BY Zenon, TrafficAssumption DEF Forward
<1>1. /\ flow' = f /\ packet' = {p} /\ arrived' = {}
      /\ dropped' = {e \in to : TooBig(Normalize(p), e)}
  BY Zenon DEF Forward
<1>2. PICK sent : /\ \A e \in to : sent[e] \in Int /\ sent[e] <= Len(Sent(p, e))
                  /\ air' = UNION {{[to |-> e, inner |-> Sent(p, e)[n],
                                     outer |-> TunnelEcn(e, Sent(p, e)[n])] : n \in 1..sent[e]} :
                                    e \in to}
                  /\ lossy' = {e \in to : sent[e] < Len(Sent(p, e))}
  <2>1. PICK sent \in [to -> UNION {0..Len(Pieces(Normalize(p), e)) : e \in to}] :
          /\ \A e \in to : sent[e] <= Len(Pieces(Normalize(p), e))
          /\ air' = UNION {{[to |-> e, inner |-> Pieces(Normalize(p), e)[n],
                             outer |-> TunnelEcn(e, Pieces(Normalize(p), e)[n])] : n \in 1..sent[e]} :
                            e \in to}
          /\ lossy' = {e \in to : sent[e] < Len(Pieces(Normalize(p), e))}
    BY Zenon DEF Forward
  <2>2. \A e \in to : sent[e] \in Int
    <3>1. \A e \in to : sent[e] \in UNION {0..Len(Pieces(Normalize(p), x)) : x \in to}
      BY Zenon, <2>1
    <3>2. \A e \in to : \E x \in to : sent[e] \in 0..Len(Pieces(Normalize(p), x))
      BY Zenon, <3>1
    <3>. QED  BY SMTT(30), <3>2
  <2>. QED  BY Zenon, <2>1, <2>2 DEF Sent
<1>3. MatchingEndpoints(flow)' = to /\ to \subseteq Endpoint
  BY Zenon, <1>0, <1>1 DEF MatchingEndpoints
<1>4. \A e \in to : PiecesOK(Sent(p, e), Normalize(p), e)
  BY Zenon, <1>0, <1>3, SentOK
<1>5. \A e \in to : Len(Sent(p, e)) \in Nat /\ \A n \in 1..Len(Sent(p, e)) : Sent(p, e)[n] \in Packet
  BY Zenon, <1>4 DEF PiecesOK
<1>6. ASSUME NEW d \in air'
      PROVE  /\ d \in Datagram /\ d.to \in to
             /\ \E n \in 1..Len(Sent(p, d.to)) : d.inner = Sent(p, d.to)[n]
  <2>0. \A e \in to : Len(Sent(p, e)) \in Int
    BY SMTT(30), <1>5
  <2>1. PICK e \in to : \E n \in 1..sent[e] :
               d = [to |-> e, inner |-> Sent(p, e)[n], outer |-> TunnelEcn(e, Sent(p, e)[n])]
    BY Zenon, <1>2
  <2>2. PICK n \in 1..sent[e] :
               d = [to |-> e, inner |-> Sent(p, e)[n], outer |-> TunnelEcn(e, Sent(p, e)[n])]
    BY Zenon, <2>1
  <2>3. n \in 1..Len(Sent(p, e))
    <3>1. sent[e] \in Int /\ Len(Sent(p, e)) \in Int /\ sent[e] <= Len(Sent(p, e))
      BY ZenonT(30), <1>2, <2>0
    <3>. QED  BY Zenon, <3>1, IntervalGrows
  <2>4. Sent(p, e)[n] \in Packet
    BY SMTT(30), <1>5, <2>3
  <2>5. TunnelEcn(e, Sent(p, e)[n]) \in Codepoint
    BY Zenon, <2>4 DEF TunnelEcn, Packet, Codepoint
  <2>. QED  BY ZenonT(30), <1>3, <2>2, <2>3, <2>4, <2>5 DEF Datagram
<1>7. ASSUME NEW e \in to \ lossy', NEW n \in 1..Len(Sent(p, e))
      PROVE  \E d \in air' : d.to = e /\ d.inner = Sent(p, e)[n]
  <2>1. /\ sent[e] \in Int /\ Len(Sent(p, e)) \in Nat
        /\ sent[e] <= Len(Sent(p, e)) /\ ~(sent[e] < Len(Sent(p, e)))
    BY Zenon, <1>2, <1>5
  <2>2. sent[e] = Len(Sent(p, e))
    BY Zenon, <2>1, NotBelow
  <2>3. n \in 1..sent[e]
    BY Zenon, <2>2
  <2>4. [to |-> e, inner |-> Sent(p, e)[n], outer |-> TunnelEcn(e, Sent(p, e)[n])] \in air'
    <3> DEFINE d == [to |-> e, inner |-> Sent(p, e)[n], outer |-> TunnelEcn(e, Sent(p, e)[n])]
               all == {[to |-> e, inner |-> Sent(p, e)[i],
                        outer |-> TunnelEcn(e, Sent(p, e)[i])] : i \in 1..sent[e]}
    <3>1. d \in all
      BY Zenon, <2>3
    <3>2. all \subseteq air' /\ e \in to
      BY ZenonT(30), <1>2
    <3>. QED  BY Zenon, <3>1, <3>2
  <2>. QED  BY Zenon, <2>4
<1>8. InTransit(p)'
  BY Zenon, <1>1, <1>3, <1>6 DEF InTransit
<1>9. NoneMissing(p)'
  BY Zenon, <1>3, <1>7 DEF NoneMissing, Present
<1>10. lossy' \subseteq Endpoint /\ dropped' \subseteq Endpoint
  BY Zenon, <1>1, <1>2, <1>3
<1>11. CongestionSeen'
  BY Zenon, <1>1 DEF CongestionSeen
<1>12. air' \subseteq Datagram
  BY Zenon, <1>6
<1> HIDE DEF to
<1>13. \A x \in packet' : /\ InTransit(x)' /\ NoneMissing(x)'
                          /\ dropped' = {e \in MatchingEndpoints(flow)' : TooBig(Normalize(x), e)}
  BY Zenon, <1>1, <1>3, <1>8, <1>9
<1>. QED  BY Zenon, <1>0, <1>1, <1>10, <1>11, <1>12, <1>13 DEF PathInv

(* All of a packet is where it should be at any time. *)
LEMMA PathStep == PathInv /\ [DataNext]_dataVars => PathInv'
<1> SUFFICES ASSUME PathInv, [DataNext]_dataVars PROVE PathInv'
  BY Zenon
<1>1. ASSUME NEW f \in Flow, NEW p \in Packets[f], Forward(f, p) PROVE PathInv'
  BY Zenon, <1>1, ForwardKeeps
<1>2. ASSUME NEW d \in air, Lose(d) PROVE PathInv'
  BY Zenon, <1>2, LoseKeeps
<1>3. ASSUME NEW d \in air, Remark(d) PROVE PathInv'
  BY Zenon, <1>3, RemarkKeeps
<1>4. ASSUME NEW d \in air, NEW ok \in BOOLEAN, Receive(d, ok) PROVE PathInv'
  BY SMTT(30), <1>4, ReceiveKeeps
<1>5. ASSUME UNCHANGED <<interest, capable, flow, packet, dropped, air, arrived, lossy>>
      PROVE  PathInv'
  <2>1. MatchingEndpoints(flow)' = MatchingEndpoints(flow)
    BY Zenon, <1>5 DEF MatchingEndpoints
  <2>2. \A p \in packet : InTransit(p)' /\ NoneMissing(p)'
    BY ZenonT(30), <1>5, <2>1 DEF PathInv, InTransit, NoneMissing, Present
  <2>3. CongestionSeen'
    BY Zenon, <1>5 DEF PathInv, CongestionSeen
  <2>. QED  BY SMTT(30), <1>5, <2>1, <2>2, <2>3 DEF PathInv
<1>6. CASE DataTick
  BY Zenon, <1>5, <1>6 DEF DataTick
<1>7. CASE UNCHANGED dataVars
  BY Zenon, <1>5, <1>7 DEF dataVars, transit
<1>. QED  BY Zenon, <1>1, <1>2, <1>3, <1>4, <1>6, <1>7 DEF DataNext

(* Nothing is under way at the start. *)
LEMMA PathInit == DataInit => PathInv
<1> SUFFICES ASSUME DataInit PROVE PathInv
  BY Zenon
<1>1. interest \in [Endpoint -> [Flow -> Want]] /\ capable \subseteq EcnGateway /\ flow \in Flow
  BY Zenon, TrafficAssumption DEF DataInit
<1>. QED  BY Zenon, <1>1 DEF DataInit, PathInv, CongestionSeen

(* When nothing is under way, what was published is what was sent. *)
LEMMA DeliveredFromPath == PathInv => PiecesDelivered /\ FitsPath /\ NormalizationsAgree
<1> SUFFICES ASSUME PathInv PROVE PiecesDelivered /\ FitsPath /\ NormalizationsAgree
  BY Zenon
<1>1. PiecesDelivered
  <2> SUFFICES ASSUME NEW p \in packet, NEW e \in MatchingEndpoints(flow) \ lossy,
                      air = {}, CapturedWhole(p),
                      e \notin dropped \/ p.total <= TunnelMtu(PathMtu, OuterFamily[e]),
                      NEW pieces, pieces = {x.piece : x \in {y \in arrived : y.at = e}}
               PROVE  /\ Reassembles(pieces, p)
                      /\ \A x \in pieces : x.udpsum <=> p.udpsum \/ UdpWhole(p)
    BY Zenon DEF PiecesDelivered
  <2>0. p \in Packet /\ e \in Endpoint
    BY Zenon DEF PathInv, MatchingEndpoints
  <2>1. PICK q : q = Normalize(p)
    BY Zenon
  <2>2. PiecesOK(Sent(p, e), q, e) /\ Normalized(q, p)
    BY Zenon, <2>0, <2>1, SentOK
  <2>3. Parses(q) /\ q \in Packet
    BY Zenon, <2>2 DEF Normalized
  <2>4. ~TooBig(q, e)
    <3>1. CASE e \notin dropped
      BY ZenonT(30), <2>1, <3>1 DEF PathInv
    <3>2. CASE p.total <= TunnelMtu(PathMtu, OuterFamily[e])
      <4>1. q.captured = p.total /\ p.total \in Nat
        BY Zenon, <2>0, <2>2, <2>3 DEF Normalized, Parses, Packet
      <4>2. TunnelMtu(PathMtu, OuterFamily[e]) \in Nat
        BY Zenon, <2>0, TunnelMtuType
      <4>3. ~ (q.captured > TunnelMtu(PathMtu, OuterFamily[e]))
        BY ZenonT(30), <3>2, <4>1, <4>2, NotAbove
      <4>. QED  BY Zenon, <4>3 DEF TooBig
    <3>. QED  BY Zenon, <3>1, <3>2
  <2>5. IsCut(Sent(p, e), q)
    BY Zenon, <2>2, <2>3, <2>4 DEF PiecesOK
  <2>6. \A x \in pieces : \E n \in 1..Len(Sent(p, e)) : SameButEcn(x, Sent(p, e)[n])
    <3>1. InTransit(p)
      BY Zenon DEF PathInv
    <3>. QED  BY Zenon, <3>1 DEF InTransit
  <2>7. \A n \in 1..Len(Sent(p, e)) : \E x \in pieces : SameButEcn(x, Sent(p, e)[n])
    <3>1. NoneMissing(p)
      BY Zenon DEF PathInv
    <3>2. \A n \in 1..Len(Sent(p, e)) : Present(p, e, n)
      BY Zenon, <3>1 DEF NoneMissing
    <3>. QED  BY Zenon, <3>2 DEF Present
  <2>8. Reassembles(pieces, q)
    BY Zenon, <2>3, <2>5, <2>6, <2>7, CutReassembles
  <2>9. q.offset = p.offset /\ q.total = p.total /\ q.header = p.header /\ q.mf = p.mf
    BY Zenon, <2>2 DEF Normalized
  <2>10. Reassembles(pieces, p)
    BY Zenon, <2>8, <2>9 DEF Reassembles, Payload
  <2>11. ASSUME NEW x \in pieces PROVE x.udpsum <=> p.udpsum \/ UdpWhole(p)
    <3>1. q.udpsum <=> p.udpsum \/ UdpWhole(p)
      BY Zenon, <2>2 DEF Normalized
    <3>2. \A n \in 1..Len(Sent(p, e)) : Sent(p, e)[n].udpsum = q.udpsum
      BY Zenon, <2>5 DEF IsCut, IsPiece
    <3>. QED  BY Zenon, <2>6, <2>11, <3>1, <3>2 DEF SameButEcn
  <2>. QED  BY Zenon, <2>10, <2>11
<1>2. FitsPath
  <2> SUFFICES ASSUME NEW d \in air
               PROVE  d.inner.captured + 2 + 8 + MinHeader(OuterFamily[d.to]) <= PathMtu
    BY Zenon DEF FitsPath
  <2>1. PICK p \in packet : TRUE
    BY Zenon DEF PathInv
  <2>2. d.to \in Endpoint /\ d.inner \in Packet /\ p \in Packet
    BY Zenon DEF PathInv, Datagram
  <2>3. PICK n \in 1..Len(Sent(p, d.to)) : d.inner = Sent(p, d.to)[n]
    BY Zenon, <2>1 DEF PathInv, InTransit
  <2>4. d.inner.captured <= TunnelMtu(PathMtu, OuterFamily[d.to]) /\ d.inner.captured \in Nat
    BY Zenon, <2>2, <2>3, SentOK DEF PiecesOK, Packet
  <2>5. PICK m \in Nat, h \in Nat : /\ m = TunnelMtu(PathMtu, OuterFamily[d.to])
                                     /\ h = MinHeader(OuterFamily[d.to]) /\ m + 10 + h = PathMtu
    BY Zenon, <2>2, TunnelMtuType
  <2>6. PICK c \in Nat : c = d.inner.captured /\ c <= m
    BY SMTT(30), <2>4, <2>5
  <2>7. m + 10 + h = PathMtu /\ c <= m
    BY Zenon, <2>5, <2>6
  <2>8. c + 2 + 8 + h <= PathMtu
    BY SMTT(30), <2>7
  <2>. QED  BY SMTT(30), <2>5, <2>6, <2>8
<1>3. NormalizationsAgree
  BY Zenon, NormalizationsSame DEF NormalizationsAgree, PathInv
<1>. QED  BY Zenon, <1>1, <1>2, <1>3
-----------------------------------------------------------------------------
(* Feedback.                                                               *)

(* When the source can do something about one drop it can about all: what a    *)
(* packet is dropped for does not depend on the tunnel                         *)
(* (prepare_oversized_tunnel_data).                                            *)
LEMMA SameReason ==
  ASSUME NEW q \in Packet, Parses(q), NEW m \in Nat, NEW k \in Nat, q.captured > m, q.captured > k,
         RequiresFeedback(OversizedError(q, m))
  PROVE  OversizedError(q, k) # "none" /\ RequiresFeedback(OversizedError(q, k))
<1>1. /\ q.captured \in Nat /\ q.total \in Nat /\ q.header \in Nat
      /\ q.family \in {4, 6} /\ q.df \in BOOLEAN
  BY Zenon DEF Packet
<1>2. CASE q.family = 6
  BY Zenon, <1>2 DEF OversizedError, RequiresFeedback
<1>3. CASE q.family = 4
  <2>1. /\ q.captured >= 20 /\ q.header >= 20 /\ q.header <= q.captured
        /\ q.total = q.captured /\ q.total >= q.header
    BY Zenon, <1>3 DEF Parses, MinHeader
  <2>2. FragmentError(q, m) = "DontFragment"
    <3>1. FragmentError(q, m) # "DropIpv6"
      BY SMTT(30) DEF FragmentError
    <3>. QED  BY SMTT(30), <1>3, <3>1 DEF OversizedError, RequiresFeedback
  <2>3. ~ (q.total <= m) /\ ~ (q.total <= k) /\ ~ (q.total < q.header)
    BY SMTT(30), <1>1, <2>1
  <2>4. q.header = 20 /\ q.df
    <3>1. q.header = 20
      BY SMTT(30), <2>1, <2>2, <2>3 DEF FragmentError
    <3>2. q.df
      BY SMTT(30), <2>1, <2>2, <2>3, <3>1 DEF FragmentError
    <3>. QED  BY SMTT(30), <3>1, <3>2
  <2>5. FragmentError(q, k) = "DontFragment"
    BY SMTT(30), <2>1, <2>3, <2>4 DEF FragmentError
  <2>. QED  BY Zenon, <1>3, <2>5 DEF OversizedError, RequiresFeedback
<1>. QED  BY Zenon, <1>1, <1>2, <1>3

(* The MTU to report is that of a tunnel the packet was dropped for, and no    *)
(* receiver's tunnel has a smaller one (drain_upstream).                       *)
LEMMA FeedbackMtuRight ==
  ASSUME NEW q \in Packet, Parses(q), NEW to \in SUBSET Endpoint, NEW mtu \in FeedbackMtu(q, to)
  PROVE  /\ mtu \in Nat /\ mtu < q.captured
         /\ \E e \in to : TooBig(q, e)
         /\ \A e \in to : mtu <= TunnelMtu(PathMtu, OuterFamily[e])
<1> DEFINE Mtu(e) == TunnelMtu(PathMtu, OuterFamily[e])
           mtus == {Mtu(e) : e \in {x \in to :
                      TooBig(q, x) /\ RequiresFeedback(OversizedError(q, Mtu(x)))}}
<1>1. mtu \in mtus /\ \A x \in mtus : mtu <= x
  BY Zenon DEF FeedbackMtu
<1>2. PICK e \in to : /\ mtu = Mtu(e) /\ TooBig(q, e)
                      /\ RequiresFeedback(OversizedError(q, Mtu(e)))
  BY Zenon, <1>1
<1>3. \A x \in to : Mtu(x) \in Nat
  BY Zenon, TunnelMtuType
<1>4. q.captured \in Nat
  BY Zenon DEF Packet
<1>5. mtu \in Nat /\ q.captured > mtu
  BY Zenon, <1>2, <1>3 DEF TooBig
<1>6. ASSUME NEW x \in to PROVE mtu <= Mtu(x)
  <2>1. CASE q.captured <= Mtu(x)
    BY SMTT(30), <1>3, <1>4, <1>5, <2>1
  <2>2. CASE q.captured > Mtu(x)
    <3>1. /\ OversizedError(q, Mtu(x)) # "none"
          /\ RequiresFeedback(OversizedError(q, Mtu(x)))
      <4>1. PICK k \in Nat : k = Mtu(x)
        BY Zenon, <1>3
      <4>2. RequiresFeedback(OversizedError(q, mtu)) /\ q.captured > k
        BY Zenon, <1>2, <2>2, <4>1
      <4>. QED  BY Zenon, <1>5, <4>1, <4>2, SameReason
    <3>2. TooBig(q, x)
      BY Zenon, <2>2, <3>1 DEF TooBig
    <3>3. Mtu(x) \in mtus
      BY Zenon, <3>1, <3>2
    <3>. QED  BY Zenon, <1>1, <3>3
  <2>. QED  BY SMTT(30), <1>3, <1>4, <2>1, <2>2
<1>. QED  BY SMTT(30), <1>2, <1>4, <1>5, <1>6

(* An ICMP error fits the smallest MTU (build_pmtu_feedback). *)
LEMMA FeedbackFits ==
  ASSUME NEW q \in Packet
  PROVE  FeedbackLength(q) \in Nat /\ FeedbackLength(q) <= SmallestMtu(q.family)
<1>1. q.captured \in Nat /\ q.family \in {4, 6}
  BY Zenon DEF Packet
<1>. QED  BY SMTT(30), <1>1 DEF FeedbackLength, MinHeader, SmallestMtu

(* drain_upstream sends no ICMP error that is not justified, and the limiter   *)
(* knows what was sent.                                                        *)
LEMMA ForwardKeepsFeedback ==
  ASSUME QueueInv, PathInv, PathInv', NEW f \in Flow, NEW p \in Packets[f], Forward(f, p)
  PROVE  QueueInv' /\ FeedbackInv'
<1>0. p \in Packet /\ flow' = f /\ packet' = {p} /\ interest' = interest
  BY Zenon, TrafficAssumption DEF Forward
<1>1. PICK q \in Packet : q = Normalize(p) /\ Normalized(q, p)
  BY Zenon, <1>0, NormalizeKeeps DEF Normalized
<1>2. PICK to \in SUBSET Endpoint : to = MatchingEndpoints(f)
  BY Zenon DEF MatchingEndpoints
<1>3. MatchingEndpoints(flow)' = to
  BY SMTT(30), <1>0, <1>2 DEF MatchingEndpoints
<1>4. ASSUME UNCHANGED limiter, feedback' = {} PROVE QueueInv' /\ FeedbackInv'
  BY SMTT(30), <1>4 DEF limiter, QueueInv, FeedbackInv, ErrorsJustified
<1>5. ASSUME HasSsmInterest(f), NEW mtu \in FeedbackMtu(q, to), SendFeedback(q, mtu)
      PROVE  QueueInv' /\ FeedbackInv'
  <2>1. CASE ~Parses(q) \/ q.family \notin FeedbackFamily \/ Suppressed(q)
    BY Zenon, <1>4, <1>5, <2>1 DEF SendFeedback
  <2>2. CASE ~ (~Parses(q) \/ q.family \notin FeedbackFamily \/ Suppressed(q))
    <3>1. AllowFeedback(f, Allows(f))
      BY Zenon, <1>0, <1>5, <2>2 DEF SendFeedback
    <3>2. QueueInv'
      BY Zenon, <3>1, AllowKeeps
    <3>3. feedback' = {} \/ feedback' = {[mtu |-> mtu, length |-> FeedbackLength(q)]}
      BY Zenon, <1>5, <2>2 DEF SendFeedback
    <3>4. CASE feedback' = {}
      BY SMTT(30), <3>2, <3>4 DEF FeedbackInv, ErrorsJustified
    <3>5. CASE feedback' = {[mtu |-> mtu, length |-> FeedbackLength(q)]}
      <4>1. /\ mtu \in Nat /\ mtu < q.captured
            /\ \E e \in to : TooBig(q, e)
            /\ \A e \in to : mtu <= TunnelMtu(PathMtu, OuterFamily[e])
        BY ZenonT(30), <2>2, FeedbackMtuRight
      <4>2. FeedbackLength(q) \in Nat /\ FeedbackLength(q) <= SmallestMtu(q.family)
        BY Zenon, FeedbackFits
      <4>3. feedback' \subseteq [mtu : Nat, length : Nat]
        BY SMTT(30), <3>5, <4>1, <4>2
      <4>4. dropped' # {}
        BY Zenon, <1>0, <1>1, <1>3, <4>1 DEF PathInv
      <4>5. HasSsmInterest(flow)'
        BY Zenon, <1>0, <1>5 DEF HasSsmInterest
      <4>6. p.upper # "icmp error" /\ mtu < p.total
        BY Zenon, <1>1, <2>2, <4>1 DEF Suppressed, Normalized, Parses
      <4>7. FeedbackLength(q) <= SmallestMtu(p.family)
        BY Zenon, <1>1, <4>2 DEF Normalized
      <4>8. ErrorsJustified'
        <5> DEFINE ssm == \E e \in Endpoint : interest'[e][flow'] = "include"
        <5>0. ssm
          BY Zenon, <4>5 DEF HasSsmInterest
        <5> HIDE DEF ssm
        <5>1. ASSUME NEW g \in feedback'
              PROVE  /\ dropped' # {} /\ p.upper # "icmp error" /\ g.mtu < p.total
                     /\ \A e \in to : g.mtu <= TunnelMtu(PathMtu, OuterFamily[e])
                     /\ g.length <= SmallestMtu(p.family)
          <6>1. g.mtu = mtu /\ g.length = FeedbackLength(q)
            BY SMTT(30), <3>5
          <6>. QED  BY ZenonT(30), <4>1, <4>4, <4>6, <4>7, <6>1
        <5>. QED  BY Zenon, <1>0, <1>3, <5>0, <5>1 DEF ErrorsJustified, HasSsmInterest, ssm
      <4>. QED  BY Zenon, <3>2, <4>3, <4>8 DEF FeedbackInv
    <3>. QED  BY Zenon, <3>3, <3>4, <3>5
  <2>. QED  BY Zenon, <2>1, <2>2
<1>. QED  BY Zenon, <1>1, <1>2, <1>4, <1>5 DEF Forward

(* The limiter and the last error stay in order. *)
LEMMA FeedbackStep ==
  ASSUME QueueInv, PathInv, PathInv', FeedbackInv, [DataNext]_dataVars
  PROVE  QueueInv' /\ FeedbackInv'
<1>1. ASSUME NEW f \in Flow, NEW p \in Packets[f], Forward(f, p) PROVE QueueInv' /\ FeedbackInv'
  BY Zenon, <1>1, ForwardKeepsFeedback
<1>2. ASSUME UNCHANGED <<interest, flow, packet, dropped, feedback>> PROVE FeedbackInv'
  <2>1. MatchingEndpoints(flow)' = MatchingEndpoints(flow)
    BY Zenon, <1>2 DEF MatchingEndpoints
  <2>2. ASSUME NEW p \in packet, NEW g \in feedback
        PROVE  /\ dropped' # {} /\ HasSsmInterest(flow) /\ p.upper # "icmp error"
               /\ g.mtu < p.total
               /\ \A e \in MatchingEndpoints(flow) : g.mtu <= TunnelMtu(PathMtu, OuterFamily[e])
               /\ g.length <= SmallestMtu(p.family)
    BY Zenon, <1>2 DEF FeedbackInv, ErrorsJustified
  <2>3. HasSsmInterest(flow) => (HasSsmInterest(flow))'
    BY Zenon, <1>2 DEF HasSsmInterest
  <2>4. ErrorsJustified'
    BY ZenonT(30), <1>2, <2>1, <2>2, <2>3 DEF ErrorsJustified
  <2>. QED  BY Zenon, <1>2, <2>4 DEF FeedbackInv
<1>3. ASSUME UNCHANGED transit PROVE QueueInv' /\ FeedbackInv'
  <2>1. UNCHANGED <<interest, flow, packet, dropped, feedback>> /\ UNCHANGED <<last, queue, since>>
    BY Zenon, <1>3 DEF transit
  <2>. QED  BY Zenon, <1>2, <2>1 DEF QueueInv
<1>4. CASE \E d \in air : Lose(d) \/ Remark(d) \/ Receive(d, TRUE) \/ Receive(d, FALSE)
  <2>1. UNCHANGED transit
    BY Zenon, <1>4 DEF Lose, Remark, Receive
  <2>. QED  BY Zenon, <1>3, <2>1
<1>5. CASE DataTick
  <2>1. UNCHANGED <<interest, flow, packet, dropped, feedback>>
    BY Zenon, <1>5 DEF DataTick
  <2>. QED  BY Zenon, <1>2, <1>5, <2>1, TickKeepsQueue
<1>6. CASE UNCHANGED dataVars
  <2>1. UNCHANGED transit
    BY Zenon, <1>6 DEF dataVars
  <2>. QED  BY Zenon, <1>3, <2>1
<1>. QED  BY Zenon, <1>1, <1>4, <1>5, <1>6 DEF DataNext

(* The invariants of the data path hold at any time. *)
LEMMA DataInvariant == DataSpec => [](QueueInv /\ PathInv /\ FeedbackInv)
<1>1. DataInit => QueueInv /\ PathInv /\ FeedbackInv
  <2>1. DataInit => FeedbackInv
    BY Zenon DEF DataInit, FeedbackInv, ErrorsJustified
  <2>. QED  BY SMTT(30), <2>1, QueueInit, PathInit
<1>2. QueueInv /\ PathInv /\ FeedbackInv /\ [DataNext]_dataVars
        => (QueueInv /\ PathInv /\ FeedbackInv)'
  <2> SUFFICES ASSUME QueueInv, PathInv, FeedbackInv, [DataNext]_dataVars
               PROVE  (QueueInv /\ PathInv /\ FeedbackInv)'
    BY Zenon
  <2>1. PathInv'
    BY Zenon, PathStep
  <2>. QED  BY Zenon, <2>1, FeedbackStep
<1>. QED  BY <1>1, <1>2, PTL DEF DataSpec

(* The variables of the data path have their types. *)
LEMMA DataTypes == QueueInv /\ PathInv /\ FeedbackInv => DataTypeOK
<1> SUFFICES ASSUME QueueInv, PathInv, FeedbackInv PROVE DataTypeOK
  BY Zenon
<1>1. /\ interest \in [Endpoint -> [Flow -> Want]] /\ capable \subseteq EcnGateway
      /\ flow \in Flow /\ packet \subseteq Packet
      /\ \A x \in arrived : x.at \in Endpoint /\ x.piece \in Packet /\ x.outer \in Codepoint
      /\ lossy \subseteq Endpoint /\ dropped \subseteq Endpoint
  BY Zenon DEF PathInv
<1>2. \A d \in air : d.to \in Endpoint /\ d.inner \in Packet /\ d.outer \in Codepoint
  BY Zenon DEF PathInv, Datagram
<1>3. feedback \subseteq [mtu : Nat, length : Nat]
  BY SMTT(30) DEF FeedbackInv
<1>4. queue \in Seq(Entry) /\ since \in [Flow -> 0..Interval]
  BY Zenon DEF QueueInv, QueueOK
<1>5. DOMAIN queue = 1..Len(queue) /\ \A n \in 1..Len(queue) : queue[n] \in Entry
  BY SMTT(30), <1>4
<1>6. \A n \in 1..Len(queue) : queue[n].flow \in Flow /\ queue[n].age \in 0..Interval
  BY SMTT(30), <1>5 DEF Entry
<1>7. DOMAIN last \subseteq Flow /\ \A f \in DOMAIN last : last[f] \in 0..Interval
  <2>1. /\ DOMAIN last = {queue[n].flow : n \in 1..Len(queue)}
        /\ \A n \in 1..Len(queue) : last[queue[n].flow] = queue[n].age
    BY Zenon DEF QueueInv, QueueOK
  <2>. QED  BY SMTT(30), <1>6, <2>1
<1>. QED  BY Zenon, <1>1, <1>2, <1>3, <1>4, <1>5, <1>7 DEF DataTypeOK, Entry

(* A packet captured whole is delivered whole to every gateway that wants it,  *)
(* in pieces that fit the path and reassemble, with the congestion marks it    *)
(* met, whatever the sizes, the MTU, the number of gateways and the order in   *)
(* which the network loses, remarks and delivers (drain_upstream,              *)
(* fragment_ipv4_for_tunnel, Gateway::handle_datagram).                        *)
THEOREM PacketsAreDeliveredWhole == DataSpec => []DeliveredWhole
<1>1. QueueInv /\ PathInv /\ FeedbackInv => DeliveredWhole
  BY Zenon, DataTypes, DeliveredFromPath DEF DeliveredWhole, PathInv
<1>. QED  BY <1>1, DataInvariant, PTL

(* An ICMP error is justified and names a size that helps every receiver, and  *)
(* its limiter refuses exactly what it must: its map and its queue never part  *)
(* (PmtuFeedbackSender::send, FeedbackRateLimiter::allow).                     *)
THEOREM FeedbackIsSound == DataSpec => []FeedbackSound
<1>1. QueueInv /\ PathInv /\ FeedbackInv => FeedbackSound
  BY Zenon, ExactFromQueue DEF FeedbackSound, FeedbackInv
<1>. QED  BY <1>1, DataInvariant, PTL
=============================================================================
