------------------------- MODULE IPAllocatorOpsProofs -------------------------
(***************************************************************************)
(* Lemmas about the methods of the tunnel-address allocator, for every set *)
(* of keys, every set of prefixes and every subnet size: each keeps the    *)
(* allocator Sound.                                                        *)
(***************************************************************************)
EXTENDS IPAllocatorOps, TLAPS, WellFoundedInduction

(* A non-empty set of naturals contains its minimum, so the search of      *)
(* Allocate for the first free host finds one when there is one.           *)
LEMMA MinIsMember ==
    ASSUME NEW S \in SUBSET Nat, S # {}
    PROVE  Min(S) \in S
<1> DEFINE R == {ss \in Nat \X Nat : ss[1] < ss[2]}
<1>1. IsWellFoundedOn(R, Nat)
  BY NatLessThanWellFounded, Zenon DEF OpToRel
<1>2. \A m, n \in Nat : m < n => <<m, n>> \in R
  OBVIOUS
<1> HIDE DEF R
<1>3. PICK x \in S : \A y \in S : ~ (<<y, x>> \in R)
  BY <1>1, WFMin, Zenon
<1>4. \A y \in S : x =< y
  <2> SUFFICES ASSUME NEW y \in S PROVE ~(y < x)
    OBVIOUS
  <2> QED
    BY <1>2, <1>3, Zenon
<1> QED
  BY <1>4, Zenon DEF Min

(* Giving a key an unused, usable address keeps the allocator Sound; this  *)
(* is the step Allocate, MarkUsed and TryAdopt have in common.             *)
LEMMA TakeSound ==
    ASSUME NEW a, Sound(a), NEW k \in Keys, NEW ip,
           InSubnet(a, ip), ip \notin a.usedIPs
    PROVE  Sound(Take(a, k, ip))
<1> DEFINE b == Take(a, k, ip)
<1>1. ip \in Address /\ ip # NoIP
  BY NoIPAssumption DEF InSubnet
<1>2. /\ b \in Allocator
      /\ b.prefix = a.prefix
      /\ b.allocated = [a.allocated EXCEPT ![k] = ip]
      /\ b.usedIPs = a.usedIPs \cup {ip}
  BY <1>1, Zenon DEF Sound, Allocator, Table, Take
<1> HIDE DEF b
<1>3. \A j \in Keys : a.allocated[j] # ip
  BY <1>1 DEF Sound, Backed
<1>4. Exclusive(b.allocated)
  BY <1>1, <1>2, <1>3 DEF Sound, Exclusive, Allocator, Table
<1>5. Backed(b)
  BY <1>1, <1>2 DEF Sound, Backed, InSubnet, Allocator, Table
<1> QED
  BY <1>2, <1>4, <1>5 DEF Sound, b

(* The host Allocate picks is usable: it is neither reserved nor in use.   *)
LEMMA FirstFreeHost ==
    ASSUME NEW a, Sound(a), FreeHosts(a) # {}
    PROVE  /\ InSubnet(a, <<a.prefix, Min(FreeHosts(a))>>)
           /\ <<a.prefix, Min(FreeHosts(a))>> \notin a.usedIPs
<1>1. FreeHosts(a) \in SUBSET Nat
  BY HostAssumption DEF FreeHosts
<1>2. Min(FreeHosts(a)) \in FreeHosts(a)
  BY <1>1, MinIsMember
<1> QED
  BY <1>2, HostAssumption DEF FreeHosts, InSubnet, Address, Hosts, Sound, Allocator

(* Allocate keeps the allocator Sound.                                     *)
LEMMA AllocateSound ==
    ASSUME NEW a, Sound(a), NEW k \in Keys, CanAllocate(a, k)
    PROVE  Sound(Allocate(a, k))
BY FirstFreeHost, TakeSound DEF Allocate, CanAllocate

(* MarkUsed keeps the allocator Sound, for a key it knows and for one that *)
(* it does not.                                                            *)
LEMMA MarkUsedSound ==
    ASSUME NEW a, Sound(a), NEW k \in Keys, NEW ip
    PROVE  Sound(MarkUsed(a, k, ip))
<1>1. CASE ~InSubnet(a, ip) \/ ip \in a.usedIPs
  BY <1>1 DEF MarkUsed
<1>2. CASE InSubnet(a, ip) /\ ip \notin a.usedIPs /\ k = EmptyKey
  <2> DEFINE b == [a EXCEPT !.usedIPs = @ \cup {ip}]
  <2>1. /\ b \in Allocator
        /\ b.prefix = a.prefix
        /\ b.allocated = a.allocated
        /\ a.usedIPs \subseteq b.usedIPs
    BY <1>2 DEF Sound, Allocator, InSubnet
  <2>2. MarkUsed(a, k, ip) = b
    BY <1>2 DEF MarkUsed
  <2> HIDE DEF b
  <2> QED
    BY <2>1, <2>2 DEF Sound, Exclusive, Backed, InSubnet
<1>3. CASE InSubnet(a, ip) /\ ip \notin a.usedIPs /\ k # EmptyKey
  BY <1>3, TakeSound DEF MarkUsed
<1> QED
  BY <1>1, <1>2, <1>3

(* A TryAdopt that succeeds keeps the allocator Sound.                     *)
LEMMA AdoptSound ==
    ASSUME NEW a, Sound(a), NEW k \in Keys, NEW ip, CanAdopt(a, k, ip)
    PROVE  Sound(Adopt(a, k, ip))
<1>1. CASE a.allocated[k] # NoIP
  <2>1. Take(a, k, ip) = a
    BY <1>1, Zenon DEF CanAdopt, Take, Sound, Backed, Allocator, Table
  <2> QED
    BY <2>1 DEF Adopt
<1>2. CASE a.allocated[k] = NoIP
  BY <1>2, TakeSound DEF CanAdopt, Adopt
<1> QED
  BY <1>1, <1>2

(* Release keeps the allocator Sound: it frees an address nobody else has. *)
LEMMA ReleaseSound ==
    ASSUME NEW a, Sound(a), NEW k \in Keys
    PROVE  Sound(Release(a, k))
<1>1. CASE a.allocated[k] = NoIP
  BY <1>1 DEF Release
<1>2. CASE a.allocated[k] # NoIP
  <2> DEFINE b == Release(a, k)
  <2>1. /\ b \in Allocator
        /\ b.prefix = a.prefix
        /\ b.allocated = [a.allocated EXCEPT ![k] = NoIP]
        /\ b.usedIPs = a.usedIPs \ {a.allocated[k]}
    BY <1>2, Zenon DEF Sound, Allocator, Table, Release
  <2> HIDE DEF b
  <2>2. Exclusive(b.allocated)
    BY <2>1 DEF Sound, Exclusive, Allocator, Table
  <2>3. Backed(b)
    BY <2>1 DEF Sound, Exclusive, Backed, InSubnet, Allocator, Table
  <2>4. Reserved(b.prefix) \subseteq b.usedIPs
    BY <1>2, <2>1 DEF Sound, Backed, InSubnet
  <2> QED
    BY <2>1, <2>2, <2>3, <2>4 DEF Sound, b
<1> QED
  BY <1>1, <1>2

(* Load of an exclusive table yields a Sound allocator.                    *)
LEMMA LoadSound ==
    ASSUME NEW f \in Table, Exclusive(f), NEW p \in Prefixes
    PROVE  Sound(Load(p, f))
<1> DEFINE b == Load(p, f)
<1>1. Reserved(p) \subseteq Address
  BY HostAssumption DEF Reserved, Address, Hosts
<1>2. /\ b.prefix = p
      /\ Reserved(p) \subseteq b.usedIPs
      /\ b \in Allocator
      /\ \A k \in Keys : b.allocated[k] \in {f[k], NoIP}
      /\ \A k \in Keys : b.allocated[k] # NoIP =>
            f[k][1] = p /\ f[k] \notin Reserved(p) /\ f[k] \in b.usedIPs
  BY <1>1 DEF Load, Allocator, Table
<1> HIDE DEF b
<1>3. Exclusive(b.allocated)
  BY <1>2 DEF Exclusive
<1>4. Backed(b)
  BY <1>2 DEF Backed, InSubnet, Table
<1> QED
  BY <1>2, <1>3, <1>4 DEF Sound, b
-------------------------------------------------------------------------------
(* What the methods do to the table of leases.                             *)

(* Only the prefix decides which addresses are usable.                     *)
LEMMA SubnetOfPrefix ==
    ASSUME NEW a, NEW b, a.prefix = b.prefix, NEW ip
    PROVE  InSubnet(a, ip) <=> InSubnet(b, ip)
BY DEF InSubnet, Reserved

LEMMA TakeEffect ==
    ASSUME NEW a, Sound(a), NEW k \in Keys, NEW ip, ip \in Address
    PROVE  /\ Take(a, k, ip).prefix = a.prefix
           /\ Take(a, k, ip).allocated = [a.allocated EXCEPT ![k] = ip]
           /\ Take(a, k, ip).usedIPs = a.usedIPs \cup {ip}
BY DEF Sound, Allocator, Table, Take

(* Allocate leaves every lease alone and gives the key one, usable and     *)
(* unused before, if it had none.                                          *)
LEMMA AllocateEffect ==
    ASSUME NEW a, Sound(a), NEW k \in Keys, CanAllocate(a, k)
    PROVE  /\ Allocate(a, k).prefix = a.prefix
           /\ Allocate(a, k).allocated[k] \in Address
           /\ InSubnet(a, Allocate(a, k).allocated[k])
           /\ \A j \in Keys : j # k => Allocate(a, k).allocated[j] = a.allocated[j]
           /\ a.allocated[k] # NoIP => Allocate(a, k) = a
<1>1. CASE a.allocated[k] # NoIP
  BY <1>1 DEF Allocate, Sound, Backed, InSubnet
<1>2. CASE a.allocated[k] = NoIP
  <2>1. PICK ip : InSubnet(a, ip) /\ Allocate(a, k) = Take(a, k, ip)
    BY <1>2, FirstFreeHost DEF Allocate, CanAllocate
  <2>2. ip \in Address
    BY <2>1 DEF InSubnet
  <2>3. /\ Allocate(a, k).prefix = a.prefix
        /\ Allocate(a, k).allocated = [a.allocated EXCEPT ![k] = ip]
    BY <2>1, <2>2, TakeEffect
  <2>. QED
    BY <1>2, <2>1, <2>2, <2>3 DEF Sound, Allocator, Table
<1>. QED
  BY <1>1, <1>2

(* MarkUsed gives the key the address, unless it is used or unusable.      *)
LEMMA MarkUsedEffect ==
    ASSUME NEW a, Sound(a), NEW k \in Keys, k # EmptyKey, NEW ip
    PROVE  /\ MarkUsed(a, k, ip).prefix = a.prefix
           /\ ~InSubnet(a, ip) \/ ip \in a.usedIPs => MarkUsed(a, k, ip) = a
           /\ InSubnet(a, ip) /\ ip \notin a.usedIPs =>
                 /\ MarkUsed(a, k, ip).allocated = [a.allocated EXCEPT ![k] = ip]
                 /\ MarkUsed(a, k, ip).usedIPs = a.usedIPs \cup {ip}
BY TakeEffect DEF MarkUsed, InSubnet

LEMMA ReleaseEffect ==
    ASSUME NEW a, Sound(a), NEW k \in Keys
    PROVE  /\ Release(a, k).prefix = a.prefix
           /\ Release(a, k).allocated = [a.allocated EXCEPT ![k] = NoIP]
BY DEF Release, Sound, Allocator, Table

(* Load keeps the entries of the prefix, and nothing else is in use.       *)
LEMMA LoadEffect ==
    ASSUME NEW f \in Table, NEW p \in Prefixes
    PROVE  /\ Load(p, f).prefix = p
           /\ \A k \in Keys : Load(p, f).allocated[k] \in {f[k], NoIP}
           /\ \A k \in Keys : InSubnet(Load(p, f), f[k]) => Load(p, f).allocated[k] = f[k]
           /\ \A ip \in Load(p, f).usedIPs : InSubnet(Load(p, f), ip) => \E k \in Keys : f[k] = ip
BY NoIPAssumption DEF Load, Table, InSubnet
===============================================================================
