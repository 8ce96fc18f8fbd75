----------------------------- MODULE TunnelProofs -----------------------------
(***************************************************************************)
(* Proofs about the tunnel's addresses, peers and ports: IPAllocator, for  *)
(* every pool, prefix and set of keys, with the lease table it implements; *)
(* FailClosed, for any clients, bounds and messages; Firewall, for any     *)
(* grants and any amount of trouble.                                       *)
(***************************************************************************)
EXTENDS IPAllocator, FailClosed, Firewall, IPAllocatorOpsProofs

-------------------------------------------------------------------------------
(* The address allocator.                                                  *)

(* The initial states satisfy the inductive invariant.                     *)
LEMMA InitIInv == Init => IInv
<1> SUFFICES ASSUME Init PROVE IInv
  OBVIOUS
<1>1. NoAllocations \in Table /\ Exclusive(NoAllocations)
  BY DEF NoAllocations, Table, Exclusive
<1>2. Sound(alloc)
  BY <1>1, LoadSound DEF Init
<1> QED
  BY <1>1, <1>2, Zenon DEF Init, IInv, TypeOK, Sound

(* Every method, a save, a crash and a restart preserve the inductive      *)
(* invariant.                                                              *)
LEMMA NextIInv == IInv /\ [Next]_vars => IInv'
<1> SUFFICES ASSUME IInv, [Next]_vars PROVE IInv'
  OBVIOUS
<1> USE DEF IInv, TypeOK
<1>1. ASSUME NEW k \in Keys, DoAllocate(k) PROVE IInv'
  <2>1. Sound(alloc')
    BY <1>1, AllocateSound DEF DoAllocate
  <2> QED
    BY <1>1, <2>1 DEF DoAllocate, Sound
<1>2. ASSUME NEW k \in Keys, DoRelease(k) PROVE IInv'
  <2>1. Sound(alloc')
    BY <1>2, ReleaseSound DEF DoRelease
  <2> QED
    BY <1>2, <2>1 DEF DoRelease, Sound
<1>3. ASSUME NEW k \in Keys, NEW ip \in Address, DoMarkUsed(k, ip) PROVE IInv'
  <2>1. Sound(alloc')
    BY <1>3, MarkUsedSound DEF DoMarkUsed
  <2> QED
    BY <1>3, <2>1 DEF DoMarkUsed, Sound
<1>4. ASSUME NEW k \in Keys, NEW ip \in Address, DoTryAdopt(k, ip) PROVE IInv'
  <2>1. Sound(alloc')
    BY <1>4, AdoptSound DEF DoTryAdopt
  <2> QED
    BY <1>4, <2>1 DEF DoTryAdopt, Sound
<1>5. CASE FinishBoot
  BY <1>5, Zenon DEF FinishBoot
<1>6. CASE SaveCopy
  BY <1>6 DEF SaveCopy, Sound, Allocator
<1>7. CASE SaveRename
  BY <1>7, Zenon DEF SaveRename
<1>8. CASE SaveFails
  BY <1>8, Zenon DEF SaveFails
<1>9. ASSUME NEW p \in Prefixes, Restart(p) PROVE IInv'
  <2>1. Sound(alloc')
    BY <1>9, LoadSound DEF Restart
  <2> QED
    BY <1>9, <2>1, Zenon DEF Restart, Sound
<1>10. CASE UNCHANGED vars
  BY <1>10 DEF vars
<1> QED
  BY <1>1, <1>2, <1>3, <1>4, <1>5, <1>6, <1>7, <1>8, <1>9, <1>10 DEF Next

(* The inductive invariant holds in every reachable state.                 *)
THEOREM Invariance == Spec => []IInv
BY InitIInv, NextIInv, PTL DEF Spec

(* Type correctness of the allocator's state.                              *)
THEOREM TypeCorrect == Spec => []TypeOK
<1>1. IInv => TypeOK
  BY DEF IInv
<1> QED
  BY Invariance, <1>1, PTL

(* The allocator never hands one tunnel address to two clients: for any    *)
(* number of clients, any subnet size, any order of its methods, and any   *)
(* crash or restart, live leases are exclusive, usable and marked used.    *)
THEOREM NoAddressSharedByTwoClients == Spec => []LeasesExclusive
<1>1. IInv => LeasesExclusive
  BY DEF IInv, Sound, LeasesExclusive
<1> QED
  BY Invariance, <1>1, PTL

-------------------------------------------------------------------------------
(* A key that held nothing and takes an address orphans no address.        *)
LEMMA TakeOrphansNothing ==
    ASSUME NEW a, Sound(a), NEW k \in Keys, NEW ip, a.allocated[k] = NoIP
    PROVE  Orphans(Take(a, k, ip)) \subseteq Orphans(a)
<1> DEFINE b == Take(a, k, ip)
<1>1. /\ b.prefix = a.prefix
      /\ b.allocated = [a.allocated EXCEPT ![k] = ip]
      /\ b.usedIPs = a.usedIPs \cup {ip}
  BY DEF Sound, Allocator, Table, Take
<1> HIDE DEF b
<1>2. ASSUME NEW x \in Orphans(b) PROVE x \in Orphans(a)
  <2>1. x # ip /\ x \in a.usedIPs /\ x \notin Reserved(a.prefix)
    BY <1>1, <1>2 DEF Orphans, Sound, Allocator, Table
  <2>2. ASSUME NEW j \in Keys PROVE x # a.allocated[j]
    <3>1. CASE j = k
      BY <2>1, <3>1, NoIPAssumption DEF Sound, Allocator
    <3>2. CASE j # k
      BY <1>1, <1>2, <3>2 DEF Orphans, Sound, Allocator, Table
    <3> QED
      BY <3>1, <3>2
  <2> QED
    BY <2>1, <2>2 DEF Orphans
<1> QED
  BY <1>2 DEF b

(* Release frees the one address of the key, so it orphans nothing.        *)
LEMMA ReleaseOrphansNothing ==
    ASSUME NEW a, Sound(a), NEW k \in Keys
    PROVE  Orphans(Release(a, k)) \subseteq Orphans(a)
<1>1. CASE a.allocated[k] = NoIP
  BY <1>1 DEF Release
<1>2. CASE a.allocated[k] # NoIP
  <2> DEFINE b == Release(a, k)
  <2>1. /\ b.prefix = a.prefix
        /\ b.allocated = [a.allocated EXCEPT ![k] = NoIP]
        /\ b.usedIPs = a.usedIPs \ {a.allocated[k]}
    BY <1>2 DEF Sound, Allocator, Table, Release
  <2> HIDE DEF b
  <2>2. ASSUME NEW x \in Orphans(b) PROVE x \in Orphans(a)
    <3>1. x # a.allocated[k] /\ x \in a.usedIPs /\ x \notin Reserved(a.prefix)
      BY <2>1, <2>2 DEF Orphans
    <3>2. \A j \in Keys \ {k} : x # a.allocated[j]
      BY <2>1, <2>2 DEF Orphans, Sound, Allocator, Table
    <3> QED
      BY <3>1, <3>2 DEF Orphans
  <2> QED
    BY <2>2 DEF b
<1> QED
  BY <1>1, <1>2

(* After start-up a method call leaks no address: Allocate and TryAdopt    *)
(* take an address for a key, Release gives back the key's only address.   *)
LEMMA StepLeaksNothing ==
    ASSUME IInv, [Next]_vars, ~booting, ~booting'
    PROVE  Orphans(alloc') \subseteq Orphans(alloc)
<1> USE DEF IInv
<1>1. ASSUME NEW k \in Keys, DoAllocate(k) PROVE Orphans(alloc') \subseteq Orphans(alloc)
  BY <1>1, TakeOrphansNothing DEF DoAllocate, Allocate
<1>2. ASSUME NEW k \in Keys, DoRelease(k) PROVE Orphans(alloc') \subseteq Orphans(alloc)
  BY <1>2, ReleaseOrphansNothing DEF DoRelease
<1>3. ASSUME NEW k \in Keys, NEW ip \in Address, DoTryAdopt(k, ip)
      PROVE  Orphans(alloc') \subseteq Orphans(alloc)
  <2>1. CASE alloc.allocated[k] = NoIP
    BY <1>3, <2>1, TakeOrphansNothing DEF DoTryAdopt, Adopt
  <2>2. CASE alloc.allocated[k] # NoIP
    BY <1>3, <2>2, Zenon DEF DoTryAdopt, Adopt, CanAdopt, Take, Sound, Backed, Allocator, Table
  <2> QED
    BY <2>1, <2>2
<1>4. CASE UNCHANGED alloc
  BY <1>4
<1> QED
  BY <1>1, <1>2, <1>3, <1>4
  DEF Next, vars, DoMarkUsed, FinishBoot, SaveCopy, SaveRename, SaveFails, Restart

(* NoNewOrphans holds for every value of the constants.                    *)
THEOREM MethodsLeakNoAddress == Spec => NoNewOrphans
<1>1. IInv /\ [Next]_vars => [~booting /\ ~booting' => Orphans(alloc') \subseteq Orphans(alloc)]_vars
  BY StepLeaksNothing
<1> QED
  BY Invariance, <1>1, PTL DEF Spec, NoNewOrphans

-------------------------------------------------------------------------------
(* One step of the allocator is one step, or a stutter, of AddressLease.   *)
LEMMA StepImplementsLease ==
    ASSUME IInv, [Next]_vars
    PROVE  [Lease!Next]_Lease!vars
<1> USE DEF IInv, Lease!vars
<1>1. ASSUME NEW k \in Keys, NEW ip,
             InSubnet(alloc, ip), ip \notin alloc.usedIPs,
             alloc' = Take(alloc, k, ip)
      PROVE  /\ ip \in Address
             /\ Lease!Free(ip)
             /\ alloc'.allocated = [alloc.allocated EXCEPT ![k] = ip]
  <2>1. ip \in Address /\ ip # NoIP
    BY <1>1, NoIPAssumption DEF InSubnet
  <2>2. \A j \in Keys : alloc.allocated[j] # ip
    BY <1>1, <2>1 DEF Sound, Backed
  <2> QED
    BY <1>1, <2>1, <2>2 DEF Lease!Free, Take, Sound, Allocator, Table
<1>2. ASSUME NEW k \in Keys, DoAllocate(k) PROVE [Lease!Next]_Lease!vars
  <2>1. CASE alloc.allocated[k] # NoIP
    BY <1>2, <2>1 DEF DoAllocate, Allocate
  <2>2. CASE alloc.allocated[k] = NoIP
    <3> DEFINE ip == <<alloc.prefix, Min(FreeHosts(alloc))>>
    <3>1. InSubnet(alloc, ip) /\ ip \notin alloc.usedIPs
      BY <1>2, <2>2, FirstFreeHost DEF DoAllocate, CanAllocate
    <3>2. alloc' = Take(alloc, k, ip)
      BY <1>2, <2>2 DEF DoAllocate, Allocate
    <3> HIDE DEF ip
    <3>3. Lease!Grant(k, ip) /\ ip \in Address
      BY <1>1, <1>2, <2>2, <3>1, <3>2 DEF Lease!Grant, DoAllocate
    <3> QED
      BY <3>3 DEF Lease!Next
  <2> QED
    BY <2>1, <2>2
<1>3. ASSUME NEW k \in Keys, DoRelease(k) PROVE [Lease!Next]_Lease!vars
  <2>1. alloc'.allocated = [alloc.allocated EXCEPT ![k] = NoIP]
    BY <1>3 DEF DoRelease, Release, Sound, Allocator, Table
  <2>2. Lease!Revoke(k)
    BY <1>3, <2>1 DEF DoRelease, Lease!Revoke
  <2> QED
    BY <2>2 DEF Lease!Next
<1>4. ASSUME NEW k \in Keys, NEW ip \in Address, DoMarkUsed(k, ip)
      PROVE  [Lease!Next]_Lease!vars
  <2>1. CASE ~InSubnet(alloc, ip) \/ ip \in alloc.usedIPs
    BY <1>4, <2>1 DEF DoMarkUsed, MarkUsed
  <2>2. CASE InSubnet(alloc, ip) /\ ip \notin alloc.usedIPs /\ k = EmptyKey
    BY <1>4, <2>2 DEF DoMarkUsed, MarkUsed, Sound, Allocator
  <2>3. CASE InSubnet(alloc, ip) /\ ip \notin alloc.usedIPs /\ k # EmptyKey
    <3>1. Lease!Overrule(k, ip)
      BY <1>1, <1>4, <2>3 DEF DoMarkUsed, MarkUsed, Lease!Overrule, TypeOK
    <3> QED
      BY <3>1 DEF Lease!Next
  <2> QED
    BY <2>1, <2>2, <2>3
<1>5. ASSUME NEW k \in Keys, NEW ip \in Address, DoTryAdopt(k, ip)
      PROVE  [Lease!Next]_Lease!vars
  <2>1. CASE alloc.allocated[k] # NoIP
    BY <1>5, <2>1 DEF DoTryAdopt, CanAdopt, Adopt, Take, Sound, Backed, Allocator, Table
  <2>2. CASE alloc.allocated[k] = NoIP
    <3>1. Lease!Grant(k, ip)
      BY <1>1, <1>5, <2>2 DEF DoTryAdopt, CanAdopt, Adopt, Lease!Grant
    <3> QED
      BY <3>1 DEF Lease!Next
  <2> QED
    BY <2>1, <2>2
<1>6. CASE FinishBoot
  BY <1>6, Zenon DEF FinishBoot, Lease!Next, Lease!Booted, TypeOK
<1>7. CASE SaveCopy
  BY <1>7 DEF SaveCopy, Lease!Next, Lease!Copy
<1>8. CASE SaveRename
  BY <1>8 DEF SaveRename, Lease!Next, Lease!Write
<1>9. CASE SaveFails
  BY <1>9 DEF SaveFails
<1>10. ASSUME NEW p \in Prefixes, Restart(p) PROVE [Lease!Next]_Lease!vars
  <2>1. /\ alloc'.allocated \in Lease!Table
        /\ \A k \in Keys : alloc'.allocated[k] \in {file[k], NoIP}
    BY <1>10 DEF Restart, Load, Lease!Table, TypeOK, Table
  <2>2. Lease!Restart
    BY <1>10, <2>1 DEF Restart, Lease!Restart
  <2> QED
    BY <2>2 DEF Lease!Next
<1>11. CASE UNCHANGED vars
  BY <1>11 DEF vars
<1> QED
  BY <1>2, <1>3, <1>4, <1>5, <1>6, <1>7, <1>8, <1>9, <1>10, <1>11 DEF Next

(* The allocator implements the lease table of AddressLease: in particular *)
(* an address is moved to a key only while the agent starts up.            *)
THEOREM AllocatorImplementsLease == Spec => ImplementsLease
<1>1. Init => Lease!Init
  BY DEF Init, Load, NoAllocations, Lease!Init, Lease!NoLeases
<1>2. IInv /\ [Next]_vars => [Lease!Next]_Lease!vars
  BY StepImplementsLease
<1> QED
  BY Invariance, <1>1, <1>2, PTL DEF Spec, ImplementsLease, Lease!Spec

-------------------------------------------------------------------------------
(* The fail-closed watch.                                                  *)

(* What OnlyLatePeersWhileFailClosed rests on: a peer has a client or is   *)
(* one the kernel refused to remove, and a drop still has every other peer *)
(* ahead of it that no provision added, unless a push is being applied     *)
(* (which lifts fail-closed at its end).                                   *)
Drops ==
    /\ watch \in {"wait", "tripped", "drop"} /\ pc \in {"idle", "apply"}
    /\ failClosed \in BOOLEAN
    /\ peers \subseteq clients \cup forgotten /\ todo \subseteq clients
    /\ failClosed /\ watch = "drop" /\ pc = "idle" => peers \subseteq dropping \cup late \cup forgotten
    /\ OnlyLatePeersWhileFailClosed

(* A peer that RemovePeer leaves in the kernel is forgotten; nobody else   *)
(* becomes a peer, and who was forgotten stays so.                         *)
LEMMA RemovalForgets ==
    ASSUME NEW gone, RemovePeers(gone)
    PROVE  /\ peers' \subseteq peers /\ forgotten \subseteq forgotten'
           /\ \A c \in peers' : c \in gone => c \in forgotten'
BY Zenon DEF RemovePeers

(* checkLiveness never misses a peer: Drops is inductive.                  *)
LEMMA DropsInductive ==
    ASSUME Drops, [FCNext]_fcVars
    PROVE  Drops'
<1>. USE DEF Drops, OnlyLatePeersWhileFailClosed
<1>1. CASE Tick
  BY <1>1 DEF Tick, wg
<1>2. ASSUME NEW s \in SUBSET Clients, ReceiveState(s) PROVE Drops'
  <2>1. /\ peers' \subseteq peers /\ forgotten \subseteq forgotten'
        /\ \A c \in peers' : c \in clients \ s => c \in forgotten'
    BY <1>2, RemovalForgets, Zenon DEF ReceiveState
  <2>. QED
    BY <1>2, <2>1, Zenon DEF ReceiveState, live
<1>3. ASSUME NEW c \in todo, InstallPeer(c) PROVE Drops'
  BY <1>3, Zenon DEF InstallPeer, AddPeer, live
<1>4. CASE FinishState
  BY <1>4, Zenon DEF FinishState, MarkLiveness, wg
<1>5. CASE HeartbeatAck
  BY <1>5, Zenon DEF HeartbeatAck, MarkLiveness, wg
<1>6. ASSUME NEW c \in Clients, Provision(c) PROVE Drops'
  BY <1>6, Zenon DEF Provision, AddPeer, live
<1>7. CASE CheckLiveness
  <2>1. CASE AdoptDiskState
    BY <1>7, <2>1 DEF CheckLiveness, AdoptDiskState, wg
  <2>2. CASE Trip
    <3>1. watch' = "tripped" /\ failClosed' = TRUE
      BY <2>2 DEF Trip
    <3>2. UNCHANGED <<clients, peers, forgotten, pc, todo, dropping, late>>
      BY <1>7 DEF CheckLiveness, wg
    <3>. QED
      BY <3>1, <3>2
  <2>. QED
    BY <1>7, <2>1, <2>2 DEF CheckLiveness
<1>8. CASE BeginDrop
  BY <1>8, Zenon DEF BeginDrop, live, wg
<1>9. ASSUME NEW c \in dropping, DropPeer(c) PROVE Drops'
  <2>1. peers' \subseteq peers /\ forgotten \subseteq forgotten' /\ (c \in peers' => c \in forgotten')
    BY <1>9, RemovalForgets, Zenon DEF DropPeer
  <2>. QED
    BY <1>9, <2>1, Zenon DEF DropPeer, live
<1>10. CASE EndDrop
  BY <1>10, Zenon DEF EndDrop, live, wg
<1>11. CASE ServerGone
  BY <1>11, Zenon DEF ServerGone, live, wg
<1>12. CASE FCRestart
  BY <1>12, Zenon DEF FCRestart
<1>13. CASE UNCHANGED fcVars
  BY <1>13, Zenon DEF fcVars, wg
<1>. QED
  BY <1>1, <1>2, <1>3, <1>4, <1>5, <1>6, <1>7, <1>8, <1>9, <1>10, <1>11, <1>12, <1>13, Zenon
     DEF FCNext, ReadLoop, Watch

(* While the agent is fail-closed, and neither the watch nor the read loop *)
(* is in the middle of something, the only peers are those HandleProvision *)
(* added since and those RemovePeer forgot although the kernel kept them   *)
(* (checkLiveness and dropAllPeers of devicestate.go).                     *)
THEOREM FailClosedHasOnlyLatePeers == FCSpec => []OnlyLatePeersWhileFailClosed
<1>1. FCInit => Drops
  BY Zenon DEF FCInit, Drops, OnlyLatePeersWhileFailClosed
<1>2. Drops /\ [FCNext]_fcVars => Drops'
  BY DropsInductive
<1>3. Drops => OnlyLatePeersWhileFailClosed
  BY DEF Drops
<1>. QED
  BY <1>1, <1>2, <1>3, PTL DEF FCSpec

-------------------------------------------------------------------------------
(* What RecentStateServes rests on: a sign of life is never older than the *)
(* state last applied, since applying one is a sign of life, and once      *)
(* something counts as applied there has been one.                         *)
Ages ==
    /\ began \in Age
    /\ lastPositive \in Age \cup {Never} /\ lastAppliedAt \in Age \cup {Never}
    /\ appliedOnce \in BOOLEAN
    /\ lastPositive # Never /\ lastAppliedAt # Never => lastPositive <= lastAppliedAt
    /\ appliedOnce => lastPositive # Never

(* The clock's largest age is a number above both bounds.                  *)
LEMMA OldestAge == Oldest \in Nat /\ StaleBound < Oldest /\ ColdStartTimeout < Oldest
<1>1. CASE StaleBound >= ColdStartTimeout
  <2>1. StaleBound \in {StaleBound, ColdStartTimeout} /\ \A y \in {StaleBound, ColdStartTimeout} : StaleBound >= y
    BY <1>1, BoundAssumption
  <2>2. Max({StaleBound, ColdStartTimeout}) \in {StaleBound, ColdStartTimeout}
        /\ \A y \in {StaleBound, ColdStartTimeout} : Max({StaleBound, ColdStartTimeout}) >= y
    BY <2>1 DEF Max
  <2>. QED
    BY <2>2, BoundAssumption DEF Oldest
<1>2. CASE ~(StaleBound >= ColdStartTimeout)
  <2>1. ColdStartTimeout \in {StaleBound, ColdStartTimeout} /\ \A y \in {StaleBound, ColdStartTimeout} : ColdStartTimeout >= y
    BY <1>2, BoundAssumption
  <2>2. Max({StaleBound, ColdStartTimeout}) \in {StaleBound, ColdStartTimeout}
        /\ \A y \in {StaleBound, ColdStartTimeout} : Max({StaleBound, ColdStartTimeout}) >= y
    BY <2>1 DEF Max
  <2>. QED
    BY <2>2, BoundAssumption DEF Oldest
<1>. QED
  BY <1>1, <1>2

(* Growing older keeps the type, the order and the zero time.              *)
LEMMA OlderKeeps ==
    ASSUME NEW s \in Age \cup {Never}, NEW t \in Age \cup {Never}
    PROVE  /\ Older(s) \in Age \cup {Never}
           /\ Older(s) = Never <=> s = Never
           /\ s # Never /\ t # Never /\ s <= t => Older(s) <= Older(t)
BY OldestAge, NeverAssumption DEF Older, Age

LEMMA AgesInductive ==
    ASSUME Ages, [FCNext]_fcVars
    PROVE  Ages'
<1>. USE DEF Ages
<1>0. 0 \in Age /\ Age \subseteq Nat /\ Never \notin Age
  BY OldestAge, NeverAssumption DEF Age
<1>1. CASE Tick
  <2>1. began' \in Age
    BY <1>0, <1>1, OlderKeeps DEF Tick
  <2>2. lastPositive' \in Age \cup {Never} /\ lastAppliedAt' \in Age \cup {Never}
    BY <1>1, OlderKeeps DEF Tick
  <2>3. /\ lastPositive' # Never <=> lastPositive # Never
        /\ lastAppliedAt' # Never <=> lastAppliedAt # Never
    BY <1>1, OlderKeeps DEF Tick
  <2>4. lastPositive' # Never /\ lastAppliedAt' # Never => lastPositive' <= lastAppliedAt'
    BY <1>1, <2>3, OlderKeeps DEF Tick
  <2>5. appliedOnce' = appliedOnce
    BY <1>1 DEF Tick
  <2>. QED
    BY <2>1, <2>2, <2>3, <2>4, <2>5
<1>2. ASSUME NEW s \in SUBSET Clients, ReceiveState(s) PROVE Ages'
  BY <1>0, <1>2 DEF ReceiveState, live
<1>3. ASSUME NEW c \in todo, InstallPeer(c) PROVE Ages'
  BY <1>3 DEF InstallPeer, live
<1>4. CASE FinishState
  BY <1>0, <1>4 DEF FinishState, MarkLiveness
<1>5. CASE HeartbeatAck
  BY <1>0, <1>5 DEF HeartbeatAck, MarkLiveness
<1>6. ASSUME NEW c \in Clients, Provision(c) PROVE Ages'
  BY <1>6 DEF Provision, live
<1>7. CASE CheckLiveness
  <2>1. UNCHANGED <<lastAppliedAt, began>>
    BY <1>7 DEF CheckLiveness
  <2>2. CASE AdoptDiskState
    BY <1>0, <2>1, <2>2 DEF AdoptDiskState, Recent
  <2>3. CASE Trip
    BY <2>1, <2>3 DEF Trip
  <2>. QED
    BY <1>7, <2>2, <2>3 DEF CheckLiveness
<1>8. CASE BeginDrop \/ EndDrop \/ ServerGone \/ \E c \in dropping : DropPeer(c)
  <2>1. UNCHANGED <<live, lastAppliedAt, began>>
    BY <1>8, Zenon DEF BeginDrop, EndDrop, ServerGone, DropPeer
  <2>. QED
    BY <2>1 DEF live
<1>9. CASE FCRestart
  BY <1>0, <1>9, Zenon DEF FCRestart
<1>10. CASE UNCHANGED fcVars
  BY <1>10 DEF fcVars
<1>. QED
  BY <1>1, <1>2, <1>3, <1>4, <1>5, <1>6, <1>7, <1>8, <1>9, <1>10 DEF FCNext, ReadLoop, Watch

(* checkLiveness never trips while the last verified state, applied in     *)
(* this boot or an earlier one, is younger than staleBound.                *)
THEOREM RecentStateIsServed == FCSpec => RecentStateServes
<1>1. FCInit => Ages
  <2>1. 0 \in Age
    BY OldestAge DEF Age
  <2>. QED
    BY <2>1, Zenon DEF FCInit, Ages
<1>2. Ages /\ [FCNext]_fcVars => Ages'
  BY AgesInductive
<1>3. Ages /\ [FCNext]_fcVars => [failClosed' /\ ~failClosed => ~Recent(lastAppliedAt)]_fcVars
  <2>. SUFFICES ASSUME Ages, [FCNext]_fcVars, failClosed', ~failClosed PROVE ~Recent(lastAppliedAt)
    OBVIOUS
  <2>1. CheckLiveness /\ Trip
    BY Zenon DEF FCNext, ReadLoop, Watch, Tick, ReceiveState, InstallPeer, FinishState, HeartbeatAck, Provision,
           CheckLiveness, AdoptDiskState, BeginDrop, DropPeer, EndDrop, ServerGone, FCRestart, MarkLiveness, live, fcVars
  <2>2. Stale
    BY <2>1 DEF Trip
  <2>3. CASE appliedOnce
    <3>1. lastPositive # Never /\ lastPositive > StaleBound
      BY <2>2, <2>3 DEF Stale, Ages
    <3>2. lastAppliedAt # Never => lastAppliedAt > StaleBound
      BY <3>1, OldestAge, BoundAssumption, NeverAssumption DEF Ages, Age
    <3>. QED
      BY <3>2, OldestAge, BoundAssumption, NeverAssumption DEF Recent, Ages, Age
  <2>4. CASE ~appliedOnce
    BY <2>2, <2>4 DEF Stale
  <2>. QED
    BY <2>3, <2>4
<1>. QED
  BY <1>1, <1>2, <1>3, PTL DEF FCSpec, RecentStateServes

-------------------------------------------------------------------------------
(* The tunnel firewall.                                                    *)

LEMMA TroubleBounded ==
    ASSUME trouble \in 0 .. MaxTrouble, Troubled
    PROVE  trouble' \in 0 .. MaxTrouble
BY GrantAssumption DEF Troubled

(* What one table's teardown comes to: the table is empty or counts as not *)
(* cleared, and the other one is left alone.                               *)
LEMMA TeardownOfTable ==
    ASSUME chain \in [Tables -> Grants \cup {"absent", "partial"}], jump \in [Tables -> SUBSET Hooks],
           uncleared \subseteq Tables, NEW c \in Callers, NEW t \in Tables, NEW from, NEW to, Clear(c, t, from, to)
    PROVE  /\ chain' \in [Tables -> Grants \cup {"absent", "partial"}]
           /\ jump' \in [Tables -> SUBSET Hooks] /\ uncleared' \subseteq Tables
           /\ chain'[t] = "absent" \/ t \in uncleared'
           /\ \A u \in Tables \ {t} : chain'[u] = chain[u] /\ (u \in uncleared' <=> u \in uncleared)
<1>1. CASE ClearTable(t)
  BY <1>1, Zenon DEF ClearTable
<1>2. CASE ClearTableFails(t)
  <2>1. PICK hooks \in SUBSET jump[t], rules \in {chain[t], "partial"} :
           jump' = [jump EXCEPT ![t] = hooks] /\ chain' = [chain EXCEPT ![t] = rules]
    BY <1>2, Zenon DEF ClearTableFails
  <2>2. jump[t] \subseteq Hooks /\ chain[t] \in Grants \cup {"absent", "partial"}
    BY Zenon
  <2>3. hooks \in SUBSET Hooks /\ rules \in Grants \cup {"absent", "partial"}
    BY <2>2, Zenon
  <2>4. uncleared' = uncleared \cup {t}
    BY <1>2, Zenon DEF ClearTableFails
  <2>. QED
    BY <2>1, <2>3, <2>4, Zenon
<1>3. CASE uncleared' = uncleared \cup ({t} \cap Built) /\ UNCHANGED <<chain, jump>>
  BY <1>3, Zenon DEF Built
<1>. QED
  BY <1>1, <1>2, <1>3, Zenon DEF Clear

(* Apply excludes itself: whoever is between its first and its last        *)
(* command holds the Manager's mutex.  FWTypeOK is inductive as it stands. *)
LEMMA FirewallTypes ==
    ASSUME FWTypeOK, [FWNext]_fwVars
    PROVE  FWTypeOK'
<1>. USE GrantAssumption DEF FWTypeOK, InApply, Callers, Tables, Hooks, kernel, Goto
<1>0. Troubled => trouble' \in 0 .. MaxTrouble
  BY TroubleBounded, Zenon
<1>a. Built \subseteq Tables
  BY Zenon DEF Built
<1>1. ASSUME NEW c \in Callers, ApplyLock(c) PROVE FWTypeOK'
  <2>1. trouble' \in 0 .. MaxTrouble /\ uncleared' \subseteq Tables
    BY <1>0, <1>a, <1>1, Zenon DEF ApplyLock
  <2>. QED
    BY <1>1, <2>1, Zenon DEF ApplyLock
<1>2. ASSUME NEW c \in Callers, NEW t \in Tables, NEW from \in InApply, NEW to \in InApply, Clear(c, t, from, to)
      PROVE  FWTypeOK'
  <2>1. trouble' \in 0 .. MaxTrouble
    BY <1>0, <1>2, Zenon DEF Clear
  <2>2. /\ chain' \in [Tables -> Grants \cup {"absent", "partial"}] /\ jump' \in [Tables -> SUBSET Hooks]
        /\ uncleared' \subseteq Tables
    BY <1>2, TeardownOfTable, Zenon
  <2>. QED
    BY <1>2, <2>1, <2>2, Zenon DEF Clear
<1>3. ASSUME NEW c \in Callers, NEW t \in Tables, NEW from \in InApply, NEW to \in InApply, Fill(c, t, from, to)
      PROVE  FWTypeOK'
  BY <1>3, Zenon DEF Fill
<1>4. ASSUME NEW c \in Callers, NEW t \in Tables, NEW from \in InApply, FillFails(c, t, from)
      PROVE  FWTypeOK'
  <2>1. trouble' \in 0 .. MaxTrouble
    BY <1>0, <1>4, Zenon DEF FillFails
  <2>2. chain' \in [Tables -> Grants \cup {"absent", "partial"}]
    <3>1. chain' = chain \/ \E rules \in {"absent", "partial", portGrants} : chain' = [chain EXCEPT ![t] = rules]
      BY <1>4, Zenon DEF FillFails
    <3>. QED
      BY <3>1, Zenon
  <2>3. jump' \in [Tables -> SUBSET Hooks]
    <3>1. jump' = jump \/ jump' = [jump EXCEPT ![t] = {"INPUT"}]
      BY <1>4, Zenon DEF FillFails
    <3>2. {"INPUT"} \in SUBSET Hooks
      BY Zenon
    <3>. QED
      BY <3>1, <3>2, Zenon
  <2>. QED
    BY <1>4, <2>1, <2>2, <2>3, Zenon DEF FillFails
<1>5. ASSUME NEW c \in Callers, ApplyDone(c) \/ ApplyFailed(c) PROVE FWTypeOK'
  <2>1. peersUp' \in BOOLEAN /\ enabled' \in BOOLEAN
    BY <1>5, Zenon DEF ApplyDone, ApplyFailed
  <2>2. at[c] \in InApply /\ mu' = "none"
    BY <1>5, Zenon DEF ApplyDone, ApplyFailed
  <2>3. PICK l \in {"idle", "exit"} : at' = [at EXCEPT ![c] = l]
    BY <1>5, Zenon DEF ApplyDone, ApplyFailed
  <2>4. \A d \in Callers : at[d] \in InApply => d = c
    BY <2>2, Zenon
  <2>5. /\ at' \in [Callers -> InApply \cup {"idle", "apply", "exit", "look v4", "look v6"}]
        /\ \A d \in Callers : at'[d] \notin InApply
    BY <2>3, <2>4, Zenon
  <2>6. UNCHANGED <<portGrants, chain, jump, uncleared, stopping, trouble>>
    BY <1>5, Zenon DEF ApplyDone, ApplyFailed
  <2>. QED
    BY <2>1, <2>2, <2>5, <2>6, Zenon
<1>6. ASSUME NEW c \in Callers, Apply(c) PROVE FWTypeOK'
  BY <1>1, <1>2, <1>3, <1>4, <1>5, <1>6, Zenon DEF Apply
<1>7. ASSUME NEW g \in Grants, SetPortGrants(g) PROVE FWTypeOK'
  BY <1>7, Zenon DEF SetPortGrants
<1>8. CASE Watchdog
  <2>1. PICK l \in {"idle", "apply", "look v4", "look v6"} : at' = [at EXCEPT !["watchdog"] = l]
    BY <1>8, Zenon DEF Watchdog, WatchdogTick, WatchdogLook
  <2>2. at["watchdog"] \notin InApply
    BY <1>8, Zenon DEF Watchdog, WatchdogTick, WatchdogLook
  <2>3. /\ at' \in [Callers -> InApply \cup {"idle", "apply", "exit", "look v4", "look v6"}]
        /\ \A c \in Callers : at'[c] \in InApply <=> at[c] \in InApply
    BY <2>1, <2>2, Zenon
  <2>4. UNCHANGED <<enabled, portGrants, mu, chain, jump, uncleared, peersUp, stopping>>
    BY <1>8, Zenon DEF Watchdog, WatchdogTick, WatchdogLook
  <2>5. trouble' \in 0 .. MaxTrouble
    BY <1>0, <1>8, Zenon DEF Watchdog, WatchdogTick, WatchdogLook
  <2>. QED
    BY <2>3, <2>4, <2>5, Zenon
<1>9. ASSUME NEW t \in Tables, NEW hooks \in SUBSET Hooks, ForeignFlush(t, hooks) PROVE FWTypeOK'
  <2>1. trouble' \in 0 .. MaxTrouble
    BY <1>0, <1>9, Zenon DEF ForeignFlush
  <2>2. jump' \in [Tables -> SUBSET Hooks]
    BY <1>9, Zenon DEF ForeignFlush
  <2>. QED
    BY <1>9, <2>1, <2>2, Zenon DEF ForeignFlush
<1>10. CASE Cancel
  BY <1>10, Zenon DEF Cancel
<1>b. CASE Stop
  <2>1. trouble' \in 0 .. MaxTrouble
    BY <1>0, <1>b, Zenon DEF Stop
  <2>2. CASE UNCHANGED kernel
    BY <1>b, <2>1, <2>2, Zenon DEF Stop
  <2>3. ASSUME NEW kept \in SUBSET Built, NEW whole \in BOOLEAN, NEW hooks \in SUBSET Hooks, StopClears(kept, whole, hooks)
        PROVE  FWTypeOK'
    <3>1. chain' \in [Tables -> Grants \cup {"absent", "partial"}]
      BY <2>3, Zenon DEF StopClears
    <3>2. jump' \in [Tables -> SUBSET Hooks]
      BY <2>3, Zenon DEF StopClears
    <3>3. uncleared' \subseteq Tables
      BY <1>a, <2>3, Zenon DEF StopClears
    <3>. QED
      BY <1>b, <2>1, <3>1, <3>2, <3>3, Zenon DEF Stop
  <2>. QED
    BY <1>b, <2>2, <2>3, Zenon DEF Stop
<1>11. CASE FWRestart
  <2>1. trouble' \in 0 .. MaxTrouble
    BY <1>0, <1>11, Zenon DEF FWRestart
  <2>. QED
    BY <1>11, <2>1, Zenon DEF FWRestart
<1>12. CASE UNCHANGED fwVars
  BY <1>12, Zenon DEF fwVars
<1>. QED
  BY <1>6, <1>7, <1>8, <1>9, <1>10, <1>b, <1>11, <1>12, Zenon DEF FWNext

-------------------------------------------------------------------------------
(* The read loop, having stored new grants, has yet to clear the table.    *)
Pending(t) ==
    \/ at["readloop"] \in {"apply", "clear v4"}
    \/ at["readloop"] = "clear v6" /\ t = "v6"

(* An Apply one of whose commands failed has yet to clear the table again. *)
Undoing(t) == \E c \in Callers : at[c] = "undo v4" \/ (at[c] = "undo v6" /\ t = "v6")

(* What the two properties rest on: a table that Apply has filled carries  *)
(* the Manager's grants until Apply returns, and with peers admitted a     *)
(* table with anything else is one that somebody is about to clear or that *)
(* could not be cleared.                                                   *)
Chains ==
    /\ peersUp => enabled
    /\ \A c \in Callers :
          /\ at[c] = "fill v6" => chain["v4"] = portGrants
          /\ at[c] = "applied" => \A t \in Tables : chain[t] = portGrants
    /\ peersUp => \A t \in Tables : Current(t) \/ t \in uncleared \/ Pending(t) \/ Undoing(t)

(* Neither exception depends on anything but where the callers are.        *)
LEMMA SamePlaces ==
    ASSUME NEW t \in Tables, \A c \in Callers : at'[c] \in InApply \/ at[c] \in InApply => at'[c] = at[c],
           at'["readloop"] = at["readloop"]
    PROVE  (Pending(t) => Pending(t)') /\ (Undoing(t) => Undoing(t)')
BY Zenon DEF Pending, Undoing, InApply

LEMMA ChainsInductive ==
    ASSUME FWTypeOK, Chains, [FWNext]_fwVars
    PROVE  Chains'
<1>. USE DEF FWTypeOK, Chains, Current, Pending, Undoing, InApply, Callers, Tables, kernel, Goto
<1>1. ASSUME NEW c \in Callers, ApplyLock(c) PROVE Chains'
  <2>1. CASE Goto(c, "clear v4") /\ UNCHANGED uncleared
    BY <1>1, <2>1, Zenon DEF ApplyLock
  <2>2. CASE Goto(c, "failed") /\ uncleared' = Built
    <3>1. \A t \in Tables : Current(t)' \/ t \in uncleared'
      BY <1>1, <2>2, Zenon DEF ApplyLock, Built
    <3>. QED
      BY <1>1, <2>2, <3>1, Zenon DEF ApplyLock
  <2>. QED
    BY <1>1, <2>1, <2>2, Zenon DEF ApplyLock
<1>2. ASSUME NEW c \in Callers, Clear(c, "v4", "clear v4", "clear v6") PROVE Chains'
  <2>1. /\ chain'["v4"] = "absent" \/ "v4" \in uncleared'
        /\ chain'["v6"] = chain["v6"] /\ ("v6" \in uncleared' <=> "v6" \in uncleared)
    BY <1>2, TeardownOfTable, Zenon
  <2>. QED
    BY <1>2, <2>1, Zenon DEF Clear
<1>3. ASSUME NEW c \in Callers, Clear(c, "v6", "clear v6", "fill v4") PROVE Chains'
  <2>1. /\ chain'["v6"] = "absent" \/ "v6" \in uncleared'
        /\ chain'["v4"] = chain["v4"] /\ ("v4" \in uncleared' <=> "v4" \in uncleared)
    BY <1>3, TeardownOfTable, Zenon
  <2>. QED
    BY <1>3, <2>1, Zenon DEF Clear
<1>4. ASSUME NEW c \in Callers, Fill(c, "v4", "fill v4", "fill v6") PROVE Chains'
  BY <1>4, Zenon DEF Fill
<1>5. ASSUME NEW c \in Callers, Fill(c, "v6", "fill v6", "applied") PROVE Chains'
  BY <1>5, Zenon DEF Fill
<1>6. ASSUME NEW c \in Callers, FillFails(c, "v4", "fill v4") PROVE Chains'
  BY <1>6, Zenon DEF FillFails
<1>7. ASSUME NEW c \in Callers, FillFails(c, "v6", "fill v6") PROVE Chains'
  BY <1>7, Zenon DEF FillFails
<1>8. ASSUME NEW c \in Callers, Clear(c, "v4", "undo v4", "undo v6") PROVE Chains'
  <2>1. /\ chain'["v4"] = "absent" \/ "v4" \in uncleared'
        /\ chain'["v6"] = chain["v6"] /\ ("v6" \in uncleared' <=> "v6" \in uncleared)
    BY <1>8, TeardownOfTable, Zenon
  <2>. QED
    BY <1>8, <2>1, Zenon DEF Clear
<1>9. ASSUME NEW c \in Callers, Clear(c, "v6", "undo v6", "failed") PROVE Chains'
  <2>1. /\ chain'["v6"] = "absent" \/ "v6" \in uncleared'
        /\ chain'["v4"] = chain["v4"] /\ ("v4" \in uncleared' <=> "v4" \in uncleared)
    BY <1>9, TeardownOfTable, Zenon
  <2>. QED
    BY <1>9, <2>1, Zenon DEF Clear
<1>10. ASSUME NEW c \in Callers, ApplyDone(c) PROVE Chains'
  BY <1>10, Zenon DEF ApplyDone
<1>11. ASSUME NEW c \in Callers, ApplyFailed(c) PROVE Chains'
  BY <1>11, Zenon DEF ApplyFailed
<1>12. ASSUME NEW c \in Callers, Apply(c) PROVE Chains'
  BY <1>1, <1>2, <1>3, <1>4, <1>5, <1>6, <1>7, <1>8, <1>9, <1>10, <1>11, <1>12, Zenon DEF Apply
<1>13. ASSUME NEW g \in Grants, SetPortGrants(g) PROVE Chains'
  BY <1>13, Zenon DEF SetPortGrants
<1>14. CASE Watchdog
  <2>1. \E l \in {"idle", "apply", "look v4", "look v6"} : at' = [at EXCEPT !["watchdog"] = l]
    BY <1>14, Zenon DEF Watchdog, WatchdogTick, WatchdogLook
  <2>2. UNCHANGED <<enabled, portGrants, chain, uncleared, peersUp>>
    BY <1>14, Zenon DEF Watchdog, WatchdogTick, WatchdogLook
  <2>3. at["watchdog"] \notin InApply
    BY <1>14, Zenon DEF Watchdog, WatchdogTick, WatchdogLook
  <2>4. at'["readloop"] = at["readloop"] /\ \A c \in Callers : at'[c] \in InApply \/ at[c] \in InApply => at'[c] = at[c]
    BY <2>1, <2>3, Zenon
  <2>. HIDE DEF Pending, Undoing
  <2>5. \A t \in Tables : (Pending(t) => Pending(t)') /\ (Undoing(t) => Undoing(t)')
    BY <2>4, SamePlaces, Zenon
  <2>. QED
    BY <2>2, <2>4, <2>5, Zenon
<1>15. CASE (\E t \in Tables, hooks \in SUBSET Hooks : ForeignFlush(t, hooks)) \/ Cancel \/ UNCHANGED fwVars
  <2>1. UNCHANGED <<enabled, portGrants, chain, uncleared, at, peersUp>>
    BY <1>15, Zenon DEF ForeignFlush, Cancel, fwVars
  <2>. HIDE DEF Pending, Undoing
  <2>2. \A t \in Tables : (Pending(t) => Pending(t)') /\ (Undoing(t) => Undoing(t)')
    BY <2>1, SamePlaces, Zenon
  <2>. QED
    BY <2>1, <2>2, Zenon
<1>16. CASE Stop \/ FWRestart
  <2>1. ~peersUp' /\ \A c \in Callers : at'[c] \notin InApply
    BY <1>16, Zenon DEF Stop, FWRestart
  <2>. QED
    BY <2>1, Zenon
<1>. QED
  BY <1>12, <1>13, <1>14, <1>15, <1>16, Zenon DEF FWNext

(* TypeOK and Chains hold in every state of the firewall.                  *)
THEOREM FirewallInvariance == FWSpec => [](FWTypeOK /\ Chains)
<1>1. FWInit => FWTypeOK
  <2>1. 0 \in 0 .. MaxTrouble
    BY GrantAssumption
  <2>. QED
    BY <2>1, GrantAssumption, Zenon DEF FWInit, FWTypeOK, InApply, Callers, Tables, Hooks
<1>2. FWInit => Chains
  BY DEF FWInit, Chains, Callers, Tables
<1>. QED
  BY <1>1, <1>2, FirewallTypes, ChainsInductive, PTL DEF FWSpec

(* With peers admitted and no rebuild under way, the raw ports a chain     *)
(* opens are those of the last SetPortGrants (firewall.go), or the chain   *)
(* is one the last Apply could not take down: neither the watchdog nor a   *)
(* failed Apply brings earlier grants back, whatever commands fail.        *)
THEOREM GrantsAreNeverStale == FWSpec => []NoStaleGrants
<1>1. FWTypeOK /\ Chains => NoStaleGrants
  BY Zenon DEF FWTypeOK, Chains, NoStaleGrants, Current, Pending, Undoing, InApply, Callers
<1>. QED
  BY <1>1, FirewallInvariance, PTL

(* Start-up admits peers only with both tables built by an Apply none of   *)
(* whose commands failed, over whatever a crash left in the kernel.        *)
THEOREM PeersAreConfined == FWSpec => AdmitsOnlyConfined
<1>1. FWTypeOK /\ Chains /\ [FWNext]_fwVars
      => [~peersUp /\ peersUp' => \A t \in Tables : chain[t] = portGrants]_fwVars
  <2>. SUFFICES ASSUME FWTypeOK, Chains, [FWNext]_fwVars, ~peersUp, peersUp'
                PROVE  \A t \in Tables : chain[t] = portGrants
    OBVIOUS
  <2>1. PICK c \in Callers : ApplyDone(c)
    BY Zenon DEF FWNext, Apply, ApplyLock, Clear, Fill, FillFails, ApplyFailed, SetPortGrants, Watchdog, WatchdogTick,
           WatchdogLook, ForeignFlush, Cancel, Stop, FWRestart, fwVars
  <2>. QED
    BY <2>1, Zenon DEF ApplyDone, Chains
<1>. QED
  BY <1>1, FirewallInvariance, PTL DEF FWSpec, AdmitsOnlyConfined
===============================================================================
