----------------------- MODULE ControlPlanePeersProofs ------------------------
(***************************************************************************)
(* Proofs about ControlPlane: the peers, what a push settles, and the      *)
(* addresses that clients keep.                                            *)
(***************************************************************************)
EXTENDS ControlPlaneProofs

USE DEF wg

(* The peers, where `wg set` does not fail and the interface is there.     *)
HasClient(k) == \E c \in acl.clients : c.key = k /\ c.ip = peers[k]
HasActiveClient(k) == \E c \in acl.clients : c.key = k /\ c.ip = peers[k] /\ Active(acl, c)

(* At rest a peer has its client.  A push first takes away the peers whose *)
(* key it does not list, then visits every listed client.                  *)
PeersFollow ==
    "wgset" \notin setup.events /\ ~stopping =>
        /\ forgotten = {}
        /\ pc \in {"down", "mark"} => \A k \in Keys : peers[k] = NoIP
        /\ pc \in {"add", "idle", "alloc"} => \A k \in Keys : peers[k] # NoIP => HasClient(k)
        /\ pc = "prune" => \A k \in Keys : peers[k] # NoIP => k \in todo \cup ClientKeys(acl)
        /\ pc \in {"install", "persist"} =>
              /\ \A k \in Keys : peers[k] # NoIP => (\E c \in todo : c.key = k) \/ HasActiveClient(k)
              /\ \A c \in acl.clients : AllActive(acl, c.key) => c \in todo \/ peers[c.key] = c.ip
        /\ pc = "persist" => todo = {} /\ grants = PortGrants(acl)

(* Giving key k its client at ip, with a peer there, leaves every other    *)
(* peer its client.                                                        *)
LEMMA AddedPeerHasClient ==
    ASSUME Types, NEW m \in Members, NEW k \in RealKeys, NEW ip \in Address,
           \A j \in Keys : peers[j] # NoIP => HasClient(j),
           \A c \in acl.clients : c.key # k => c.ip # ip,
           acl' = AddClient(acl, m, k, ip), AddPeer(k, ip)
    PROVE  \A j \in Keys : peers'[j] # NoIP => HasClient(j)'
<1>. SUFFICES ASSUME NEW j \in Keys, peers'[j] # NoIP
              PROVE  \E c \in acl'.clients : c.key = j /\ c.ip = peers'[j]
  BY DEF HasClient
<1>0. acl \in ACL /\ peers \in Table /\ k \in Keys
  BY DEF Types, RealKeys
<1>1. CASE j = k
  <2>1. [member |-> m, key |-> k, ip |-> ip] \in acl'.clients
    BY <1>0, AddClientEffect
  <2>2. peers'[k] = ip
    BY <1>0 DEF AddPeer, Table
  <2>. QED
    BY <1>1, <2>1, <2>2
<1>2. CASE j # k
  <2>1. peers'[j] = peers[j]
    BY <1>0, <1>2 DEF AddPeer, Table
  <2>2. PICK c \in acl.clients : c.key = j /\ c.ip = peers[j]
    BY <2>1 DEF HasClient
  <2>3. c \in acl'.clients
    BY <1>0, <1>2, <2>2, AddClientEffect
  <2>. QED
    BY <2>1, <2>2, <2>3
<1>. QED
  BY <1>1, <1>2

LEMMA PeersFollowInductive ==
    ASSUME Types, Types', Core, PeersFollow, [Next]_vars
    PROVE  PeersFollow'
<1>. SUFFICES ASSUME "wgset" \notin setup.events, setup' = setup, ~stopping', Next \/ UNCHANGED vars PROVE PeersFollow'
  BY DEF PeersFollow, Next, vars
<1>1. /\ Sound(alloc) /\ alloc \in Allocator /\ acl \in ACL /\ peers \in Table /\ acl' \in ACL
      /\ pc # "install" => todo \subseteq Keys
      /\ RealKeys \subseteq Keys /\ stopping \in BOOLEAN
  BY DEF Types, Sound, RealKeys
<1>2. DistinctClients(acl, setup.events) /\ (pc \notin {"down", "mark"} => Agrees(alloc, acl))
  BY DEF Core, ClientsDistinct, ListAndAllocatorAgree, Agrees
<1>a. Sound(alloc) /\ RealKeys \subseteq Keys
  BY <1>1
<1>b. acl \in ACL /\ DistinctClients(acl, setup.events)
  BY <1>1, <1>2
<1>c. ASSUME pc' \in {"add", "idle", "alloc"}, forgotten' = {}, \A k \in Keys : peers'[k] # NoIP => HasClient(k)' PROVE PeersFollow'
  BY <1>c DEF PeersFollow
<1>d. ~stopping => /\ forgotten = {}
                   /\ pc \in {"add", "idle", "alloc"} => \A k \in Keys : peers[k] # NoIP => HasClient(k)
  BY DEF PeersFollow
<1>. USE DEF PeersFollow
<1>3. CASE UNCHANGED vars
  BY <1>3 DEF vars, HasClient, HasActiveClient, AllActive, Active, ClientKeys, PortGrants
<1>4. CASE (\E p \in Push[setup] : Receive(p)) \/ RejectPin
           \/ \E k \in todo, ip \in LeaseChoices : AllocateClient(k, ip) \/ RejectFull(k, ip)
  <2>. HIDE DEF PeersFollow
  <2>1. pc \in {"idle", "alloc"} /\ pc' \in {"idle", "alloc"} /\ UNCHANGED <<acl, wg, stopping>>
    BY <1>4 DEF Receive, AllocateClient, RejectPin, RejectFull, EndPush
  <2>. QED
    BY <1>c, <1>d, <2>1 DEF HasClient
<1>5. CASE Reconcile
  <2>1. pc = "alloc" /\ pc' = "prune" /\ todo' = ClientKeys(acl) \ Listed(push) /\ push' = push /\ UNCHANGED <<wg, stopping>>
    BY <1>5 DEF Reconcile
  <2>2. ClientKeys(acl)' = Listed(push)
    BY <2>1 DEF Types, Working, Listed
  <2>3. \A k \in Keys : peers[k] # NoIP => k \in ClientKeys(acl)
    BY <2>1 DEF HasClient, ClientKeys
  <2>. QED
    BY <2>1, <2>2, <2>3
<1>6. ASSUME NEW k \in todo, Prune(k) PROVE PeersFollow'
  <2>1. /\ pc = "prune" /\ pc' = "prune" /\ peers' = [peers EXCEPT ![k] = NoIP] /\ todo' = todo \ {k}
        /\ UNCHANGED <<acl, stopping, forgotten>>
    BY <1>d, <1>6 DEF Prune, RemovePeer
  <2>. QED
    BY <1>1, <2>1 DEF ClientKeys, Table
<1>7. CASE BeginInstall
  <2>1. pc = "prune" /\ pc' = "install" /\ todo = {} /\ todo' = acl.clients /\ UNCHANGED <<acl, wg, stopping>>
    BY <1>7 DEF BeginInstall
  <2>. QED
    BY <2>1 DEF ClientKeys
<1>8. ASSUME NEW c \in todo, Install(c) PROVE PeersFollow'
  <2>1. /\ pc = "install" /\ pc' = "install" /\ todo' = todo \ {c}
        /\ peers' = [peers EXCEPT ![c.key] = IF Active(acl, c) THEN c.ip ELSE NoIP]
        /\ UNCHANGED <<acl, stopping>> /\ forgotten = {} /\ forgotten' = {}
    BY <1>d, <1>8 DEF Install, AddPeer, AddPeerFails, RemovePeer
  <2>2. c \in acl.clients /\ todo \subseteq acl.clients
    BY <2>1 DEF Types
  <2>3. \A d \in acl.clients : d.key \in Keys
    BY <1>1, ClientFields
  <2>4. ASSUME NEW k \in Keys, peers'[k] # NoIP PROVE (\E d \in todo' : d.key = k) \/ HasActiveClient(k)'
    <3>1. CASE k = c.key
      <4>1. Active(acl, c) /\ peers'[k] = c.ip
        BY <1>1, <2>1, <2>4, <3>1 DEF Table
      <4>. QED
        BY <2>1, <2>2, <3>1, <4>1 DEF HasActiveClient, Active
    <3>2. CASE k # c.key
      <4>1. peers'[k] = peers[k]
        BY <1>1, <2>1, <2>2, <2>3, <3>2 DEF Table
      <4>2. (\E d \in todo : d.key = k) \/ HasActiveClient(k)
        BY <2>1, <2>4, <4>1
      <4>3. ASSUME NEW d \in todo, d.key = k PROVE d \in todo'
        BY <2>1, <3>2, <4>3
      <4>. QED
        BY <2>1, <4>1, <4>2, <4>3 DEF HasActiveClient, Active
    <3>. QED
      BY <3>1, <3>2
  <2>5. ASSUME NEW d \in acl.clients, AllActive(acl, d.key) PROVE d \in todo' \/ peers'[d.key] = d.ip
    <3>1. CASE d.key = c.key
      <4>1. Active(acl, c) /\ c.ip = d.ip
        BY <1>2, <2>2, <2>5, <3>1, Zenon DEF DistinctClients, AllActive
      <4>. QED
        BY <1>1, <2>1, <2>3, <3>1, <4>1 DEF Table
    <3>2. CASE d.key # c.key
      <4>1. d \in todo \/ peers[d.key] = d.ip
        BY <2>1, <2>5
      <4>2. peers'[d.key] = peers[d.key]
        BY <1>1, <2>1, <2>2, <2>3, <3>2 DEF Table
      <4>. QED
        BY <2>1, <3>2, <4>1, <4>2
    <3>. QED
      BY <3>1, <3>2
  <2>. HIDE DEF PeersFollow
  <2>6. \A d \in acl'.clients : AllActive(acl, d.key)' => d \in todo' \/ peers'[d.key] = d.ip
    BY <2>1, <2>5 DEF AllActive, Active
  <2>. QED
    BY <2>1, <2>4, <2>6 DEF PeersFollow
<1>9. CASE ReconcileGrants
  BY <1>9 DEF ReconcileGrants, HasActiveClient, AllActive, Active, PortGrants
<1>10. CASE Persist
  <2>1. acl'.clients = acl.clients
    BY <1>1, <1>10 DEF Persist, ACL
  <2>. QED
    BY <1>10, <2>1 DEF Persist, EndPush, HasClient, HasActiveClient
<1>11. ASSUME NEW m \in Members, NEW k \in RealKeys, Provision(m, k) PROVE PeersFollow'
  <2>. HIDE DEF PeersFollow
  <2>. DEFINE ip == alloc'.allocated[k]
  <2>1. /\ CanAllocate(alloc, k) /\ alloc' = Allocate(alloc, k) /\ pc = "idle" /\ pc' = "idle" /\ ~stopping
        /\ acl' = AddClient(acl, m, k, ip) /\ AddPeer(k, ip)
    BY <1>11 DEF Provision, AddPeer
  <2>2. Sound(alloc') /\ ip \in Address /\ Grows(alloc, alloc')
    BY <1>a, <2>1, AllocatedSound
  <2>3. Agrees(alloc', acl)
    BY <1>b, <1>2, <2>1, <2>2, GrowsKeepsAgreement
  <2>4. \A c \in acl.clients : c.key # k => c.ip # ip
    BY <1>b, <2>2, <2>3, NobodyElseHas
  <2>. HIDE DEF ip
  <2>5. \A j \in Keys : peers'[j] # NoIP => HasClient(j)'
    BY <1>d, <2>1, <2>2, <2>4, AddedPeerHasClient
  <2>. QED
    BY <1>c, <1>d, <2>1, <2>5 DEF AddPeer
<1>12. CASE \E m \in Members : ProvisionEmptyKey(m) \/ \E k \in RealKeys : ProvisionFails(m, k)
  BY <1>12 DEF ProvisionEmptyKey, ProvisionFails, AddPeerFails, HasClient
<1>13. CASE Stop \/ Exit \/ \E p \in setup.prefixes : Boot(p)
  BY <1>13 DEF Stop, Exit, Boot, NoAddresses
<1>14. CASE BeginAdd \/ (\E c \in acl.clients : Mark(c)) \/ Booted
  BY <1>14 DEF BeginAdd, Mark, Booted, HasClient
<1>15. ASSUME NEW c \in acl.clients, Add(c) PROVE PeersFollow'
  <2>. HIDE DEF PeersFollow
  <2>1. c.member \in Members /\ c.key \in RealKeys /\ c.key \in Keys /\ c.ip \in Address
    BY <1>1, ClientFields
  <2>2. pc = "add" /\ pc' = "add" /\ ~stopping /\ ~AddPeerFails
    BY <1>15 DEF Add, AddPeerFails
  <2>3. CASE InSubnet(alloc, c.ip)
    <3>1. AddPeer(c.key, c.ip) /\ acl' = AddClient(acl, c.member, c.key, c.ip)
      BY <1>15, <2>2, <2>3 DEF Add
    <3>2. \A d \in acl.clients : d.key # c.key => d.ip # c.ip
      BY <1>2 DEF DistinctClients
    <3>3. \A j \in Keys : peers'[j] # NoIP => HasClient(j)'
      BY <1>d, <2>1, <2>2, <3>1, <3>2, AddedPeerHasClient
    <3>. QED
      BY <1>c, <1>d, <2>2, <3>1, <3>3 DEF AddPeer
  <2>4. CASE ~InSubnet(alloc, c.ip) /\ CanAllocate(alloc, c.key)
    <3>. DEFINE ip == alloc'.allocated[c.key]
    <3>1. /\ alloc' = Allocate(alloc, c.key)
          /\ AddPeer(c.key, ip) /\ acl' = AddClient(acl, c.member, c.key, ip)
      BY <1>15, <2>2, <2>4 DEF Add
    <3>2. Sound(alloc') /\ Grows(alloc, alloc') /\ ip \in Address
      BY <1>a, <2>1, <2>4, <3>1, AllocatedSound
    <3>3. Agrees(alloc', acl)
      BY <1>b, <1>2, <2>2, <3>2, GrowsKeepsAgreement
    <3>4. \A d \in acl.clients : d.key # c.key => d.ip # ip
      BY <1>b, <2>1, <3>2, <3>3, NobodyElseHas
    <3>. HIDE DEF ip
    <3>5. \A j \in Keys : peers'[j] # NoIP => HasClient(j)'
      BY <1>d, <2>1, <2>2, <3>1, <3>2, <3>4, AddedPeerHasClient
    <3>. QED
      BY <1>c, <1>d, <2>2, <3>1, <3>5 DEF AddPeer
  <2>5. CASE ~InSubnet(alloc, c.ip) /\ ~CanAllocate(alloc, c.key)
    <3>1. UNCHANGED <<acl, wg>>
      BY <1>15, <2>5 DEF Add
    <3>. QED
      BY <1>c, <1>d, <2>2, <3>1 DEF HasClient
  <2>. QED
    BY <2>3, <2>4, <2>5
<1>. HIDE DEF PeersFollow
<1>h. CASE HandleState
  BY <1>h, <1>4, <1>5, <1>6, <1>7, <1>8, <1>9, <1>10 DEF HandleState
<1>p. CASE HandleProvision
  BY <1>p, <1>11, <1>12 DEF HandleProvision
<1>s. CASE StartUp
  BY <1>s, <1>13, <1>14, <1>15 DEF StartUp
<1>. QED
  BY <1>3, <1>13, <1>h, <1>p, <1>s DEF Next

THEOREM PeersInvariance == OneKindOfEnd /\ Spec => [](Inv /\ PeersFollow)
<1>1. Init => PeersFollow
  BY DEF Init, PeersFollow, NoAddresses
<1>2. Inv /\ Inv' /\ PeersFollow /\ [Next]_vars => PeersFollow'
  BY PeersFollowInductive DEF Inv
<1>. QED
  BY <1>1, <1>2, ControlPlaneInvariance, PTL DEF Spec

(* Between two messages every WireGuard peer is a client of the list, at   *)
(* its address there (HandleDeviceState, HandleProvision, reconcilePeers): *)
(* no client that lost its access keeps a tunnel.                          *)
THEOREM PeersStayClients == OneKindOfEnd /\ Spec => []PeersAreClients
<1>1. PeersFollow => PeersAreClients
  BY DEF PeersFollow, PeersAreClients, HasClient
<1>. QED
  BY <1>1, PeersInvariance, PTL

(* When HandleDeviceState has applied a push, whatever came before it, the *)
(* peers are exactly the clients of active members and the raw-port grants *)
(* are those of the list.                                                  *)
THEOREM PushesSettle == OneKindOfEnd /\ Spec => PushSettles
<1>1. ASSUME Inv, PeersFollow, [Next]_vars, pc = "persist", pc' = "idle", ~stopping, "wgset" \notin setup.events
      PROVE  Settled'
  <2>1. Persist /\ setup' = setup
    <3>1. ~HandleProvision
      BY <1>1, Zenon DEF HandleProvision, Provision, ProvisionFails, ProvisionEmptyKey
    <3>2. ~StartUp
      BY <1>1 DEF StartUp, Boot, Mark, BeginAdd, Add, Booted
    <3>3. ~Stop /\ ~Exit
      BY <1>1 DEF Stop, Exit
    <3>4. HandleState => Persist
      BY <1>1, Zenon DEF HandleState, Receive, AllocateClient, RejectFull, RejectPin, Reconcile, Prune, BeginInstall, Install,
         ReconcileGrants
    <3>. QED
      BY <1>1, <3>1, <3>2, <3>3, <3>4 DEF Next, vars
  <2>2. acl'.clients = acl.clients /\ acl'.status = acl.status /\ acl'.ports = acl.ports
    BY <1>1, <2>1 DEF Inv, Types, Persist, ACL
  <2>3. UNCHANGED <<peers, grants>>
    BY <2>1 DEF Persist
  <2>4. \A k \in Keys : peers[k] # NoIP => HasActiveClient(k)
    BY <1>1 DEF PeersFollow
  <2>5. \A c \in acl.clients : AllActive(acl, c.key) => peers[c.key] = c.ip
    BY <1>1 DEF PeersFollow
  <2>6. grants' = PortGrants(acl')
    BY <1>1, <2>2, <2>3 DEF PeersFollow, PortGrants, Active
  <2>. QED
    BY <2>2, <2>3, <2>4, <2>5, <2>6 DEF Settled, HasActiveClient, AllActive, Active, PortGrants
<1>2. Inv /\ PeersFollow /\ [Next]_vars =>
        [pc = "persist" /\ pc' = "idle" /\ ~stopping /\ "wgset" \notin setup.events => Settled']_vars
  BY <1>1
<1>. QED
  BY <1>2, PeersInvariance, PTL DEF Spec, PushSettles
-------------------------------------------------------------------------------
(* The addresses, where the list is always saved and `wg set` never fails: *)
(* of the clients that both files of a list name, each is where it was or  *)
(* its old address is not of the current prefix.                           *)
Kept(old, new) ==
    \A c \in old.clients, d \in new.clients : c.key = d.key /\ InSubnet(alloc, c.ip) => c.ip = d.ip

Bindings == {"save", "wgset"} \cap setup.events = {} => Kept(aclFile, acl)

(* One step keeps Bindings, and the address of a key that is in the file   *)
(* before it and after it.                                                 *)
LEMMA BindingsInductive ==
    ASSUME Types, Types', Core, Core', ListSaved, Bindings, [Next]_vars,
           {"save", "wgset"} \cap setup.events = {}
    PROVE  /\ Bindings'
           /\ \A c \in aclFile.clients, d \in aclFile'.clients :
                 c.key = d.key /\ InSubnet(alloc', c.ip) => c.ip = d.ip
<1>. DEFINE Steady == \A c \in aclFile.clients, d \in aclFile'.clients :
                         c.key = d.key /\ InSubnet(alloc', c.ip) => c.ip = d.ip
            KeptNow == \A c \in aclFile'.clients, d \in acl'.clients :
                         c.key = d.key /\ InSubnet(alloc', c.ip) => c.ip = d.ip
<1>. SUFFICES ASSUME Next \/ UNCHANGED vars PROVE KeptNow /\ Steady
  BY Zenon DEF Bindings, Kept
<1>1. /\ Sound(alloc) /\ alloc \in Allocator /\ acl \in ACL /\ aclFile \in ACL
      /\ RealKeys \subseteq Keys /\ (pc # "install" => todo \subseteq Keys)
  BY DEF Types, Sound, RealKeys
<1>2. /\ DistinctClients(acl, setup.events) /\ DistinctClients(aclFile, setup.events) /\ DistinctClients(acl', setup'.events)
      /\ pc \notin {"down", "mark"} => Agrees(alloc, acl)
  BY DEF Core, ClientsDistinct, ListAndAllocatorAgree, Agrees
<1>a. Sound(alloc) /\ RealKeys \subseteq Keys
  BY <1>1
<1>b. acl \in ACL
  BY <1>1
<1>3. \A c \in aclFile.clients, d \in acl.clients : c.key = d.key /\ InSubnet(alloc, c.ip) => c.ip = d.ip
  BY DEF Bindings, Kept
<1>4. \A c, d \in aclFile.clients : c.key = d.key => c.ip = d.ip
  BY <1>2, Zenon DEF DistinctClients
<1>5. \A c, d \in acl'.clients : c.key = d.key => c.ip = d.ip
  BY <1>2, Zenon DEF DistinctClients
<1>6. ASSUME UNCHANGED <<acl, aclFile>>, alloc'.prefix = alloc.prefix PROVE KeptNow /\ Steady
  BY <1>3, <1>4, <1>6, SubnetOfPrefix
<1>7. ASSUME aclFile' = acl', acl'.clients = acl.clients, alloc' = alloc PROVE KeptNow /\ Steady
  BY <1>3, <1>5, <1>7
<1>8. CASE UNCHANGED vars
  BY <1>6, <1>8, Zenon DEF vars
<1>9. CASE (\E p \in Push[setup] : Receive(p)) \/ RejectPin \/ BeginInstall \/ ReconcileGrants
           \/ (\E k \in todo, ip \in LeaseChoices : RejectFull(k, ip)) \/ (\E c \in todo : Install(c))
           \/ Stop \/ BeginAdd
  BY <1>6, <1>9, Zenon DEF Receive, RejectPin, BeginInstall, ReconcileGrants, RejectFull, Install, Stop, BeginAdd
<1>10. ASSUME NEW k \in todo, NEW ip, AllocateClient(k, ip) PROVE KeptNow /\ Steady
  <2>1. alloc'.prefix = alloc.prefix
    BY <1>10, AllocateClientGrows, Zenon DEF Grows
  <2>. QED
    BY <1>6, <1>10, <2>1 DEF AllocateClient
<1>11. ASSUME NEW k \in todo, Prune(k) PROVE KeptNow /\ Steady
  <2>1. k \in Keys /\ alloc' = Release(alloc, k) /\ UNCHANGED <<acl, aclFile>>
    BY <1>1, <1>11 DEF Prune
  <2>2. alloc'.prefix = alloc.prefix
    BY <1>a, <2>1, ReleaseKeepsPrefix
  <2>. QED
    BY <1>6, <2>1, <2>2
<1>12. CASE Reconcile
  <2>1. pc = "alloc" /\ acl' = Reconciled(acl, push, alloc) /\ UNCHANGED <<alloc, aclFile>> /\ todo = {}
    BY <1>12 DEF Reconcile
  <2>2. acl.clients = aclFile.clients
    BY <2>1 DEF ListSaved
  <2>3. \A c \in aclFile.clients : InSubnet(alloc, c.ip) => alloc.allocated[c.key] = c.ip
    BY <1>2, <2>1, <2>2 DEF Agrees
  <2>4. push \in AnyPush /\ \A k \in Listed(push) : alloc.allocated[k] # NoIP
    BY <2>1, Zenon DEF Types, Working
  <2>6. \A d \in acl'.clients : d.ip = alloc.allocated[d.key]
    BY <1>1, <2>1, <2>4, ReconciledEffect
  <2>. QED
    BY <1>4, <2>1, <2>3, <2>6
<1>13. CASE Persist
  <2>1. aclFile' = acl' /\ alloc' = alloc
    BY <1>13 DEF Persist, Save
  <2>2. acl'.clients = acl.clients
    BY <1>1, <1>13 DEF Persist, ACL
  <2>. QED
    BY <1>7, <2>1, <2>2
<1>14. CASE Booted
  BY <1>7, <1>14, Zenon DEF Booted, Save
<1>15. ASSUME NEW m \in Members, NEW k \in RealKeys, Provision(m, k) PROVE KeptNow /\ Steady
  <2>. DEFINE ip == alloc'.allocated[k]
  <2>1. /\ CanAllocate(alloc, k) /\ alloc' = Allocate(alloc, k) /\ pc = "idle"
        /\ acl' = AddClient(acl, m, k, ip) /\ aclFile' = acl'
    BY <1>15, Zenon DEF Provision, Save
  <2>2. ip \in Address /\ alloc'.prefix = alloc.prefix /\ (alloc.allocated[k] # NoIP => alloc' = alloc)
    BY <1>a, <2>1, AllocateEffect
  <2>. HIDE DEF ip
  <2>3. \A d \in acl'.clients : d.key # k => d \in acl.clients
    BY <1>b, <2>1, <2>2, AddClientMembers
  <2>5. \A d \in acl'.clients : d.key = k => d.ip = ip
    BY <1>b, <2>1, <2>2, AddClientMembers
  <2>6. acl.clients = aclFile.clients
    BY <2>1 DEF ListSaved
  <2>7. ASSUME NEW c \in aclFile.clients, NEW d \in acl'.clients, c.key = d.key, InSubnet(alloc', c.ip)
        PROVE  c.ip = d.ip
    <3>1. CASE d.key # k
      BY <1>4, <2>3, <2>6, <2>7, <3>1
    <3>2. CASE d.key = k
      <4>1. alloc.allocated[k] = c.ip /\ c.ip \in Address
        BY <1>1, <1>2, <2>1, <2>2, <2>6, <2>7, <3>2, SubnetOfPrefix, ClientFields DEF Agrees
      <4>2. ip = c.ip
        BY <2>2, <4>1, NoIPAssumption, Zenon DEF ip
      <4>. QED
        BY <2>5, <3>2, <4>2
    <3>. QED
      BY <3>1, <3>2
  <2>. QED
    BY <1>5, <2>1, <2>7
<1>16. CASE \E m \in Members, k \in RealKeys : ProvisionFails(m, k)
  BY <1>16, Zenon DEF ProvisionFails, AddPeerFails
<1>17. ASSUME NEW m \in Members, ProvisionEmptyKey(m) PROVE KeptNow /\ Steady
  <2>1. /\ CanAllocate(alloc, EmptyKey) /\ UNCHANGED <<acl, aclFile>>
        /\ alloc' = Release(Allocate(alloc, EmptyKey), EmptyKey)
    BY <1>17 DEF ProvisionEmptyKey
  <2>. DEFINE a == Allocate(alloc, EmptyKey)
  <2>2. Sound(a) /\ a.prefix = alloc.prefix
    BY <1>a, <2>1, EmptyKeyAssumption, AllocatedSound DEF Grows
  <2>. HIDE DEF a
  <2>3. Release(a, EmptyKey).prefix = a.prefix
    BY <2>2, EmptyKeyAssumption, ReleaseKeepsPrefix
  <2>4. alloc'.prefix = alloc.prefix
    BY <2>1, <2>2, <2>3 DEF a
  <2>. QED
    BY <1>6, <2>1, <2>4
<1>18. CASE Exit
  BY <1>4, <1>18, EmptyLists DEF Exit
<1>19. CASE \E p \in setup.prefixes : Boot(p)
  BY <1>4, <1>19 DEF Boot
<1>20. ASSUME NEW c \in acl.clients, Mark(c) PROVE KeptNow /\ Steady
  <2>1. alloc' = MarkUsed(alloc, c.key, c.ip) /\ UNCHANGED <<acl, aclFile>>
    BY <1>20 DEF Mark
  <2>2. c.key \in Keys /\ c.key # EmptyKey /\ Sound(alloc)
    BY <1>1, ClientFields DEF RealKeys
  <2>3. alloc'.prefix = alloc.prefix
    BY <2>1, <2>2, MarkUsedOrSame
  <2>. QED
    BY <1>6, <2>1, <2>3
<1>21. ASSUME NEW c \in acl.clients, Add(c) PROVE KeptNow /\ Steady
  <2>1. c.member \in Members /\ c.key \in RealKeys /\ c.key \in Keys /\ c.ip \in Address
    BY <1>1, ClientFields, Zenon
  <2>2. aclFile' = aclFile
    BY <1>21, Zenon DEF Add
  <2>3. CASE ~InSubnet(alloc, c.ip) /\ ~CanAllocate(alloc, c.key)
    BY <1>6, <1>21, <2>3, Zenon DEF Add
  <2>4. CASE InSubnet(alloc, c.ip)
    <3>1. alloc' = alloc
      BY <1>21, <2>4, Zenon DEF Add
    <3>2. CASE acl' = acl
      BY <1>6, <2>2, <3>1, <3>2
    <3>3. CASE acl' = AddClient(acl, c.member, c.key, c.ip)
      <4>1. \A d \in acl'.clients : d \in acl.clients \/ (d.key = c.key /\ d.ip = c.ip)
        BY <1>b, <2>1, <3>3, AddClientMembers, Zenon
      <4>. QED
        BY <1>3, <1>4, <2>2, <3>1, <4>1
    <3>. QED
      BY <1>21, <2>4, <3>2, <3>3, Zenon DEF Add
  <2>5. CASE ~InSubnet(alloc, c.ip) /\ CanAllocate(alloc, c.key)
    <3>. DEFINE ip == alloc'.allocated[c.key]
    <3>1. /\ alloc' = Allocate(alloc, c.key)
          /\ acl' = acl \/ acl' = AddClient(acl, c.member, c.key, ip)
      BY <1>21, <2>5, Zenon DEF Add
    <3>2. ip \in Address /\ alloc'.prefix = alloc.prefix
      BY <1>a, <2>1, <2>5, <3>1, AllocatedSound DEF Grows
    <3>. HIDE DEF ip
    <3>3. CASE acl' = acl
      BY <1>6, <2>2, <3>2, <3>3
    <3>4. CASE acl' = AddClient(acl, c.member, c.key, ip)
      <4>1. \A d \in acl'.clients : d.key # c.key => d \in acl.clients
        BY <1>b, <2>1, <3>2, <3>4, AddClientMembers
      <4>2. \A e \in aclFile.clients : e.key = c.key => ~InSubnet(alloc, e.ip)
        BY <1>3, <2>5
      <4>3. \A e \in aclFile.clients : InSubnet(alloc', e.ip) <=> InSubnet(alloc, e.ip)
        BY <3>2, SubnetOfPrefix
      <4>. QED
        BY <1>3, <1>4, <2>2, <4>1, <4>2, <4>3
    <3>. QED
      BY <3>1, <3>3, <3>4, Zenon
  <2>. QED
    BY <2>3, <2>4, <2>5
<1>. HIDE DEF KeptNow, Steady
<1>h. CASE HandleState
  BY <1>h, <1>9, <1>10, <1>11, <1>12, <1>13 DEF HandleState
<1>p. CASE HandleProvision
  BY <1>p, <1>15, <1>16, <1>17 DEF HandleProvision
<1>s. CASE StartUp
  BY <1>s, <1>9, <1>14, <1>19, <1>20, <1>21 DEF StartUp
<1>. QED
  BY <1>8, <1>9, <1>18, <1>h, <1>p, <1>s DEF Next

(* A key keeps its address for as long as the saved list names it and the  *)
(* address is of the current prefix: HandleDeviceState, HandleProvision    *)
(* and reconcilePeers never renumber a client, suspended or not, across    *)
(* pushes, crashes, stops and restarts.                                    *)
THEOREM BindingsAreStable == OneKindOfEnd /\ Spec => BindingStable
<1>1. Init => Bindings
  BY EmptyLists DEF Init, Bindings, Kept
<1>2. ASSUME Inv, Inv', Bindings, [Next]_vars PROVE Bindings'
  <2>1. setup' = setup
    BY <1>2 DEF Next, vars
  <2>2. CASE {"save", "wgset"} \cap setup.events = {}
    BY <1>2, <2>2, BindingsInductive DEF Inv
  <2>3. CASE {"save", "wgset"} \cap setup.events # {}
    BY <2>1, <2>3 DEF Bindings
  <2>. QED
    BY <2>2, <2>3
<1>3. ASSUME Inv, Inv', Bindings, [Next]_vars
      PROVE  [{"save", "wgset"} \cap setup.events = {} => \A c \in aclFile.clients, d \in aclFile'.clients :
                 c.key = d.key /\ InSubnet(alloc', c.ip) => c.ip = d.ip]_vars
  BY <1>3, BindingsInductive DEF Inv
<1>. QED
  BY <1>1, <1>2, <1>3, ControlPlaneInvariance, PTL DEF Spec, BindingStable
===============================================================================
