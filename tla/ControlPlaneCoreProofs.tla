------------------------ MODULE ControlPlaneCoreProofs ------------------------
(***************************************************************************)
(* Proofs about ControlPlane, for every set of members, keys and prefixes, *)
(* every subnet size and every choice of setups: the types, and the        *)
(* agreement of the list of clients with the allocator.                    *)
(***************************************************************************)
EXTENDS ControlPlane, IPAllocatorOpsProofs

USE DEF wg

Working == {"alloc", "prune", "install", "persist"}

(* The types, and how far a push has come: every listed client that has    *)
(* been visited has an address, and from Reconcile on the list is that of  *)
(* the push.                                                               *)
Types ==
    /\ setup \in Setups
    /\ Sound(alloc) /\ allocFile \in Table /\ Exclusive(allocFile)
    /\ acl \in ACL /\ aclFile \in ACL
    /\ peers \in Table /\ forgotten \subseteq RealKeys
    /\ grants \subseteq Address
    /\ stopping \in BOOLEAN
    /\ pc \in {"down", "mark", "add", "idle"} \cup Working
    /\ push \in AnyPush \cup {NoPush}
    /\ IF pc = "install" THEN todo \subseteq acl.clients ELSE todo \subseteq RealKeys
    /\ pc \in Working => push \in AnyPush /\ ("shared" \in setup.events \/ OneOwner(push))
    /\ pc = "alloc" => \A k \in Listed(push) : k \in todo \/ alloc.allocated[k] # NoIP
    /\ pc = "prune" => todo \cap Listed(push) = {}
    /\ pc \in Working \ {"alloc"} => ClientKeys(acl) = Listed(push)

-------------------------------------------------------------------------------
(* The operations of the list.                                             *)

(* AddClient leaves one client with the key, and no other member with the  *)
(* address.                                                                *)
LEMMA AddClientEffect ==
    ASSUME NEW list \in ACL, NEW m \in Members, NEW k \in RealKeys, NEW ip \in Address
    PROVE  /\ AddClient(list, m, k, ip) \in ACL
           /\ AddClient(list, m, k, ip).status = list.status
           /\ AddClient(list, m, k, ip).ports = list.ports
           /\ AddClient(list, m, k, ip).gen = list.gen
           /\ \A c : c \in AddClient(list, m, k, ip).clients <=>
                 \/ c = [member |-> m, key |-> k, ip |-> ip]
                 \/ c \in list.clients /\ c.key # k /\ (c.member = m \/ c.ip # ip)
<1>. DEFINE new == [member |-> m, key |-> k, ip |-> ip]
            stripped == {c \in list.clients : c.member # m /\ (c.key = k \/ c.ip = ip)}
            refreshed == {c \in list.clients : c.member = m /\ c.key = k}
            result == (list.clients \ (stripped \cup refreshed)) \cup {new}
<1>1. new \in Client
  BY DEF Client
<1>2. result \in SUBSET Client
  BY <1>1 DEF ACL
<1>3. AddClient(list, m, k, ip) = [list EXCEPT !.clients = result]
  BY DEF AddClient
<1>4. \A c : c \in result <=> c = new \/ (c \in list.clients /\ c.key # k /\ (c.member = m \/ c.ip # ip))
  OBVIOUS
<1>. HIDE DEF result
<1>5. /\ [list EXCEPT !.clients = result] \in ACL
      /\ [list EXCEPT !.clients = result].clients = result
      /\ [list EXCEPT !.clients = result].status = list.status
      /\ [list EXCEPT !.clients = result].ports = list.ports
      /\ [list EXCEPT !.clients = result].gen = list.gen
  BY <1>2 DEF ACL
<1>. QED
  BY <1>3, <1>4, <1>5

LEMMA RemoveClientEffect ==
    ASSUME NEW list \in ACL, NEW m, NEW k
    PROVE  /\ RemoveClient(list, m, k) \in ACL
           /\ RemoveClient(list, m, k).status = list.status
           /\ RemoveClient(list, m, k).gen = list.gen
           /\ RemoveClient(list, m, k).clients = {c \in list.clients : ~(c.member = m /\ c.key = k)}
BY DEF RemoveClient, ACL

(* What the steps of a handler need most often of those operations, apart: *)
(* the result is a list of the same generation.                            *)
LEMMA AddClientKeeps ==
    ASSUME NEW list \in ACL, NEW m \in Members, NEW k \in RealKeys, NEW ip \in Address
    PROVE  AddClient(list, m, k, ip) \in ACL /\ AddClient(list, m, k, ip).gen = list.gen
BY AddClientEffect

LEMMA AddClientMembers ==
    ASSUME NEW list \in ACL, NEW m \in Members, NEW k \in RealKeys, NEW ip \in Address
    PROVE  \A c \in AddClient(list, m, k, ip).clients :
              (c.key = k /\ c.member = m /\ c.ip = ip) \/ (c.key # k /\ c \in list.clients)
BY AddClientEffect

LEMMA RemoveClientKeeps ==
    ASSUME NEW list \in ACL, NEW m, NEW k
    PROVE  RemoveClient(list, m, k) \in ACL /\ RemoveClient(list, m, k).gen = list.gen
BY RemoveClientEffect

LEMMA RemoveClientMembers ==
    ASSUME NEW list \in ACL, NEW m, NEW k
    PROVE  \A c \in RemoveClient(list, m, k).clients : c \in list.clients /\ ~(c.member = m /\ c.key = k)
BY RemoveClientEffect

LEMMA AllocatedAddress ==
    ASSUME NEW a, Sound(a), NEW k \in Keys, CanAllocate(a, k)
    PROVE  Allocate(a, k).allocated[k] \in Address
BY AllocateEffect

LEMMA MarkUsedOrSame ==
    ASSUME NEW a, Sound(a), NEW k \in Keys, k # EmptyKey, NEW ip
    PROVE  /\ MarkUsed(a, k, ip).prefix = a.prefix
           /\ ~InSubnet(a, ip) \/ ip \in a.usedIPs => MarkUsed(a, k, ip) = a
           /\ \A j \in Keys : j # k => MarkUsed(a, k, ip).allocated[j] = a.allocated[j]
<1>1. CASE ~InSubnet(a, ip) \/ ip \in a.usedIPs
  BY <1>1 DEF MarkUsed
<1>2. CASE InSubnet(a, ip) /\ ip \notin a.usedIPs
  <2>1. MarkUsed(a, k, ip) = Take(a, k, ip) /\ ip \in Address
    BY <1>2 DEF MarkUsed, InSubnet
  <2>2. Take(a, k, ip).prefix = a.prefix /\ Take(a, k, ip).allocated = [a.allocated EXCEPT ![k] = ip]
    BY DEF Take, Sound, Allocator
  <2>3. \A j \in Keys : j # k => Take(a, k, ip).allocated[j] = a.allocated[j]
    BY <2>2 DEF Sound, Allocator, Table
  <2>. QED
    BY <1>2, <2>1, <2>2, <2>3
<1>. QED
  BY <1>1, <1>2

LEMMA ReleaseKeepsPrefix ==
    ASSUME NEW a, Sound(a), NEW k \in Keys
    PROVE  Release(a, k).prefix = a.prefix /\ \A j \in Keys : j # k => Release(a, k).allocated[j] = a.allocated[j]
<1>1. a.allocated \in Table
  BY DEF Sound, Allocator
<1>2. Release(a, k).prefix = a.prefix /\ Release(a, k).allocated = [a.allocated EXCEPT ![k] = NoIP]
  BY ReleaseEffect
<1>. QED
  BY <1>1, <1>2 DEF Table

(* Reconcile leaves exactly the listed clients, at their addresses.        *)
LEMMA ReconciledEffect ==
    ASSUME NEW list \in ACL, NEW p \in AnyPush, NEW a, a \in Allocator,
           \A k \in Listed(p) : a.allocated[k] # NoIP
    PROVE  /\ Reconciled(list, p, a) \in ACL
           /\ Reconciled(list, p, a).status = p.status
           /\ Reconciled(list, p, a).gen = list.gen
           /\ \A c \in Reconciled(list, p, a).clients :
                 /\ c.key \in Listed(p) /\ c.member \in p.owners[c.key]
                 /\ c.ip = a.allocated[c.key]
           /\ ClientKeys(Reconciled(list, p, a)) = Listed(p)
<1>. DEFINE listing == {f \in Members \X RealKeys : f[1] \in p.owners[f[2]]}
            result == {[member |-> e[1], key |-> e[2], ip |-> a.allocated[e[2]]] : e \in listing}
<1>0. p.owners \in [RealKeys -> SUBSET Members]
  BY DEF AnyPush
<1>1. ASSUME NEW c \in result
      PROVE  c \in Client /\ c.key \in Listed(p) /\ c.member \in p.owners[c.key] /\ c.ip = a.allocated[c.key]
  <2>1. PICK e \in listing : c = [member |-> e[1], key |-> e[2], ip |-> a.allocated[e[2]]]
    OBVIOUS
  <2>2. e[1] \in Members /\ e[2] \in RealKeys /\ e[1] \in p.owners[e[2]] /\ e[2] \in Listed(p)
    BY DEF Listed
  <2>3. a.allocated[e[2]] \in Address
    BY <2>2 DEF Allocator, Table, RealKeys
  <2>. QED
    BY <2>1, <2>2, <2>3 DEF Client
<1>2. p.status \in [Members -> {"absent", "active", "suspended"}] /\ p.ports \in SUBSET Members
  BY MemberAssumption DEF AnyPush
<1>3. ASSUME NEW k \in Listed(p) PROVE \E c \in result : c.key = k
  <2>1. PICK m \in Members : m \in p.owners[k]
    BY <1>0 DEF Listed
  <2>2. <<m, k>> \in listing
    BY <2>1 DEF Listed
  <2>. DEFINE e == <<m, k>>
              c == [member |-> e[1], key |-> e[2], ip |-> a.allocated[e[2]]]
  <2>3. c \in result
    BY <2>2
  <2>4. c.key = k
    OBVIOUS
  <2>. QED
    BY <2>3, <2>4
<1>4. Reconciled(list, p, a) = [list EXCEPT !.status = p.status, !.ports = p.ports, !.clients = result]
  BY DEF Reconciled
<1>. HIDE DEF result
<1>5. Reconciled(list, p, a) \in ACL
  BY <1>1, <1>2, <1>4, Zenon DEF ACL
<1>6. /\ Reconciled(list, p, a).status = p.status
      /\ Reconciled(list, p, a).gen = list.gen
      /\ Reconciled(list, p, a).clients = result
  BY <1>4 DEF ACL
<1>7. {c.key : c \in result} = Listed(p)
  BY <1>1, <1>3
<1>. QED
  BY <1>1, <1>5, <1>6, <1>7 DEF ClientKeys

LEMMA EmptyLists ==
    /\ EmptyACL \in ACL /\ EmptyACL.clients = {} /\ EmptyACL.gen = 0
    /\ NoAddresses \in Table /\ Exclusive(NoAddresses)
BY GenAssumption DEF EmptyACL, ACL, NoAddresses, Table, Exclusive

LEMMA PortGrantsAreAddresses ==
    ASSUME NEW list \in ACL
    PROVE  PortGrants(list) \subseteq Address
BY DEF PortGrants, ACL, Client

(* A push that may be received is well-formed.                             *)
LEMMA PushIsAnyPush ==
    ASSUME NEW s \in Setups, NEW p \in Push[s]
    PROVE  p \in AnyPush
BY DEF Push

LEMMA ClientFields ==
    ASSUME NEW list \in ACL, NEW c \in list.clients
    PROVE  c.member \in Members /\ c.key \in RealKeys /\ c.ip \in Address
           /\ c = [member |-> c.member, key |-> c.key, ip |-> c.ip]
BY DEF ACL, Client

(* Whatever `wg set` does, the peers keep their type.                      *)
LEMMA PeersTyped ==
    ASSUME peers \in Table, forgotten \subseteq RealKeys, NEW k \in RealKeys, NEW ip,
           (ip \in Address /\ AddPeer(k, ip)) \/ AddPeerFails \/ RemovePeer(k)
    PROVE  peers' \in Table /\ forgotten' \subseteq RealKeys
BY DEF Table, RealKeys, AddPeer, AddPeerFails, RemovePeer
-------------------------------------------------------------------------------
LEMMA TypesInductive ==
    ASSUME Types, [Next]_vars
    PROVE  Types'
<1>. USE DEF Types, Working
<1>1. alloc \in Allocator /\ RealKeys \subseteq Keys /\ GoneKey \notin RealKeys /\ EmptyKey \notin RealKeys
  BY DEF Sound, RealKeys
<1>2. CASE UNCHANGED vars
  BY <1>2 DEF vars
<1>3. ASSUME NEW p \in Push[setup], Receive(p), UNCHANGED setup PROVE Types'
  BY <1>3, PushIsAnyPush DEF Receive, Listed, Push
<1>4. ASSUME NEW k \in todo, NEW ip \in LeaseChoices, AllocateClient(k, ip), UNCHANGED setup PROVE Types'
  <2>0. k \in RealKeys /\ k \in Keys
    BY <1>1, <1>4 DEF AllocateClient
  <2>1. Sound(alloc') /\ \A j \in RealKeys : j = k \/ alloc.allocated[j] # NoIP => alloc'.allocated[j] # NoIP
    <3>1. CASE alloc.allocated[k] # NoIP /\ UNCHANGED alloc
      BY <3>1
    <3>2. CASE alloc.allocated[k] = NoIP /\ CanAdopt(alloc, k, ip) /\ alloc' = Adopt(alloc, k, ip)
      <4>1. ip \in Address
        BY <3>2 DEF CanAdopt, InSubnet
      <4>2. Sound(alloc')
        BY <1>1, <2>0, <3>2, AdoptSound
      <4>3. alloc'.allocated = [alloc.allocated EXCEPT ![k] = ip]
        BY <1>1, <2>0, <3>2, <4>1, TakeEffect DEF Adopt
      <4>. QED
        BY <1>1, <2>0, <4>1, <4>2, <4>3, NoIPAssumption DEF Allocator, Table
    <3>3. CASE CanAllocate(alloc, k) /\ alloc' = Allocate(alloc, k)
      BY <1>1, <2>0, <3>3, AllocateSound, AllocateEffect, NoIPAssumption
    <3>. QED
      BY <1>4, <3>1, <3>2, <3>3 DEF AllocateClient
  <2>2. \A j \in Listed(push)' : j \in todo' \/ alloc'.allocated[j] # NoIP
    BY <1>4, <2>1 DEF AllocateClient, Listed
  <2>. QED
    BY <1>4, <2>1, <2>2 DEF AllocateClient
<1>5. ASSUME NEW k \in todo, NEW ip \in LeaseChoices, RejectFull(k, ip), UNCHANGED setup PROVE Types'
  BY <1>5 DEF RejectFull, EndPush
<1>6. CASE RejectPin /\ UNCHANGED setup
  BY <1>6 DEF RejectPin, EndPush
<1>7. CASE Reconcile /\ UNCHANGED setup
  <2>1. acl' \in ACL /\ ClientKeys(acl') = Listed(push)
    BY <1>1, <1>7, ReconciledEffect DEF Reconcile
  <2>2. todo' \subseteq RealKeys /\ todo' \cap Listed(push) = {}
    BY <1>7, ClientFields DEF Reconcile, ClientKeys
  <2>. QED
    BY <1>7, <2>1, <2>2 DEF Reconcile, ClientKeys, Listed
<1>8. ASSUME NEW k \in todo, Prune(k), UNCHANGED setup PROVE Types'
  <2>1. Sound(alloc') /\ peers' \in Table /\ forgotten' \subseteq RealKeys
    BY <1>1, <1>8, ReleaseSound, PeersTyped DEF Prune
  <2>. QED
    BY <1>8, <2>1 DEF Prune, ClientKeys, Listed
<1>9. CASE BeginInstall /\ UNCHANGED setup
  BY <1>9 DEF BeginInstall, ClientKeys, Listed
<1>10. ASSUME NEW c \in todo, Install(c), UNCHANGED setup PROVE Types'
  <2>1. peers' \in Table /\ forgotten' \subseteq RealKeys
    BY <1>1, <1>10, ClientFields, PeersTyped DEF Install
  <2>. QED
    BY <1>10, <2>1 DEF Install, ClientKeys, Listed
<1>11. CASE ReconcileGrants /\ UNCHANGED setup
  BY <1>11, PortGrantsAreAddresses DEF ReconcileGrants, ClientKeys, Listed
<1>12. CASE Persist /\ UNCHANGED setup
  <2>1. acl' \in ACL
    BY <1>12 DEF Persist, ACL, AnyPush
  <2>. QED
    BY <1>12, <2>1 DEF Persist, EndPush, Save
<1>13. ASSUME NEW m \in Members, NEW k \in RealKeys, Provision(m, k), UNCHANGED setup PROVE Types'
  <2>1. Sound(alloc') /\ alloc'.allocated[k] \in Address
    BY <1>1, <1>13, AllocateSound, AllocateEffect DEF Provision
  <2>2. acl' \in ACL /\ peers' \in Table /\ forgotten' \subseteq RealKeys
    BY <1>1, <1>13, <2>1, AddClientEffect, PeersTyped DEF Provision
  <2>. QED
    BY <1>13, <2>1, <2>2 DEF Provision, Save
<1>14. ASSUME NEW m \in Members, NEW k \in RealKeys, ProvisionFails(m, k), UNCHANGED setup PROVE Types'
  <2>1. Sound(Allocate(alloc, k)) /\ Allocate(alloc, k).allocated[k] \in Address
    BY <1>1, <1>14, AllocateSound, AllocateEffect DEF ProvisionFails
  <2>2. Sound(alloc')
    BY <1>1, <1>14, <2>1, ReleaseSound DEF ProvisionFails
  <2>3. acl' \in ACL
    BY <1>14, <2>1, AddClientEffect, RemoveClientEffect DEF ProvisionFails
  <2>. QED
    BY <1>14, <2>2, <2>3 DEF ProvisionFails, AddPeerFails
<1>15. ASSUME NEW m \in Members, ProvisionEmptyKey(m), UNCHANGED setup PROVE Types'
  <2>1. Sound(alloc')
    BY <1>15, AllocateSound, ReleaseSound, EmptyKeyAssumption, Zenon DEF ProvisionEmptyKey
  <2>. QED
    BY <1>15, <2>1 DEF ProvisionEmptyKey
<1>16. CASE Stop /\ UNCHANGED setup
  <2>1. allocFile' \in Table /\ Exclusive(allocFile')
    BY <1>1, <1>16 DEF Stop, Sound, Allocator
  <2>. QED
    BY <1>16, <2>1, EmptyLists, Zenon DEF Stop, ClientKeys, Listed
<1>17. CASE Exit /\ UNCHANGED setup
  <2>1. Sound(alloc')
    BY <1>1, <1>17, EmptyLists, LoadSound DEF Exit, Allocator
  <2>2. acl' \in ACL /\ peers' \in Table /\ forgotten' \subseteq RealKeys
    BY <1>17, EmptyLists DEF Exit
  <2>3. /\ grants' = {} /\ stopping' = FALSE /\ pc' = "down" /\ push' = NoPush /\ todo' = {}
        /\ UNCHANGED <<allocFile, aclFile, setup>>
    BY <1>17 DEF Exit
  <2>. QED
    BY <2>1, <2>2, <2>3, Zenon
<1>18. ASSUME NEW p \in setup.prefixes, Boot(p), UNCHANGED setup PROVE Types'
  <2>1. Sound(alloc')
    BY <1>18, LoadSound, SetupAssumption DEF Boot
  <2>. QED
    BY <1>18, <2>1, ClientFields DEF Boot, ClientKeys
<1>19. ASSUME NEW c \in acl.clients, Mark(c), UNCHANGED setup PROVE Types'
  <2>1. Sound(alloc')
    BY <1>1, <1>19, MarkUsedSound, ClientFields DEF Mark
  <2>. QED
    BY <1>19, <2>1 DEF Mark
<1>20. ASSUME NEW c \in acl.clients, Add(c), UNCHANGED setup PROVE Types'
  <2>1. c.member \in Members /\ c.key \in RealKeys /\ c.ip \in Address
    BY ClientFields
  <2>2. Sound(alloc') /\ acl' \in ACL /\ peers' \in Table /\ forgotten' \subseteq RealKeys
    <3>1. CASE InSubnet(alloc, c.ip)
      <4>1. AddClient(acl, c.member, c.key, c.ip) \in ACL
        BY <1>1, <2>1, AddClientKeeps
      <4>2. /\ alloc' = alloc
            /\ \/ AddPeer(c.key, c.ip) /\ acl' = AddClient(acl, c.member, c.key, c.ip)
               \/ AddPeerFails /\ UNCHANGED acl
        BY <1>20, <3>1 DEF Add
      <4>. QED
        BY <2>1, <4>1, <4>2, PeersTyped
    <3>2. CASE ~InSubnet(alloc, c.ip) /\ CanAllocate(alloc, c.key)
      <4>1. Sound(Allocate(alloc, c.key)) /\ Allocate(alloc, c.key).allocated[c.key] \in Address
        BY <1>1, <2>1, <3>2, AllocateSound, AllocateEffect
      <4>. DEFINE ip == Allocate(alloc, c.key).allocated[c.key]
      <4>2. AddClient(acl, c.member, c.key, ip) \in ACL
        BY <1>1, <2>1, <4>1, AddClientKeeps
      <4>3. /\ alloc' = Allocate(alloc, c.key)
            /\ \/ AddPeer(c.key, ip) /\ acl' = AddClient(acl, c.member, c.key, ip)
               \/ AddPeerFails /\ UNCHANGED acl
        BY <1>20, <3>2 DEF Add
      <4>. QED
        BY <2>1, <4>1, <4>2, <4>3, PeersTyped
    <3>3. CASE ~InSubnet(alloc, c.ip) /\ ~CanAllocate(alloc, c.key)
      BY <1>20, <3>3 DEF Add
    <3>. QED
      BY <3>1, <3>2, <3>3
  <2>. QED
    BY <1>20, <2>2 DEF Add
<1>21. CASE (BeginAdd \/ Booted) /\ UNCHANGED setup
  BY <1>21, ClientFields, PortGrantsAreAddresses DEF BeginAdd, Booted, Save
<1>. HIDE DEF Types, Working
<1>h. CASE HandleState /\ UNCHANGED setup
  BY <1>h, <1>3, <1>4, <1>5, <1>6, <1>7, <1>8, <1>9, <1>10, <1>11, <1>12 DEF HandleState
<1>p. CASE HandleProvision /\ UNCHANGED setup
  BY <1>p, <1>13, <1>14, <1>15 DEF HandleProvision
<1>s. CASE StartUp /\ UNCHANGED setup
  BY <1>s, <1>18, <1>19, <1>20, <1>21 DEF StartUp
<1>. QED
  BY <1>2, <1>16, <1>17, <1>h, <1>p, <1>s DEF Next
-------------------------------------------------------------------------------
(* The list and the allocator.                                             *)

(* A client at a usable address is the one the allocator has there.        *)
Agrees(a, list) == \A c \in list.clients : InSubnet(a, c.ip) => a.allocated[c.key] = c.ip

(* No key but a client's own has the client's address in the table f.      *)
Compatible(f, list) == \A c \in list.clients, k \in Keys : f[k] = c.ip => k = c.key

(* b has the leases of a, and perhaps more.                                *)
Grows(a, b) == b.prefix = a.prefix /\ \A k \in Keys : a.allocated[k] # NoIP => b.allocated[k] = a.allocated[k]

(* While reconcilePeers seeds the allocator, a client's address is in use  *)
(* only by that client, and once visited it is.                            *)
Marking ==
    pc = "mark" => \A c \in acl.clients : InSubnet(alloc, c.ip) =>
        /\ c.ip \in alloc.usedIPs => alloc.allocated[c.key] = c.ip
        /\ c.key \in todo \/ alloc.allocated[c.key] = c.ip

(* Two clients never share a key or an address, because the allocator has  *)
(* them apart: this is inductive given that start-up finds two files that  *)
(* agree (FilesCompatible).                                                *)
Core == ClientsDistinct /\ ListAndAllocatorAgree /\ Marking

FilesCompatible == pc = "down" => Compatible(allocFile, aclFile)

LEMMA GrowsKeepsAgreement ==
    ASSUME NEW a, NEW b, Grows(a, b), NEW list \in ACL, Agrees(a, list)
    PROVE  Agrees(b, list)
<1>. SUFFICES ASSUME NEW c \in list.clients, InSubnet(b, c.ip) PROVE b.allocated[c.key] = c.ip
  BY DEF Agrees
<1>1. c.key \in Keys /\ c.ip # NoIP
  BY ClientFields, NoIPAssumption DEF RealKeys
<1>2. a.allocated[c.key] = c.ip
  BY SubnetOfPrefix DEF Grows, Agrees
<1>. QED
  BY <1>1, <1>2 DEF Grows

LEMMA AgreesCompatible ==
    ASSUME NEW a, Sound(a), NEW list \in ACL, Agrees(a, list)
    PROVE  Compatible(a.allocated, list)
<1>. SUFFICES ASSUME NEW c \in list.clients, NEW k \in Keys, a.allocated[k] = c.ip PROVE k = c.key
  BY DEF Compatible
<1>1. c.key \in Keys /\ c.ip # NoIP
  BY ClientFields, NoIPAssumption DEF RealKeys
<1>2. a.allocated[c.key] = c.ip
  BY <1>1 DEF Sound, Backed, Agrees
<1>. QED
  BY <1>1, <1>2 DEF Sound, Exclusive

LEMMA AllocateGrows ==
    ASSUME NEW a, Sound(a), NEW k \in Keys, CanAllocate(a, k)
    PROVE  Grows(a, Allocate(a, k))
BY AllocateEffect DEF Grows

LEMMA AllocatedSound ==
    ASSUME NEW a, Sound(a), NEW k \in Keys, CanAllocate(a, k)
    PROVE  /\ Sound(Allocate(a, k)) /\ Grows(a, Allocate(a, k))
           /\ Allocate(a, k).allocated[k] \in Address
BY AllocateSound, AllocateGrows, AllocatedAddress

(* The address the allocator has for a key is no other client's.           *)
LEMMA NobodyElseHas ==
    ASSUME NEW a, Sound(a), NEW list \in ACL, Agrees(a, list), NEW k \in RealKeys, a.allocated[k] \in Address
    PROVE  \A c \in list.clients : c.key # k => c.ip # a.allocated[k]
<1>. SUFFICES ASSUME NEW c \in list.clients, c.key # k, c.ip = a.allocated[k] PROVE FALSE
  OBVIOUS
<1>1. k \in Keys /\ c.key \in Keys /\ a.allocated[k] # NoIP
  BY ClientFields, NoIPAssumption DEF RealKeys
<1>2. a.allocated[c.key] = a.allocated[k]
  BY <1>1 DEF Sound, Backed, Agrees
<1>. QED
  BY <1>1, <1>2 DEF Sound, Exclusive

(* Adding a client at the address the allocator has for its key keeps the  *)
(* clients apart and takes the address from nobody else.                   *)
LEMMA AddClientKeepsApart ==
    ASSUME NEW a, Sound(a), NEW list \in ACL, DistinctClients(list, setup.events),
           NEW m \in Members, NEW k \in RealKeys, a.allocated[k] \in Address,
           \A c \in list.clients : c.key # k /\ InSubnet(a, c.ip) => a.allocated[c.key] = c.ip
    PROVE  /\ DistinctClients(AddClient(list, m, k, a.allocated[k]), setup.events)
           /\ Agrees(a, AddClient(list, m, k, a.allocated[k]))
           /\ \A c \in list.clients : c.key # k => c.ip # a.allocated[k]
<1>. DEFINE ip == a.allocated[k]
            result == AddClient(list, m, k, ip)
<1>0. k \in Keys /\ ip # NoIP
  BY NoIPAssumption DEF RealKeys
<1>1. InSubnet(a, ip)
  BY <1>0 DEF Sound, Backed
<1>2. ASSUME NEW c \in list.clients, c.key # k PROVE c.ip # ip
  <2>. SUFFICES ASSUME c.ip = ip PROVE FALSE
    OBVIOUS
  <2>1. c.key \in Keys
    BY ClientFields DEF RealKeys
  <2>2. a.allocated[c.key] = ip
    BY <1>1, <1>2
  <2>. QED
    BY <1>0, <1>2, <2>1, <2>2 DEF Sound, Exclusive
<1>3. \A c \in result.clients : (c.key = k /\ c.member = m /\ c.ip = ip) \/ (c.key # k /\ c \in list.clients)
  BY AddClientMembers
<1>4. ASSUME NEW c \in result.clients, NEW d \in result.clients, c.key = k, d.key = k PROVE c = d
  <2>1. result \in ACL
    BY AddClientKeeps
  <2>. HIDE DEF ip, result
  <2>2. c = [member |-> m, key |-> k, ip |-> ip] /\ d = [member |-> m, key |-> k, ip |-> ip]
    BY <1>3, <1>4, <2>1, ClientFields
  <2>. QED
    BY <2>2
<1>. HIDE DEF ip, result
<1>5. DistinctClients(result, setup.events)
  BY <1>2, <1>3, <1>4 DEF DistinctClients
<1>6. Agrees(a, result)
  BY <1>3, Zenon DEF Agrees, ip
<1>. QED
  BY <1>2, <1>5, <1>6 DEF ip, result

LEMMA AddClientAgrees ==
    ASSUME NEW a, Sound(a), NEW list \in ACL, DistinctClients(list, setup.events), Agrees(a, list),
           NEW m \in Members, NEW k \in RealKeys, a.allocated[k] \in Address
    PROVE  /\ AddClient(list, m, k, a.allocated[k]) \in ACL
           /\ DistinctClients(AddClient(list, m, k, a.allocated[k]), setup.events)
           /\ Agrees(a, AddClient(list, m, k, a.allocated[k]))
<1>1. \A c \in list.clients : c.key # k /\ InSubnet(a, c.ip) => a.allocated[c.key] = c.ip
  BY DEF Agrees
<1>. QED
  BY <1>1, AddClientKeepsApart, AddClientKeeps

LEMMA ReconciledApart ==
    ASSUME NEW list \in ACL, NEW p \in AnyPush, NEW a, Sound(a),
           \A k \in Listed(p) : a.allocated[k] # NoIP,
           "shared" \in setup.events \/ OneOwner(p)
    PROVE  DistinctClients(Reconciled(list, p, a), setup.events) /\ Agrees(a, Reconciled(list, p, a))
<1>. DEFINE result == Reconciled(list, p, a)
<1>1. a \in Allocator /\ Listed(p) \subseteq Keys
  BY Zenon DEF Sound, Listed, RealKeys
<1>2. result \in ACL /\ \A c \in result.clients :
         /\ c.key \in Listed(p) /\ c.member \in p.owners[c.key]
         /\ c.ip = a.allocated[c.key]
  BY <1>1, ReconciledEffect
<1>3. \A j, k \in Listed(p) : j # k => a.allocated[j] # a.allocated[k]
  BY <1>1 DEF Sound, Exclusive
<1>. HIDE DEF result
<1>4. ASSUME NEW c \in result.clients, NEW d \in result.clients, c # d
      PROVE  (c.key = d.key <=> c.ip = d.ip) /\ (c.key = d.key => "shared" \in setup.events)
  <2>1. c.key = d.key <=> c.ip = d.ip
    BY <1>2, <1>3
  <2>2. ASSUME c.key = d.key PROVE c.member # d.member
    <3>1. /\ c = [member |-> c.member, key |-> c.key, ip |-> c.ip]
          /\ d = [member |-> d.member, key |-> d.key, ip |-> d.ip]
      BY <1>2, ClientFields
    <3>. QED
      BY <1>4, <2>1, <2>2, <3>1
  <2>3. ASSUME c.key = d.key PROVE ~OneOwner(p)
    BY <1>2, <2>2, <2>3 DEF OneOwner, Listed
  <2>. QED
    BY <2>1, <2>3
<1>5. DistinctClients(result, setup.events)
  BY <1>4, Zenon DEF DistinctClients
<1>6. Agrees(a, result)
  BY <1>2 DEF Agrees
<1>. QED
  BY <1>5, <1>6 DEF result

(* One client's turn in HandleDeviceState only adds leases.                *)
LEMMA AllocateClientGrows ==
    ASSUME Types, NEW k \in todo, NEW ip, AllocateClient(k, ip)
    PROVE  Grows(alloc, alloc')
<1>0. k \in Keys /\ alloc \in Allocator
  BY DEF Types, RealKeys, Sound, AllocateClient
<1>1. CASE UNCHANGED alloc
  BY <1>1 DEF Grows
<1>2. CASE alloc.allocated[k] = NoIP /\ CanAdopt(alloc, k, ip) /\ alloc' = Adopt(alloc, k, ip)
  <2>1. alloc'.prefix = alloc.prefix /\ alloc'.allocated = [alloc.allocated EXCEPT ![k] = ip]
    BY <1>0, <1>2, TakeEffect DEF Types, Adopt, CanAdopt, InSubnet
  <2>. QED
    BY <1>0, <1>2, <2>1, Zenon DEF Grows, Allocator, Table
<1>3. CASE CanAllocate(alloc, k) /\ alloc' = Allocate(alloc, k)
  BY <1>0, <1>3, AllocateGrows DEF Types
<1>. QED
  BY <1>1, <1>2, <1>3 DEF AllocateClient

(* Agreement does not depend on keys that no client of the list has.       *)
LEMMA AgreesElsewhere ==
    ASSUME NEW a, NEW b, b.prefix = a.prefix, NEW list, Agrees(a, list),
           \A c \in list.clients : b.allocated[c.key] = a.allocated[c.key]
    PROVE  Agrees(b, list)
BY SubnetOfPrefix DEF Agrees

LEMMA CoreInductive ==
    ASSUME Types, Core, FilesCompatible, [Next]_vars
    PROVE  Core'
<1>. USE DEF Core, ClientsDistinct, ListAndAllocatorAgree
<1>1. /\ Sound(alloc) /\ alloc \in Allocator /\ acl \in ACL /\ aclFile \in ACL
      /\ pc # "install" => todo \subseteq RealKeys
      /\ RealKeys \subseteq Keys /\ EmptyKey \notin RealKeys
  BY DEF Types, Sound, RealKeys
<1>2. pc \notin {"down", "mark"} => Agrees(alloc, acl)
  BY DEF Agrees
<1>a. Sound(alloc) /\ RealKeys \subseteq Keys
  BY <1>1
<1>b. /\ acl \in ACL /\ DistinctClients(acl, setup.events) /\ DistinctClients(aclFile, setup.events)
      /\ setup' = setup
  BY <1>1 DEF Next, vars
<1>c. ASSUME DistinctClients(acl', setup'.events), DistinctClients(aclFile', setup'.events), Agrees(alloc', acl'), pc' # "mark" PROVE Core'
  BY <1>c DEF Agrees, Marking
<1>3. CASE UNCHANGED vars
  BY <1>3 DEF vars, Marking
<1>4. ASSUME NEW p \in Push[setup], Receive(p), UNCHANGED setup PROVE Core'
  BY <1>4 DEF Receive, Marking
<1>5. ASSUME NEW k \in todo, NEW ip \in LeaseChoices, AllocateClient(k, ip), UNCHANGED setup PROVE Core'
  <2>. HIDE DEF Core, ClientsDistinct, ListAndAllocatorAgree
  <2>1. pc = "alloc" /\ pc' = "alloc" /\ UNCHANGED <<acl, aclFile>>
    BY <1>5 DEF AllocateClient
  <2>2. Agrees(alloc', acl)
    BY <1>b, <1>2, <1>5, <2>1, AllocateClientGrows, GrowsKeepsAgreement
  <2>. QED
    BY <1>b, <1>c, <2>1, <2>2
<1>6. CASE (RejectPin \/ \E k \in todo, ip \in LeaseChoices : RejectFull(k, ip)) /\ UNCHANGED setup
  BY <1>6 DEF RejectPin, RejectFull, EndPush, Marking
<1>7. CASE Reconcile /\ UNCHANGED setup
  <2>. HIDE DEF Core, ClientsDistinct, ListAndAllocatorAgree
  <2>1. /\ push \in AnyPush /\ \A k \in Listed(push) : alloc.allocated[k] # NoIP
        /\ "shared" \in setup.events \/ OneOwner(push)
    BY <1>7 DEF Types, Working, Reconcile
  <2>2. DistinctClients(acl', setup'.events) /\ Agrees(alloc, acl')
    BY <1>a, <1>b, <1>7, <2>1, ReconciledApart DEF Reconcile
  <2>3. alloc' = alloc /\ aclFile' = aclFile /\ pc' # "mark"
    BY <1>7 DEF Reconcile
  <2>. QED
    BY <1>b, <1>c, <2>2, <2>3
<1>8. ASSUME NEW k \in todo, Prune(k), UNCHANGED setup PROVE Core'
  <2>. HIDE DEF Core, ClientsDistinct, ListAndAllocatorAgree
  <2>1. pc = "prune" /\ pc' = "prune" /\ alloc' = Release(alloc, k) /\ UNCHANGED <<acl, aclFile>> /\ k \in Keys
    BY <1>1, <1>8 DEF Prune
  <2>2. alloc'.prefix = alloc.prefix /\ \A j \in Keys : j # k => alloc'.allocated[j] = alloc.allocated[j]
    BY <1>a, <2>1, ReleaseKeepsPrefix
  <2>3. \A c \in acl.clients : c.key # k
    BY <1>8, <2>1 DEF Types, Working, ClientKeys
  <2>4. \A c \in acl.clients : alloc'.allocated[c.key] = alloc.allocated[c.key]
    BY <1>a, <1>b, <2>2, <2>3, ClientFields
  <2>5. Agrees(alloc, acl)
    BY <1>2, <2>1
  <2>6. Agrees(alloc', acl)
    BY <2>2, <2>4, <2>5, AgreesElsewhere
  <2>. QED
    BY <1>b, <1>c, <2>1, <2>6
<1>9. CASE BeginInstall /\ UNCHANGED setup
  BY <1>9 DEF BeginInstall, Marking
<1>10. ASSUME NEW c \in todo, Install(c), UNCHANGED setup PROVE Core'
  BY <1>10, Zenon DEF Install, Marking
<1>11. CASE ReconcileGrants /\ UNCHANGED setup
  BY <1>11 DEF ReconcileGrants, Marking
<1>12. CASE Persist /\ UNCHANGED setup
  <2>1. acl'.clients = acl.clients
    BY <1>1, <1>12 DEF Persist, ACL
  <2>2. pc = "persist" /\ pc' = "idle" /\ alloc' = alloc /\ aclFile' \in {acl', aclFile}
    BY <1>12 DEF Persist, EndPush, Save
  <2>. QED
    BY <1>b, <2>1, <2>2 DEF DistinctClients, Marking
<1>13. ASSUME NEW m \in Members, NEW k \in RealKeys, Provision(m, k), UNCHANGED setup PROVE Core'
  <2>. HIDE DEF Core, ClientsDistinct, ListAndAllocatorAgree
  <2>1. /\ CanAllocate(alloc, k) /\ alloc' = Allocate(alloc, k) /\ pc = "idle" /\ pc' = "idle"
        /\ acl' = AddClient(acl, m, k, alloc'.allocated[k]) /\ aclFile' \in {acl', aclFile}
    BY <1>13 DEF Provision, Save
  <2>2. Sound(alloc') /\ alloc'.allocated[k] \in Address /\ Grows(alloc, alloc')
    BY <1>a, <2>1, AllocatedSound
  <2>3. Agrees(alloc', acl)
    BY <1>b, <1>2, <2>1, <2>2, GrowsKeepsAgreement
  <2>4. DistinctClients(acl', setup'.events) /\ Agrees(alloc', acl')
    BY <1>b, <2>1, <2>2, <2>3, AddClientAgrees
  <2>. QED
    BY <1>b, <1>c, <2>1, <2>4
<1>14. ASSUME NEW m \in Members, NEW k \in RealKeys, ProvisionFails(m, k), UNCHANGED setup PROVE Core'
  <2>. HIDE DEF Core, ClientsDistinct, ListAndAllocatorAgree
  <2>. DEFINE a == Allocate(alloc, k)
              added == AddClient(acl, m, k, a.allocated[k])
  <2>1. /\ CanAllocate(alloc, k) /\ alloc' = Release(a, k) /\ pc = "idle" /\ pc' = "idle"
        /\ acl' = RemoveClient(added, m, k) /\ aclFile' = aclFile
    BY <1>14 DEF ProvisionFails
  <2>2. Sound(a) /\ a.allocated[k] \in Address /\ Grows(alloc, a)
    BY <1>a, <2>1, AllocatedSound
  <2>3. Agrees(a, acl)
    BY <1>b, <1>2, <2>1, <2>2, GrowsKeepsAgreement
  <2>. HIDE DEF a
  <2>4. added \in ACL /\ DistinctClients(added, setup.events) /\ Agrees(a, added)
    BY <1>b, <2>2, <2>3, AddClientAgrees, Zenon
  <2>5. \A c \in added.clients : c.key = k => c.member = m
    BY <1>b, <2>2, AddClientMembers
  <2>. HIDE DEF added
  <2>6. \A c \in acl'.clients : c \in added.clients /\ c.key # k
    BY <2>1, <2>4, <2>5, RemoveClientMembers
  <2>7. DistinctClients(acl', setup'.events) /\ Agrees(a, acl')
    BY <1>b, <2>4, <2>6, Zenon DEF DistinctClients, Agrees
  <2>8. alloc'.prefix = a.prefix /\ \A j \in Keys : j # k => alloc'.allocated[j] = a.allocated[j]
    BY <1>a, <2>1, <2>2, ReleaseKeepsPrefix
  <2>9. \A c \in acl'.clients : alloc'.allocated[c.key] = a.allocated[c.key]
    BY <1>a, <2>4, <2>6, <2>8, ClientFields
  <2>10. Agrees(alloc', acl')
    BY <2>7, <2>8, <2>9, AgreesElsewhere
  <2>. QED
    BY <1>b, <1>c, <2>1, <2>7, <2>10, Zenon
<1>15. ASSUME NEW m \in Members, ProvisionEmptyKey(m), UNCHANGED setup PROVE Core'
  <2>. HIDE DEF Core, ClientsDistinct, ListAndAllocatorAgree
  <2>. DEFINE a == Allocate(alloc, EmptyKey)
  <2>1. CanAllocate(alloc, EmptyKey) /\ alloc' = Release(a, EmptyKey) /\ pc = "idle" /\ UNCHANGED <<pc, acl, aclFile>>
    BY <1>15 DEF ProvisionEmptyKey
  <2>2. Sound(a) /\ Grows(alloc, a)
    BY <1>a, <2>1, AllocatedSound, EmptyKeyAssumption
  <2>3. Agrees(a, acl)
    BY <1>b, <1>2, <2>1, <2>2, GrowsKeepsAgreement
  <2>. HIDE DEF a
  <2>4. alloc'.prefix = a.prefix /\ \A j \in Keys : j # EmptyKey => alloc'.allocated[j] = a.allocated[j]
    BY <2>1, <2>2, ReleaseKeepsPrefix, EmptyKeyAssumption
  <2>5. \A c \in acl.clients : alloc'.allocated[c.key] = a.allocated[c.key]
    BY <1>b, <2>4, ClientFields DEF RealKeys
  <2>6. Agrees(alloc', acl)
    BY <2>3, <2>4, <2>5, AgreesElsewhere
  <2>. QED
    BY <1>b, <1>c, <2>1, <2>6
<1>16. CASE Stop /\ UNCHANGED setup
  BY <1>16, Zenon DEF Stop, Marking
<1>17. CASE Exit /\ UNCHANGED setup
  BY <1>17, EmptyLists, Zenon DEF Exit, DistinctClients, Marking
<1>18. ASSUME NEW p \in setup.prefixes, Boot(p), UNCHANGED setup PROVE Core'
  <2>1. p \in Prefixes /\ allocFile \in Table /\ Exclusive(allocFile) /\ Compatible(allocFile, aclFile)
    BY <1>18, SetupAssumption DEF Types, FilesCompatible, Boot
  <2>2. alloc' = Load(p, allocFile) /\ acl' = aclFile /\ aclFile' = aclFile /\ todo' = ClientKeys(aclFile) /\ pc' = "mark"
    BY <1>18, Zenon DEF Boot
  <2>3. ASSUME NEW c \in aclFile.clients, InSubnet(alloc', c.ip), c.ip \in alloc'.usedIPs
        PROVE  alloc'.allocated[c.key] = c.ip
    <3>1. PICK k \in Keys : allocFile[k] = c.ip
      BY <2>1, <2>2, <2>3, LoadEffect
    <3>2. k = c.key
      BY <2>1, <3>1 DEF Compatible
    <3>. QED
      BY <2>1, <2>2, <2>3, <3>1, <3>2, LoadEffect
  <2>4. \A c \in aclFile.clients : c.key \in todo'
    BY <2>2 DEF ClientKeys
  <2>. QED
    BY <1>b, <2>2, <2>3, <2>4, Zenon DEF Marking
<1>19. ASSUME NEW c \in acl.clients, Mark(c), UNCHANGED setup PROVE Core'
  <2>. HIDE DEF Core, ClientsDistinct, ListAndAllocatorAgree
  <2>1. alloc' = MarkUsed(alloc, c.key, c.ip) /\ pc = "mark" /\ pc' = "mark" /\ UNCHANGED <<acl, aclFile>> /\ todo' = todo \ {c.key}
    BY <1>19 DEF Mark
  <2>2. c.key \in Keys /\ c.key # EmptyKey /\ Sound(alloc)
    BY <1>1, ClientFields
  <2>0. Marking
    BY DEF Core
  <2>3. alloc'.prefix = alloc.prefix
    BY <2>1, <2>2, MarkUsedOrSame, Zenon
  <2>4. ASSUME NEW d \in acl.clients, InSubnet(alloc', d.ip)
        PROVE  /\ d.ip \in alloc'.usedIPs => alloc'.allocated[d.key] = d.ip
               /\ d.key \in todo' \/ alloc'.allocated[d.key] = d.ip
    <3>1. InSubnet(alloc, d.ip) /\ d.key \in Keys
      BY <1>1, <2>3, <2>4, SubnetOfPrefix, ClientFields
    <3>2. /\ d.ip \in alloc.usedIPs => alloc.allocated[d.key] = d.ip
          /\ d.key \in todo \/ alloc.allocated[d.key] = d.ip
      BY <2>0, <2>1, <3>1 DEF Marking
    <3>3. CASE ~InSubnet(alloc, c.ip) \/ c.ip \in alloc.usedIPs
      <4>1. alloc' = alloc
        BY <2>1, <2>2, <3>3, MarkUsedOrSame
      <4>2. d.key = c.key => d.ip = c.ip
        BY <1>b, Zenon DEF DistinctClients
      <4>. QED
        BY <2>1, <3>1, <3>2, <3>3, <4>1, <4>2
    <3>4. CASE InSubnet(alloc, c.ip) /\ c.ip \notin alloc.usedIPs
      <4>1. /\ alloc'.allocated = [alloc.allocated EXCEPT ![c.key] = c.ip]
            /\ alloc'.usedIPs = alloc.usedIPs \cup {c.ip}
        BY <2>1, <2>2, <3>4, MarkUsedEffect
      <4>2. CASE d.key = c.key
        <5>1. d.ip = c.ip
          BY <1>b, <4>2, Zenon DEF DistinctClients
        <5>. QED
          BY <1>1, <2>2, <4>1, <4>2, <5>1, Zenon DEF Allocator, Table
      <4>3. CASE d.key # c.key
        <5>1. d.ip # c.ip
          BY <1>b, <4>3, Zenon DEF DistinctClients
        <5>. QED
          BY <1>1, <2>1, <3>1, <3>2, <4>1, <4>3, <5>1 DEF Allocator, Table
      <4>. QED
        BY <4>2, <4>3, Zenon
    <3>. QED
      BY <3>3, <3>4
  <2>5. Marking'
    BY <2>1, <2>4, Zenon DEF Marking
  <2>. QED
    BY <1>b, <2>1, <2>5 DEF Core, ClientsDistinct, ListAndAllocatorAgree
<1>20. CASE BeginAdd /\ UNCHANGED setup
  BY <1>20, Zenon DEF BeginAdd, Marking
<1>21. ASSUME NEW c \in acl.clients, Add(c), UNCHANGED setup PROVE Core'
  <2>. HIDE DEF Core, ClientsDistinct, ListAndAllocatorAgree
  <2>1. c.member \in Members /\ c.key \in RealKeys /\ c.key \in Keys /\ c.ip \in Address
    BY <1>1, ClientFields, Zenon
  <2>2. pc = "add" /\ pc' = "add" /\ aclFile' = aclFile
    BY <1>21, Zenon DEF Add
  <2>3. ASSUME NEW a, Sound(a), Grows(alloc, a), a.allocated[c.key] \in Address, alloc' = a,
               acl' = acl \/ acl' = AddClient(acl, c.member, c.key, a.allocated[c.key])
        PROVE  Core'
    <3>1. Agrees(a, acl)
      BY <1>b, <1>2, <2>2, <2>3, GrowsKeepsAgreement, Zenon
    <3>2. DistinctClients(acl', setup'.events) /\ Agrees(a, acl')
      BY <1>b, <2>1, <2>3, <3>1, AddClientAgrees, Zenon
    <3>. QED
      BY <1>b, <1>c, <2>2, <2>3, <3>2
  <2>4. CASE InSubnet(alloc, c.ip)
    <3>1. alloc.allocated[c.key] = c.ip /\ Grows(alloc, alloc)
      BY <1>2, <2>2, <2>4, Zenon DEF Agrees, Grows
    <3>2. alloc' = alloc /\ (acl' = acl \/ acl' = AddClient(acl, c.member, c.key, c.ip))
      BY <1>21, <2>4, Zenon DEF Add
    <3>. QED
      BY <1>1, <2>1, <2>3, <3>1, <3>2
  <2>5. CASE ~InSubnet(alloc, c.ip) /\ CanAllocate(alloc, c.key)
    <3>1. /\ alloc' = Allocate(alloc, c.key)
          /\ acl' = acl \/ acl' = AddClient(acl, c.member, c.key, Allocate(alloc, c.key).allocated[c.key])
      BY <1>21, <2>5, Zenon DEF Add
    <3>2. Sound(alloc') /\ Grows(alloc, alloc') /\ alloc'.allocated[c.key] \in Address
      BY <1>a, <2>1, <2>5, <3>1, AllocatedSound
    <3>. QED
      BY <2>3, <3>1, <3>2, Zenon
  <2>6. CASE ~InSubnet(alloc, c.ip) /\ ~CanAllocate(alloc, c.key)
    <3>1. alloc' = alloc /\ acl' = acl
      BY <1>21, <2>6 DEF Add
    <3>. QED
      BY <1>b, <1>c, <1>2, <2>2, <3>1, Zenon
  <2>. QED
    BY <2>4, <2>5, <2>6
<1>22. CASE Booted /\ UNCHANGED setup
  BY <1>22, Zenon DEF Booted, Save, Marking
<1>. HIDE DEF Core, ClientsDistinct, ListAndAllocatorAgree
<1>h. CASE HandleState /\ UNCHANGED setup
  BY <1>h, <1>4, <1>5, <1>6, <1>7, <1>8, <1>9, <1>10, <1>11, <1>12 DEF HandleState
<1>p. CASE HandleProvision /\ UNCHANGED setup
  BY <1>p, <1>13, <1>14, <1>15, Zenon DEF HandleProvision
<1>s. CASE StartUp /\ UNCHANGED setup
  BY <1>s, <1>18, <1>19, <1>20, <1>21, <1>22 DEF StartUp
<1>. QED
  BY <1>3, <1>16, <1>17, <1>h, <1>p, <1>s, Zenon DEF Next
===============================================================================
