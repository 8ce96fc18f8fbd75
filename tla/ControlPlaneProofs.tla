-------------------------- MODULE ControlPlaneProofs --------------------------
(***************************************************************************)
(* Proofs about ControlPlane: the two files through both kinds of end, the *)
(* invariance that follows, and the generation.                            *)
(***************************************************************************)
EXTENDS ControlPlaneCoreProofs

(* The two files.                                                          *)

(* Where every write succeeds and no provision is rolled back, the list on *)
(* disk is the one in memory, except while a push or start-up changes it.  *)
ListSaved ==
    {"save", "wgset"} \cap setup.events = {} /\ pc \in {"idle", "alloc", "mark"} =>
        acl.clients = aclFile.clients

LEMMA ListSavedInductive ==
    ASSUME Types, ListSaved, [Next]_vars
    PROVE  ListSaved'
<1>. USE DEF ListSaved
<1>1. CASE UNCHANGED vars
  BY <1>1 DEF vars
<1>2. CASE (\E p \in Push[setup] : Receive(p)) /\ UNCHANGED setup
  BY <1>2 DEF Receive
<1>3. CASE (\E k \in todo, ip \in LeaseChoices : AllocateClient(k, ip) \/ RejectFull(k, ip)) /\ UNCHANGED setup
  BY <1>3 DEF AllocateClient, RejectFull, EndPush
<1>4. CASE (RejectPin \/ Reconcile) /\ UNCHANGED setup
  BY <1>4 DEF RejectPin, Reconcile, EndPush
<1>5. CASE (BeginInstall \/ ReconcileGrants \/ (\E k \in todo : Prune(k)) \/ (\E c \in todo : Install(c))) /\ UNCHANGED setup
  BY <1>5 DEF BeginInstall, ReconcileGrants, Prune, Install
<1>6. CASE (Persist \/ Booted \/ \E m \in Members, k \in RealKeys : Provision(m, k)) /\ UNCHANGED setup
  BY <1>6 DEF Persist, Booted, Provision, Save
<1>7. CASE (\E m \in Members : ProvisionEmptyKey(m) \/ \E k \in RealKeys : ProvisionFails(m, k)) /\ UNCHANGED setup
  BY <1>7 DEF ProvisionEmptyKey, ProvisionFails, AddPeerFails, ListSaved
<1>8. CASE (Stop \/ Exit \/ BeginAdd \/ \E p \in setup.prefixes : Boot(p)) /\ UNCHANGED setup
  BY <1>8 DEF Stop, Exit, BeginAdd, Boot
<1>9. CASE (\E c \in acl.clients : Mark(c) \/ Add(c)) /\ UNCHANGED setup
  BY <1>9 DEF Mark, Add
<1>. HIDE DEF ListSaved
<1>h. CASE HandleState /\ UNCHANGED setup
  BY <1>h, <1>2, <1>3, <1>4, <1>5, <1>6 DEF HandleState
<1>p. CASE HandleProvision /\ UNCHANGED setup
  BY <1>p, <1>6, <1>7 DEF HandleProvision
<1>s. CASE StartUp /\ UNCHANGED setup
  BY <1>s, <1>6, <1>8, <1>9 DEF StartUp
<1>. QED
  BY <1>1, <1>8, <1>h, <1>p, <1>s DEF Next

(* An agent that is always stopped cleanly: ip_alloc.json is the allocator *)
(* at the stop, and the handler that goes on after it only adds leases     *)
(* until it reconciles the list.                                           *)
StopFiles ==
    setup.events \subseteq {"stop", "shared"} =>
        /\ pc \in {"down", "mark", "add"} => ~stopping
        /\ pc = "down" \/ stopping => Compatible(allocFile, aclFile)
        /\ pc \in {"prune", "install", "persist"} => Compatible(alloc.allocated, aclFile)
        /\ stopping /\ pc = "alloc" => \A k \in Keys : allocFile[k] # NoIP => alloc.allocated[k] = allocFile[k]
        /\ stopping /\ pc \in {"prune", "install", "persist"} => Compatible(allocFile, acl)

LEMMA StopFilesInductive ==
    ASSUME Types, Core, ListSaved, StopFiles, [Next]_vars
    PROVE  StopFiles'
<1>. SUFFICES ASSUME setup.events \subseteq {"stop", "shared"}, setup' = setup, Next \/ UNCHANGED vars PROVE StopFiles'
  BY DEF StopFiles, Next, vars
<1>. USE DEF StopFiles
<1>1. /\ Sound(alloc) /\ alloc \in Allocator /\ acl \in ACL /\ aclFile \in ACL /\ allocFile \in Table
      /\ pc # "install" => todo \subseteq Keys
      /\ stopping \in BOOLEAN /\ {"save", "wgset", "crash"} \cap setup.events = {}
  BY DEF Types, Sound, RealKeys
<1>2. pc \in {"idle", "alloc"} => acl.clients = aclFile.clients
  BY DEF ListSaved
<1>3. pc \notin {"down", "mark"} => Agrees(alloc, acl) /\ Compatible(alloc.allocated, acl)
  BY <1>1, AgreesCompatible DEF Core, ListAndAllocatorAgree, Agrees
<1>4. CASE UNCHANGED vars
  BY <1>4 DEF vars, Compatible
<1>5. ASSUME NEW p \in Push[setup], Receive(p) PROVE StopFiles'
  BY <1>5 DEF Receive
<1>6. ASSUME NEW k \in todo, NEW ip \in LeaseChoices, AllocateClient(k, ip) PROVE StopFiles'
  <2>1. Grows(alloc, alloc')
    BY <1>6, AllocateClientGrows
  <2>. QED
    BY <1>1, <1>6, <2>1 DEF AllocateClient, Grows, Compatible
<1>7. CASE RejectPin \/ \E k \in todo, ip \in LeaseChoices : RejectFull(k, ip)
  BY <1>7 DEF RejectPin, RejectFull, EndPush, Compatible
<1>8. CASE Reconcile
  <2>1. pc = "alloc" /\ pc' = "prune" /\ acl' = Reconciled(acl, push, alloc) /\ UNCHANGED <<alloc, allocFile, aclFile, stopping>>
    BY <1>8 DEF Reconcile
  <2>2. Compatible(alloc.allocated, aclFile)
    BY <1>2, <1>3, <2>1 DEF Compatible
  <2>3. ASSUME stopping PROVE Compatible(allocFile, acl')
    <3>1. push \in AnyPush /\ \A k \in Listed(push) : alloc.allocated[k] # NoIP
      BY <1>8 DEF Types, Working, Reconcile
    <3>2. \A c \in acl'.clients : c.key \in Listed(push) /\ c.ip = alloc.allocated[c.key]
      BY <1>1, <2>1, <3>1, ReconciledEffect
    <3>3. ASSUME NEW k \in Listed(push), NEW j \in Keys, allocFile[j] = alloc.allocated[k] PROVE j = k
      <4>1. alloc.allocated[j] = alloc.allocated[k] /\ k \in Keys
        BY <2>1, <2>3, <3>1, <3>3 DEF Listed, RealKeys
      <4>. QED
        BY <1>1, <3>1, <4>1 DEF Sound, Exclusive
    <3>. QED
      BY <3>2, <3>3 DEF Compatible
  <2>. QED
    BY <2>1, <2>2, <2>3 DEF Compatible
<1>9. ASSUME NEW k \in todo, Prune(k) PROVE StopFiles'
  <2>1. alloc'.allocated = [alloc.allocated EXCEPT ![k] = NoIP]
    BY <1>1, <1>9, ReleaseEffect DEF Prune
  <2>2. \A c \in aclFile.clients : c.ip # NoIP
    BY <1>1, ClientFields, NoIPAssumption
  <2>3. Compatible(alloc'.allocated, aclFile)
    BY <1>1, <1>9, <2>1, <2>2 DEF Prune, Compatible, Allocator, Table
  <2>. QED
    BY <1>9, <2>3 DEF Prune, Compatible
<1>10. CASE BeginInstall \/ ReconcileGrants \/ \E c \in todo : Install(c)
  BY <1>10 DEF BeginInstall, ReconcileGrants, Install, Compatible
<1>11. CASE Persist
  <2>1. acl'.clients = acl.clients /\ aclFile' = acl' /\ pc' = "idle" /\ pc = "persist" /\ UNCHANGED <<allocFile, stopping>>
    BY <1>1, <1>11 DEF Persist, EndPush, Save, ACL
  <2>. QED
    BY <2>1 DEF Compatible
<1>12. CASE HandleProvision
  <2>1. pc = "idle" /\ pc' = "idle" /\ ~stopping /\ ~stopping'
    BY <1>12 DEF HandleProvision, Provision, ProvisionFails, ProvisionEmptyKey, AddPeer
  <2>. QED
    BY <2>1
<1>13. CASE Stop
  <2>1. allocFile' = alloc.allocated /\ UNCHANGED <<alloc, acl, aclFile, pc>> /\ pc \notin {"down", "mark", "add"}
    BY <1>13 DEF Stop
  <2>2. Compatible(alloc.allocated, acl)
    BY <1>3, <2>1
  <2>3. Compatible(alloc.allocated, aclFile)
    BY <1>2, <2>1, <2>2 DEF Compatible, Types, Working
  <2>. QED
    BY <2>1, <2>2, <2>3 DEF Compatible
<1>14. CASE Exit
  BY <1>14, Zenon DEF Exit, Compatible
<1>15. CASE StartUp
  BY <1>15 DEF StartUp, Boot, Mark, BeginAdd, Add, Booted
<1>. HIDE DEF StopFiles
<1>h. CASE HandleState
  BY <1>h, <1>5, <1>6, <1>7, <1>8, <1>9, <1>10, <1>11 DEF HandleState
<1>. QED
  BY <1>4, <1>12, <1>13, <1>14, <1>15, <1>h DEF Next

(* a has every usable entry of ip_alloc.json.                              *)
Holds(a) == \A k \in Keys : InSubnet(a, allocFile[k]) => a.allocated[k] = allocFile[k]

(* An agent that is never stopped cleanly: ip_alloc.json stays as it was   *)
(* found, and the allocator keeps its entry away from the clients.         *)
CrashFiles ==
    "stop" \notin setup.events =>
        /\ ~stopping
        /\ \A k \in Keys : allocFile[k] # NoIP => k = GoneKey
        /\ Compatible(allocFile, acl) /\ Compatible(allocFile, aclFile)
        /\ pc # "down" => Holds(alloc)

LEMMA GrowsHolds ==
    ASSUME NEW a, NEW b, Grows(a, b), Holds(a), allocFile \in Table
    PROVE  Holds(b)
<1>. SUFFICES ASSUME NEW k \in Keys, InSubnet(b, allocFile[k]) PROVE b.allocated[k] = allocFile[k]
  BY DEF Holds
<1>1. a.allocated[k] = allocFile[k] /\ allocFile[k] # NoIP
  BY SubnetOfPrefix, NoIPAssumption DEF Grows, Holds, InSubnet
<1>. QED
  BY <1>1 DEF Grows

(* What the allocator gives a key is not in the file under another.        *)
LEMMA HoldsApart ==
    ASSUME NEW a, Sound(a), Holds(a), NEW k \in Keys, a.allocated[k] # NoIP,
           NEW j \in Keys, allocFile[j] = a.allocated[k]
    PROVE  j = k
<1>1. a.allocated[j] = a.allocated[k]
  BY DEF Holds, Sound, Backed
<1>. QED
  BY <1>1 DEF Sound, Exclusive

LEMMA CompatibleAdd ==
    ASSUME NEW list \in ACL, Compatible(allocFile, list), NEW m \in Members, NEW k \in RealKeys, NEW ip \in Address,
           \A j \in Keys : allocFile[j] = ip => j = k
    PROVE  Compatible(allocFile, AddClient(list, m, k, ip))
<1>1. \A c \in AddClient(list, m, k, ip).clients : c = [member |-> m, key |-> k, ip |-> ip] \/ c \in list.clients
  BY AddClientEffect
<1>. QED
  BY <1>1 DEF Compatible

LEMMA CrashFilesInductive ==
    ASSUME Types, CrashFiles, [Next]_vars
    PROVE  CrashFiles'
<1>. SUFFICES ASSUME "stop" \notin setup.events, setup' = setup, Next \/ UNCHANGED vars PROVE CrashFiles'
  BY DEF CrashFiles, Next, vars
<1>. USE DEF CrashFiles
<1>1. /\ Sound(alloc) /\ alloc \in Allocator /\ acl \in ACL /\ aclFile \in ACL /\ allocFile \in Table
      /\ pc # "install" => todo \subseteq RealKeys
      /\ RealKeys \subseteq Keys /\ GoneKey \notin RealKeys
      /\ EmptyKey \in Keys /\ EmptyKey # GoneKey
  BY EmptyKeyAssumption, GoneKeyAssumption DEF Types, Sound, RealKeys
<1>2. ASSUME NEW a, Holds(a), NEW b, b.prefix = a.prefix, NEW k \in Keys, k # GoneKey,
             \A j \in Keys : j # k => b.allocated[j] = a.allocated[j]
      PROVE  Holds(b)
  <2>. SUFFICES ASSUME NEW j \in Keys, InSubnet(b, allocFile[j]) PROVE b.allocated[j] = allocFile[j]
    BY DEF Holds
  <2>1. allocFile[j] # NoIP /\ InSubnet(a, allocFile[j])
    BY <1>2, SubnetOfPrefix, NoIPAssumption DEF InSubnet
  <2>2. j # k /\ a.allocated[j] = allocFile[j]
    BY <1>2, <2>1 DEF Holds
  <2>. QED
    BY <1>2, <2>2
<1>a. ~stopping /\ Compatible(allocFile, acl) /\ Compatible(allocFile, aclFile) /\ (pc # "down" => Holds(alloc))
  OBVIOUS
<1>b. ASSUME allocFile' = allocFile, stopping' = stopping,
             Compatible(allocFile, acl'), Compatible(allocFile, aclFile'), Holds(alloc')
      PROVE  CrashFiles'
  BY <1>a, <1>b DEF Holds
<1>c. Sound(alloc) /\ RealKeys \subseteq Keys
  BY <1>1
<1>d. acl \in ACL
  BY <1>1
<1>3. CASE UNCHANGED vars
  BY <1>3 DEF vars, Compatible, Holds
<1>4. CASE (\E p \in Push[setup] : Receive(p)) \/ RejectPin \/ \E k \in todo, ip \in LeaseChoices : RejectFull(k, ip)
  BY <1>4 DEF Receive, RejectPin, RejectFull, EndPush, Compatible, Holds
<1>5. ASSUME NEW k \in todo, NEW ip \in LeaseChoices, AllocateClient(k, ip) PROVE CrashFiles'
  <2>. HIDE DEF CrashFiles
  <2>1. pc # "down" /\ UNCHANGED <<allocFile, acl, aclFile, stopping>>
    BY <1>5 DEF AllocateClient
  <2>2. Holds(alloc')
    BY <1>1, <1>a, <1>5, <2>1, AllocateClientGrows, GrowsHolds
  <2>. QED
    BY <1>a, <1>b, <2>1, <2>2
<1>6. CASE Reconcile
  <2>1. push \in AnyPush /\ \A k \in Listed(push) : alloc.allocated[k] # NoIP
    BY <1>6 DEF Types, Working, Reconcile
  <2>2. \A c \in acl'.clients : c.key \in Listed(push) /\ c.ip = alloc.allocated[c.key]
    BY <1>1, <1>6, <2>1, ReconciledEffect DEF Reconcile
  <2>3. ASSUME NEW k \in Listed(push), NEW j \in Keys, allocFile[j] = alloc.allocated[k] PROVE j = k
    BY <1>1, <1>6, <2>1, <2>3, HoldsApart DEF Reconcile, Listed
  <2>4. Compatible(allocFile, acl')
    BY <2>2, <2>3 DEF Compatible
  <2>. QED
    BY <1>6, <2>4 DEF Reconcile, Compatible, Holds
<1>7. ASSUME NEW k \in todo, Prune(k) PROVE CrashFiles'
  <2>. HIDE DEF CrashFiles
  <2>1. pc # "down" /\ UNCHANGED <<allocFile, acl, aclFile, stopping>>
    BY <1>7 DEF Prune
  <2>2. Holds(alloc')
    <3>1. k \in Keys /\ k # GoneKey
      BY <1>1, <1>7 DEF Prune
    <3>2. alloc'.prefix = alloc.prefix /\ \A j \in Keys : j # k => alloc'.allocated[j] = alloc.allocated[j]
      BY <1>c, <1>7, <3>1, ReleaseKeepsPrefix DEF Prune
    <3>. QED
      BY <1>a, <1>2, <2>1, <3>1, <3>2
  <2>. QED
    BY <1>a, <1>b, <2>1, <2>2
<1>8. CASE BeginInstall \/ ReconcileGrants \/ \E c \in todo : Install(c)
  <2>. HIDE DEF CrashFiles
  <2>1. pc # "down" /\ UNCHANGED <<alloc, allocFile, acl, aclFile, stopping>>
    BY <1>8 DEF BeginInstall, ReconcileGrants, Install
  <2>. QED
    BY <1>a, <1>b, <2>1
<1>9. CASE Persist
  <2>1. acl'.clients = acl.clients
    BY <1>1, <1>9 DEF Persist, ACL
  <2>2. aclFile' \in {acl', aclFile} /\ pc = "persist" /\ UNCHANGED <<alloc, allocFile, stopping>>
    BY <1>9 DEF Persist, Save
  <2>. QED
    BY <2>1, <2>2 DEF Compatible, Holds
<1>10. ASSUME NEW m \in Members, NEW k \in RealKeys, CanAllocate(alloc, k), pc # "down"
       PROVE  /\ Sound(Allocate(alloc, k)) /\ Holds(Allocate(alloc, k))
              /\ AddClient(acl, m, k, Allocate(alloc, k).allocated[k]) \in ACL
              /\ Compatible(allocFile, AddClient(acl, m, k, Allocate(alloc, k).allocated[k]))
  <2>. HIDE DEF CrashFiles
  <2>. DEFINE a == Allocate(alloc, k)
  <2>1. Sound(a) /\ Holds(a) /\ a.allocated[k] \in Address
    <3>1. Sound(a) /\ Grows(alloc, a) /\ a.allocated[k] \in Address
      BY <1>c, <1>10, AllocatedSound
    <3>. HIDE DEF a
    <3>2. Holds(a)
      BY <1>1, <1>a, <1>10, <3>1, GrowsHolds
    <3>. QED
      BY <3>1, <3>2
  <2>. HIDE DEF a
  <2>2. \A j \in Keys : allocFile[j] = a.allocated[k] => j = k
    BY <1>c, <2>1, HoldsApart, NoIPAssumption
  <2>3. AddClient(acl, m, k, a.allocated[k]) \in ACL /\ Compatible(allocFile, AddClient(acl, m, k, a.allocated[k]))
    BY <1>a, <1>d, <2>1, <2>2, CompatibleAdd, AddClientKeeps
  <2>. QED
    BY <2>1, <2>3 DEF a
<1>11. ASSUME NEW m \in Members, NEW k \in RealKeys, Provision(m, k) PROVE CrashFiles'
  <2>. HIDE DEF CrashFiles
  <2>1. /\ CanAllocate(alloc, k) /\ pc # "down" /\ alloc' = Allocate(alloc, k)
        /\ acl' = AddClient(acl, m, k, alloc'.allocated[k])
        /\ aclFile' \in {acl', aclFile} /\ UNCHANGED <<allocFile, stopping>>
    BY <1>11 DEF Provision, Save
  <2>2. Holds(alloc') /\ Compatible(allocFile, acl')
    BY <1>10, <2>1
  <2>. QED
    BY <1>a, <1>b, <2>1, <2>2
<1>12. ASSUME NEW m \in Members, NEW k \in RealKeys, ProvisionFails(m, k) PROVE CrashFiles'
  <2>. HIDE DEF CrashFiles
  <2>. DEFINE a == Allocate(alloc, k)
              added == AddClient(acl, m, k, a.allocated[k])
  <2>1. /\ CanAllocate(alloc, k) /\ pc # "down" /\ alloc' = Release(a, k)
        /\ acl' = RemoveClient(added, m, k) /\ UNCHANGED <<aclFile, allocFile, stopping>>
    BY <1>12, Zenon DEF ProvisionFails
  <2>2. Sound(a) /\ Holds(a) /\ added \in ACL /\ Compatible(allocFile, added)
    BY <1>10, <2>1, Zenon
  <2>. HIDE DEF a, added
  <2>3. Compatible(allocFile, acl')
    BY <2>1, <2>2, RemoveClientMembers DEF Compatible
  <2>4. Holds(alloc')
    <3>1. k \in Keys /\ k # GoneKey
      BY <1>1
    <3>2. alloc'.prefix = a.prefix /\ \A j \in Keys : j # k => alloc'.allocated[j] = a.allocated[j]
      BY <2>1, <2>2, <3>1, ReleaseKeepsPrefix
    <3>. QED
      BY <1>2, <2>2, <3>1, <3>2
  <2>. QED
    BY <1>a, <1>b, <2>1, <2>3, <2>4, Zenon
<1>13. ASSUME NEW m \in Members, ProvisionEmptyKey(m) PROVE CrashFiles'
  <2>. HIDE DEF CrashFiles
  <2>. DEFINE a == Allocate(alloc, EmptyKey)
  <2>1. CanAllocate(alloc, EmptyKey) /\ pc # "down" /\ alloc' = Release(a, EmptyKey) /\ UNCHANGED <<acl, aclFile, allocFile, stopping>>
    BY <1>13 DEF ProvisionEmptyKey
  <2>0. EmptyKey \in Keys /\ EmptyKey # GoneKey
    BY <1>1
  <2>2. Sound(a) /\ Grows(alloc, a)
    BY <1>c, <2>0, <2>1, AllocatedSound
  <2>. HIDE DEF a
  <2>3. Holds(a)
    BY <1>1, <1>a, <2>1, <2>2, GrowsHolds
  <2>4. alloc'.prefix = a.prefix /\ \A j \in Keys : j # EmptyKey => alloc'.allocated[j] = a.allocated[j]
    BY <2>0, <2>1, <2>2, ReleaseKeepsPrefix
  <2>5. Holds(alloc')
    BY <1>2, <2>0, <2>3, <2>4
  <2>. QED
    BY <1>a, <1>b, <2>1, <2>5
<1>14. CASE Stop
  BY <1>14 DEF Stop
<1>15. CASE Exit
  BY <1>15, EmptyLists DEF Exit, Compatible
<1>16. ASSUME NEW p \in setup.prefixes, Boot(p) PROVE CrashFiles'
  <2>. HIDE DEF CrashFiles
  <2>1. alloc' = Load(p, allocFile) /\ p \in Prefixes /\ acl' = aclFile /\ UNCHANGED <<aclFile, allocFile, stopping>>
    BY <1>16, SetupAssumption DEF Boot, Types
  <2>2. allocFile \in Table
    BY <1>1
  <2>3. Holds(alloc')
    BY <2>1, <2>2, LoadEffect DEF Holds
  <2>. QED
    BY <1>a, <1>b, <2>1, <2>3
<1>17. ASSUME NEW c \in acl.clients, Mark(c) PROVE CrashFiles'
  <2>. HIDE DEF CrashFiles
  <2>1. alloc' = MarkUsed(alloc, c.key, c.ip) /\ pc # "down" /\ UNCHANGED <<acl, aclFile, allocFile, stopping>>
    BY <1>17 DEF Mark
  <2>2. c.key \in Keys /\ c.key # EmptyKey /\ c.key # GoneKey
    BY <1>1, ClientFields DEF RealKeys
  <2>3. alloc'.prefix = alloc.prefix /\ \A j \in Keys : j # c.key => alloc'.allocated[j] = alloc.allocated[j]
    BY <1>c, <2>1, <2>2, MarkUsedOrSame
  <2>4. Holds(alloc')
    BY <1>a, <1>2, <2>1, <2>2, <2>3
  <2>. QED
    BY <1>a, <1>b, <2>1, <2>4
<1>18. ASSUME NEW c \in acl.clients, Add(c) PROVE CrashFiles'
  <2>. HIDE DEF CrashFiles
  <2>1. c.member \in Members /\ c.key \in RealKeys /\ c.ip \in Address
    BY <1>1, ClientFields
  <2>2. pc # "down" /\ UNCHANGED <<aclFile, allocFile, stopping>>
    BY <1>18 DEF Add
  <2>3. CASE InSubnet(alloc, c.ip)
    <3>1. alloc' = alloc /\ (acl' = acl \/ acl' = AddClient(acl, c.member, c.key, c.ip))
      BY <1>18, <2>3 DEF Add
    <3>2. Compatible(allocFile, AddClient(acl, c.member, c.key, c.ip))
      <4>1. \A j \in Keys : allocFile[j] = c.ip => j = c.key
        BY <1>a DEF Compatible
      <4>. QED
        BY <1>a, <1>d, <2>1, <4>1, CompatibleAdd
    <3>. QED
      BY <1>a, <1>b, <2>2, <3>1, <3>2
  <2>4. CASE ~InSubnet(alloc, c.ip) /\ CanAllocate(alloc, c.key)
    <3>1. /\ alloc' = Allocate(alloc, c.key)
          /\ acl' = acl \/ acl' = AddClient(acl, c.member, c.key, Allocate(alloc, c.key).allocated[c.key])
      BY <1>18, <2>4, Zenon DEF Add
    <3>2. Holds(alloc') /\ Compatible(allocFile, acl')
      BY <1>a, <1>10, <2>1, <2>2, <2>4, <3>1
    <3>. QED
      BY <1>a, <1>b, <2>2, <3>2, Zenon
  <2>5. CASE ~InSubnet(alloc, c.ip) /\ ~CanAllocate(alloc, c.key)
    <3>1. alloc' = alloc /\ acl' = acl
      BY <1>18, <2>5 DEF Add
    <3>. QED
      BY <1>a, <1>b, <2>2, <3>1
  <2>. QED
    BY <2>3, <2>4, <2>5
<1>19. CASE BeginAdd \/ Booted
  BY <1>19 DEF BeginAdd, Booted, Save, Compatible, Holds
<1>. HIDE DEF CrashFiles
<1>h. CASE HandleState
  BY <1>h, <1>4, <1>5, <1>6, <1>7, <1>8, <1>9 DEF HandleState
<1>p. CASE HandleProvision
  BY <1>p, <1>11, <1>12, <1>13 DEF HandleProvision
<1>s. CASE StartUp
  BY <1>s, <1>16, <1>17, <1>18, <1>19 DEF StartUp
<1>. QED
  BY <1>3, <1>14, <1>15, <1>h, <1>p, <1>s DEF Next

(* One kind of end: an agent that is stopped cleanly never crashes, and    *)
(* none of its writes or `wg set` calls fail.  Otherwise ip_alloc.json can *)
(* be older than acl.json, and ClientsDistinct fails                       *)
(* (ControlPlane_staleFile).                                               *)
EndsOneWay(s) == "stop" \in s.events => s.events \subseteq {"stop", "shared"}
OneKindOfEnd == \A s \in Setups : EndsOneWay(s)

Inv == EndsOneWay(setup) /\ Types /\ Core /\ ListSaved /\ StopFiles /\ CrashFiles

LEMMA InitTypes ==
    ASSUME Init
    PROVE  /\ Types /\ Holds(alloc)
           /\ \A k \in Keys : allocFile[k] # NoIP => k = GoneKey
<1>1. allocFile \in Table /\ Exclusive(allocFile) /\ \A k \in Keys : allocFile[k] # NoIP => k = GoneKey
  <2>1. PICK ip \in Address \cup {NoIP} : allocFile = [NoAddresses EXCEPT ![GoneKey] = ip]
    BY SetupAssumption, Zenon DEF Init
  <2>2. allocFile = [k \in Keys |-> IF k = GoneKey THEN ip ELSE NoIP]
    BY <2>1, GoneKeyAssumption DEF NoAddresses
  <2>. QED
    BY <2>2 DEF Table, Exclusive
<1>2. PICK p \in Prefixes : alloc = Load(p, allocFile)
  <2>1. setup.prefixes \subseteq Prefixes /\ alloc \in {Load(p, allocFile) : p \in setup.prefixes}
    BY SetupAssumption, Zenon DEF Init
  <2>. QED
    BY <2>1
<1>3. Sound(alloc)
  BY <1>1, <1>2, LoadSound
<1>4. Holds(alloc)
  BY <1>1, <1>2, LoadEffect DEF Holds
<1>5. Types
  <2>1. /\ setup \in Setups /\ acl = EmptyACL /\ aclFile = EmptyACL /\ peers = NoAddresses /\ forgotten = {} /\ grants = {}
        /\ stopping = FALSE /\ pc = "idle" /\ push = NoPush /\ todo = {}
    BY DEF Init
  <2>. QED
    BY <1>1, <1>3, <2>1, EmptyLists, Zenon DEF Types, Working
<1>. QED
  BY <1>1, <1>4, <1>5

LEMMA InitInv ==
    ASSUME OneKindOfEnd, Init
    PROVE  Inv
<1>1. EndsOneWay(setup)
  BY DEF Init, OneKindOfEnd
<1>2. Core /\ ListSaved
  <2>1. acl.clients = {} /\ aclFile.clients = {} /\ pc = "idle"
    BY EmptyLists DEF Init
  <2>. QED
    BY <2>1 DEF Core, ClientsDistinct, DistinctClients, ListAndAllocatorAgree, Marking, ListSaved
<1>3. StopFiles
  BY DEF Init, StopFiles
<1>4. CrashFiles
  BY InitTypes, EmptyLists, Zenon DEF Init, CrashFiles, Compatible
<1>. QED
  BY <1>1, <1>2, <1>3, <1>4, InitTypes DEF Inv

(* The types, the clients kept apart and the state of the files.           *)
THEOREM ControlPlaneInvariance == OneKindOfEnd /\ Spec => []Inv
<1>1. Inv => FilesCompatible
  BY DEF EndsOneWay, Inv, FilesCompatible, StopFiles, CrashFiles
<1>2. Inv /\ [Next]_vars => setup' = setup
  BY DEF Next, vars
<1>3. Inv /\ [Next]_vars => Inv'
  BY <1>1, <1>2, TypesInductive, CoreInductive, ListSavedInductive, StopFilesInductive, CrashFilesInductive DEF Inv
<1>4. OneKindOfEnd /\ Init => Inv
  BY InitInv
<1>. QED
  BY <1>3, <1>4, PTL DEF Spec

(* No two clients of the list, in memory or on disk, share a key or a      *)
(* tunnel address (AddClient and Reconcile, store.go, with the allocator), *)
(* through pushes, provisions, re-rolled prefixes and either kind of end.  *)
THEOREM ClientsStayDistinct == OneKindOfEnd /\ Spec => []ClientsDistinct
<1>1. Inv => ClientsDistinct
  BY DEF Inv, Core
<1>. QED
  BY <1>1, ControlPlaneInvariance, PTL

(* From the end of start-up on, a client's usable address is the one the   *)
(* allocator has for its key (reconcilePeers, HandleDeviceState and        *)
(* HandleProvision).                                                       *)
THEOREM ListFollowsAllocator == OneKindOfEnd /\ Spec => []ListAndAllocatorAgree
<1>1. Inv => ListAndAllocatorAgree
  BY DEF Inv, Core
<1>. QED
  BY <1>1, ControlPlaneInvariance, PTL
(* Every variable keeps its type, with no condition on the setups: in      *)
(* particular every handler finds the addresses that it reads.             *)
THEOREM TypesAreKept == Spec => []TypeOK
<1>1. Init => Types
  BY InitTypes
<1>2. Types /\ [Next]_vars => Types'
  BY TypesInductive
<1>3. Types => TypeOK
  BY DEF Types, TypeOK, Working, Sound, ACL
<1>. QED
  BY <1>1, <1>2, <1>3, PTL DEF Spec

-------------------------------------------------------------------------------
(* The generation, with no condition on the setups: the list in memory is  *)
(* never behind the one on disk, nor the push being applied behind it.     *)
Generations ==
    /\ pc # "down" => acl.gen >= aclFile.gen
    /\ pc \in Working => push.gen >= acl.gen

LEMMA GenerationsInductive ==
    ASSUME Types, Generations, [Next]_vars
    PROVE  Generations' /\ aclFile'.gen >= aclFile.gen
<1>1. acl.gen \in Nat /\ aclFile.gen \in Nat
  BY GenAssumption DEF Types, ACL
<1>a. acl \in ACL /\ Sound(alloc)
  BY DEF Types
<1>b. RealKeys \subseteq Keys
  BY DEF RealKeys
<1>c. ASSUME acl'.gen = acl.gen, aclFile' \in {acl', aclFile}, pc = "idle" \/ pc = "add", pc' = pc
      PROVE  Generations' /\ aclFile'.gen >= aclFile.gen
  BY <1>1, <1>c DEF Generations, Working
<1>. USE DEF Generations, Working
<1>2. ASSUME UNCHANGED <<pc, acl, aclFile, push>> PROVE Generations' /\ aclFile'.gen >= aclFile.gen
  BY <1>1, <1>2
<1>3. CASE UNCHANGED vars
  BY <1>2, <1>3 DEF vars
<1>4. ASSUME NEW p \in Push[setup], Receive(p) PROVE Generations' /\ aclFile'.gen >= aclFile.gen
  BY <1>1, <1>4 DEF Receive
<1>5. CASE (\E k \in todo, ip \in LeaseChoices : AllocateClient(k, ip)) \/ (\E k \in todo : Prune(k)) \/ (\E c \in todo : Install(c)) \/ (\E c \in acl.clients : Mark(c))
  BY <1>2, <1>5 DEF AllocateClient, Prune, Install, Mark
<1>6. CASE RejectPin \/ BeginInstall \/ ReconcileGrants \/ BeginAdd \/ Stop \/ \E k \in todo, ip \in LeaseChoices : RejectFull(k, ip)
  <2>1. CASE RejectPin
    BY <1>1, <2>1 DEF RejectPin, EndPush
  <2>2. CASE BeginInstall \/ BeginAdd
    BY <1>1, <2>2 DEF BeginInstall, BeginAdd
  <2>3. CASE ReconcileGrants
    BY <1>1, <2>3 DEF ReconcileGrants, EndPush
  <2>4. CASE Stop
    BY <1>1, <2>4 DEF Stop, EndPush
  <2>5. ASSUME NEW k \in todo, NEW ip \in LeaseChoices, RejectFull(k, ip) PROVE Generations' /\ aclFile'.gen >= aclFile.gen
    BY <1>1, <2>5 DEF RejectFull, EndPush
  <2>. QED
    BY <1>6, <2>1, <2>2, <2>3, <2>4, <2>5
<1>7. CASE Reconcile
  <2>1. pc = "alloc" /\ push' = push /\ aclFile' = aclFile /\ pc' \in Working /\ acl' = Reconciled(acl, push, alloc)
    BY <1>7, Zenon DEF Reconcile
  <2>2. push \in AnyPush /\ alloc \in Allocator /\ \A k \in Listed(push) : alloc.allocated[k] # NoIP
    BY <1>7, Zenon DEF Types, Reconcile, Sound
  <2>3. acl'.gen = acl.gen
    BY <1>a, <2>1, <2>2, ReconciledEffect
  <2>. QED
    BY <1>1, <2>1, <2>3
<1>8. CASE Persist
  <2>1. push.gen \in Nat
    BY <1>8, GenAssumption DEF Types, Persist, AnyPush
  <2>2. acl'.gen = push.gen
    BY <1>1, <1>8 DEF Persist, ACL
  <2>3. pc = "persist" /\ pc' = "idle" /\ aclFile' \in {acl', aclFile}
    BY <1>8 DEF Persist, EndPush, Save
  <2>. QED
    BY <1>1, <2>1, <2>2, <2>3
<1>9. ASSUME NEW m \in Members, NEW k \in RealKeys, Provision(m, k) \/ ProvisionFails(m, k)
      PROVE  Generations' /\ aclFile'.gen >= aclFile.gen
  <2>. HIDE DEF Generations, Working
  <2>. DEFINE added == AddClient(acl, m, k, Allocate(alloc, k).allocated[k])
  <2>1. /\ CanAllocate(alloc, k) /\ (acl' = added \/ acl' = RemoveClient(added, m, k))
        /\ aclFile' \in {acl', aclFile} /\ pc = "idle" /\ pc' = "idle"
    BY <1>9 DEF Provision, ProvisionFails, Save
  <2>2. Allocate(alloc, k).allocated[k] \in Address
    BY <1>a, <1>b, <2>1, AllocatedAddress
  <2>3. added \in ACL /\ added.gen = acl.gen
    BY <1>a, <2>2, AddClientKeeps
  <2>. HIDE DEF added
  <2>4. acl'.gen = acl.gen
    BY <2>1, <2>3, RemoveClientKeeps
  <2>. QED
    BY <1>c, <2>1, <2>4, Zenon
<1>10. ASSUME NEW m \in Members, ProvisionEmptyKey(m) PROVE Generations' /\ aclFile'.gen >= aclFile.gen
  BY <1>2, <1>10, Zenon DEF ProvisionEmptyKey
<1>11. CASE Exit \/ Booted \/ \E p \in setup.prefixes : Boot(p)
  BY <1>1, <1>11 DEF Exit, Booted, Boot, Save
<1>12. ASSUME NEW c \in acl.clients, Add(c) PROVE Generations' /\ aclFile'.gen >= aclFile.gen
  <2>. HIDE DEF Generations, Working
  <2>1. c.member \in Members /\ c.key \in RealKeys /\ c.ip \in Address
    BY <1>a, ClientFields, Zenon
  <2>2. pc = "add" /\ pc' = "add" /\ aclFile' = aclFile
    BY <1>12 DEF Add
  <2>3. CASE InSubnet(alloc, c.ip)
    <3>1. acl' = acl \/ acl' = AddClient(acl, c.member, c.key, c.ip)
      BY <1>12, <2>3, Zenon DEF Add
    <3>2. acl'.gen = acl.gen
      BY <1>a, <2>1, <3>1, AddClientKeeps
    <3>. QED
      BY <1>c, <2>2, <3>2, Zenon
  <2>4. CASE ~InSubnet(alloc, c.ip) /\ CanAllocate(alloc, c.key)
    <3>. DEFINE ip == Allocate(alloc, c.key).allocated[c.key]
    <3>1. acl' = acl \/ acl' = AddClient(acl, c.member, c.key, ip)
      BY <1>12, <2>4 DEF Add
    <3>2. ip \in Address
      BY <1>a, <1>b, <2>1, <2>4, AllocatedAddress
    <3>. HIDE DEF ip
    <3>3. acl'.gen = acl.gen
      BY <1>a, <2>1, <3>1, <3>2, AddClientKeeps
    <3>. QED
      BY <1>c, <2>2, <3>3, Zenon
  <2>5. CASE ~InSubnet(alloc, c.ip) /\ ~CanAllocate(alloc, c.key)
    BY <1>c, <1>12, <2>2, <2>5 DEF Add
  <2>. QED
    BY <2>3, <2>4, <2>5
<1>. HIDE DEF Generations, Working
<1>h. CASE HandleState
  BY <1>h, <1>4, <1>5, <1>6, <1>7, <1>8, Zenon DEF HandleState
<1>p. CASE HandleProvision
  BY <1>p, <1>9, <1>10 DEF HandleProvision
<1>s. CASE StartUp
  BY <1>s, <1>5, <1>6, <1>11, <1>12, Zenon DEF StartUp
<1>. QED
  BY <1>3, <1>6, <1>11, <1>h, <1>p, <1>s DEF Next

(* The generation in acl.json never goes back (HandleDeviceState,          *)
(* SetAppliedGeneration and Store.Load), whatever fails and however the    *)
(* agent ends: an old push cannot replace a newer saved one.               *)
THEOREM GenerationNeverGoesBack == Spec => SavedGenerationMonotone
<1>1. Types /\ Generations /\ [Next]_vars => (Types /\ Generations)' /\ [aclFile'.gen >= aclFile.gen]_vars
  BY TypesInductive, GenerationsInductive
<1>2. Init => Types /\ Generations
  <2>1. Init => pc = "idle" /\ acl.gen = 0 /\ aclFile.gen = 0
    BY EmptyLists DEF Init
  <2>2. 0 >= 0
    OBVIOUS
  <2>. QED
    BY <2>1, <2>2, InitTypes DEF Generations, Working
<1>. QED
  BY <1>1, <1>2, PTL DEF Spec, SavedGenerationMonotone
===============================================================================
