----------------------------- MODULE ControlPlane -----------------------------
(***************************************************************************)
(* The path from a verified push of the coordination service to what the   *)
(* agent enforces: the access-control list (internal/acl/store.go), the    *)
(* address allocator, the WireGuard peers (internal/wireguard/server.go)   *)
(* and the raw-port grants handed to the firewall, driven by               *)
(*   HandleDeviceState  (internal/tunnel/devicestate.go),                  *)
(*   HandleProvision    (internal/tunnel/handler.go),                      *)
(*   reconcilePeers     (internal/agent/agent.go), at start-up,            *)
(* with a clean stop or a crash at any point and a restart from the files  *)
(* acl.json (saved by every handler) and ip_alloc.json (saved by a clean   *)
(* stop only).                                                             *)
(*                                                                         *)
(* Messages are handled one at a time by the tunnel read loop, so there is *)
(* one control state pc; the loops of HandleDeviceState and reconcilePeers *)
(* take one step per client, because a stop or a crash can come between.   *)
(* Signatures are abstracted: a push is one whose every envelope verifies  *)
(* (any other is rejected before it changes anything).                     *)
(***************************************************************************)
EXTENDS IPAllocatorOps

CONSTANTS
    Members,
    PortSets,    \* the choices for the set of members with raw-port apps
    MaxGen,      \* bound: the largest generation a push carries
    GoneKey,     \* a client of earlier days that no push and no provision names
    Setups       \* the choices for the setup of a behaviour

ASSUME MemberAssumption == PortSets \subseteq SUBSET Members
ASSUME GenAssumption == MaxGen \in Nat
ASSUME GoneKeyAssumption == GoneKey \in Keys \ {EmptyKey}

(* "stop": a clean stop; "crash": the process dies; "save": a write of     *)
(* acl.json, or of ip_alloc.json at a stop, fails; "wgset": `wg set` fails *)
(* to add or to remove a peer; "shared": a push lists a key under several  *)
(* members, which nothing in its verification rules out.                   *)
Events == {"stop", "crash", "save", "wgset", "shared"}

(* A setup says which events may happen, which members and prefixes there  *)
(* are, and which address ip_alloc.json still has for GoneKey (a push that *)
(* was rejected, or a client skipped at start-up, leaves such an entry).   *)
ASSUME SetupAssumption ==
    \A s \in Setups : /\ s.events \subseteq Events /\ s.members \subseteq Members
                      /\ s.prefixes \subseteq Prefixes /\ s.orphan \in Address \cup {NoIP}

VARIABLES
    setup,      \* the setup of this behaviour
    alloc,      \* the live allocator
    allocFile,  \* ip_alloc.json
    acl,        \* the live access-control list
    aclFile,    \* acl.json
    peers,      \* the interface's peers: key to tunnel address
    forgotten,  \* the peers of the interface that Server.peers no longer has
    grants,     \* the source addresses last handed to SetPortGrants
    stopping,   \* a clean stop has taken the interface down and saved allocFile
    pc,         \* what the read loop, or start-up, is doing
    push,       \* the device:state being applied
    todo        \* what the current loop has still to visit: clients while peers
                \* are installed, keys otherwise

wg == <<peers, forgotten>>
vars == <<setup, alloc, allocFile, acl, aclFile, wg, grants, stopping, pc, push, todo>>

RealKeys == Keys \ {EmptyKey, GoneKey}

NoAddresses == [k \in Keys |-> NoIP]
Client == [member : Members, key : RealKeys, ip : Address]

ACL == [status : [Members -> {"absent", "active", "suspended"}],
        ports : SUBSET Members,
        clients : SUBSET Client,
        gen : 0 .. MaxGen]

EmptyACL == [status |-> [m \in Members |-> "absent"], ports |-> {}, clients |-> {}, gen |-> 0]

(* A verified device:state: the members that list each key are among those *)
(* the push has.                                                           *)
AnyPush == {p \in [gen : 0 .. MaxGen,
                status : [Members -> {"absent", "active", "suspended"}],
                ports : PortSets,
                owners : [RealKeys -> SUBSET Members]] :
           \A k \in RealKeys : \A m \in p.owners[k] : p.status[m] # "absent"}

OneOwner(p) == \A k \in RealKeys : \A m, n \in p.owners[k] : m = n

Push == [s \in Setups |->
            {p \in AnyPush : /\ \A m \in Members \ s.members : p.status[m] = "absent"
                             /\ "shared" \in s.events \/ OneOwner(p)}]

NoPush == [gen |-> 0, status |-> EmptyACL.status, ports |-> {}, owners |-> [k \in RealKeys |-> {}]]

Listed(p) == {k \in RealKeys : p.owners[k] # {}}
Active(list, c) == list.status[c.member] = "active"
ClientKeys(list) == {c.key : c \in list.clients}

(* Store.PortGrants                                                        *)
PortGrants(list) == {c.ip : c \in {d \in list.clients : Active(list, d) /\ d.member \in list.ports}}

(* Mutated form of AddClient: other members keep the key.                  *)
MutAddClientNoStrip(list, m, k, ip) ==
    [list EXCEPT !.clients = {c \in @ : ~(c.member = m /\ c.key = k)}
                             \cup {[member |-> m, key |-> k, ip |-> ip]}]

(* Store.AddClient of a non-empty key to a member that is in the list: the *)
(* key, and the address, are taken away from every other member.           *)
AddClient(list, m, k, ip) ==
    LET stripped == {c \in list.clients : c.member # m /\ (c.key = k \/ c.ip = ip)}
        refreshed == {c \in list.clients : c.member = m /\ c.key = k}
    IN  [list EXCEPT !.clients = (@ \ (stripped \cup refreshed))
                                 \cup {[member |-> m, key |-> k, ip |-> ip]}]

(* Store.RemoveClient                                                      *)
RemoveClient(list, m, k) == [list EXCEPT !.clients = {c \in @ : ~(c.member = m /\ c.key = k)}]

(* Store.Reconcile: members and clients are replaced by those of the push; *)
(* the generation follows once everything is applied.                      *)
Reconciled(list, p, a) ==
    [list EXCEPT !.status = p.status,
                 !.ports = p.ports,
                 !.clients = {[member |-> e[1], key |-> e[2], ip |-> a.allocated[e[2]]] :
                                 e \in {f \in Members \X RealKeys : f[1] \in p.owners[f[2]]}}]

(* Store.Save writes a temporary file and renames it; its callers log an   *)
(* error and go on.                                                        *)
Save(list) == aclFile' = list \/ ("save" \in setup.events /\ UNCHANGED aclFile)

(* Server.AddPeer, when `wg set` succeeds; it may fail, and does once the  *)
(* interface is gone, leaving everything as it was.                        *)
AddPeer(k, ip) ==
    /\ ~stopping
    /\ peers' = [peers EXCEPT ![k] = ip]
    /\ forgotten' = forgotten \ {k}

AddPeerFails == (stopping \/ "wgset" \in setup.events) /\ UNCHANGED wg

(* Server.RemovePeer has `wg set` remove the peer and forgets it even when *)
(* that fails (it is logged); one it has no record of it leaves alone.     *)
RemovePeer(k) ==
    \/ k \notin forgotten /\ peers' = [peers EXCEPT ![k] = NoIP] /\ UNCHANGED forgotten
    \/ k \in forgotten /\ UNCHANGED wg
    \/ /\ "wgset" \in setup.events /\ peers[k] # NoIP
       /\ forgotten' = forgotten \cup {k} /\ UNCHANGED peers

-------------------------------------------------------------------------------
(* A paired agent that has never received a state.                         *)
Init ==
    /\ setup \in Setups
    /\ allocFile = [NoAddresses EXCEPT ![GoneKey] = setup.orphan]
    /\ alloc \in {Load(p, allocFile) : p \in setup.prefixes}
    /\ acl = EmptyACL
    /\ aclFile = EmptyACL
    /\ peers = NoAddresses /\ forgotten = {}
    /\ grants = {}
    /\ stopping = FALSE
    /\ pc = "idle"
    /\ push = NoPush
    /\ todo = {}

-------------------------------------------------------------------------------
(* Mutated form of Receive: the generation is not compared.                *)
MutReceiveAnyGeneration(p) ==
    /\ pc = "idle" /\ ~stopping
    /\ push' = p
    /\ todo' = Listed(p)
    /\ pc' = "alloc"
    /\ UNCHANGED <<alloc, allocFile, acl, aclFile, wg, grants, stopping>>

(* HandleDeviceState.  A push of an older generation is ignored.           *)
Receive(p) ==
    /\ pc = "idle" /\ ~stopping
    /\ p.gen >= acl.gen
    /\ push' = p
    /\ todo' = Listed(p)
    /\ pc' = "alloc"
    /\ UNCHANGED <<alloc, allocFile, acl, aclFile, wg, grants, stopping>>

EndPush == pc' = "idle" /\ push' = NoPush /\ todo' = {}

(* The address of one client: an existing allocation wins, then the lease  *)
(* the push carries (NoIP when it carries none), then a fresh address.     *)
AllocateClient(k, lease) ==
    /\ pc = "alloc"
    /\ todo' = todo \ {k}
    /\ \/ alloc.allocated[k] # NoIP /\ UNCHANGED alloc
       \/ alloc.allocated[k] = NoIP /\ CanAdopt(alloc, k, lease) /\ alloc' = Adopt(alloc, k, lease)
       \/ /\ alloc.allocated[k] = NoIP /\ ~CanAdopt(alloc, k, lease)
          /\ CanAllocate(alloc, k)
          /\ alloc' = Allocate(alloc, k)
    /\ UNCHANGED <<allocFile, acl, aclFile, wg, grants, stopping, pc, push>>

(* A full pool rejects the push; addresses already allocated stay so.      *)
RejectFull(k, lease) ==
    /\ pc = "alloc"
    /\ ~CanAdopt(alloc, k, lease) /\ ~CanAllocate(alloc, k)
    /\ EndPush
    /\ UNCHANGED <<alloc, allocFile, acl, aclFile, wg, grants, stopping>>

(* Reconcile refuses a push whose owner entry does not carry the pinned    *)
(* key; addresses already allocated stay so.                               *)
RejectPin ==
    /\ pc = "alloc" /\ todo = {}
    /\ EndPush
    /\ UNCHANGED <<alloc, allocFile, acl, aclFile, wg, grants, stopping>>

(* Mutated form of Reconcile: only the clients of removed members are      *)
(* reported.                                                               *)
MutReconcileMembersOnly ==
    /\ pc = "alloc" /\ todo = {}
    /\ acl' = Reconciled(acl, push, alloc)
    /\ todo' = {c.key : c \in {d \in acl.clients : push.status[d.member] = "absent"}} \ Listed(push)
    /\ pc' = "prune"
    /\ UNCHANGED <<alloc, allocFile, aclFile, wg, grants, stopping, push>>

Reconcile ==
    /\ pc = "alloc" /\ todo = {}
    /\ acl' = Reconciled(acl, push, alloc)
    /\ todo' = ClientKeys(acl) \ Listed(push)
    /\ pc' = "prune"
    /\ UNCHANGED <<alloc, allocFile, aclFile, wg, grants, stopping, push>>

Prune(k) ==
    /\ pc = "prune"
    /\ RemovePeer(k)
    /\ alloc' = Release(alloc, k)
    /\ todo' = todo \ {k}
    /\ UNCHANGED <<allocFile, acl, aclFile, grants, stopping, pc, push>>

BeginInstall ==
    /\ pc = "prune" /\ todo = {}
    /\ pc' = "install" /\ todo' = acl.clients
    /\ UNCHANGED <<alloc, allocFile, acl, aclFile, wg, grants, stopping, push>>

(* Mutated forms of Install: suspension is ignored; suspension also gives  *)
(* the address back.                                                       *)
MutInstallSuspended(c) ==
    /\ pc = "install"
    /\ todo' = todo \ {c}
    /\ AddPeer(c.key, c.ip) \/ AddPeerFails
    /\ UNCHANGED <<alloc, allocFile, acl, aclFile, grants, stopping, pc, push>>

MutInstallReleases(c) ==
    /\ pc = "install"
    /\ todo' = todo \ {c}
    /\ IF Active(acl, c) THEN AddPeer(c.key, c.ip) \/ AddPeerFails ELSE RemovePeer(c.key)
    /\ alloc' = IF Active(acl, c) THEN alloc ELSE Release(alloc, c.key)
    /\ UNCHANGED <<allocFile, acl, aclFile, grants, stopping, pc, push>>

(* A suspended member's peers go, the others' are added; an AddPeer that   *)
(* fails is logged.                                                        *)
Install(c) ==
    /\ pc = "install"
    /\ todo' = todo \ {c}
    /\ IF Active(acl, c) THEN AddPeer(c.key, c.ip) \/ AddPeerFails ELSE RemovePeer(c.key)
    /\ UNCHANGED <<alloc, allocFile, acl, aclFile, grants, stopping, pc, push>>

ReconcileGrants ==
    /\ pc = "install" /\ todo = {}
    /\ grants' = PortGrants(acl)
    /\ pc' = "persist"
    /\ UNCHANGED <<alloc, allocFile, acl, aclFile, wg, stopping, push, todo>>

Persist ==
    /\ pc = "persist"
    /\ acl' = [acl EXCEPT !.gen = push.gen]
    /\ Save(acl')
    /\ EndPush
    /\ UNCHANGED <<alloc, allocFile, wg, grants, stopping>>

-------------------------------------------------------------------------------
(* HandleProvision by a member of the list, for a key of its own choosing: *)
(* allocate, AddClient, AddPeer, Save, and sign a lease for the address.   *)
Provision(m, k) ==
    LET a == Allocate(alloc, k)
        ip == a.allocated[k]
    IN  /\ pc = "idle"
        /\ acl.status[m] # "absent"
        /\ CanAllocate(alloc, k)
        /\ alloc' = a
        /\ acl' = AddClient(acl, m, k, ip)
        /\ AddPeer(k, ip)
        /\ Save(acl')
        /\ UNCHANGED <<allocFile, grants, stopping, pc, push, todo>>

(* AddPeer failed: the client record and the allocation are rolled back.   *)
ProvisionFails(m, k) ==
    LET a == Allocate(alloc, k)
        added == AddClient(acl, m, k, a.allocated[k])
    IN  /\ pc = "idle" /\ ~stopping /\ AddPeerFails
        /\ acl.status[m] # "absent"
        /\ CanAllocate(alloc, k)
        /\ acl' = RemoveClient(added, m, k)
        /\ alloc' = Release(a, k)
        /\ UNCHANGED <<allocFile, aclFile, grants, stopping, pc, push, todo>>

(* AddClient refuses the empty key and the allocation is released.         *)
ProvisionEmptyKey(m) ==
    /\ pc = "idle" /\ ~stopping
    /\ acl.status[m] # "absent"
    /\ CanAllocate(alloc, EmptyKey)
    /\ alloc' = Release(Allocate(alloc, EmptyKey), EmptyKey)
    /\ UNCHANGED <<allocFile, acl, aclFile, wg, grants, stopping, pc, push, todo>>

-------------------------------------------------------------------------------
(* A clean stop: the interface is deleted, then the allocator is saved (an *)
(* error is logged); a handler already running goes on until the process   *)
(* exits.                                                                  *)
Stop ==
    /\ "stop" \in setup.events
    /\ pc \notin {"down", "mark", "add"} /\ ~stopping
    /\ peers' = NoAddresses /\ forgotten' = {}
    /\ allocFile' \in {alloc.allocated} \cup (IF "save" \in setup.events THEN {allocFile} ELSE {})
    /\ stopping' = TRUE
    /\ UNCHANGED <<alloc, acl, aclFile, grants, pc, push, todo>>

(* The process is gone, by a crash or at the end of a clean stop; nothing  *)
(* in memory survives, and no peer does: Start recreates the interface.    *)
Exit ==
    /\ pc # "down"
    /\ stopping \/ "crash" \in setup.events
    /\ alloc' = Load(alloc.prefix, NoAddresses)
    /\ acl' = EmptyACL
    /\ peers' = NoAddresses /\ forgotten' = {}
    /\ grants' = {}
    /\ stopping' = FALSE
    /\ pc' = "down" /\ push' = NoPush /\ todo' = {}
    /\ UNCHANGED <<allocFile, aclFile>>

(* Start-up on the same or a re-rolled prefix: NewIPAllocator loads its    *)
(* file, Store.Load the list.                                              *)
Boot(prefix) ==
    /\ pc = "down"
    /\ alloc' = Load(prefix, allocFile)
    /\ acl' = aclFile
    /\ todo' = ClientKeys(aclFile)
    /\ pc' = "mark"
    /\ UNCHANGED <<allocFile, aclFile, wg, grants, stopping, push>>

(* Mutated form of Mark: the allocator's own file is trusted alone.        *)
MutMarkNothing(c) ==
    /\ pc = "mark"
    /\ c.key \in todo
    /\ todo' = todo \ {c.key}
    /\ UNCHANGED <<alloc, allocFile, acl, aclFile, wg, grants, stopping, pc, push>>

(* reconcilePeers, first loop: seed the allocator from the list.           *)
Mark(c) ==
    /\ pc = "mark"
    /\ c.key \in todo
    /\ alloc' = MarkUsed(alloc, c.key, c.ip)
    /\ todo' = todo \ {c.key}
    /\ UNCHANGED <<allocFile, acl, aclFile, wg, grants, stopping, pc, push>>

BeginAdd ==
    /\ pc = "mark" /\ todo = {}
    /\ pc' = "add"
    /\ todo' = {c.key : c \in {d \in acl.clients : Active(acl, d)}}
    /\ UNCHANGED <<alloc, allocFile, acl, aclFile, wg, grants, stopping, push>>

(* Second loop, over the clients of active members: one outside the        *)
(* current prefix is renumbered, or skipped when the pool is full.  Of the *)
(* members that list one key, c.member is the last to be given it: each    *)
(* AddClient takes the key, and its peer's address stays the same.         *)
Add(c) ==
    LET renumbered == ~InSubnet(alloc, c.ip)
        a == IF renumbered THEN Allocate(alloc, c.key) ELSE alloc
        ip == IF renumbered THEN a.allocated[c.key] ELSE c.ip
    IN  /\ pc = "add"
        /\ c.key \in todo /\ Active(acl, c)
        /\ todo' = todo \ {c.key}
        /\ IF renumbered /\ ~CanAllocate(alloc, c.key)
           THEN UNCHANGED <<alloc, acl, wg>>
           ELSE /\ alloc' = a
                /\ \/ AddPeer(c.key, ip) /\ acl' = AddClient(acl, c.member, c.key, ip)
                   \/ AddPeerFails /\ UNCHANGED acl
        /\ UNCHANGED <<allocFile, aclFile, grants, stopping, pc, push>>

(* The list is saved and the grants are derived from it.                   *)
Booted ==
    /\ pc = "add" /\ todo \cap ClientKeys(acl) = {}
    /\ Save(acl)
    /\ grants' = PortGrants(acl)
    /\ pc' = "idle" /\ todo' = {}
    /\ UNCHANGED <<alloc, allocFile, acl, wg, stopping, push>>

-------------------------------------------------------------------------------
(* The lease a push carries for a key, if any: the device signs one with   *)
(* every provision and the server keeps it, across restarts and prefixes,  *)
(* so a key can come with any address it had at some time.                 *)
LeaseChoices == {NoIP} \cup {<<p, h>> : p \in setup.prefixes, h \in 2 .. (LastHost - 1)}

HandleState ==
    \/ \E p \in Push[setup] : Receive(p)
    \/ \E k \in todo , ip \in LeaseChoices : AllocateClient(k, ip) \/ RejectFull(k, ip)
    \/ RejectPin \/ Reconcile
    \/ \E k \in todo : Prune(k)
    \/ BeginInstall
    \/ \E c \in todo : Install(c)
    \/ ReconcileGrants \/ Persist

HandleProvision ==
    \E m \in Members : ProvisionEmptyKey(m) \/ \E k \in RealKeys : Provision(m, k) \/ ProvisionFails(m, k)

StartUp ==
    \/ \E p \in setup.prefixes : Boot(p)
    \/ \E c \in acl.clients : Mark(c) \/ Add(c)
    \/ BeginAdd \/ Booted

Next ==
    /\ HandleState \/ HandleProvision \/ Stop \/ Exit \/ StartUp
    /\ UNCHANGED setup

Spec == Init /\ [][Next]_vars

-------------------------------------------------------------------------------
(* Every variable of the control plane keeps its type.                     *)
TypeOK ==
    /\ setup \in Setups
    /\ alloc \in Allocator /\ allocFile \in Table
    /\ acl \in ACL /\ aclFile \in ACL
    /\ peers \in Table /\ forgotten \subseteq RealKeys
    /\ grants \subseteq Address
    /\ stopping \in BOOLEAN
    /\ pc \in {"down", "mark", "add", "idle", "alloc", "prune", "install", "persist"}
    /\ push \in AnyPush \cup {NoPush}
    /\ todo \subseteq RealKeys \cup Client

(* Two clients of the access-control list share a tunnel address exactly   *)
(* when they have the same key, and where no push lists a key twice no two *)
(* have ("enforcing global uniqueness on WGPublicKey and TunnelIP"):       *)
(* requests are attributed to a member by source address alone.            *)
DistinctClients(list, events) ==
    \A c, d \in list.clients : c # d =>
        /\ c.key = d.key <=> c.ip = d.ip
        /\ c.key = d.key => "shared" \in events

ClientsDistinct == DistinctClients(acl, setup.events) /\ DistinctClients(aclFile, setup.events)

(* The list and the allocator agree on who holds which address, once       *)
(* start-up has seeded the allocator: the agent owns the key-to-address    *)
(* binding, and Allocate can only give out what no client has.             *)
ListAndAllocatorAgree ==
    pc \notin {"down", "mark"} =>
        \A c \in acl.clients : InSubnet(alloc, c.ip) => alloc.allocated[c.key] = c.ip

(* Between two messages, every WireGuard peer is a client of the list, at  *)
(* the address the list has for it: no de-authorised client keeps a tunnel.*)
(* Not so once a re-provision has been rolled back (ControlPlane_rollback).*)
PeersAreClients ==
    pc = "idle" /\ ~stopping /\ "wgset" \notin setup.events =>
        \A k \in Keys : peers[k] # NoIP => \E c \in acl.clients : c.key = k /\ c.ip = peers[k]

AllActive(list, k) == \A c \in list.clients : c.key = k => Active(list, c)

(* When a push has been applied, whatever happened before it, the peers    *)
(* are exactly the clients of active members and the raw-port grants are   *)
(* those of the list.  A key that an active and a suspended member list    *)
(* has a peer or not, by the order in which they come.                     *)
Settled ==
    /\ \A k \in Keys : peers[k] # NoIP =>
          \E c \in acl.clients : c.key = k /\ c.ip = peers[k] /\ Active(acl, c)
    /\ \A c \in acl.clients :
          AllActive(acl, c.key) /\ "wgset" \notin setup.events => peers[c.key] = c.ip
    /\ grants = PortGrants(acl)

PushSettles ==
    [][pc = "persist" /\ pc' = "idle" /\ ~stopping /\ "wgset" \notin setup.events => Settled']_vars

(* Where `wg set` may fail, no peer is left over but those whose removal   *)
(* failed: not so after the rollback of a re-provision, which forgets the  *)
(* client and leaves its peer.                                             *)
PushRemovesPeers ==
    [][pc = "persist" /\ pc' = "idle" /\ ~stopping =>
          \A k \in Keys \ forgotten' : peers'[k] # NoIP => k \in ClientKeys(acl')]_vars

(* The generation on disk never goes back, across failed saves, crashes    *)
(* and restarts: an old push cannot replace a newer saved one.             *)
SavedGenerationMonotone == [][aclFile'.gen >= aclFile.gen]_vars

(* A key keeps its address for as long as the file lists it and the        *)
(* address belongs to the current prefix, through suspension, pushes,      *)
(* re-provisioning and restarts ("reactivating restores the original       *)
(* tunnel IPs without re-provisioning"), as long as the list is saved and  *)
(* no provision is rolled back.                                            *)
BindingStable ==
    [][{"save", "wgset"} \cap setup.events = {} => \A c \in aclFile.clients, d \in aclFile'.clients :
          c.key = d.key /\ InSubnet(alloc', c.ip) => c.ip = d.ip]_vars

(* A client key belongs to one member ("enforcing global uniqueness on     *)
(* WGPublicKey and TunnelIP"): Reconcile installs the members of a push as *)
(* they are.                                                               *)
KeyHasOneMember == \A c, d \in acl.clients : c.key = d.key => c = d

(* Between two messages the raw-port grants are those of the list ("this   *)
(* stays aligned with what's actually open"): HandleProvision changes the  *)
(* list and leaves the grants alone.                                       *)
GrantsMatchList == pc = "idle" /\ ~stopping => grants = PortGrants(acl)

(* Between two messages a suspended member has no peer ("only flips the WG *)
(* peer install"): HandleProvision does not look at the status.            *)
SuspendedHaveNoPeer ==
    pc = "idle" /\ ~stopping =>
        \A c \in acl.clients : ~Active(acl, c) => peers[c.key] = NoIP
===============================================================================
