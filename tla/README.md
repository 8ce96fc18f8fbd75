# atreoAGENT in TLA+

This directory is a formal model of atreoAGENT, the daemon that runs on a home
server, keeps a tunnel to the coordination service (atreoLINK), and from what
that service pushes decides which WireGuard clients get in, which addresses
they have and which ports they reach. The modules are translated from the Go
code under `src/internal` and `src/cmd/atreoagent`; `PROJECT.json` maps each
definition to its lines.

TLC checks every module on small instances; for every value of the constants,
TLAPS proves every safety property that a run checks and that the relay shim's
configuration checks. Liveness is left to TLC.

    tlc -config Firewall.cfg Firewall        # one run; PROJECT.json lists them all
    tlapm ControlPlaneProofs.tla             # proofs; there are eight *Proofs modules

## The system

One process, a handful of goroutines, a few files, and a kernel that others
change too.

| Part | State | Operations | Runs in |
|---|---|---|---|
| address allocator (`wireguard/ip_allocator.go`) | `allocated`, `usedIPs`, `ip_alloc.json` | Allocate, MarkUsed, TryAdopt, Release, Save, Load | any handler, start-up, stop |
| member list (`acl/store.go`) | members, clients, generation, pinned admin, `acl.json` | Reconcile, AddClient, RemoveClient, Save, Load | read loop, start-up |
| control messages (`tunnel/handler.go`, `devicestate.go`) | nonces, liveness state | HandleDeviceState, HandleProvision, HandleHeartbeatAck, HandleChallenge, HandleUnpaired | tunnel read loop, one at a time |
| liveness watch (`devicestate.go`) | `bootAt`, `lastPositive`, `appliedOnce`, `failClosed` | checkLiveness, dropAllPeers | a goroutine with a ticker |
| WireGuard server (`wireguard/server.go`) | kernel peers | AddPeer, RemovePeer, Start, Stop | callers of the above |
| tunnel firewall (`firewall/firewall.go`) | `enabled`, `portGrants`, kernel chains | Apply, SetPortGrants, watchdog, Stop | start-up, read loop, watchdog |
| relay manager (`relay/client.go`) | grant, endpoint, keep-alive, session | loop, SetGrant, SetKeepAlive, Wake | its loop, read loop, main loop |
| relay shim (`relay/shim.go`) | table of tunnels, one loopback socket each | toWireGuard, closeTunnel, reapOnce, replyPump, closeAll | its reader, reaper and one pump per tunnel |
| tunnel client (`tunnel/client.go`) | `activeConn` | Start, runWebSocket, Send, on-connect hook | its goroutine, all senders |
| endpoints service (`endpoints/service.go`) | last envelope, trigger channel | Run, doRefresh, Trigger, CurrentMessage | its goroutine, on-connect hook |
| certificates (`certs/`), custom domain (`store/customdomain.go`) | Registry, `cert.pem`/`key.pem` per suffix, the stored row, renewal state | EnsureCert, renewAll, reconcileCustomDomain | start-up, read loop, renewal goroutine |
| port mapping (`upnp/`, `pcp/`) | mapping, pinholes, nonces and their file, alert cooldown file | TryMapping, RenewMapping, RefreshV6Pinholes, Stop | two start-up goroutines, main loop |
| transport reports (`agent.reportTransport`) | last report, marker file | read, warn, send | its goroutine |
| pairing (`agent.Run`, `cmd/atreoagent/pair.go`, `HandleUnpaired`) | `pairing.json`, `admin_pin.json`, owner entry of `acl.json` | Pair, SetPinned, UpsertMember, SavePairing, unpair | start-up, the command, read loop |
| probe server (`probe/server.go`) | listeners | SetBindAddresses, shutdown | endpoints service |
| proxy, notify, SMTP | listeners, limiters | requests | servers |

How they interact: a `device:state` push goes through allocator, list, peers,
firewall grants, custom domain and `acl.json` in that order, in one handler
(`HandleDeviceState`). A provision goes through allocator, list and peer. The
liveness watch removes peers beside them. At start-up `reconcilePeers` rebuilds
allocator and peers from `acl.json`. The relay and the endpoints service speak
over the tunnel client.

What makes it hard: the process may die between any two of those steps, with two
files saved at different times; three goroutines besides the read loop change
what it changes; locks are released between deciding and acting; `iptables`,
`wg`, the disk and the certificate authority fail half-way; and several
promises are about what happens in the end (the tunnel closes, the rules come
back, the relay comes up, the addresses are published, certificates are renewed).

## Modules

A module's specification is `Spec`, or has a prefix where proofs about several
components share a module: `FCSpec` (FailClosed), `FWSpec` (Firewall), `PHSpec`
(Pinholes), `TRSpec` (Transport), `RMSpec` (RelayManager), `PMSpec` (PortMapping)
and `TLSSpec` (Certificates), with `FWInit`, `FWNext`, `fwVars` and so on. Where the program
counter of a goroutine is not `pc` it is `at` (Firewall), `doing` (Pinholes),
`reporter` (Transport), `loop` (RelayManager) or `step` (Certificates).

Every module uses one action per step at which another goroutine, a crash or a
failure can come in between. A handler that runs to its end without such a point
is one action. A loop over clients takes one step per client. `Mut...`
definitions are deliberately wrong forms of the definition that follows them;
they belong to the mutation tests in `PROJECT.json` and no specification uses
them.

**IPAllocatorOps** has the allocator's methods as operators on a record
`[prefix, allocated, usedIPs]`: `Allocate` takes the least free host, `MarkUsed`
and `Adopt` their conditions and effects, `Load` rebuilds `usedIPs` from the file.
Addresses are `<<prefix, host>>`; the reserved hosts are 0, the server's and the
last.

**IPAllocator** is the allocator as a state machine: methods in any order, `Save`
as copy (under the mutex) and rename (after it), restarts under the same or
another prefix, because `overlay` may have been re-rolled. `booting` marks the
time before `reconcilePeers` has finished, the only time MarkUsed is called.

**AddressLease** says what the allocator promises: a table of exclusive leases,
in which a key's lease changes only from nothing, to nothing, or at start-up.
`IPAllocator` implements it by the mapping `lease <- alloc.allocated`,
`kept <- file`.

**IPAllocatorOpsProofs** has the lemmas about the operators, which two proof
modules use; **TunnelProofs** has the theorems about the state machine.

**ControlPlane** composes the allocator's operators with the member list, the
peers, the grants and the two files. `Receive` to `Persist` are
HandleDeviceState; `Provision`, `ProvisionFails` and `ProvisionEmptyKey` are
HandleProvision's outcomes; `Boot` to `Booted` are start-up; `Stop` and `Exit`
are shutdown and crash. A push is one whose signatures verify: any other is
rejected before it changes something. A push may list one key under several
members, each of whom signed a registration of it (event "shared"): nothing in
HandleDeviceState or Reconcile refuses that. `AddPeer` and `RemovePeer` are the
WireGuard server's; `forgotten` are the kernel peers that it has no record of any
more because `wg set ... remove` failed. Profile fields,
apps and expiry are left out, except for the set of members with raw-port apps.
`setup`, chosen once, says which members and prefixes there are, which failures
may happen, and whether the allocator's file has an entry of a key that is gone.
**MCControlPlane** has the setups of the runs.

**Pairing** is how an agent gets and loses its device and its owner: the pairing
branch of Agent.Run, the command `atreoagent pair`, and HandleUnpaired, with one
step per file they write or remove. `pairingFile`, `pinFile` and `aclFile` are
the files; the agent and the command each have their own copy of what they have
read. A device is a number and its owner the key that approved it; of the list
the owner entries and the generation are kept. Two history variables remember
what leaves a pin behind: `interrupted`, an unpairing that died, or whose removal
failed, between its two files, and `cutShort`, a pairing that ended after its pin
and before its `pairing.json`.

**FailClosed** is the liveness watch beside the read loop. Instants are ages
that grow with `Tick` and saturate just past the bounds they are compared with,
so no clock value is unbounded. `Trip` (under the mutex), `BeginDrop`, `DropPeer`
and `EndDrop` (after it) are separate steps. `late` is a history
variable: the clients provisioned since the watch tripped. `forgotten` are the
peers the kernel kept when RemovePeer failed (`RemovePeers`).

**Firewall** has the Manager's fields, the mutex, and per table (`v4`, `v6`) the
grants in the private chains and the jumps in INPUT and FORWARD. One step is one
table's teardown or rebuild. Start-up, read loop and watchdog run `Apply`, which
may also return before its teardown (no binary on the PATH);
commands fail, foreign tools flush chains, the process is restarted over its own
leftovers. A failed teardown (`ClearTableFails`) is not noticed: jumps stay, and
chains whole or "partial", on which the rebuild's first command fails.
`uncleared` is a history variable: the tables whose last teardown failed or never
came.

**RelayManager** has the session loop with its waits, the Manager's fields,
`SetKeepAlive` in its two halves (read the canceller under the mutex, cancel
after it), grants that age, and the service's answers. A lost connection loses
requests. A session ends in three steps: it dies ("closing", the control
connection's close handshake; "failing" when it was never ready), the canceller
is withdrawn (`WithdrawCancel`), and back in the loop the endpoint is cleared
(`SessionOver`).

**Endpoints** is the endpoints service and the tunnel client: candidates,
record, Send in two steps (read `activeConn`, write), attach, on-connect hook.
A refresh may fail to enumerate the addresses or to build the envelope and
returns (`RefreshFails`, `BuildFails`); `missed` says that the last one did.
The signing time grows with each envelope: the clock is taken not to move
backwards, a case that `service.go:146` only tries to soften.
A write to a dead socket is lost, with or without an error, and a socket may die
with a message on its way. The receiver is represented by the newest envelope
(by signing time) it was given. The probe server follows the LAN addresses of
each new envelope (`SetBindAddresses`): a listener that cannot be bound is
skipped, and one that goes is shut down by a goroutine and holds its address
until then.

**RelayShim** is one relay session's table of tunnels: the reader (`run`), the
reaper, a reply pump per loopback socket and closeAll. Each takes sockets out of
the table under the mutex and closes them after it (`TakeTunnel`/`CloseTunnel`,
`Reap`/`CloseExpired`, `CloseAll`/`CloseOne`). Datagrams are not kept; a socket
that was idle for `tunnelIdleTimeout` is in `idle`.

**Certificates** has EnsureCert step by step (check, obtain, write `cert.pem`,
write `key.pem`, load) run by start-up, the read loop and the renewal goroutine
without a lock, the Registry, and the custom-domain row. A certificate is a
number; those up to `due` are near expiry. `mishap` and `missed` are history
variables. A failed write or removal of the custom-domain row or of a suffix's
files is only logged, and is a mishap (`WriteFault`). A load reads both files in
one step.

**PortMapping** is the IPv4 mapping over time: TryMapping at start-up and
RenewMapping at each tick (`Request` up to the gateway's answer, `TryReturns`
and `RenewReturns` what Agent.Run makes of it), the owner's alerts (`Alert`,
`markPortMappingAlertSent`) with the cooldown file, Stop, crashes. The gateway is
external: it offers leased mappings (PCP, NAT-PMP), permanent ones (UPnP), both
or neither, may have the port taken, changes, restarts and loses answers.
Discovery, retries and wire formats are abstracted to whether it answers. Ages of
leases and files are counted in ticks. `told` is the last message to the owner.
Removing the cooldown file is taken to succeed (`agent.go:908` ignores an error).

**Pinholes** has RefreshV6Pinholes step by step, the PCP part of the IPv4
mapping, `persistNonces` as copy, `.tmp` write and rename in both of its callers,
each of which may fail (`PersistFails`; `unsaved` says that the last one did),
the nonce file, Stop while the start-up goroutines run, and a gateway that
refuses a nonce other than the one of a live mapping. A nonce is chosen per
address among those nobody holds for it, since nonces of two addresses are never
compared. `setup` is what the gateway offers and whether PCP is enabled. That the
IPv4 nonce is renewed when the internal address changes is left out. Opening the
`.tmp` with truncation and writing it are one step (`write.go:13`).

**Transport** is reportTransport: `Read` (with `transportReportDecision`), one
`Warn` per holder, `SetMarker`, `Send`. `warnings` and `unmarked` are history
variables: how often each holder was warned since a direct path was last read,
and whether the marker could not be written afterwards.

The theorems about these modules are in **ControlPlaneCoreProofs** (list and
allocator), **ControlPlaneProofs** (files, restarts and generations) and
**ControlPlanePeersProofs** (peers and bindings); **TunnelProofs** (IPAllocator,
FailClosed, Firewall); **OpenPathsProofs** (Pinholes, RelayShim);
**ReachabilityProofs** (Transport, RelayManager, PortMapping); and
**IdentityProofs** (Pairing, Certificates).

## Runs

| Run | Checks | Shows |
|---|---|---|
| `allocator` | LeasesExclusive, IInv, NoNewOrphans, ImplementsLease | leases stay exclusive under every order of calls, saves and restarts; the abstract lease table is implemented |
| `push` | ClientsDistinct, ListAndAllocatorAgree, PeersAreClients, PushSettles, BindingStable, SavedGenerationMonotone | a crash between any two steps of a push or provision, a clean stop at any of them, a failing `wg set` or write of `acl.json`, a key that two members list, a full pool and renumbering are recovered from |
| `pairing` | PairedIsPinned, AdminsArePinnedIfSaved, PinReplacedOnlyUnpaired, UnpairedPairsAgain, EndsServing | the three files never disagree on whose the agent is; an unpaired agent pairs again, and one left alone ends up serving its device's owner |
| `failclosed` | OnlyLatePeersWhileFailClosed, SilenceClosesTunnel, RecentStateServes | a silent service ends with no peer but those provisioned after the trip and those the kernel refused to remove; no trip on a recent state |
| `firewall` | NoStaleGrants, AdmitsOnlyConfined, RulesComeBack | peers are admitted only confined; revoked grants stay open only in a table whose teardown failed; the watchdog restores the current rules, unless a failed teardown left it the jumps it looks for |
| `relay` | OffersItsSession, RelayComesUp, SilentWhenUnwanted | the loop neither stops for good nor asks for ever; only the endpoint of the session that runSession is in is handed out, until its close is over |
| `endpoints` | SettledAddressPublished, NoticedChangePublished, ProbeFollowsAddresses | no envelope is lost between refresh and attach, with the ticker or, for notified changes whose refresh did not fail, without; the probe server ends up on the LAN addresses |
| `certificates` | BootServes, StaleBeatsNothing, RenewalStopsOnlyMismatched | any failure or crash leaves files a healthy boot serves from; failures never take a served certificate away; renewals stop only over mismatched files |
| `port_mapping` | RestoredAnswersAlert, LossReported, StaysMapped, RelayFollowsAddress, MismatchReported | the mapping is kept while the gateway maps; a lasting loss or wrong port is reported across failed, suppressed and repeated alerts and restarts; with a gateway that maps, the relay is needed behind carrier-grade NAT and not where clients get in |
| `pinholes` | SavedNonceIsCurrent, PinholesFollowAddresses, NoncesSaved | exactly the host's addresses end up open; the nonce file agrees with memory in the end, and at rest holds another nonce than memory only after a failed write |
| `transport` | WarnedOncePerEpisode, LastReportIsCurrent | one warning per holder and relay episode; failed reports are repeated until one about the current path succeeds |
| `stale_allocator_file` | ClientsDistinct, violated | after a clean stop, more changes and a crash, an old entry of `ip_alloc.json` wins over the list, and two clients get one address |

In `push` a behaviour has one of six setups (`PushSetups`): two members with
crashes; two members with clean stops and one free address; two members that may
list one key, with crashes; clean stops with
re-rolled prefixes; crashes and failing writes with re-rolled prefixes; and
crashes, failing writes and failing `wg set`. Clean stops are never combined
with crashes or failures: the stale allocator file of `stale_allocator_file`
would come in; so a failing save of `ip_alloc.json` at a stop is in the model
(`Stop`, with "save") and in no run. ClientsDistinct says that two clients have
one address exactly when they have one key, and that they have one key only in
the setup with shared keys. There PushSettles leaves it open whether a key that
an active and a suspended member list has a peer: the last of the two decides. BindingStable compares two versions of `acl.json` and is about
behaviours without failing saves, in which no version is missing. Keys are
interchangeable in `push` (`KeySymmetry` of MCControlPlane): no property of it is a liveness
property and `Allocate` orders hosts, not keys.

In `pairing`, AdminsArePinnedIfSaved and EndsServing except the events after
which `acl.json` can be another pairing's (`ListMayLag`) and, for EndsServing,
an approval without host names, after which every start fails; the
configurations `Pairing_command` and `Pairing_saveFails` show why.

The TypeOKs of the allocator, Firewall, ControlPlane, Transport and RelayManager
are part of the proofs, which elsewhere have a definition of their own for what
they need of the types; the other TypeOKs document the variables.

RelayShim is checked with `RelayShim.cfg` (OneOwner, Ceiling, TunnelsAnswer,
SocketsReleased: 149,822 states), which is kept beside the runs of
`PROJECT.json`; its three invariants are proved.

### Other differences between code and comments

These properties are kept for reference and are not among those of the runs in
`PROJECT.json`. Each states what a comment or message says and ends in a
violation, under a configuration of its own, or, where the first column names a
run's configuration (`ControlPlane`, `Firewall`, ...), under that one with the
property in place of the run's.

| Configuration | Property | What TLC finds |
|---|---|---|
| `ControlPlane_rollback` | PushRemovesPeers | a re-provision whose AddPeer fails forgets the client and leaves its peer, which no push removes |
| `ControlPlane` | GrantsMatchList | a provision does not open the ports the list grants; the next push does |
| `ControlPlane` | SuspendedHaveNoPeer | a provision installs a suspended member's peer |
| `ControlPlane_twoMembers` | KeyHasOneMember | a push that lists a key under two members is installed as it is, and two members have one key and address ("enforcing global uniqueness on WGPublicKey and TunnelIP" is what AddClient does, not Reconcile) |
| `Pairing_command` | AdminsArePinned | the command adds the new owner's entry to the `acl.json` it finds, which after an unpairing still has the last owner's ("The admin entry's identityKey is invariantly equal to the pinned admin pubkey") |
| `Pairing_saveFails` | AdminsArePinned | a write of `acl.json` that fails during pairing is only logged, and Agent.Run then loads the list of the pairing before |
| `Pairing_both` | PairedIsPinned | the command run beside a waiting agent: each pins and saves its own approval, and the files end up naming different owners |
| `Pairing_dataDir` | StartKeepsPairing | `--data-dir` takes effect after `pairing.json` has been looked for, so a paired agent enters pairing ("authoritative for the agent-owned identity") |
| `Pairing` | PinClearedFirst | after a crash between the pin and `pairing.json`, Agent.Run pairs before it loads the Store and replaces the leftover pin ("One-shot: re-pairing must call ClearPinnedAdminPublicKey first") |
| `RelayShim_pump` | TunnelsAlwaysAnswer | a reply pump that ends with an error leaves its tunnel in the table, without replies, for as long as the client keeps sending |
| `RelayManager_keepAlive` | TornDownWhenUnwanted | keep-alive cleared before the session exposes its canceller leaves the session up |
| `RelayManager` | EndpointIsLive | the endpoint of a dead session is handed out while its control connection is closed ("returns relayHost:dataPort and true once a relay session is live") |
| `Pinholes_upnp` | PinholesFollowAddresses | with PCP enabled and a gateway that only speaks UPnP, ensureV6Pinhole keeps a held pinhole when PCP fails and never renews it over UPnP (`upnp/client.go:658`), although RefreshV6Pinholes "opens (or renews)" |
| `Pinholes_race` | EveryNonceSaved | of the two start-up goroutines the one with the older copy writes the file last; the missing nonce is saved at the next tick, a crash before that loses it |
| `Pinholes_write` | SavedNonceAlwaysCurrent | the write that should forget an address fails, and so does the one after the address has come back with a new nonce: the file keeps the old one ("A renewal must reuse the original nonce"); takes more than ten minutes |
| `PortMapping_lostPath` | LostPathNeedsRelay | after a mapping is lost for good PublicEndpoint still answers, so relayNeeded stays false ("genuine reachability") |
| `PortMapping` | WrongPortNeedsRelay | with a public address and the wrong port mapped relayNeeded is false, although the alert says "All tunnel connections are broken" |
| `PortMapping_lease` | LeftMappingExpires | UPnP mappings are requested with lease 0 and outlive a crash ("Lease requested for every mapping/pinhole") |
| `Transport_rearm` | RecoveryRearms | when the report of a loss fails and the path recovers, the marker stays and the next loss warns nobody |
| `Transport_lost` | ServiceKnowsTransport | a report lost with its connection is not sent again on the next attach |
| `FailClosed_provision` | NoPeersWhileFailClosed | a provision installs a peer while the agent is fail-closed, and it stays |
| `FailClosed` | DropRemovesPeers | a peer whose `wg set ... remove` fails is forgotten and stays, and checkLiveness returns at once while fail-closed ("Dropping all WG peers until a fresh verified state arrives") |
| `FailClosed_race` | DropsOnlyWithoutState | the watch decides, a push is applied, and its fresh peers are dropped |
| `Firewall` | RevokedGrantsClose | a teardown whose commands fail keeps the chains with the earlier grants; a repeated SetPortGrants does nothing ("Errors swallowed — a missing rule is the desired post-state") |
| `Endpoints` | FailedRefreshRepeated | without the ticker, a refresh that fails has used up its notification and the change is not published ("Errors logged and swallowed — the service runs forever") |
| `Certificates_apps` | AppsServed | a first issuance that fails at boot is not tried again before a restart |
| `Certificates_keyWrite` | RenewalHappens | a failed write of `key.pem` ends the renewals of that suffix |
| `Certificates_cleared` | ClearedNotServed | a renewal under way brings a cleared custom zone back; a replaced zone is never removed |
| `Certificates_clear` | RepeatedZoneServed | when clearing the row fails after its certificate went, a later push of the same zone does nothing until a restart ("idempotent: already serving this zone") |
| `Certificates_alert` | FailuresCounted | failed renewals are recorded as successes while the old pair loads |

Without a failed write, two overlapping EnsureCerts of one suffix (a push and
the renewal) have the effect of `Certificates_keyWrite` too: one writes
`cert.pem` last, the other `key.pem`.

### Bounds

Two clients and a pool of one or two free addresses are enough for allocator and
list: a conflict is between two clients over one address, and the full pool is
reached. Pushes carry generations 0 and 1, so old and repeated ones occur. Two
prefixes make renumbering possible. `pairing` has two owners and two devices
approved before the environment is calm, so that a second owner follows a first;
`endpoints` has two sets of addresses that share one and differ in another.
`MaxRestarts`, `MaxTrouble`, `MaxFailures`, `MaxLosses`, `MaxFlips`, `MaxDetach`, `MaxChanges`, `MaxDrops`,
`MaxPushes`, `MaxMoves` and `MaxAges` bound only what the environment does, and liveness is
checked on what follows the last such event. They are small (one to three), so a
behaviour that needs more events than that is not covered. `certificates` has
two pushes, one ageing and two crashes or failed writes, which reaches both
causes of a mismatch. Two relay nodes, one of them dead, make failover necessary.
`relayFailoverThreshold` has its real value 3;
`renewalAlertThreshold` is 1 in `certificates`, where no property depends on it.
In PortMapping and Pinholes a lease is two ticks, the shortest that a renewal can keep alive
(the real ones are six and, for a pinhole, twelve), the wrong port is put up with for one tick (35 minutes are
seven) and the cooldown is four (24 hours are 288), enough for an alert, a
restoration and a second loss within it. Pinholes has two addresses, so one may go
while the other stays, one such move and one lost call, failed write, crash or
stop (the exception of SavedNonceIsCurrent takes two failed writes, which
`Pinholes_write` has). RelayShim has
three tunnel ids under a ceiling of two, and three sockets, so that an id is
reused and the ceiling is met. In FailClosed `staleBound` (30 minutes) and `coldStartTimeout` (90 seconds)
are two ticks and one: their order is kept, their ratio is not.

Deadlock checking is on except where a run may come to rest: `firewall` (a stop
or a failed start-up ends it), `endpoints` (without the ticker an idle service
does nothing) and RelayShim (a session ends).

### Fairness

ControlPlane and IPAllocator have none: only safety is checked. Elsewhere
goroutines get weak fairness: calls return, timers and tickers fire. What comes
from outside is not owed, with three exceptions in RelayManager and Endpoints,
whose promises depend on them: the tunnel reconnects, the service answers a
request that reached it, and a dial succeeds in the end (a relay node that can be
reached; the service). Strong fairness is given to waiters for a Go mutex (the
firewall's callers and its watchdog), to a dial or an issuance that is tried
again and again (`Established`, `Obtain`), to a `select` case that is ready again
and again (Endpoints' refreshes), to each suffix in renewAll's loop, and to the
service manager's restart of the agent in PortMapping and Pinholes, whose
properties are about an agent that is running in the end. Pairing has weak
fairness for the agent's next step, the restart by the service manager and an
owner's approval included, and for a command that was started. In these three `calm`, and in Transport `settled`, marks the point from which
the environment leaves the agent alone. A relay
session that works need never end, and a push need never come. RelayComesUp is
about agents whose relay is not held by keep-alive.

## Proofs

Every theorem is for every value of the constants: any keys, members, prefixes,
pool, owners, tunnels, nodes, zones, grants and bounds. The properties are those the runs
check on small instances.

| Module | Theorem | States |
|---|---|---|
| TunnelProofs | `Invariance`, `NoAddressSharedByTwoClients` | no two keys ever hold one address; every lease is usable and marked used |
| | `MethodsLeakNoAddress` | once start-up is over, no call leaves an address used without a holder |
| | `AllocatorImplementsLease` | the allocator implements `AddressLease` |
| | `FailClosedHasOnlyLatePeers`, `RecentStateIsServed` | the safety properties of `failclosed`, whichever removals of peers fail |
| | `GrantsAreNeverStale`, `PeersAreConfined` | those of `firewall`: outside tables whose last teardown failed, chains are absent or current |
| ControlPlaneProofs | `ClientsStayDistinct`, `ListFollowsAllocator` | clients share an address exactly when they share a key, and a key only if a push may list it twice; list and allocator agree |
| | `GenerationNeverGoesBack` | the saved generation never decreases |
| ControlPlanePeersProofs | `PeersStayClients`, `PushesSettle` | a peer is a client of the list between messages; after a push the peers are the active clients |
| | `BindingsAreStable` | a key keeps its address while the saved list names it |
| IdentityProofs | `PairedAgentsArePinned`, `PinRotatesOnlyByPairing`, `OwnerEntriesArePinned` | the safety properties of `pairing` |
| | `BootedAgentServes` | an agent whose issuances and writes have worked since it started serves all its names, wherever earlier lives ended |
| | `StaleIsKept` | a served certificate is replaced only by a pair that loads, and goes only with a push that clears it or with the process |
| OpenPathsProofs | `SavedNoncesAreCurrent` | the nonce file at rest has no other nonce than memory, except an IPv6 one after a failed write, until one succeeds |
| | `SocketsHaveOneOwner`, `CeilingHolds`, `TunnelsArePumped` | the invariants of `RelayShim.cfg` |
| ReachabilityProofs | `WarnedOnce` | a holder is warned once per relay episode, unless the marker could not be written |
| | `EndpointIsOfSession` | the relay endpoint handed out is that of the session runSession is in, from ready to the end of its close; a session that dials or serves can be cancelled |
| | `RestoredFollowsAlert` | "restored" answers an alert |

### Assumptions and hypotheses

The modules' ASSUMEs say that sentinels are not ordinary values (`NoIP` is no
address, `Never` no age), that bounds are natural numbers, and that the server's
host number is one of the hosts; TLC evaluates them in the runs. RelayShim has
none: its theorems state `NoSocket \notin Sockets` and `MaxTunnels \in Nat`
themselves. Two theorems' hypotheses restrict behaviours:

- `OneKindOfEnd` (ControlPlane, except `GenerationNeverGoesBack`): a setup with
  clean stops has neither crashes nor failures (it may have shared keys). It is
  needed: a clean stop
  followed by changes and a crash leaves the stale `ip_alloc.json` with which
  ClientsDistinct fails (`stale_allocator_file`). The setups of `push` satisfy it.
- `OnePairingAtATime` (Pairing): the command does not run beside the agent, and
  the agent finds its `pairing.json`. `Pairing_both` and `Pairing_dataDir` show
  what happens otherwise.

PushSettles, PeersAreClients and BindingStable also except, in their own
statement, the failures of `wg set` and of saves they are not about.

### The arguments

*Allocator.* Exclusive leases are not inductive: a step may take an address that
is held but not marked used, and a restart loads a table nothing is known about.
`IInv` therefore adds that every held address is marked used and the reserved
ones always are (`Sound`), and that the file and the copy a `Save` has taken are
exclusive too. There is one lemma per method: `TakeSound` is the step Allocate,
MarkUsed and TryAdopt share; `FirstFreeHost` shows that the host Allocate picks
is free; `ReleaseSound` needs that nobody else holds the released address;
`LoadSound` needs the file's exclusiveness only.

*Control plane.* `Core` is: distinct clients, agreement of list and allocator,
and `Marking`, what the first loop of reconcilePeers has established so far.
It is preserved by every step but `Boot`, whose allocator comes from a file the
list knows nothing of; there it needs `FilesCompatible`, that the allocator's
file gives a client's address to no other key. That is where the two ways of
ending differ. `StopFiles` is about agents that only stop cleanly: the file was
written with the memory it describes, and a push still running can only save a
list whose addresses the allocator had then. `CrashFiles` is about agents that
never stop cleanly: the file is as it was found, names at most a key that is
gone, and every allocator since (`Holds`) has kept that address away from the
clients. `ListSaved` says when list and `acl.json` are the same. On top of this,
`PeersFollow` follows the peers through the three loops of a push (those whose
key is not listed go, then each listed one is visited) and through start-up, and
`Bindings` compares `acl.json` with the list in memory at each step.
`GenerationNeverGoesBack` needs only that neither the list in memory nor the push
at hand is behind the file.

*Pairing.* `Pins` says which of pin, identity and owner entry each step of the
agent and of the command has already written, and that the files agree with the
copy of whoever is about to write the next one; `OwnerEntries` does so for the
list.

*Liveness watch.* While a drop is under way the peers are among those still to
be dropped, the late ones and the forgotten ones (`Drops`). For `RecentStateIsServed`, the last sign
of life is never older than the last applied state (`Ages`).

*Firewall.* `FWTypeOK` has the mutual exclusion of the callers of Apply; `Chains`
says, for each table and step of Apply, whether its chains are absent, current,
left by a failed teardown (`uncleared`), or waiting for the caller that will make
them so.

*Pinholes.* At rest file and memory agree, but the start-up goroutines copy,
write and rename without excluding each other, so every copy of a nonce matters:
the file, each goroutine's snapshot and a `.tmp` about to be renamed (`CopiesIn`).
The IPv4 nonce is chosen once per life and no copy has another (`V4Saves`).
Until the first tick an IPv6 address gets a new nonce only where no copy has one
for it (`BootSaves`): a nonce read from the file is asked for again, never
replaced (`RenewsHeld`). Afterwards one goroutine writes at a time, and writes
what is in memory (`RunSaves`); only while it does, or after a write that failed,
may the file be behind.

*Certificates.* BootServes is about the end of a start-up that checks, obtains,
writes and loads one name after the other, over whatever files earlier lives
left. While the agent boots nobody else writes, so EnsureCert either finds a pair
that loads or has written both halves of the one it obtained by the time it loads
(`BootEnsures`, which says so for each of its steps), and the second name comes
only with the first one served. Afterwards a stored custom domain is served at
every step, except between the removal of its files and of its row (`RowServed`),
although the renewal goroutine writes the same files. `CertsServe` puts these
together for lives without a mishap. StaleBeatsNothing needs of it that nothing
is served yet when start-up loads its first name.

*Relay manager.* `Sessions` ties endpoint, session and canceller to the loop's
position (`InSession`): the endpoint is set only when ready, stays through the
close, and is cleared before the loop goes on.

*Port mapping.* The cooldown file exists only while the owner's last message is
an alert, and between an alert and its record no other message is sent
(`Messages`).

*Relay shim.* OneOwner itself is inductive together with the types and the fact
that a socket is dialled once.

*Transport.* The property is not inductive, since a holder may be warned whenever
the goroutine is at "warn": `Unwarned` adds that the holders still to be warned
have had no warning and that, without a marker, nobody has before the round
starts.

Only model-checked: the liveness properties, since fairness and ENABLED are out
of the prover's reach, and with them Endpoints, all of whose properties are of
that kind. No
definition is recursive.

Steps that end in `Zenon` are first-order; the other leaves are tried with SMT
first.

## Not modelled

- Cryptography, canonical JSON, frames, logging and configuration values: an
  envelope, approval or frame is valid or not, and the encoders are pure.
- Admittance certificates, attestations and command signatures
  (`tunnel/verify.go`, `admittance.go`, `attestation.go`): each is a decision
  about one message, taken before any state changes; a message that fails is one
  that never came.
- The proxy's and the notification server's access decisions, the limiters and
  SMTP: each is a lookup in a snapshot of the list, or a counter under one mutex,
  with no second step that an interleaving could reach. A model would restate
  the code. What they read, the list, is in ControlPlane.
- Overlay selection (`overlay/overlay.go`): a search over local interfaces at
  first start. Its effect, another prefix after a restart, is in IPAllocator and
  ControlPlane.
- Interface enumeration, gateway discovery, HTTP and DNS clients: I/O, represented
  by answers that come, change or do not come.

## Plan

1. Compose PortMapping with Endpoints, which publishes the mapping, and with
   RelayManager, which relayNeeded drives; the IPv4 nonce when the internal
   address changes.
2. SNI selection of the Registry and the cooldown of the renewal alert; challenge
   nonces and their reaper; `DropMembersFailing` at start-up.
3. An abstract access policy that ControlPlane implements between pushes.
