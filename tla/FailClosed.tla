------------------------------ MODULE FailClosed ------------------------------
(***************************************************************************)
(* The liveness watch of internal/tunnel/devicestate.go: with no sign of   *)
(* life from the coordination service for staleBound, or none at all       *)
(* within coldStartTimeout of a boot, every WireGuard peer is dropped.     *)
(*                                                                         *)
(* The watch is a goroutine beside the tunnel read loop, which applies     *)
(* pushes, heartbeat acknowledgements and provisions.  checkLiveness       *)
(* decides under the liveness mutex and drops peers after releasing it, so *)
(* the two interleave peer by peer.                                        *)
(*                                                                         *)
(* Instants are represented by their age, which grows with the clock and   *)
(* saturates just past the largest bound anything is compared with.        *)
(***************************************************************************)
EXTENDS Naturals, FiniteSetsExt

CONSTANTS
    Clients,
    StaleBound,        \* staleBound, in ticks of the clock
    ColdStartTimeout,  \* coldStartTimeout, in ticks
    Never,             \* the zero time.Time
    Messages,          \* which of "push", "ack", "provision" arrive
    MaxRestarts,       \* bound: restarts of the agent
    MaxFailures        \* bound: removals of a peer that fail

ASSUME BoundAssumption == StaleBound \in Nat /\ ColdStartTimeout \in Nat /\ MaxRestarts \in Nat /\ MaxFailures \in Nat
ASSUME NeverAssumption == Never \notin Nat
ASSUME MessageAssumption == Messages \subseteq {"push", "ack", "provision"}

VARIABLES
    bootAt, lastPositive, appliedOnce, failClosed,  \* livenessState
    lastAppliedAt,  \* of the ACL store; saved in acl.json
    clients,        \* the ACL's clients
    saved,          \* the clients in acl.json
    peers,          \* the clients with a WireGuard peer in the kernel
    forgotten,      \* those of them the Server has no record of any more
    server,         \* "up", or "gone" for good
    pc,             \* the read loop: "idle" or "apply"
    began,          \* the age of the push's own `now`
    todo,           \* clients the push has still to install
    watch,          \* the watch: "wait", "tripped" or "drop"
    dropping,       \* clients dropAllPeers has still to visit
    late,           \* history: clients provisioned since the agent went fail-closed
    restarts, failures

wg == <<peers, forgotten, failures>>
fcVars == <<bootAt, lastPositive, appliedOnce, failClosed, lastAppliedAt, clients, saved, wg,
          server, pc, began, todo, watch, dropping, late, restarts>>
live == <<bootAt, lastPositive, appliedOnce, failClosed>>

Oldest == Max({StaleBound, ColdStartTimeout}) + 1
Age == 0 .. Oldest
Older(t) == IF t = Never \/ t = Oldest THEN t ELSE t + 1

FCInit ==
    /\ bootAt = 0 /\ lastPositive = Never /\ appliedOnce = FALSE /\ failClosed = FALSE
    /\ lastAppliedAt = Never
    /\ clients = {} /\ saved = {} /\ peers = {} /\ forgotten = {} /\ failures = 0
    /\ server = "up"
    /\ pc = "idle" /\ began = 0 /\ todo = {}
    /\ watch = "wait" /\ dropping = {} /\ late = {}
    /\ restarts = 0

Tick ==
    /\ bootAt' = Older(bootAt)
    /\ lastPositive' = Older(lastPositive)
    /\ lastAppliedAt' = Older(lastAppliedAt)
    /\ began' = IF pc = "apply" THEN Older(began) ELSE 0
    /\ UNCHANGED <<appliedOnce, failClosed, clients, saved, wg, server, pc, todo, watch, dropping, late, restarts>>

-------------------------------------------------------------------------------
(* AddPeer; and RemovePeer of several clients in turn, which passes over a *)
(* client the Server has no record of, and forgets the peer of any other   *)
(* even when `wg set ... remove` fails and the kernel keeps it.            *)
AddPeer(c) ==
    /\ peers' = peers \cup {c} /\ forgotten' = forgotten \ {c}
    /\ UNCHANGED failures

RemovePeers(gone) ==
    \E stuck \in SUBSET (gone \cap (peers \ forgotten)) :
        /\ peers' = peers \ (gone \ (forgotten \cup stuck))
        /\ forgotten' = forgotten \cup stuck
        /\ IF stuck = {} THEN UNCHANGED failures
           ELSE failures < MaxFailures /\ failures' = failures + 1

MarkLiveness(applied) ==
    /\ lastPositive' = 0
    /\ appliedOnce' = (appliedOnce \/ applied)
    /\ failClosed' = FALSE /\ late' = {}
    /\ UNCHANGED bootAt

(* HandleDeviceState up to Reconcile and the removal of the peers of       *)
(* clients that are gone (all members active here; ControlPlane has the    *)
(* rest of the handler).                                                   *)
ReceiveState(s) ==
    /\ "push" \in Messages /\ server = "up" /\ pc = "idle"
    /\ clients' = s
    /\ RemovePeers(clients \ s)
    /\ pc' = "apply" /\ began' = 0 /\ todo' = s
    /\ UNCHANGED <<live, lastAppliedAt, saved, server, watch, dropping, late, restarts>>

InstallPeer(c) ==
    /\ pc = "apply"
    /\ AddPeer(c)
    /\ todo' = todo \ {c}
    /\ UNCHANGED <<live, lastAppliedAt, clients, saved, server, pc, began, watch, dropping, late, restarts>>

(* SetAppliedGeneration with the instant the handler began, Save, and      *)
(* markLiveness(true).                                                     *)
FinishState ==
    /\ pc = "apply" /\ todo = {}
    /\ lastAppliedAt' = began
    /\ saved' = clients
    /\ MarkLiveness(TRUE)
    /\ pc' = "idle" /\ began' = 0
    /\ UNCHANGED <<clients, wg, server, todo, watch, dropping, restarts>>

(* HandleHeartbeatAck for the applied generation.                          *)
HeartbeatAck ==
    /\ "ack" \in Messages /\ server = "up" /\ pc = "idle"
    /\ MarkLiveness(FALSE)
    /\ UNCHANGED <<lastAppliedAt, clients, saved, wg, server, pc, began, todo, watch, dropping, restarts>>

(* HandleProvision, for a member some push brought; it does not look at    *)
(* failClosed.                                                             *)
Provision(c) ==
    /\ "provision" \in Messages /\ server = "up" /\ pc = "idle"
    /\ lastAppliedAt # Never
    /\ clients' = clients \cup {c} /\ saved' = clients'
    /\ AddPeer(c)
    /\ late' = IF failClosed THEN late \cup {c} ELSE late
    /\ UNCHANGED <<live, lastAppliedAt, server, pc, began, todo, watch, dropping, restarts>>

-------------------------------------------------------------------------------
Recent(t) == t # Never /\ t <= StaleBound

(* Cold boot: a recent list on disk counts as applied.                     *)
AdoptDiskState ==
    /\ ~failClosed /\ ~appliedOnce /\ Recent(lastAppliedAt)
    /\ appliedOnce' = TRUE
    /\ lastPositive' = IF lastPositive = Never THEN lastAppliedAt ELSE lastPositive
    /\ UNCHANGED <<bootAt, failClosed, watch>>

(* Mutated form of Stale: a first apply is waited for without end.         *)
MutStaleNoColdStart ==
    LET ref == IF lastPositive = Never THEN lastAppliedAt ELSE lastPositive
    IN  appliedOnce /\ ref # Never /\ ref > StaleBound

(* Mutated form of Stale: a boot without a push trips whatever the disk    *)
(* has.                                                                    *)
MutStaleIgnoresDisk ==
    LET ref == IF lastPositive = Never THEN lastAppliedAt ELSE lastPositive
    IN  IF appliedOnce THEN ref # Never /\ ref > StaleBound ELSE bootAt > ColdStartTimeout

Stale ==
    LET ref == IF lastPositive = Never THEN lastAppliedAt ELSE lastPositive
    IN  IF appliedOnce THEN ref # Never /\ ref > StaleBound
                       ELSE ~Recent(lastAppliedAt) /\ bootAt > ColdStartTimeout

Trip ==
    /\ ~failClosed /\ Stale
    /\ failClosed' = TRUE
    /\ watch' = "tripped"
    /\ UNCHANGED <<bootAt, lastPositive, appliedOnce>>

(* checkLiveness, on every tick of its ticker; the mutex is released here. *)
CheckLiveness ==
    /\ watch = "wait"
    /\ AdoptDiskState \/ Trip
    /\ UNCHANGED <<lastAppliedAt, clients, saved, wg, server, pc, began, todo, dropping, late, restarts>>

(* dropAllPeers: take the members, then remove their peers one by one.     *)
BeginDrop ==
    /\ watch = "tripped"
    /\ watch' = "drop" /\ dropping' = clients
    /\ UNCHANGED <<live, lastAppliedAt, clients, saved, wg, server, pc, began, todo, late, restarts>>

DropPeer(c) ==
    /\ watch = "drop"
    /\ RemovePeers({c})
    /\ dropping' = dropping \ {c}
    /\ UNCHANGED <<live, lastAppliedAt, clients, saved, server, pc, began, todo, watch, late, restarts>>

(* Mutated form of EndDrop: the drop gives up after the first peer.         *)
MutEndDropEarly ==
    /\ watch = "drop" /\ dropping # clients
    /\ watch' = "wait" /\ dropping' = {}
    /\ UNCHANGED <<live, lastAppliedAt, clients, saved, wg, server, pc, began, todo, late, restarts>>

EndDrop ==
    /\ watch = "drop" /\ dropping = {}
    /\ watch' = "wait"
    /\ UNCHANGED <<live, lastAppliedAt, clients, saved, wg, server, pc, began, todo, dropping, late, restarts>>

-------------------------------------------------------------------------------
ServerGone ==
    /\ server = "up"
    /\ server' = "gone"
    /\ UNCHANGED <<live, lastAppliedAt, clients, saved, wg, pc, began, todo, watch, dropping, late, restarts>>

(* A stop or a crash, then a boot: reconcilePeers installs the peers of    *)
(* the saved list before the watch starts.                                 *)
FCRestart ==
    /\ restarts < MaxRestarts
    /\ restarts' = restarts + 1
    /\ bootAt' = 0 /\ lastPositive' = Never /\ appliedOnce' = FALSE /\ failClosed' = FALSE
    /\ clients' = saved /\ peers' = saved /\ forgotten' = {}
    /\ pc' = "idle" /\ began' = 0 /\ todo' = {}
    /\ watch' = "wait" /\ dropping' = {} /\ late' = {}
    /\ UNCHANGED <<lastAppliedAt, saved, server, failures>>

ReadLoop ==
    \/ \E s \in SUBSET Clients : ReceiveState(s)
    \/ \E c \in todo : InstallPeer(c)
    \/ FinishState
    \/ HeartbeatAck
    \/ \E c \in Clients : Provision(c)

Watch ==
    \/ CheckLiveness
    \/ BeginDrop
    \/ \E c \in dropping : DropPeer(c)
    \/ EndDrop

FCNext == Tick \/ ReadLoop \/ Watch \/ ServerGone \/ FCRestart

(* Time passes, the watch's ticker fires and its calls return, and so do   *)
(* those of a handler that has begun; messages are never owed.             *)
Fairness ==
    /\ WF_fcVars(Tick)
    /\ WF_fcVars(Watch)
    /\ WF_fcVars(FinishState \/ \E c \in todo : InstallPeer(c))

FCSpec == FCInit /\ [][FCNext]_fcVars /\ Fairness

-------------------------------------------------------------------------------
(* Every variable of the liveness watch keeps its type.                    *)
FCTypeOK ==
    /\ bootAt \in Age /\ began \in Age
    /\ lastPositive \in Age \cup {Never} /\ lastAppliedAt \in Age \cup {Never}
    /\ appliedOnce \in BOOLEAN /\ failClosed \in BOOLEAN
    /\ clients \subseteq Clients /\ saved \subseteq Clients /\ peers \subseteq Clients
    /\ forgotten \subseteq peers /\ failures \in 0 .. MaxFailures
    /\ todo \subseteq Clients /\ dropping \subseteq Clients /\ late \subseteq Clients
    /\ server \in {"up", "gone"} /\ pc \in {"idle", "apply"}
    /\ watch \in {"wait", "tripped", "drop"}
    /\ restarts \in 0 .. MaxRestarts

(* Once the coordination service is gone for good, checkLiveness closes    *)
(* the tunnel to every peer that was not provisioned after it tripped, and *)
(* it stays closed, wherever the push being applied, the watch and the     *)
(* restarts were at that moment.  What stays open besides is a peer whose  *)
(* removal the kernel refused.                                             *)
SilenceClosesTunnel == (server = "gone") ~> [](peers \subseteq late \cup forgotten)

(* While the watch holds the agent fail-closed, and neither it nor the     *)
(* read loop is in the middle of something, the only peers are those       *)
(* HandleProvision added since and those the kernel refused to remove:     *)
(* dropAllPeers misses none, whatever push, acknowledgement, provision or  *)
(* failing removal it overlapped.                                          *)
OnlyLatePeersWhileFailClosed ==
    failClosed /\ watch = "wait" /\ pc = "idle" => peers \subseteq late \cup forgotten

(* While the watch holds the agent fail-closed, and neither it nor the     *)
(* read loop is in the middle of something, no peer is installed           *)
(* ("Dropping all WG peers until a fresh verified state arrives").         *)
NoPeersWhileFailClosed ==
    failClosed /\ watch = "wait" /\ pc = "idle" => peers = {}

(* The same for the peers there were when the watch tripped.  Not so: one  *)
(* whose removal fails is forgotten, and checkLiveness returns at once     *)
(* while the agent is fail-closed.                                         *)
DropRemovesPeers ==
    failClosed /\ watch = "wait" /\ pc = "idle" => peers \subseteq late

(* checkLiveness never trips while the last verified state, applied in     *)
(* this boot or an earlier one, is younger than staleBound.                *)
RecentStateServes == [][failClosed' /\ ~failClosed => ~Recent(lastAppliedAt)]_fcVars

(* The watch removes peers only while there is no usable verified state:   *)
(* "drops all WG peers once there is no usable verified state".            *)
DropsOnlyWithoutState ==
    [][watch = "drop" /\ dropping' # dropping /\ restarts' = restarts => ~Recent(lastAppliedAt)]_fcVars
===============================================================================
