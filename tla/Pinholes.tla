------------------------------- MODULE Pinholes -------------------------------
(***************************************************************************)
(* The IPv6 firewall pinholes and the PCP nonces: RefreshV6Pinholes, the   *)
(* PCP part of the IPv4 mapping and Stop (internal/upnp/client.go), the    *)
(* nonce file (internal/upnp/pinhole_store.go) and the MAP transaction     *)
(* (internal/pcp/client.go), driven by Agent.Run: at start-up the IPv4     *)
(* mapping and the pinholes are two goroutines; at every tick the main     *)
(* loop does the pinholes and then the mapping.                            *)
(*                                                                         *)
(* The gateway is external.  As the code's comments say of it, it answers  *)
(* a MAP request for an address that has a live mapping with another nonce *)
(* by NOT_AUTHORIZED, and it forgets a mapping when its lease runs out.    *)
(* A nonce is random: a new one is one that nobody holds.                  *)
(***************************************************************************)
EXTENDS Naturals

CONSTANTS
    Addrs,       \* IPv6 addresses the host may have
    V4,          \* the key of the IPv4 nonce (the internal IPv4 address)
    Nonces,      \* enough values for a new one always to exist
    Lease,       \* pinholeLeaseSeconds, in ticks
    Setups,      \* the choices for what the gateway offers and whether the agent uses PCP
    MaxMoves,    \* bound: changes of the addresses
    MaxLosses    \* bound: lost calls, failed writes, crashes and stops

ASSUME PinholeAssumption ==
    /\ V4 \notin Addrs
    /\ Lease \in Nat \ {0, 1} /\ MaxLosses \in Nat /\ MaxMoves \in Nat
    /\ Setups \subseteq SUBSET {"pcp", "upnp", "pcpEnabled"}

Keys == Addrs \cup {V4}
None == "none"     \* no nonce
Zero == "zero"     \* the zero nonce of a UPnP pinhole
NoHole == [nonce |-> None, via |-> "none"]
NoFile == [k \in Keys |-> None]
NoTmp == [k \in {} |-> None]
Idle == [addr |-> V4, hole |-> NoHole]

VARIABLES
    setup,
    mapped,      \* gateway: the PCP mapping of a key, ttl 0 when there is none
    pinhole,     \* gateway: what is left of the lease of a UPnP pinhole
    addrs,       \* the host's public IPv6 addresses
    v6pinholes, v4nonce, v4cleanup,  \* Client
    file, tmp,   \* the nonce file and its .tmp; one that cannot be read is NoFile
    unsaved,     \* history: the last write of the file failed
    doing,       \* of "v6" (RefreshV6Pinholes) and "v4" (the PCP part of the mapping)
    unasked, doomed, answer, then,   \* RefreshV6Pinholes; where it goes on after persistNonces
    snap,        \* persistNonces: what each caller will write
    phase,       \* "boot", "run", "stopped" (Stop was called) or "down"
    calm, losses, moves

gateway == <<mapped, pinhole>>
client == <<v6pinholes, v4nonce, v4cleanup>>
disk == <<file, tmp, unsaved>>
refresh == <<unasked, doomed, answer, then>>
phVars == <<setup, gateway, addrs, client, disk, doing, refresh, snap, phase, calm, losses, moves>>

Booting == [v4 |-> "ask", v6 |-> "start"]
Resting == [v4 |-> "idle", v6 |-> "idle"]
Gone == [nonce |-> None, ttl |-> 0]

Fresh ==
    /\ v4cleanup' = FALSE
    /\ unasked' = {} /\ doomed' = {} /\ answer' = Idle /\ then' = "each"
    /\ snap' = [p \in {"v4", "v6"} |-> NoFile]

PHInit ==
    /\ setup \in Setups
    /\ mapped = [k \in Keys |-> Gone] /\ pinhole = [a \in Addrs |-> 0]
    /\ addrs \in SUBSET Addrs
    /\ v6pinholes = [a \in Addrs |-> NoHole] /\ v4nonce = None /\ v4cleanup = FALSE
    /\ file = NoFile /\ tmp = NoTmp /\ unsaved = FALSE
    /\ doing = Booting /\ unasked = {} /\ doomed = {} /\ answer = Idle /\ then = "each"
    /\ snap = [p \in {"v4", "v6"} |-> NoFile]
    /\ phase = "boot" /\ calm = FALSE /\ losses = 0 /\ moves = 0

Trouble == ~calm /\ losses < MaxLosses /\ losses' = losses + 1

(* NewNonce, for k: the nonces of two keys are never compared.             *)
Nonce(k) == IF k = V4 THEN v4nonce ELSE v6pinholes[k].nonce
NewNonce(k) ==
    CHOOSE n \in Nonces : n \notin {Nonce(k), mapped[k].nonce, file[k], snap["v4"][k], snap["v6"][k]}
                                   \cup {tmp[j] : j \in DOMAIN tmp \cap {k}}

-------------------------------------------------------------------------------
(* persistNonces copies the nonces under the mutex; WriteFile writes them  *)
(* to the .tmp file and renames it.  The zero nonce is not written.        *)
Current == [k \in Keys |-> IF Nonce(k) = Zero THEN None ELSE Nonce(k)]

(* Mutated form of WriteTmp: only the caller's family is written.          *)
MutWriteTmpOwnFamily(p) ==
    tmp' = [k \in Keys |-> IF (p = "v4") = (k = V4) THEN snap[p][k] ELSE None]

WriteTmp(p) == tmp' = snap[p]

PersistReturns(p) ==
    /\ doing' = [doing EXCEPT ![p] = IF p = "v6" THEN then ELSE "idle"]
    /\ snap' = [snap EXCEPT ![p] = NoFile]
    /\ v4cleanup' = (v4cleanup \/ p = "v4")

(* A write that fails leaves the .tmp as it was or unreadable, and one     *)
(* whose rename fails removes it, which is only logged.                    *)
PersistFails(p) ==
    /\ doing[p] \in {"tmp", "rename"}
    /\ Trouble
    /\ tmp' \in IF doing[p] = "tmp" THEN {tmp, NoFile} ELSE {NoTmp}
    /\ unsaved' = TRUE
    /\ PersistReturns(p)
    /\ UNCHANGED <<setup, gateway, addrs, v6pinholes, v4nonce, file, refresh, phase, calm, moves>>

Persist(p) ==
    /\ \/ /\ doing[p] = "copy" /\ doing' = [doing EXCEPT ![p] = "tmp"]
          /\ snap' = [snap EXCEPT ![p] = Current]
          /\ UNCHANGED <<disk, v4cleanup>>
       \/ /\ doing[p] = "tmp" /\ doing' = [doing EXCEPT ![p] = "rename"]
          /\ WriteTmp(p)
          /\ UNCHANGED <<file, unsaved, snap, v4cleanup>>
       \/ /\ doing[p] = "rename" /\ PersistReturns(p)
          /\ IF tmp = NoTmp THEN UNCHANGED disk ELSE file' = tmp /\ tmp' = NoTmp /\ unsaved' = FALSE
    /\ UNCHANGED <<setup, gateway, addrs, v6pinholes, v4nonce, refresh, phase, calm, losses, moves>>

-------------------------------------------------------------------------------
(* PCP is on, and for IPv6 there is a default route to a gateway.          *)
PCPUsable == "pcpEnabled" \in setup

(* RequestMapping, at the gateway.  Nothing is sent once ctx is cancelled. *)
Accepts(k, nonce) ==
    /\ PCPUsable /\ "pcp" \in setup /\ phase # "stopped"
    /\ mapped[k].ttl = 0 \/ mapped[k].nonce = nonce

(* The main loop goes on from the pinholes to the mapping.                 *)
Returned == [v4 |-> IF doing["v4"] = "due" THEN "ask" ELSE doing["v4"], v6 |-> "idle"]

(* Mutated form of RefreshV6Pinholes: a pinhole held is not renewed.        *)
MutRefreshV6PinholesOnlyNew ==
    /\ doing["v6"] = "start"
    /\ unasked' = {a \in addrs : v6pinholes[a] = NoHole}
    /\ doing' = IF addrs = {} THEN Returned ELSE [doing EXCEPT !["v6"] = "each"]
    /\ UNCHANGED <<setup, gateway, addrs, client, disk, doomed, answer, then, snap, phase, calm, losses, moves>>

(* RefreshV6Pinholes up to the first request.  The agent calls it only     *)
(* when there are addresses.                                               *)
RefreshV6Pinholes ==
    LET stale == {a \in Addrs \ addrs : v6pinholes[a] # NoHole}
    IN  /\ doing["v6"] = "start"
        /\ IF addrs = {}
           THEN doing' = Returned /\ UNCHANGED <<v6pinholes, unasked, doomed, then>>
           ELSE /\ v6pinholes' = [a \in Addrs |-> IF a \in stale THEN NoHole ELSE v6pinholes[a]]
                /\ doomed' = {[addr |-> a, hole |-> v6pinholes[a]] : a \in stale}
                /\ unasked' = addrs
                /\ doing' = [doing EXCEPT !["v6"] = IF stale = {} THEN "each" ELSE "copy"]
                /\ then' = "remove"
        /\ UNCHANGED <<setup, gateway, addrs, v4nonce, v4cleanup, disk, answer, snap, phase, calm, losses, moves>>

(* What the remove functions of the pinholes in D do at the gateway.       *)
Removed(D) ==
    /\ mapped' = [k \in Keys |->
          IF \E d \in D : d.addr = k /\ d.hole.via = "pcp" /\ d.hole.nonce = mapped[k].nonce
          THEN Gone ELSE mapped[k]]
    /\ pinhole' = [a \in Addrs |->
          IF \E d \in D : d.addr = a /\ d.hole.via = "upnp" THEN 0 ELSE pinhole[a]]

RemoveStale ==
    /\ doing["v6"] = "remove"
    /\ \/ Removed(doomed) /\ UNCHANGED losses
       \/ Trouble /\ \E D \in SUBSET doomed \ {doomed} : Removed(D)
    /\ doing' = [doing EXCEPT !["v6"] = "each"] /\ doomed' = {} /\ then' = "each"
    /\ UNCHANGED <<setup, addrs, client, disk, unasked, answer, snap, phase, calm, moves>>

(* ensureV6Pinhole up to the answer: PCP first, with the nonce held or a   *)
(* new one; then UPnP, unless PCP was tried and a pinhole is held.  Calls  *)
(* in `lost` have their effect, if any, without an answer.                 *)
Ensure(a, nonce, lost) ==
    LET held == v6pinholes[a] # NoHole
        pcp == Accepts(a, nonce)
        upnp == /\ ~pcp \/ "pcp" \in lost
                /\ ~(PCPUsable /\ held)
                /\ "upnp" \in setup /\ phase # "stopped"
    IN  /\ mapped' = IF pcp THEN [mapped EXCEPT ![a] = [nonce |-> nonce, ttl |-> Lease]] ELSE mapped
        /\ pinhole' = IF upnp THEN [pinhole EXCEPT ![a] = Lease] ELSE pinhole
        /\ answer' = [addr |-> a,
                      hole |-> CASE pcp /\ "pcp" \notin lost -> [nonce |-> nonce, via |-> "pcp"]
                                 [] upnp /\ "upnp" \notin lost -> [nonce |-> Zero, via |-> "upnp"]
                                 [] OTHER -> NoHole]

ensureV6Pinhole(a) ==
    /\ doing["v6"] = "each" /\ a \in unasked
    /\ unasked' = unasked \ {a}
    /\ doing' = [doing EXCEPT !["v6"] = "asked"]
    /\ LET nonce == IF v6pinholes[a] = NoHole THEN NewNonce(a) ELSE v6pinholes[a].nonce
       IN  \/ Ensure(a, nonce, {}) /\ UNCHANGED losses
           \/ Trouble /\ \E lost \in SUBSET {"pcp", "upnp"} \ {{}} : Ensure(a, nonce, lost)
    /\ UNCHANGED <<setup, addrs, client, disk, doomed, then, snap, phase, calm, moves>>

(* storePinhole; without an answer the pinhole held, if any, is kept.      *)
storePinhole ==
    /\ doing["v6"] = "asked"
    /\ IF answer.hole = NoHole
       THEN doing' = [doing EXCEPT !["v6"] = "each"] /\ UNCHANGED v6pinholes
       ELSE doing' = [doing EXCEPT !["v6"] = "copy"] /\ v6pinholes' = [v6pinholes EXCEPT ![answer.addr] = answer.hole]
    /\ then' = "each" /\ answer' = Idle
    /\ UNCHANGED <<setup, gateway, addrs, v4nonce, v4cleanup, disk, unasked, doomed, snap, phase, calm, losses, moves>>

RefreshEnds ==
    /\ doing["v6"] = "each" /\ unasked = {}
    /\ doing' = Returned
    /\ UNCHANGED <<setup, gateway, addrs, client, disk, refresh, snap, phase, calm, losses, moves>>

(* tryPCPv4: the nonce is recorded before the request, and saved after it. *)
tryPCPv4 ==
    /\ doing["v4"] = "ask"
    /\ LET nonce == IF v4nonce = None THEN NewNonce(V4) ELSE v4nonce
           ok == Accepts(V4, nonce)
       IN    /\ v4nonce' = IF PCPUsable THEN nonce ELSE v4nonce
             /\ mapped' = IF ok THEN [mapped EXCEPT ![V4] = [nonce |-> nonce, ttl |-> Lease]] ELSE mapped
             /\ \/ UNCHANGED losses /\ doing' = [doing EXCEPT !["v4"] = IF ok THEN "copy" ELSE "idle"]
                \/ ok /\ Trouble /\ doing' = [doing EXCEPT !["v4"] = "idle"]
    /\ UNCHANGED <<setup, pinhole, addrs, v6pinholes, v4cleanup, disk, refresh, snap, phase, calm, moves>>

-------------------------------------------------------------------------------
(* The main loop's tick; a tick's time also passes while the agent is down.*)
TimePasses ==
    /\ mapped' = [k \in Keys |-> IF mapped[k].ttl > 1 THEN [mapped[k] EXCEPT !.ttl = @ - 1] ELSE Gone]
    /\ pinhole' = [a \in Addrs |-> IF pinhole[a] > 0 THEN pinhole[a] - 1 ELSE 0]

PHTick ==
    /\ phase \in {"boot", "run"} /\ doing = Resting
    /\ TimePasses
    /\ phase' = "run" /\ doing' = [v4 |-> "due", v6 |-> "start"]
    /\ UNCHANGED <<setup, addrs, client, disk, refresh, snap, calm, losses, moves>>

StaysDown ==
    /\ phase = "down"
    /\ TimePasses
    /\ UNCHANGED <<setup, addrs, client, disk, doing, refresh, snap, phase, calm, losses, moves>>

(* Stop, from the main loop; the start-up goroutines may still run, and go *)
(* on until the process exits.                                             *)
PHStop ==
    LET holes == {[addr |-> a, hole |-> v6pinholes[a]] : a \in {b \in Addrs : v6pinholes[b] # NoHole}}
                 \cup {[addr |-> V4, hole |-> [nonce |-> v4nonce, via |-> "pcp"]] : x \in {TRUE} \cap {v4cleanup}}
    IN  /\ phase = "boot" \/ (phase = "run" /\ doing = Resting)
        /\ Trouble
        /\ \E D \in SUBSET holes : Removed(D)
        /\ v6pinholes' = [a \in Addrs |-> NoHole] /\ v4cleanup' = FALSE
        /\ phase' = "stopped"
        /\ UNCHANGED <<setup, addrs, v4nonce, disk, doing, refresh, snap, calm, moves>>

(* The process ends, after a Stop or by a crash, at any point.             *)
Ends ==
    /\ v6pinholes' = [a \in Addrs |-> NoHole] /\ v4nonce' = None
    /\ doing' = Resting /\ phase' = "down"
    /\ Fresh
    /\ UNCHANGED <<setup, gateway, addrs, disk, calm, moves>>

Exit == phase = "stopped" /\ Ends /\ UNCHANGED losses
Crash == phase \in {"boot", "run"} /\ Trouble /\ Ends

(* Mutated form of StartUp: the saved nonces are not loaded.               *)
MutStartUpForgets ==
    /\ phase = "down" /\ phase' = "boot"
    /\ doing' = Booting
    /\ UNCHANGED <<setup, gateway, addrs, client, disk, refresh, snap, calm, losses, moves>>

(* loadNonces, then the start-up goroutines.                               *)
StartUp ==
    /\ phase = "down" /\ phase' = "boot"
    /\ v6pinholes' = [a \in Addrs |-> IF file[a] = None THEN NoHole ELSE [nonce |-> file[a], via |-> "pcp"]]
    /\ v4nonce' = file[V4]
    /\ doing' = Booting /\ unsaved' = FALSE
    /\ UNCHANGED <<setup, gateway, addrs, v4cleanup, file, tmp, refresh, snap, calm, losses, moves>>

AddressesChange ==
    /\ ~calm /\ moves < MaxMoves /\ moves' = moves + 1
    /\ addrs' \in SUBSET Addrs \ {addrs}
    /\ UNCHANGED <<setup, gateway, client, disk, doing, refresh, snap, phase, calm, losses>>

CalmDown ==
    /\ ~calm /\ calm' = TRUE
    /\ UNCHANGED <<setup, gateway, addrs, client, disk, doing, refresh, snap, phase, losses, moves>>

Steps6 == RefreshV6Pinholes \/ RemoveStale \/ (\E a \in Addrs : ensureV6Pinhole(a))
          \/ storePinhole \/ RefreshEnds \/ Persist("v6") \/ PersistFails("v6")
Steps4 == tryPCPv4 \/ Persist("v4") \/ PersistFails("v4")

PHNext == Steps6 \/ Steps4 \/ PHTick \/ StaysDown \/ PHStop \/ Exit \/ Crash \/ StartUp
        \/ AddressesChange \/ CalmDown

(* Both goroutines run, calls return, the ticker fires, a stopped process  *)
(* exits and the service manager starts it again.                          *)
PHSpec == PHInit /\ [][PHNext]_phVars /\ WF_phVars(Steps6) /\ WF_phVars(Steps4) /\ WF_phVars(PHTick)
             /\ WF_phVars(Exit) /\ SF_phVars(StartUp)

-------------------------------------------------------------------------------
Open(a) == mapped[a].ttl > 0 \/ pinhole[a] > 0
AtRest == phase \in {"boot", "run"} /\ doing = Resting

(* Types of the client's tables, the files and the gateway's leases.       *)
PHTypeOK ==
    /\ setup \in Setups /\ addrs \subseteq Addrs
    /\ mapped \in [Keys -> [nonce : Nonces \cup {None, Zero}, ttl : 0 .. Lease]]
    /\ pinhole \in [Addrs -> 0 .. Lease]
    /\ v6pinholes \in [Addrs -> [nonce : Nonces \cup {None, Zero}, via : {"none", "pcp", "upnp"}]]
    /\ v4nonce \in Nonces \cup {None} /\ v4cleanup \in BOOLEAN
    /\ file \in [Keys -> Nonces \cup {None}] /\ tmp \in {NoTmp} \cup [Keys -> Nonces \cup {None}]
    /\ unsaved \in BOOLEAN
    /\ phase \in {"boot", "run", "stopped", "down"} /\ calm \in BOOLEAN /\ losses \in 0 .. MaxLosses /\ moves \in 0 .. MaxMoves

(* "A renewal must reuse the original nonce": whenever neither goroutine   *)
(* is at work, a nonce on disk for an address that has one in memory is    *)
(* the same nonce, so a restart never renews with a nonce the gateway has  *)
(* not been given for it.  The exception is an IPv6 address after a write  *)
(* of the file failed, until one succeeds.                                 *)
Outdated == {k \in Keys : file[k] # None /\ Current[k] # None /\ file[k] # Current[k]}

SavedNonceIsCurrent == AtRest => Outdated = {} \/ (unsaved /\ V4 \notin Outdated)

(* The same without the exception.  Not so when the write that should      *)
(* forget an address's nonce fails, and so does the one that should save   *)
(* the nonce it gets when it comes back.                                   *)
SavedNonceAlwaysCurrent == AtRest => Outdated = {}

(* "One IPv6 firewall pinhole per address", and none for an address the    *)
(* host no longer has: from some renewal on exactly the host's addresses   *)
(* are open, although nonces, answers and removals may have been lost, if  *)
(* the gateway speaks PCP or the agent does not.                           *)
PinholesFollowAddresses == calm ~> [](\A a \in Addrs : Open(a) <=> a \in addrs)

(* The file ends up with exactly the nonces in memory, although the two    *)
(* start-up goroutines write it without excluding each other.              *)
NoncesSaved == calm ~> [](AtRest => \A k \in Keys : file[k] = Current[k])

(* "persistNonces atomically writes the PCP nonces": when neither          *)
(* goroutine is at work the file has every nonce.  Not so when the older   *)
(* of two snapshots is written last.                                       *)
EveryNonceSaved == AtRest => \A k \in Keys : Current[k] # None => file[k] = Current[k]
===============================================================================
