------------------------------ MODULE PortMapping ------------------------------
(***************************************************************************)
(* The IPv4 port mapping: the client of internal/upnp (TryMapping at       *)
(* start-up, RenewMapping at every 5-minute tick of Agent.Run, Stop), the  *)
(* owner's alerts with their 24-hour cooldown file, and relayNeeded, which *)
(* decides from the mapping whether the agent has a public inbound path.   *)
(*                                                                         *)
(* The gateway is external.  PCP and NAT-PMP give a leased mapping and may *)
(* give another port than the one asked for; UPnP gives a permanent one on *)
(* the very port or none.  An address is "public" or carrier-NAT'd, all    *)
(* classifyMappedIP tells apart.  The start-up call has a goroutine of its *)
(* own, which its timeouts end long before the first tick, so that one     *)
(* control state pc serves both; a stop while it runs removes nothing, as  *)
(* a crash does, because the mapping is not recorded yet.                  *)
(***************************************************************************)
EXTENDS Naturals

CONSTANTS
    Lease,       \* mappingLeaseSeconds, in ticks
    Cooldown,    \* portMappingAlertCooldown, in ticks
    Patience,    \* the 35 minutes a wrong port is put up with, in ticks
    MaxTrouble   \* bound: changes of the gateway, lost calls, crashes and stops

ASSUME PortMappingAssumption ==
    Lease \in Nat \ {0, 1} /\ Cooldown \in Nat \ {0} /\ Patience \in Nat /\ MaxTrouble \in Nat

Own == "own"       \* ListenPort, which clients connect to
Other == "other"   \* any other port
Ports == {Own, Other}

VARIABLES
    offers,  \* gateway: which of "lease", "permanent" it answers
    taken,   \* gateway: Own is mapped to another host
    wan,     \* gateway: its external address
    leased,  \* gateway: the agent's leased mapping, ttl 0 when there is none
    static,  \* gateway: the agent's permanent mappings
    calm,    \* no more trouble from here
    cleanup, externalPort, lastExternalIP,   \* Client
    renewalFailures, notified,               \* notified: renewalFailNotified
    mismatch, mismatchNotified,              \* ticks since portMismatchSince, plus 1
    file,    \* age of the cooldown file in ticks, plus 1; 0: no file
    told,    \* what the owner was last told about the mapping
    pc, reply, pending, trouble

gateway == <<offers, taken, wan>>
mappings == <<leased, static>>
client == <<cleanup, externalPort, lastExternalIP>>
episode == <<renewalFailures, notified, mismatch, mismatchNotified>>
pmVars == <<gateway, mappings, calm, client, episode, file, told, pc, reply, pending, trouble>>

NoLease == [port |-> Own, ttl |-> 0]
Failed == [kind |-> "none", port |-> Own, ip |-> ""]
Alerts == {"required", "lost", "cgnat"}

Fresh ==
    /\ cleanup' = "none" /\ externalPort' = Own /\ lastExternalIP' = ""
    /\ renewalFailures' = 0 /\ notified' = FALSE /\ mismatch' = 0 /\ mismatchNotified' = FALSE
    /\ reply' = Failed /\ pending' = "none"

PMInit ==
    /\ offers \in SUBSET {"lease", "permanent"} /\ taken \in BOOLEAN /\ wan \in {"public", "cgnat"}
    /\ leased = NoLease /\ static = {} /\ calm = FALSE
    /\ cleanup = "none" /\ externalPort = Own /\ lastExternalIP = ""
    /\ renewalFailures = 0 /\ notified = FALSE /\ mismatch = 0 /\ mismatchNotified = FALSE
    /\ file = 0 /\ told = "nothing"
    /\ pc = "try" /\ reply = Failed /\ pending = "none" /\ trouble = 0

-------------------------------------------------------------------------------
(* The port a gateway gives for a lease.                                   *)
Granted(want) == IF want = Own /\ taken THEN Other ELSE want

(* tryPCPv4 and tryNATPMP find a gateway that answers; the discovery of a  *)
(* UPnP gateway does, and it accepts the very port.                        *)
LeaseOffered == "lease" \in offers
UPnPFound == "permanent" \in offers
UPnPMaps == UPnPFound /\ ~(externalPort = Own /\ taken)

(* Mutated form of addMapping: a lease that is still held is not renewed.  *)
MutAddMappingKeepsLease(lost) ==
    /\ leased' = IF LeaseOffered /\ leased.ttl = 0 THEN [port |-> Granted(externalPort), ttl |-> Lease] ELSE leased
    /\ reply' = IF LeaseOffered THEN [kind |-> "lease", port |-> Granted(externalPort), ip |-> wan] ELSE Failed
    /\ UNCHANGED static

(* addMapping: the leased protocols first, then UPnP.  The answers of one  *)
(* kind may be lost: `lost` has the kinds whose mapping is made without    *)
(* the client hearing of it.                                               *)
addMapping(lost) ==
    LET byUPnP == (~LeaseOffered \/ "lease" \in lost) /\ UPnPMaps
    IN  /\ leased' = IF LeaseOffered THEN [port |-> Granted(externalPort), ttl |-> Lease] ELSE leased
        /\ static' = IF byUPnP THEN static \cup {externalPort} ELSE static
        /\ reply' = CASE LeaseOffered /\ "lease" \notin lost ->
                           [kind |-> "lease", port |-> Granted(externalPort), ip |-> wan]
                      [] byUPnP /\ "permanent" \notin lost ->
                           [kind |-> "permanent", port |-> externalPort, ip |-> wan]
                      [] OTHER -> Failed

(* TryMapping and RenewMapping up to addMapping's return.                  *)
Request(from, to) ==
    /\ pc = from
    /\ pc' = to
    /\ \/ addMapping({}) /\ UNCHANGED trouble
       \/ /\ ~calm /\ trouble < MaxTrouble /\ trouble' = trouble + 1
          /\ \E lost \in SUBSET {"lease", "permanent"} \ {{}} : addMapping(lost)
    /\ UNCHANGED <<gateway, calm, client, episode, file, told, pending>>

(* TryMapping's return in the start-up goroutine.                          *)
TryReturns ==
    /\ pc = "tried"
    /\ IF reply.kind = "none"
       THEN UNCHANGED client
       ELSE cleanup' = reply.kind /\ externalPort' = reply.port /\ lastExternalIP' = reply.ip
    /\ pending' = CASE reply.kind = "none" -> "required"
                    [] reply.kind # "none" /\ reply.port = Own /\ reply.ip # "public" -> "cgnat"
                    [] OTHER -> "none"
    /\ pc' = IF pending' = "none" THEN "idle" ELSE "alert"
    /\ file' = IF pending' = "none" THEN 0 ELSE file
    /\ reply' = Failed
    /\ UNCHANGED <<gateway, mappings, calm, episode, told, trouble>>

(* notifyOwner fails, or the write of a file does.                         *)
SendFails == ~calm /\ trouble < MaxTrouble /\ trouble' = trouble + 1

(* portMappingAlert: suppressed by a recent alert, or sent and recorded.   *)
OnCooldown == file \in 1 .. Cooldown

Alert ==
    /\ pc = "alert"
    /\ \/ /\ OnCooldown
          /\ notified' = (notified \/ pending = "lost")
          /\ pc' = "idle" /\ pending' = "none"
          /\ UNCHANGED <<told, trouble>>
       \/ /\ ~OnCooldown
          /\ told' = pending /\ pc' = "mark"
          /\ UNCHANGED <<notified, pending, trouble>>
       \/ /\ ~OnCooldown /\ SendFails
          /\ pc' = "idle" /\ pending' = "none"
          /\ UNCHANGED <<told, notified>>
    /\ UNCHANGED <<gateway, mappings, calm, client, renewalFailures, mismatch, mismatchNotified, file, reply>>

markPortMappingAlertSent ==
    /\ pc = "mark"
    /\ (file' = 1 /\ UNCHANGED trouble) \/ (UNCHANGED file /\ SendFails)
    /\ notified' = (notified \/ pending = "lost")
    /\ pc' = "idle" /\ pending' = "none"
    /\ UNCHANGED <<gateway, mappings, calm, client, renewalFailures, mismatch, mismatchNotified, told, reply>>

-------------------------------------------------------------------------------
(* RenewMapping's return in Agent.Run, up to the next select.              *)

(* Mutated form of RenewFailed: failures in a row are not counted.         *)
MutRenewFailedOnce ==
    /\ reply.kind = "none"
    /\ renewalFailures' = IF cleanup = "none" THEN renewalFailures ELSE 1
    /\ pending' = IF cleanup # "none" /\ ~notified /\ renewalFailures' = 2 THEN "lost" ELSE "none"
    /\ UNCHANGED <<client, notified, mismatch, mismatchNotified, file, told, trouble>>

(* An alert only where a mapping had worked, on the second failure in a    *)
(* row (renewalFailures counts to 2, all that is tested).                  *)
RenewFailed ==
    /\ reply.kind = "none"
    /\ renewalFailures' = CASE cleanup = "none" -> renewalFailures
                            [] cleanup # "none" /\ renewalFailures < 2 -> renewalFailures + 1
                            [] OTHER -> 2
    /\ pending' = IF cleanup # "none" /\ ~notified /\ renewalFailures' = 2 THEN "lost" ELSE "none"
    /\ UNCHANGED <<client, notified, mismatch, mismatchNotified, file, told, trouble>>

Renewed == cleanup' = reply.kind /\ lastExternalIP' = reply.ip /\ UNCHANGED externalPort

RenewCarrierNAT ==
    /\ reply.kind # "none" /\ reply.ip # "public"
    /\ Renewed
    /\ renewalFailures' = 0 /\ notified' = FALSE
    /\ pending' = "cgnat"
    /\ UNCHANGED <<mismatch, mismatchNotified, file, told, trouble>>

(* Mutated form of RenewHealthy: the cooldown is not cleared.              *)
MutRenewHealthyKeepsCooldown ==
    /\ reply.kind # "none" /\ reply.ip = "public"
    /\ Renewed
    /\ renewalFailures' = 0 /\ notified' = FALSE
    /\ told' = IF notified THEN "restored" ELSE told
    /\ mismatch' = IF reply.port = Own THEN 0 ELSE IF mismatch = 0 THEN 1 ELSE mismatch
    /\ mismatchNotified' = (reply.port # Own /\ (mismatchNotified \/ mismatch > Patience))
    /\ pending' = "none"
    /\ UNCHANGED <<file, trouble>>

(* Mutated form of RenewHealthy: the time of the mismatch starts again.    *)
MutRenewHealthyRestartsClock ==
    /\ reply.kind # "none" /\ reply.ip = "public"
    /\ Renewed
    /\ file' = 0
    /\ renewalFailures' = 0 /\ notified' = FALSE
    /\ told' = IF notified THEN "restored" ELSE told
    /\ mismatch' = IF reply.port = Own THEN 0 ELSE 1
    /\ mismatchNotified' = (reply.port # Own /\ (mismatchNotified \/ mismatch' > Patience))
    /\ pending' = "none"
    /\ UNCHANGED trouble

RenewHealthy ==
    /\ reply.kind # "none" /\ reply.ip = "public"
    /\ Renewed
    /\ file' = 0
    /\ renewalFailures' = 0 /\ notified' = FALSE
    /\ \E sent \in BOOLEAN :
         /\ (sent /\ UNCHANGED trouble) \/ (~sent /\ SendFails)
         /\ told' = IF sent /\ renewalFailures > 0 /\ notified THEN "restored" ELSE told
         /\ mismatchNotified' = (reply.port # Own /\ (mismatchNotified \/ (sent /\ mismatch > Patience)))
    /\ mismatch' = IF reply.port = Own THEN 0 ELSE IF mismatch = 0 THEN 1 ELSE mismatch
    /\ pending' = "none"

RenewReturns ==
    /\ pc = "renewed"
    /\ RenewFailed \/ RenewCarrierNAT \/ RenewHealthy
    /\ pc' = IF pending' = "none" THEN "idle" ELSE "alert"
    /\ reply' = Failed
    /\ UNCHANGED <<gateway, mappings, calm>>

(* The main loop's cases: the tick, and ctx.Done with upnp.Stop.           *)
Older(age, top) == IF age \in 1 .. top THEN age + 1 ELSE age

TimePasses ==
    /\ leased' = IF leased.ttl > 1 THEN [leased EXCEPT !.ttl = @ - 1] ELSE NoLease
    /\ file' = Older(file, Cooldown)
    /\ mismatch' = Older(mismatch, Patience)
    /\ UNCHANGED static

Tick ==
    /\ pc = "idle" /\ pc' = "renew"
    /\ TimePasses
    /\ UNCHANGED <<gateway, calm, client, renewalFailures, notified, mismatchNotified, told, reply, pending, trouble>>

Stop ==
    /\ pc = "idle" /\ pc' = "down"
    /\ ~calm /\ trouble < MaxTrouble /\ trouble' = trouble + 1
    /\ Fresh
    /\ \/ /\ leased' = IF cleanup = "lease" THEN NoLease ELSE leased
          /\ static' = IF cleanup = "permanent" THEN static \ {externalPort} ELSE static
       \/ UNCHANGED mappings
    /\ UNCHANGED <<gateway, calm, file, told>>

Crash ==
    /\ pc # "down" /\ pc' = "down"
    /\ ~calm /\ trouble < MaxTrouble /\ trouble' = trouble + 1
    /\ Fresh
    /\ UNCHANGED <<gateway, mappings, calm, file, told>>

StaysDown ==
    /\ pc = "down"
    /\ TimePasses
    /\ UNCHANGED <<gateway, calm, client, renewalFailures, notified, mismatchNotified, told, pc, reply, pending, trouble>>

StartUp ==
    /\ pc = "down" /\ pc' = "try"
    /\ UNCHANGED <<gateway, mappings, calm, client, episode, file, told, reply, pending, trouble>>

(* The gateway is reconfigured, gets another address, or restarts without  *)
(* its mappings.                                                           *)
GatewayChanges ==
    /\ ~calm /\ trouble < MaxTrouble /\ trouble' = trouble + 1
    /\ offers' \in SUBSET {"lease", "permanent"} /\ wan' \in {"public", "cgnat"}
    /\ UNCHANGED mappings \/ (leased' = NoLease /\ static' = {})
    /\ taken' \in BOOLEAN
    /\ taken' /\ ~taken => Own \notin static' /\ ~(leased'.ttl > 0 /\ leased'.port = Own)
    /\ UNCHANGED <<calm, client, episode, file, told, pc, reply, pending>>

CalmDown ==
    /\ ~calm /\ calm' = TRUE
    /\ UNCHANGED <<gateway, mappings, client, episode, file, told, pc, reply, pending, trouble>>

Steps ==
    \/ Request("try", "tried") \/ TryReturns
    \/ Request("renew", "renewed") \/ RenewReturns
    \/ Alert \/ markPortMappingAlertSent
    \/ Tick

PMNext == Steps \/ Stop \/ Crash \/ StaysDown \/ StartUp \/ GatewayChanges \/ CalmDown

(* Calls return and the ticker fires; time passes while the agent is down. *)
SpecOff == PMInit /\ [][PMNext]_pmVars /\ WF_pmVars(Steps) /\ WF_pmVars(StaysDown)

(* The service manager starts the agent again.                             *)
PMSpec == SpecOff /\ SF_pmVars(StartUp)

-------------------------------------------------------------------------------
(* PublicEndpoint and relayNeeded, without an operator's EndpointIP.       *)
PublicPort == IF cleanup = "none" THEN "0" ELSE externalPort

(* Mutated form of relayNeeded: any mapping will do.                       *)
MutRelayNeededAnyMapping == PublicPort = "0"

relayNeeded == PublicPort = "0" \/ lastExternalIP # "public"

Mapped == leased.ttl > 0 \/ static # {}
CanMap == LeaseOffered \/ UPnPMaps

(* Clients, who connect to Own at the external address, get in.            *)
UsablePath == wan = "public" /\ (Own \in static \/ (leased.ttl > 0 /\ leased.port = Own))

(* Types of the client's fields, the main loop's locals and the files.     *)
TypeOK ==
    /\ offers \subseteq {"lease", "permanent"} /\ taken \in BOOLEAN /\ wan \in {"public", "cgnat"}
    /\ leased \in [port : Ports, ttl : 0 .. Lease] /\ static \subseteq Ports
    /\ calm \in BOOLEAN
    /\ cleanup \in {"none", "lease", "permanent"} /\ externalPort \in Ports
    /\ lastExternalIP \in {"", "public", "cgnat"}
    /\ renewalFailures \in 0 .. 2 /\ notified \in BOOLEAN
    /\ mismatch \in 0 .. Patience + 1 /\ mismatchNotified \in BOOLEAN
    /\ file \in 0 .. Cooldown + 1 /\ told \in Alerts \cup {"nothing", "restored"}
    /\ pc \in {"try", "tried", "renew", "renewed", "alert", "mark", "idle", "down"}
    /\ reply \in [kind : {"none", "lease", "permanent"}, port : Ports, ip : {"", "public", "cgnat"}]
    /\ pending \in Alerts \cup {"none"} /\ trouble \in 0 .. MaxTrouble

(* "Port mapping restored" always answers an alert: while the flag that    *)
(* will send it is up, the last thing the owner heard is an alert, be it   *)
(* of this outage or of an earlier one whose cooldown suppressed this      *)
(* one's.                                                                  *)
RestoredAnswersAlert == notified => told \in Alerts

(* A mapping that worked and is lost for good is reported to the owner,    *)
(* who is left with an alert as the last word, whatever was sent,          *)
(* suppressed or lost before.                                              *)
LossReported ==
    (calm /\ pc = "idle" /\ cleanup # "none" /\ ~CanMap) ~> [](told \in Alerts)

(* A gateway that maps keeps the agent mapped, from the first renewal on:  *)
(* no lease runs out between two renewals.                                 *)
StaysMapped == (calm /\ CanMap) ~> []Mapped

(* With a gateway that maps, the relay is needed behind carrier-grade NAT  *)
(* and not where clients get in, whatever the address and the port were    *)
(* when the mapping was made.  It says nothing of a public address with    *)
(* the wrong port mapped.                                                  *)
RelayFollowsAddress ==
    (calm /\ CanMap) ~> []((wan # "public" => relayNeeded) /\ (UsablePath => ~relayNeeded))

(* A port that stays wrong is reported, although a failing send, a         *)
(* carrier-NAT'd address or a restart may come before.                     *)
MismatchReported ==
    (calm /\ "lease" \in offers /\ taken /\ wan = "public") ~> []mismatchNotified

(* "relayNeeded reports genuine reachability: true when the agent has no   *)
(* usable public inbound path".  Not so when renewals fail for good: the   *)
(* cleanup function of the last mapping stays set.                         *)
LostPathNeedsRelay == (calm /\ ~CanMap) ~> [](Mapped \/ relayNeeded)

(* The same where the gateway maps.  Not so with the wrong port, for which *)
(* the alert says "All tunnel connections are broken": PublicEndpoint has  *)
(* a port and a public address.                                            *)
WrongPortNeedsRelay == (calm /\ CanMap) ~> [](UsablePath \/ relayNeeded)

(* "Lease requested for every mapping/pinhole: short enough to expire soon *)
(* after a crash".  Not so for UPnP, which is asked for a lease of 0.      *)
LeftMappingExpires == <>[](pc = "down") => <>[]~Mapped
===============================================================================
