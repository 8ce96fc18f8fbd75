----------------------------- MODULE Certificates -----------------------------
(***************************************************************************)
(* TLS certificates and the custom domain: EnsureCert and renewAll         *)
(* (internal/certs/manager.go) over the Registry the proxy serves from     *)
(* (registry.go) and the files the Issuer writes (issuer.go), together     *)
(* with reconcileCustomDomain (internal/tunnel/devicestate.go) and the     *)
(* row of internal/store/customdomain.go.                                  *)
(*                                                                         *)
(* Two goroutines: "main" boots the agent and then applies pushes, and     *)
(* "renewer" is the daily renewal.  Both run EnsureCert, without a lock,   *)
(* against the same directories; obtaining a certificate takes minutes,    *)
(* and cert.pem and key.pem are written one after the other.               *)
(*                                                                         *)
(* A certificate is a number that grows with every issuance for its        *)
(* suffix; those up to due[z] are within renewBefore of their expiry.      *)
(***************************************************************************)
EXTENDS Naturals

CONSTANTS
    Apps,            \* AppsHostname
    Zones,           \* parent zones of custom domains
    NoZone,          \* no custom domain
    Faults,          \* which of "issue", "write", "crash" happen
    AlertThreshold,  \* renewalAlertThreshold
    MaxPushes, MaxAges,  \* bounds: pushes received, certificates coming due
    MaxTrouble       \* bound: failed writes and crashes

ASSUME ZoneAssumption == Apps \notin Zones /\ NoZone \notin Zones
ASSUME FaultAssumption == Faults \subseteq {"issue", "write", "crash"}
ASSUME CertBoundAssumption == {AlertThreshold, MaxPushes, MaxAges, MaxTrouble} \subseteq Nat

Suffixes == Zones \cup {Apps}
Actors == {"main", "renewer"}
None == 0

VARIABLES
    dir, cert, key,  \* per suffix: its directory exists; the certificates of cert.pem and key.pem
    row,             \* ParentZone of the stored custom domain
    entry,           \* per suffix: the certificate in the Registry
    issued, due,     \* per suffix: the last one issued, the last one near expiry
    step, at, ser,   \* per actor: its step, the suffix EnsureCert works on, the pair it obtained
    push,            \* the custom domain of the push being applied, or last applied
    work,            \* suffixes renewAll has still to visit
    failures,        \* per suffix: ConsecutiveFailures, kept in a file
    missed,          \* per suffix: failed issuances of renewAll since the last good one
    mishap,          \* history: an issuance or a write failed since the process started
    pushes, ages, trouble

certFiles == <<dir, cert, key>>
alerts == <<failures, missed>>
bounds == <<pushes, ages, trouble>>
tlsVars == <<certFiles, row, entry, issued, due, step, at, ser, push, work, alerts, mishap, bounds>>

Zero == [z \in Suffixes |-> 0]

TLSInit ==
    /\ dir = [z \in Suffixes |-> FALSE] /\ cert = Zero /\ key = Zero
    /\ row = NoZone /\ entry = Zero /\ issued = Zero /\ due = Zero
    /\ step = [main |-> "load", renewer |-> "off"]
    /\ at = [a \in Actors |-> Apps] /\ ser = [a \in Actors |-> None]
    /\ push = NoZone /\ work = {}
    /\ failures = Zero /\ missed = Zero /\ mishap = FALSE
    /\ pushes = 0 /\ ages = 0 /\ trouble = 0

Goto(a, l) == step' = [step EXCEPT ![a] = l]
Bump(n) == IF n < AlertThreshold THEN n + 1 ELSE n
Troubled == trouble < MaxTrouble /\ trouble' = trouble + 1 /\ UNCHANGED <<pushes, ages>>

(* A failed write of the agent's own files.                                *)
WriteFault == "write" \in Faults /\ Troubled /\ mishap' = TRUE

(* certFileIsValidForSuffix looks at cert.pem only; LoadX509KeyPair needs  *)
(* a key that belongs to it.                                               *)
CertFileIsValid(z) == cert[z] > due[z]
PairLoads(z) == cert[z] # None /\ cert[z] = key[z]

-------------------------------------------------------------------------------
(* EnsureCert(z), from "check" to "ok" or "failed".                        *)
Ensure(a, z) == Goto(a, "check") /\ at' = [at EXCEPT ![a] = z]

(* Mutated form of CheckFile: a valid cert.pem settles it, loaded or not.  *)
MutCheckFileTrusts(a) ==
    /\ step[a] = "check"
    /\ LET z == at[a] IN
       /\ dir' = [dir EXCEPT ![z] = TRUE]
       /\ entry' = IF CertFileIsValid(z) /\ PairLoads(z) THEN [entry EXCEPT ![z] = cert[z]] ELSE entry
       /\ Goto(a, IF CertFileIsValid(z) THEN "ok" ELSE "issue")
    /\ UNCHANGED <<cert, key, row, issued, due, at, ser, push, work, alerts, mishap, bounds>>

CheckFile(a) ==
    /\ step[a] = "check"
    /\ LET z == at[a] IN
       /\ dir' = [dir EXCEPT ![z] = TRUE]
       /\ IF CertFileIsValid(z) /\ PairLoads(z)
          THEN entry' = [entry EXCEPT ![z] = cert[z]] /\ Goto(a, "ok")
          ELSE UNCHANGED entry /\ Goto(a, "issue")
    /\ UNCHANGED <<cert, key, row, issued, due, at, ser, push, work, alerts, mishap, bounds>>

(* IssueCert: obtain, write cert.pem, write key.pem.                       *)
Obtain(a) ==
    /\ step[a] = "issue"
    /\ LET z == at[a] IN
       /\ issued' = [issued EXCEPT ![z] = @ + 1]
       /\ ser' = [ser EXCEPT ![a] = issued[z] + 1]
    /\ Goto(a, "write cert")
    /\ UNCHANGED <<certFiles, row, entry, due, at, push, work, alerts, mishap, bounds>>

ObtainFails(a) ==
    /\ "issue" \in Faults
    /\ step[a] = "issue"
    /\ Goto(a, "fall back")
    /\ mishap' = TRUE
    /\ UNCHANGED <<certFiles, row, entry, issued, due, at, ser, push, work, alerts, bounds>>

WriteCert(a) ==
    /\ step[a] = "write cert" /\ dir[at[a]]
    /\ cert' = [cert EXCEPT ![at[a]] = ser[a]]
    /\ Goto(a, "write key")
    /\ UNCHANGED <<dir, key, row, entry, issued, due, at, ser, push, work, alerts, mishap, bounds>>

WriteKey(a) ==
    /\ step[a] = "write key" /\ dir[at[a]]
    /\ key' = [key EXCEPT ![at[a]] = ser[a]]
    /\ Goto(a, "load pair")
    /\ UNCHANGED <<dir, cert, row, entry, issued, due, at, ser, push, work, alerts, mishap, bounds>>

(* A write fails: the disk is full, or RemoveSuffix took the directory.    *)
WriteFails(a) ==
    /\ step[a] \in {"write cert", "write key"}
    /\ \/ ~dir[at[a]] /\ UNCHANGED <<bounds, mishap>>
       \/ WriteFault
    /\ Goto(a, "fall back")
    /\ UNCHANGED <<certFiles, row, entry, issued, due, at, ser, push, work, alerts>>

(* Mutated form of LoadPair: a pair that does not load ends the serving.   *)
MutLoadPairDrops(a, from) ==
    /\ step[a] = from
    /\ LET z == at[a] IN
       /\ entry' = [entry EXCEPT ![z] = IF PairLoads(z) THEN cert[z] ELSE None]
       /\ Goto(a, IF PairLoads(z) THEN "ok" ELSE "failed")
    /\ UNCHANGED <<certFiles, row, issued, due, at, ser, push, work, alerts, mishap, bounds>>

(* LoadSuffix at the end.  After a failed issuance an existing pair that   *)
(* loads counts as success.                                                *)
LoadPair(a, from) ==
    /\ step[a] = from
    /\ LET z == at[a] IN
       /\ IF PairLoads(z)
          THEN entry' = [entry EXCEPT ![z] = cert[z]] /\ Goto(a, "ok")
          ELSE UNCHANGED entry /\ Goto(a, "failed")
       /\ missed' = IF a # "renewer" THEN missed
                    ELSE [missed EXCEPT ![z] = IF from = "fall back" THEN Bump(@) ELSE 0]
    /\ UNCHANGED <<certFiles, row, issued, due, at, ser, push, work, failures, mishap, bounds>>

EnsureCert(a) ==
    \/ CheckFile(a)
    \/ Obtain(a) \/ ObtainFails(a)
    \/ WriteCert(a) \/ WriteKey(a) \/ WriteFails(a)
    \/ LoadPair(a, "load pair") \/ LoadPair(a, "fall back")

Returned(a) == step[a] \in {"ok", "failed"}

-------------------------------------------------------------------------------
(* Boot: Registry.Load takes every directory with a usable pair, then      *)
(* EnsureCert for the apps hostname and for the stored custom domain.      *)
BootLoad ==
    /\ step["main"] = "load"
    /\ entry' = [z \in Suffixes |-> IF PairLoads(z) THEN cert[z] ELSE None]
    /\ Ensure("main", Apps)
    /\ UNCHANGED <<certFiles, row, issued, due, ser, push, work, alerts, mishap, bounds>>

Booting == step["renewer"] = "off"

(* Either result is only logged.                                           *)
BootNext ==
    /\ Booting /\ Returned("main")
    /\ IF at["main"] = Apps /\ row # NoZone
       THEN Ensure("main", row)
       ELSE step' = [main |-> "idle", renewer |-> "wait"] /\ UNCHANGED at
    /\ UNCHANGED <<certFiles, row, entry, issued, due, ser, push, work, alerts, mishap, bounds>>

-------------------------------------------------------------------------------
(* reconcileCustomDomain with a verified envelope for z.                   *)
PushZone(z) ==
    /\ step["main"] = "idle" /\ pushes < MaxPushes
    /\ pushes' = pushes + 1
    /\ push' = z
    /\ IF row = z THEN UNCHANGED <<step, at>> ELSE Ensure("main", z)
    /\ UNCHANGED <<certFiles, row, entry, issued, due, ser, work, alerts, mishap, ages, trouble>>

(* Set, whose failure is logged.                                           *)
SetRow ==
    /\ ~Booting /\ Returned("main")
    /\ \/ row' = (IF step["main"] = "ok" THEN at["main"] ELSE row) /\ UNCHANGED <<mishap, bounds>>
       \/ step["main"] = "ok" /\ WriteFault /\ UNCHANGED row
    /\ Goto("main", "idle")
    /\ UNCHANGED <<certFiles, entry, issued, due, at, ser, push, work, alerts>>

(* A push without a custom domain: RemoveSuffix for the stored zone, then  *)
(* Clear.  A failure of either is logged; RemoveSuffix then leaves some of *)
(* the files, Clear the row.                                               *)
PushNone ==
    /\ step["main"] = "idle" /\ pushes < MaxPushes
    /\ pushes' = pushes + 1
    /\ push' = NoZone
    /\ IF row = NoZone THEN UNCHANGED <<step, entry>>
       ELSE entry' = [entry EXCEPT ![row] = None] /\ Goto("main", "remove files")
    /\ UNCHANGED <<certFiles, row, issued, due, at, ser, work, alerts, mishap, ages, trouble>>

RemoveFiles ==
    /\ step["main"] = "remove files"
    /\ \/ /\ dir' = [dir EXCEPT ![row] = FALSE]
          /\ cert' = [cert EXCEPT ![row] = None] /\ key' = [key EXCEPT ![row] = None]
          /\ UNCHANGED <<mishap, bounds>>
       \/ /\ WriteFault /\ UNCHANGED dir
          /\ cert' \in {cert, [cert EXCEPT ![row] = None]}
          /\ key' \in {key, [key EXCEPT ![row] = None]}
    /\ Goto("main", "clear row")
    /\ UNCHANGED <<row, entry, issued, due, at, ser, push, work, alerts>>

ClearRow ==
    /\ step["main"] = "clear row"
    /\ \/ row' = NoZone /\ UNCHANGED <<mishap, bounds>>
       \/ WriteFault /\ UNCHANGED row
    /\ Goto("main", "idle")
    /\ UNCHANGED <<certFiles, entry, issued, due, at, ser, push, work, alerts>>

Main == BootLoad \/ BootNext \/ SetRow \/ RemoveFiles \/ ClearRow

-------------------------------------------------------------------------------
(* renewAll: the suffixes in the Registry, one after the other.            *)
RenewTick ==
    /\ step["renewer"] = "wait"
    /\ work' = {z \in Suffixes : entry[z] # None}
    /\ Goto("renewer", "next")
    /\ UNCHANGED <<certFiles, row, entry, issued, due, at, ser, push, alerts, mishap, bounds>>

(* Mutated form of RenewNext: a file near its expiry is not yet due.       *)
MutRenewNextNeverDue(z) ==
    /\ step["renewer"] = "next" /\ z \in work
    /\ dir' = [dir EXCEPT ![z] = TRUE]
    /\ work' = work \ {z}
    /\ UNCHANGED <<cert, key, row, entry, issued, due, step, at, ser, push, alerts, mishap, bounds>>

RenewNext(z) ==
    /\ step["renewer"] = "next" /\ z \in work
    /\ dir' = [dir EXCEPT ![z] = TRUE]
    /\ work' = work \ {z}
    /\ IF CertFileIsValid(z) THEN UNCHANGED <<step, at>> ELSE Ensure("renewer", z)
    /\ UNCHANGED <<cert, key, row, entry, issued, due, ser, push, alerts, mishap, bounds>>

(* recordRenewalSuccess or recordRenewalFailure.                           *)
RenewRecord ==
    /\ Returned("renewer")
    /\ LET z == at["renewer"]
       IN  failures' = [failures EXCEPT ![z] = IF step["renewer"] = "ok" THEN 0 ELSE Bump(@)]
    /\ Goto("renewer", "next")
    /\ UNCHANGED <<certFiles, row, entry, issued, due, at, ser, push, work, missed, mishap, bounds>>

RenewDone ==
    /\ step["renewer"] = "next" /\ work = {}
    /\ Goto("renewer", "wait")
    /\ UNCHANGED <<certFiles, row, entry, issued, due, at, ser, push, work, alerts, mishap, bounds>>

Renew == RenewTick \/ (\E z \in work : RenewNext(z)) \/ RenewRecord \/ RenewDone

-------------------------------------------------------------------------------
(* The last certificate issued for z, and those before it, come within     *)
(* renewBefore of their expiry.                                            *)
ComesDue(z) ==
    /\ ages < MaxAges /\ due[z] < issued[z]
    /\ ages' = ages + 1
    /\ due' = [due EXCEPT ![z] = issued[z]]
    /\ UNCHANGED <<certFiles, row, entry, issued, step, at, ser, push, work, alerts, mishap, pushes, trouble>>

TLSCrash ==
    /\ "crash" \in Faults /\ Troubled
    /\ entry' = Zero
    /\ step' = [main |-> "load", renewer |-> "off"]
    /\ at' = [a \in Actors |-> Apps] /\ ser' = [a \in Actors |-> None]
    /\ work' = {} /\ mishap' = FALSE
    /\ UNCHANGED <<certFiles, row, issued, due, push, alerts>>

TLSNext ==
    \/ \E a \in Actors : EnsureCert(a)
    \/ Main \/ Renew
    \/ \E z \in Zones : PushZone(z)
    \/ PushNone
    \/ \E z \in Suffixes : ComesDue(z)
    \/ TLSCrash

(* Both goroutines go on, the ticker fires, and an issuance that is tried  *)
(* again and again succeeds in the end; pushes are not owed.               *)
Fairness ==
    /\ WF_tlsVars(Main) /\ WF_tlsVars(Renew)
    /\ \A z \in Suffixes : SF_tlsVars(RenewNext(z))
    /\ \A a \in Actors : WF_tlsVars(EnsureCert(a))
    /\ \A a \in Actors, z \in Suffixes : SF_tlsVars(at[a] = z /\ Obtain(a))

TLSSpec == TLSInit /\ [][TLSNext]_tlsVars /\ Fairness

-------------------------------------------------------------------------------
EnsureSteps == {"check", "issue", "write cert", "write key", "load pair", "fall back", "ok", "failed"}

(* Every variable keeps its type; an existing file has its directory, and  *)
(* nothing is served that was not issued.                                  *)
TypeOK ==
    /\ dir \in [Suffixes -> BOOLEAN]
    /\ {cert, key, entry, issued, due, failures, missed} \subseteq [Suffixes -> Nat]
    /\ \A z \in Suffixes : /\ {cert[z], key[z], entry[z], due[z]} \subseteq 0 .. issued[z]
                           /\ cert[z] # None \/ key[z] # None => dir[z]
                           /\ {failures[z], missed[z]} \subseteq 0 .. AlertThreshold
    /\ row \in Zones \cup {NoZone} /\ push \in Zones \cup {NoZone}
    /\ step["main"] \in EnsureSteps \cup {"load", "idle", "remove files", "clear row"}
    /\ step["renewer"] \in EnsureSteps \cup {"off", "wait", "next"}
    /\ at \in [Actors -> Suffixes] /\ ser \in [Actors -> Nat]
    /\ work \subseteq Suffixes /\ mishap \in BOOLEAN

(* A served certificate that comes near its expiry is replaced             *)
(* ("EnsureCert per suffix near expiry").                                  *)
RenewalHappens ==
    \A z \in Suffixes : (entry[z] # None /\ entry[z] <= due[z]) ~> (entry[z] = None \/ entry[z] > due[z])

(* renewAll stops renewing a served suffix for one reason only: a valid    *)
(* cert.pem was left beside a key.pem of another issuance, by a failed     *)
(* write or by two EnsureCerts that overlapped.  Failed issuances          *)
(* ("absorbs a few failed ACME attempts"), crashes and restarts between    *)
(* any two steps do not stop it.                                           *)
Mismatched(z) == CertFileIsValid(z) /\ ~PairLoads(z)

RenewalStopsOnlyMismatched ==
    \A z \in Suffixes : <>[](entry[z] # None /\ entry[z] <= due[z]) => <>[]Mismatched(z)

(* An agent whose issuances and writes have worked since it started serves *)
(* the apps hostname and the stored custom domain, wherever earlier lives  *)
(* ended and whatever failed in them: between cert.pem and key.pem,        *)
(* between EnsureCert and Set, inside RemoveSuffix.                        *)
BootServes ==
    step["main"] = "idle" /\ ~mishap => entry[Apps] # None /\ (row # NoZone => entry[row] # None)

(* What is served is replaced only by a pair that loads, and goes only     *)
(* with a push that clears it or with the process, whatever issuance,      *)
(* write or directory fails meanwhile ("Stale TLS beats 502s").            *)
StaleBeatsNothing ==
    [][\A z \in Suffixes : entry'[z] # entry[z] =>
         \/ entry'[z] = cert[z] /\ PairLoads(z)
         \/ z = row /\ push' = NoZone /\ step["main"] = "idle"
         \/ step'["main"] = "load"]_tlsVars

(* The apps hostname gets its certificate ("obtained and renewed           *)
(* automatically") once the issuer works.                                  *)
AppsServed == <>(entry[Apps] # None)

(* A push without a custom domain, once applied, leaves no custom zone in  *)
(* the Registry ("stopped serving").                                       *)
ClearedNotServed ==
    step["main"] = "idle" /\ push = NoZone => \A z \in Zones : entry[z] = None

(* A push of the stored zone finds it served ("idempotent: already serving *)
(* this zone"): not so when the row outlived its certificate.              *)
RepeatedZoneServed ==
    [][pushes' # pushes /\ row # NoZone /\ push' = row => entry[row] # None]_tlsVars

(* AlertThreshold failed renewals in a row are counted as such, so that    *)
(* the owner is told.                                                      *)
FailuresCounted ==
    step["renewer"] = "wait" =>
        \A z \in Suffixes : missed[z] = AlertThreshold => failures[z] = AlertThreshold
===============================================================================
