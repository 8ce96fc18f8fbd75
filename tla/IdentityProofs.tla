---------------------------- MODULE IdentityProofs ----------------------------
(***************************************************************************)
(* Proofs about what the agent proves itself with and whom it obeys:       *)
(* Pairing, for any owners and any number of pairings; Certificates, for   *)
(* any zones and any number of pushes, renewals, failures and crashes.     *)
(***************************************************************************)
EXTENDS Pairing, Certificates, TLAPS

-------------------------------------------------------------------------------
(* Pairing and the pinned owner.                                           *)

OnePairingAtATime == \A E \in EventSets : E \cap {"both", "flag"} = {}

Results == Result \cup {NoResult}
Keys == Owners \cup {NoKey}
Lists == [admins : SUBSET Keys, gen : Nat]

Types ==
    /\ events \in SUBSET Events /\ events \cap {"both", "flag"} = {}
    /\ ownerOf \in [Devices -> Keys] /\ generation \in [Devices -> Nat]
    /\ pairingFile \in Results /\ pinFile \in Keys /\ aclFile \in Lists
    /\ cfg \in Results /\ pin \in Keys /\ acl \in Lists
    /\ cmdResult \in Results /\ cmdPin \in Keys /\ cmdAcl \in Lists
    /\ pc \in {"down", "pair", "pin", "owner", "save", "start", "run", "unpin", "forget"}
    /\ command \in {"off", "pair", "pin", "owner", "save"}
    /\ interrupted \in BOOLEAN /\ cutShort \in BOOLEAN
    (* a running agent excludes the command *)
    /\ pc # "down" => command = "off"
    (* past the approval there is a device *)
    /\ pc \notin {"down", "pair"} => Paired(cfg)
    /\ command \notin {"off", "pair"} => Paired(cmdResult)

LEMMA NoResultUnpaired == NoResult \in Results /\ ~Paired(NoResult) /\ EmptyList \in Lists
BY DEF NoResult, Results, Paired, EmptyList, Lists

LEMMA ResultPaired ==
    ASSUME NEW r \in Results
    PROVE  /\ Paired(r) <=> r \in Result
           /\ Paired(r) => r.dev \in Devices
BY PairingAssumption DEF Results, Result, NoResult, Paired, Devices

LEMMA UpsertOwnerAdmins ==
    ASSUME NEW list \in Lists, NEW o \in Keys
    PROVE  UpsertOwner(list, o) \in Lists /\ UpsertOwner(list, o).admins = list.admins \cup {o}
BY DEF UpsertOwner, Lists

(* An approval gives a device that had no owner one, and changes nothing   *)
(* for the others.                                                         *)
LEMMA ApprovalAdds ==
    ASSUME Types, NEW o \in Owners, NEW r \in Result, Approval(o, r)
    PROVE  /\ ownerOf' \in [Devices -> Keys] /\ generation' \in [Devices -> Nat]
           /\ r \in Results /\ Paired(r)
           /\ ownerOf[r.dev] = NoKey /\ ownerOf'[r.dev] = o
           /\ \A d \in Devices : ownerOf[d] # NoKey => ownerOf'[d] = ownerOf[d]
<1>1. r.dev \in Devices /\ r \in Results /\ Paired(r)
  BY ResultPaired DEF Result, Results, Paired, Devices
<1>2. ownerOf[r.dev] = NoKey
  BY <1>1 DEF Approval, Approved
<1>. QED
  BY <1>1, <1>2 DEF Approval, Types, Keys

LEMMA TypesInductive ==
    ASSUME Types, [Next]_vars
    PROVE  Types'
<1>. USE NoResultUnpaired DEF Types, files, service, agent, cmd, history, Down, CommandOff, Save, MayFail
<1>1. CASE Boot
  BY <1>1 DEF Boot, Configured
<1>2. ASSUME NEW o \in Owners, NEW r \in Result, Pair(o, r) PROVE Types'
  BY <1>2, ApprovalAdds DEF Pair
<1>3. CASE PairFails
  BY <1>3 DEF PairFails, Keys
<1>4. CASE SetPin
  <2>1. ownerOf[cfg.dev] \in Keys
    BY <1>4, ResultPaired DEF SetPin
  <2>. QED
    BY <1>4, <2>1 DEF SetPin, Keys
<1>5. CASE InstallOwner
  BY <1>5, UpsertOwnerAdmins DEF InstallOwner
<1>6. CASE SavePairing
  BY <1>6 DEF SavePairing
<1>7. CASE Start
  BY <1>7 DEF Start, Keys
<1>8. ASSUME NEW admins \in {{}} \cup {{o} : o \in Owners}, HandleDeviceState(admins) PROVE Types'
  <2>1. generation[cfg.dev] \in Nat
    BY <1>8, ResultPaired DEF HandleDeviceState
  <2>2. acl' \in Lists /\ aclFile' \in Lists
    BY <1>8, <2>1 DEF HandleDeviceState, Lists, Keys
  <2>. QED
    BY <1>8, <2>2 DEF HandleDeviceState
<1>9. CASE HandleUnpaired
  BY <1>9 DEF HandleUnpaired
<1>10. CASE ClearPin
  BY <1>10, Zenon DEF ClearPin, Keys
<1>11. CASE Forget
  BY <1>11, Zenon DEF Forget, Keys
<1>12. CASE Crash
  BY <1>12 DEF Crash, Keys
<1>13. CASE CommandLoads
  BY <1>13 DEF CommandLoads
<1>14. ASSUME NEW o \in Owners, NEW r \in Result, CommandPairs(o, r) PROVE Types'
  BY <1>14, ApprovalAdds DEF CommandPairs
<1>15. CASE CommandPins
  <2>1. ownerOf[cmdResult.dev] \in Keys
    BY <1>15, ResultPaired DEF CommandPins
  <2>. QED
    BY <1>15, <2>1 DEF CommandPins, Keys
<1>16. CASE CommandInstallsOwner
  BY <1>16, UpsertOwnerAdmins DEF CommandInstallsOwner
<1>17. CASE CommandSaves
  BY <1>17 DEF CommandSaves, Keys
<1>18. CASE CommandEnds
  BY <1>18 DEF CommandEnds, Keys
<1>19. CASE NewState
  BY <1>19, ResultPaired DEF NewState
<1>20. CASE CalmDown
  BY <1>20 DEF CalmDown
<1>21. CASE UNCHANGED vars
  BY <1>21 DEF vars
<1>. QED
  BY <1>1, <1>2, <1>3, <1>4, <1>5, <1>6, <1>7, <1>8, <1>9, <1>10, <1>11, <1>12, <1>13, <1>14, <1>15,
     <1>16, <1>17, <1>18, <1>19, <1>20, <1>21, Zenon
     DEF Next, Steps, Pairs, Handles, Command
-------------------------------------------------------------------------------
(* A device named anywhere has an owner.                                   *)
Known(r) == Paired(r) => ownerOf[r.dev] # NoKey

(* What the pin rests on: pairing is entered without a pairing.json, the   *)
(* pin is on disk before the device is saved, and the command, which looks *)
(* for a pin only at its start, decides with the pin of the disk.  A pin   *)
(* without a pairing.json is that of a pairing under way or a leftover.    *)
Pins ==
    /\ Known(pairingFile) /\ Known(cfg) /\ Known(cmdResult)
    /\ pc \in {"pair", "pin", "owner", "save"} => ~Paired(pairingFile)
    /\ pc \in {"owner", "save"} => pinFile = ownerOf[cfg.dev]
    /\ command \in {"pair", "pin"} => cmdPin = pinFile
    /\ command \in {"owner", "save"} =>
          pinFile = ownerOf[cmdResult.dev] /\ (~Paired(pairingFile) \/ interrupted)
    /\ pc = "forget" => pinFile = NoKey \/ interrupted
    /\ pinFile # NoKey /\ ~Paired(pairingFile) /\ pc \notin {"owner", "save"} /\ command \notin {"owner", "save"} =>
          interrupted \/ cutShort
    /\ PairedIsPinned

LEMMA PinsInductive ==
    ASSUME Types, Pins, [Next]_vars
    PROVE  Pins'
<1>. USE NoResultUnpaired DEF Types, Pins, Known, PairedIsPinned, files, service, agent, cmd, history, Down, CommandOff
<1>1. CASE Boot
  BY <1>1 DEF Boot, Configured
<1>2. ASSUME NEW o \in Owners, NEW r \in Result, Pair(o, r) PROVE Pins'
  <2>1. ownerOf'[r.dev] # NoKey
    BY <1>2, ApprovalAdds, PairingAssumption DEF Pair
  <2>2. \A q \in Results : Paired(q) /\ ownerOf[q.dev] # NoKey => ownerOf'[q.dev] = ownerOf[q.dev]
    BY <1>2, ApprovalAdds, ResultPaired DEF Pair
  <2>. QED
    BY <1>2, <2>1, <2>2 DEF Pair
<1>3. CASE PairFails
  BY <1>3 DEF PairFails
<1>4. CASE SetPin
  BY <1>4 DEF SetPin
<1>5. CASE InstallOwner
  BY <1>5 DEF InstallOwner
<1>6. CASE SavePairing
  BY <1>6 DEF SavePairing
<1>7. CASE Start
  BY <1>7 DEF Start
<1>8. ASSUME NEW admins \in {{}} \cup {{o} : o \in Owners}, HandleDeviceState(admins) PROVE Pins'
  BY <1>8 DEF HandleDeviceState
<1>9. CASE HandleUnpaired
  BY <1>9 DEF HandleUnpaired
<1>10. CASE ClearPin
  BY <1>10 DEF ClearPin
<1>11. CASE Forget
  BY <1>11 DEF Forget
<1>12. CASE Crash
  BY <1>12, Zenon DEF Crash
<1>13. CASE CommandLoads
  BY <1>13 DEF CommandLoads, MayFail
<1>14. ASSUME NEW o \in Owners, NEW r \in Result, CommandPairs(o, r) PROVE Pins'
  <2>1. ownerOf'[r.dev] # NoKey
    BY <1>14, ApprovalAdds, PairingAssumption DEF CommandPairs
  <2>2. \A q \in Results : Paired(q) /\ ownerOf[q.dev] # NoKey => ownerOf'[q.dev] = ownerOf[q.dev]
    BY <1>14, ApprovalAdds, ResultPaired DEF CommandPairs
  <2>. QED
    BY <1>14, <2>1, <2>2 DEF CommandPairs
<1>15. CASE CommandPins
  BY <1>15 DEF CommandPins
<1>16. CASE CommandInstallsOwner
  BY <1>16 DEF CommandInstallsOwner
<1>17. CASE CommandSaves
  BY <1>17 DEF CommandSaves
<1>18. CASE CommandEnds
  BY <1>18 DEF CommandEnds
<1>19. CASE NewState \/ CalmDown
  BY <1>19 DEF NewState, CalmDown
<1>20. CASE UNCHANGED vars
  BY <1>20 DEF vars
<1>. QED
  BY <1>1, <1>2, <1>3, <1>4, <1>5, <1>6, <1>7, <1>8, <1>9, <1>10, <1>11, <1>12, <1>13, <1>14, <1>15,
     <1>16, <1>17, <1>18, <1>19, <1>20, Zenon
     DEF Next, Steps, Pairs, Handles, Command

(* Types and Pins hold in every state.                                     *)
THEOREM PairingInvariance == OnePairingAtATime /\ Spec => [](Types /\ Pins)
<1>1. OnePairingAtATime /\ Init => Types
  <2>. SUFFICES ASSUME OnePairingAtATime, Init PROVE Types
    OBVIOUS
  <2>1. events \in SUBSET Events /\ events \cap {"both", "flag"} = {}
    BY PairingAssumption DEF Init, OnePairingAtATime
  <2>2. ownerOf \in [Devices -> Keys] /\ generation \in [Devices -> Nat]
    BY DEF Init, Keys
  <2>. QED
    BY <2>1, <2>2, NoResultUnpaired, Zenon DEF Init, Types, Keys
<1>2. Init => Pins
  BY NoResultUnpaired DEF Init, Pins, Known, PairedIsPinned
<1>. QED
  BY <1>1, <1>2, TypesInductive, PinsInductive, PTL DEF Spec

(* pairing.json never names a device without admin_pin.json holding the    *)
(* key of that device's owner, at whatever step Agent.Run or the command   *)
(* dies, unless HandleUnpaired is at work or was cut short.                *)
THEOREM PairedAgentsArePinned == OnePairingAtATime /\ Spec => []PairedIsPinned
<1>1. Pins => PairedIsPinned
  BY DEF Pins
<1>. QED
  BY <1>1, PairingInvariance, PTL

(* "Rotation only happens via an explicit re-pair" (store.go): a pinned    *)
(* key is removed only by HandleUnpaired, and Agent.Run replaces one that  *)
(* was not removed only when a pairing or an unpairing before was cut      *)
(* short; without failures and crashes the pin is one-shot.                *)
THEOREM PinRotatesOnlyByPairing == OnePairingAtATime /\ Spec => PinReplacedOnlyUnpaired
<1>1. ASSUME Types, Pins, [Next]_vars, pinFile # NoKey, pinFile' # pinFile
      PROVE  IF pinFile' = NoKey THEN pc = "unpin"
             ELSE pc = "pin" /\ ~Paired(pairingFile) /\ (interrupted \/ cutShort)
  <2>1. SetPin \/ ClearPin \/ CommandPins
    BY <1>1, Zenon DEF Next, Steps, Pairs, Handles, Command, Boot, Pair, PairFails, InstallOwner, SavePairing, Start,
       HandleDeviceState, HandleUnpaired, Forget, Crash, CommandLoads, CommandPairs, CommandInstallsOwner,
       CommandSaves, CommandEnds, NewState, CalmDown, vars, files
  <2>2. CASE SetPin
    BY <1>1, <2>2 DEF SetPin, Pins, Known, Types
  <2>3. CASE ClearPin
    BY <1>1, <2>3 DEF ClearPin
  <2>4. CASE CommandPins
    BY <1>1, <2>4 DEF CommandPins, Pins
  <2>. QED
    BY <2>1, <2>2, <2>3, <2>4
<1>2. Types /\ Pins /\ [Next]_vars =>
        [pinFile # NoKey /\ pinFile' # pinFile =>
           IF pinFile' = NoKey THEN pc = "unpin"
           ELSE pc = "pin" /\ ~Paired(pairingFile) /\ (interrupted \/ cutShort)]_vars
  BY <1>1
<1>. QED
  BY <1>2, PairingInvariance, PTL DEF Spec, PinReplacedOnlyUnpaired

-------------------------------------------------------------------------------
(* What the owner entries rest on, where the command is not used, writes   *)
(* succeed and every approval names the owner member: a new pairing begins *)
(* with an empty list, saves it with its own owner before it saves the     *)
(* device, and the pin in memory is then that of the disk.                 *)
OwnerEntries ==
    /\ command = "off"
    /\ pc \in {"down", "pair", "pin", "owner"} => acl = EmptyList
    /\ pc \in {"pin", "owner"} => cfg.named
    /\ pc = "owner" => pin = pinFile
    /\ pc = "save" => aclFile.admins \subseteq {pinFile}
    /\ pc \in {"start", "run", "unpin"} => Paired(pairingFile)
    /\ pc \in {"run", "unpin"} => pin = pinFile
    /\ Paired(pairingFile) /\ pinFile # NoKey => aclFile.admins \subseteq {pinFile}
    /\ AdminsArePinned

LEMMA OwnerEntriesInductive ==
    ASSUME Types, Pins, ~ListMayLag, OwnerEntries, [Next]_vars
    PROVE  OwnerEntries'
<1>1. ~MayFail("write") /\ ~MayFail("pair") /\ ~MayFail("both") /\ "anonymous" \notin events
  BY DEF ListMayLag, MayFail
<1>. USE NoResultUnpaired DEF Types, OwnerEntries, AdminsArePinned, files, service, agent, cmd, history, Down
<1>2. EmptyList.admins = {}
  BY DEF EmptyList
<1>3. CASE Boot
  BY <1>3 DEF Boot, Configured
<1>4. ASSUME NEW o \in Owners, NEW r \in Result, Pair(o, r) PROVE OwnerEntries'
  BY <1>1, <1>4 DEF Pair, Approval
<1>5. CASE PairFails
  BY <1>2, <1>5 DEF PairFails
<1>6. CASE SetPin
  BY <1>1, <1>6 DEF SetPin, Pins
<1>7. CASE InstallOwner
  BY <1>1, <1>2, <1>7, UpsertOwnerAdmins DEF InstallOwner, Save, Pins
<1>8. CASE SavePairing
  BY <1>1, <1>8 DEF SavePairing
<1>9. CASE Start
  BY <1>2, <1>9 DEF Start
<1>10. ASSUME NEW admins \in {{}} \cup {{o} : o \in Owners}, HandleDeviceState(admins) PROVE OwnerEntries'
  <2>1. CASE generation[cfg.dev] >= acl.gen /\ pin = ownerOf[cfg.dev]
    <3>1. acl'.admins = admins /\ aclFile' = acl' /\ admins \subseteq {pin}
      BY <1>1, <1>10, <2>1 DEF HandleDeviceState, Save
    <3>. QED
      BY <1>10, <3>1 DEF HandleDeviceState
  <2>2. CASE ~(generation[cfg.dev] >= acl.gen /\ pin = ownerOf[cfg.dev])
    BY <1>10, <2>2 DEF HandleDeviceState
  <2>. QED
    BY <2>1, <2>2
<1>11. CASE HandleUnpaired
  BY <1>11 DEF HandleUnpaired
<1>12. CASE ClearPin
  BY <1>12 DEF ClearPin
<1>13. CASE Forget
  BY <1>2, <1>13 DEF Forget
<1>14. CASE Crash
  BY <1>2, <1>14 DEF Crash
<1>15. CASE Command
  BY <1>1, <1>15, Zenon DEF Command, CommandLoads, CommandPairs, CommandPins, CommandInstallsOwner, CommandSaves, CommandEnds
<1>16. CASE NewState \/ CalmDown
  BY <1>16 DEF NewState, CalmDown
<1>17. CASE UNCHANGED vars
  BY <1>17 DEF vars
<1>. QED
  BY <1>3, <1>4, <1>5, <1>6, <1>7, <1>8, <1>9, <1>10, <1>11, <1>12, <1>13, <1>14, <1>15, <1>16, <1>17, Zenon
     DEF Next, Steps, Pairs, Handles

(* "The admin entry's identityKey is invariantly equal to the pinned admin *)
(* pubkey" (requireAdmin, handler.go): an agent that runs has no owner     *)
(* entry but the pinned key's, after any number of unpairings, pairings by *)
(* other owners and crashes in them, where writes succeed and the service  *)
(* names the owner.                                                        *)
THEOREM OwnerEntriesArePinned == OnePairingAtATime /\ Spec => []AdminsArePinnedIfSaved
<1>1. Init => OwnerEntries
  BY NoResultUnpaired DEF Init, OwnerEntries, AdminsArePinned
<1>2. Types /\ Pins /\ (ListMayLag \/ OwnerEntries) /\ [Next]_vars => (ListMayLag \/ OwnerEntries)'
  <2>1. [Next]_vars => events' = events
    BY Zenon DEF Next, Steps, Pairs, Handles, Command, Boot, Pair, PairFails, SetPin, InstallOwner, SavePairing, Start,
       HandleDeviceState, HandleUnpaired, ClearPin, Forget, Crash, CommandLoads, CommandPairs, CommandPins,
       CommandInstallsOwner, CommandSaves, CommandEnds, NewState, CalmDown, vars
  <2>. QED
    BY <2>1, OwnerEntriesInductive DEF ListMayLag
<1>3. ListMayLag \/ OwnerEntries => AdminsArePinnedIfSaved
  BY DEF OwnerEntries, AdminsArePinnedIfSaved
<1>. QED
  BY <1>1, <1>2, <1>3, PairingInvariance, PTL DEF Spec

-------------------------------------------------------------------------------
(* The certificates.                                                       *)

Tables ==
    /\ dir \in [Suffixes -> BOOLEAN]
    /\ cert \in [Suffixes -> Nat] /\ key \in [Suffixes -> Nat]
    /\ entry \in [Suffixes -> Nat] /\ issued \in [Suffixes -> Nat]
    /\ ser \in [Actors -> Nat]

Places ==
    /\ row \in Zones \cup {NoZone} /\ at \in [Actors -> Suffixes] /\ work \subseteq Suffixes
    /\ DOMAIN step = Actors
    /\ step["main"] \in EnsureSteps \cup {"load", "idle", "remove files", "clear row"}
    /\ step["renewer"] \in EnsureSteps \cup {"off", "wait", "next"}

CertTypes == Tables /\ Places

(* While the agent boots nobody else writes, so that EnsureCert either     *)
(* finds a pair that loads or leaves the one it obtained.                  *)
BootEnsures ==
    /\ step["main"] \in (EnsureSteps \ {"fall back", "failed"}) \cup {"load"}
    /\ step["main"] \in {"issue", "write cert", "write key", "load pair"} => dir[at["main"]]
    /\ step["main"] \in {"write cert", "write key", "load pair"} => ser["main"] # None
    /\ step["main"] \in {"write key", "load pair"} => cert[at["main"]] = ser["main"]
    /\ step["main"] = "load pair" => key[at["main"]] = ser["main"]
    /\ at["main"] # Apps => at["main"] = row /\ entry[Apps] # None

(* The stored custom domain is served, except between RemoveSuffix and     *)
(* Clear.                                                                  *)
RowServed == row = NoZone \/ step["main"] \in {"remove files", "clear row"} \/ entry[row] # None

CertsServe ==
    /\ step["main"] = "load" => entry = Zero /\ Booting /\ at["main"] = Apps
    /\ step["main"] = "ok" => entry[at["main"]] # None
    /\ Booting => step["main"] \in EnsureSteps \cup {"load"}
    /\ ~Booting /\ step["main"] \in EnsureSteps => at["main"] \in Zones
    /\ ~mishap /\ Booting => BootEnsures
    /\ ~mishap /\ ~Booting => entry[Apps] # None /\ RowServed

CertInv == CertTypes /\ CertsServe

LEMMA PcOf ==
    ASSUME DOMAIN step = Actors, NEW a \in Actors, NEW l, Goto(a, l)
    PROVE  DOMAIN step' = Actors /\ step'[a] = l /\ \A b \in Actors : b # a => step'[b] = step[b]
BY DEF Goto

(* A step of EnsureCert within EnsureCert.                                 *)
LEMMA PcEnsures ==
    ASSUME Places, UNCHANGED <<row, at, work>>, NEW a \in Actors, NEW l, Goto(a, l),
           step[a] \in EnsureSteps, l \in EnsureSteps
    PROVE  Places' /\ step'[a] = l /\ \A b \in Actors : b # a => step'[b] = step[b]
BY PcOf, Zenon DEF Places, Actors

(* EnsureCert keeps the types, stays within its steps, and puts only pairs *)
(* that load in the Registry.                                              *)
LEMMA EnsureTypes ==
    ASSUME CertTypes, NEW a \in Actors, EnsureCert(a)
    PROVE  /\ CertTypes' /\ UNCHANGED <<row, at>>
           /\ step[a] \in EnsureSteps /\ step'[a] \in EnsureSteps
           /\ \A b \in Actors : b # a => step'[b] = step[b]
           /\ \A z \in Suffixes : entry'[z] # entry[z] => entry'[z] = cert[z] /\ PairLoads(z)
           /\ step'[a] = "ok" => entry'[at[a]] # None
<1>. DEFINE z == at[a]
<1>0. z \in Suffixes /\ Tables /\ Places /\ issued[z] \in Nat /\ cert[z] \in Nat /\ ser[a] \in Nat
  BY Zenon DEF CertTypes, Tables, Places
<1>1. ASSUME dir' \in [Suffixes -> BOOLEAN], UNCHANGED <<cert, key, issued, row, at, ser, work>>, step[a] \in EnsureSteps,
             \/ entry' = [entry EXCEPT ![z] = cert[z]] /\ PairLoads(z) /\ Goto(a, "ok")
             \/ entry' = entry /\ \E l \in EnsureSteps \ {"ok"} : Goto(a, l)
      PROVE
           /\ CertTypes' /\ UNCHANGED <<row, at>>
           /\ step[a] \in EnsureSteps /\ step'[a] \in EnsureSteps
           /\ \A b \in Actors : b # a => step'[b] = step[b]
           /\ \A y \in Suffixes : entry'[y] # entry[y] => entry'[y] = cert[y] /\ PairLoads(y)
           /\ step'[a] = "ok" => entry'[at[a]] # None
  <2>1. CASE entry' = [entry EXCEPT ![z] = cert[z]] /\ PairLoads(z) /\ Goto(a, "ok")
    <3>1. "ok" \in EnsureSteps
      BY DEF EnsureSteps
    <3>2. Places' /\ step'[a] = "ok" /\ \A b \in Actors : b # a => step'[b] = step[b]
      BY <1>0, <1>1, <2>1, <3>1, PcEnsures
    <3>3. Tables' /\ entry'[z] = cert[z] /\ \A y \in Suffixes : y # z => entry'[y] = entry[y]
      BY <1>0, <1>1, <2>1 DEF Tables
    <3>. QED
      BY <1>0, <1>1, <2>1, <3>1, <3>2, <3>3 DEF CertTypes, PairLoads
  <2>2. ASSUME entry' = entry, NEW l \in EnsureSteps \ {"ok"}, Goto(a, l) PROVE
           /\ CertTypes' /\ UNCHANGED <<row, at>>
           /\ step[a] \in EnsureSteps /\ step'[a] \in EnsureSteps
           /\ \A b \in Actors : b # a => step'[b] = step[b]
           /\ \A y \in Suffixes : entry'[y] # entry[y] => entry'[y] = cert[y] /\ PairLoads(y)
           /\ step'[a] = "ok" => entry'[at[a]] # None
    <3>1. Places' /\ step'[a] = l /\ \A b \in Actors : b # a => step'[b] = step[b]
      BY <1>0, <1>1, <2>2, PcEnsures
    <3>2. Tables'
      BY <1>0, <1>1, <2>2 DEF Tables
    <3>. QED
      BY <1>1, <2>2, <3>1, <3>2 DEF CertTypes
  <2>. QED
    BY <1>1, <2>1, <2>2
<1>2. ASSUME Tables', UNCHANGED <<entry, row, at, work>>, step[a] \in EnsureSteps, NEW l \in EnsureSteps \ {"ok"}, Goto(a, l)
      PROVE
           /\ CertTypes' /\ UNCHANGED <<row, at>>
           /\ step[a] \in EnsureSteps /\ step'[a] \in EnsureSteps
           /\ \A b \in Actors : b # a => step'[b] = step[b]
           /\ \A y \in Suffixes : entry'[y] # entry[y] => entry'[y] = cert[y] /\ PairLoads(y)
           /\ step'[a] = "ok" => entry'[at[a]] # None
  <2>1. Places' /\ step'[a] = l /\ \A b \in Actors : b # a => step'[b] = step[b]
    BY <1>0, <1>2, PcEnsures
  <2>. QED
    BY <1>2, <2>1 DEF CertTypes
<1>s. {"check", "issue", "write cert", "write key", "load pair", "fall back", "failed"} \subseteq EnsureSteps \ {"ok"}
  BY DEF EnsureSteps
<1>3. CASE CheckFile(a)
  <2>1. /\ UNCHANGED <<cert, key, row, issued, at, ser, work>> /\ dir' = [dir EXCEPT ![z] = TRUE] /\ step[a] = "check"
        /\ \/ entry' = [entry EXCEPT ![z] = cert[z]] /\ PairLoads(z) /\ Goto(a, "ok")
           \/ entry' = entry /\ Goto(a, "issue")
    BY <1>3 DEF CheckFile
  <2>2. dir' \in [Suffixes -> BOOLEAN]
    BY <1>0, <2>1 DEF Tables
  <2>. QED
    BY <1>1, <1>s, <2>1, <2>2, Zenon
<1>4. CASE LoadPair(a, "load pair") \/ LoadPair(a, "fall back")
  <2>1. /\ UNCHANGED <<dir, cert, key, row, issued, at, ser, work>> /\ step[a] \in {"load pair", "fall back"}
        /\ \/ entry' = [entry EXCEPT ![z] = cert[z]] /\ PairLoads(z) /\ Goto(a, "ok")
           \/ entry' = entry /\ Goto(a, "failed")
    BY <1>4, Zenon DEF LoadPair, certFiles
  <2>. QED
    BY <1>0, <1>1, <1>s, <2>1, Zenon DEF Tables
<1>5. CASE Obtain(a)
  <2>1. /\ UNCHANGED <<dir, cert, key, row, entry, at, work>> /\ Goto(a, "write cert") /\ step[a] = "issue"
        /\ issued' = [issued EXCEPT ![z] = issued[z] + 1] /\ ser' = [ser EXCEPT ![a] = issued[z] + 1]
    BY <1>5, Zenon DEF Obtain, certFiles
  <2>2. issued[z] + 1 \in Nat
    BY <1>0
  <2>3. Tables'
    BY <1>0, <2>1, <2>2, Zenon DEF Tables
  <2>. QED
    BY <1>2, <1>s, <2>1, <2>3, Zenon
<1>6. CASE ObtainFails(a) \/ WriteFails(a)
  <2>1. /\ UNCHANGED <<dir, cert, key, row, entry, issued, at, ser, work>> /\ Goto(a, "fall back")
        /\ step[a] \in {"issue", "write cert", "write key"}
    BY <1>6, Zenon DEF ObtainFails, WriteFails, certFiles
  <2>. QED
    BY <1>0, <1>2, <1>s, <2>1, Zenon DEF Tables
<1>7. CASE WriteCert(a) \/ WriteKey(a)
  <2>1. /\ UNCHANGED <<dir, row, entry, issued, at, ser, work>>
        /\ step[a] \in {"write cert", "write key"} /\ (Goto(a, "write key") \/ Goto(a, "load pair"))
        /\ cert' \in {cert, [cert EXCEPT ![z] = ser[a]]} /\ key' \in {key, [key EXCEPT ![z] = ser[a]]}
    BY <1>7, Zenon DEF WriteCert, WriteKey
  <2>2. Tables'
    BY <1>0, <2>1, Zenon DEF Tables
  <2>. QED
    BY <1>2, <1>s, <2>1, <2>2, Zenon
<1>. QED
  BY <1>3, <1>4, <1>5, <1>6, <1>7, Zenon DEF EnsureCert

(* A mishap is remembered until the process ends.                          *)
LEMMA EnsureMishap ==
    ASSUME NEW a \in Actors, EnsureCert(a), mishap
    PROVE  mishap'
BY Zenon DEF EnsureCert, CheckFile, Obtain, ObtainFails, WriteCert, WriteKey, WriteFails, WriteFault, LoadPair

(* Boot's EnsureCert.                                                      *)
LEMMA BootStep ==
    ASSUME CertTypes, Booting, BootEnsures, EnsureCert("main"), ~mishap', step["main"] = "ok" => entry[at["main"]] # None
    PROVE  BootEnsures'
<1>. USE DEF EnsureSteps
<1>. DEFINE z == at["main"]
<1>0. z \in Suffixes /\ DOMAIN step = Actors /\ "main" \in Actors /\ Apps \in Suffixes
  BY Zenon DEF CertTypes, Tables, Places, Actors, Suffixes
<1>1. UNCHANGED <<row, at>> /\ (entry[Apps] # None => entry'[Apps] # None)
  BY <1>0, EnsureTypes, Zenon DEF PairLoads
<1>2. CASE CheckFile("main")
  <2>1. UNCHANGED <<cert, key, ser>> /\ dir' = [dir EXCEPT ![z] = TRUE] /\ step'["main"] \in {"ok", "issue"}
    BY <1>0, <1>2, PcOf DEF CheckFile
  <2>. QED
    BY <1>0, <1>1, <2>1, Zenon DEF CertTypes, Tables, BootEnsures
<1>3. CASE Obtain("main")
  <2>1. UNCHANGED <<dir, cert, key>> /\ ser'["main"] = issued[z] + 1 /\ step'["main"] = "write cert" /\ step["main"] = "issue"
    BY <1>0, <1>3, PcOf, Zenon DEF Obtain, certFiles, CertTypes, Tables
  <2>2. ser'["main"] # None
    <3>1. issued[z] \in Nat
      BY <1>0 DEF CertTypes, Tables
    <3>2. \A n \in Nat : n + 1 # None
      BY DEF None
    <3>. QED
      BY <2>1, <3>1, <3>2, Zenon
  <2>. QED
    BY <1>0, <1>1, <2>1, <2>2, Zenon DEF BootEnsures
<1>4. CASE ObtainFails("main") \/ WriteFails("main")
  BY <1>4, Zenon DEF ObtainFails, WriteFails, WriteFault, BootEnsures
<1>5. CASE WriteCert("main")
  <2>1. UNCHANGED <<dir, key, ser>> /\ cert'[z] = ser["main"] /\ step'["main"] = "write key" /\ step["main"] = "write cert"
    BY <1>0, <1>5, PcOf, Zenon DEF WriteCert, CertTypes, Tables
  <2>. QED
    BY <1>0, <1>1, <2>1, Zenon DEF BootEnsures
<1>6. CASE WriteKey("main")
  <2>1. UNCHANGED <<dir, cert, ser>> /\ key'[z] = ser["main"] /\ step'["main"] = "load pair" /\ step["main"] = "write key"
    BY <1>0, <1>6, PcOf, Zenon DEF WriteKey, CertTypes, Tables
  <2>. QED
    BY <1>0, <1>1, <2>1, Zenon DEF BootEnsures
<1>7. CASE LoadPair("main", "load pair") \/ LoadPair("main", "fall back")
  <2>1. step["main"] = "load pair" /\ PairLoads(z)
    BY <1>7, Zenon DEF LoadPair, BootEnsures, PairLoads
  <2>2. step'["main"] = "ok"
    BY <1>0, <1>7, <2>1, PcOf, Zenon DEF LoadPair
  <2>. QED
    BY <1>1, <2>2, Zenon DEF BootEnsures
<1>. QED
  BY <1>2, <1>3, <1>4, <1>5, <1>6, <1>7, Zenon DEF EnsureCert

(* What EnsureCert leaves alone of Serving.                                *)
LEMMA EnsureServes ==
    ASSUME CertTypes, CertsServe, NEW a \in Actors, EnsureCert(a)
    PROVE  CertsServe'
<1>1. /\ CertTypes' /\ UNCHANGED <<row, at>>
      /\ step[a] \in EnsureSteps /\ step'[a] \in EnsureSteps
      /\ \A b \in Actors : b # a => step'[b] = step[b]
      /\ step'[a] = "ok" => entry'[at[a]] # None
  BY EnsureTypes
<1>2. \A z \in Suffixes : entry[z] # None => entry'[z] # None
  BY EnsureTypes DEF PairLoads
<1>3. Booting' <=> Booting
  BY <1>1, Zenon DEF Booting, Actors, EnsureSteps
<1>4. Booting => a = "main"
  BY <1>1, Zenon DEF Booting, Actors, EnsureSteps
<1>5. mishap => mishap'
  BY EnsureMishap
<1>6. "main" \in Actors /\ at["main"] \in Suffixes /\ Apps \in Suffixes /\ (row # NoZone => row \in Suffixes)
  BY Zenon DEF CertTypes, Places, Actors, Suffixes
<1>7. step["main"] \in EnsureSteps <=> step'["main"] \in EnsureSteps
  BY <1>1, <1>6
<1>8. step["main"] # "load" /\ step'["main"] = "load" => FALSE
  BY <1>1, <1>6, Zenon DEF EnsureSteps
<1>9. step'["main"] = "load" => entry' = entry
  BY <1>1, <1>3, <1>4, <1>6, <1>8, Zenon DEF CertsServe, EnsureSteps
<1>10. step'["main"] = "ok" => entry'[at'["main"]] # None
  BY <1>1, <1>2, <1>6 DEF CertsServe
<1>11. ~mishap' /\ Booting' => BootEnsures'
  BY <1>3, <1>4, <1>5, BootStep DEF CertsServe
<1>12. ~mishap' /\ ~Booting' => entry'[Apps] # None /\ RowServed'
  <2>1. step["main"] \in {"remove files", "clear row"} => step'["main"] = step["main"]
    BY <1>1, <1>6, Zenon DEF EnsureSteps
  <2>. QED
    BY <1>1, <1>2, <1>3, <1>5, <1>6, <2>1, Zenon DEF CertsServe, RowServed
<1>13. step'["main"] = "load" => entry' = Zero /\ Booting' /\ at'["main"] = Apps
  BY <1>1, <1>3, <1>8, <1>9 DEF CertsServe
<1>14. Booting' => step'["main"] \in EnsureSteps \cup {"load"}
  BY <1>1, <1>3, <1>4
<1>15. ~Booting' /\ step'["main"] \in EnsureSteps => at'["main"] \in Zones
  BY <1>1, <1>3, <1>7 DEF CertsServe
<1>. QED
  BY <1>10, <1>11, <1>12, <1>13, <1>14, <1>15 DEF CertsServe

(* Boot, and the pushes.                                                   *)
LEMMA MainServes ==
    ASSUME CertTypes, CertsServe, Main \/ (\E z \in Zones : PushZone(z)) \/ PushNone
    PROVE  CertTypes' /\ CertsServe'
<1>0. /\ Tables /\ Places /\ "main" \in Actors /\ "renewer" \in Actors
      /\ Zones \subseteq Suffixes /\ Apps \in Suffixes /\ Apps \notin Zones /\ NoZone \notin Zones
      /\ DOMAIN step = Actors /\ at \in [Actors -> Suffixes]
  BY ZoneAssumption, Zenon DEF CertTypes, Places, Actors, Suffixes
<1>1. CASE BootLoad
  <2>1. /\ UNCHANGED <<dir, cert, key, row, issued, ser, work, mishap>> /\ step["main"] = "load"
        /\ entry' = [z \in Suffixes |-> IF PairLoads(z) THEN cert[z] ELSE None]
        /\ Goto("main", "check") /\ at' = [at EXCEPT !["main"] = Apps]
    BY <1>1 DEF BootLoad, Ensure, certFiles
  <2>2. step'["main"] = "check" /\ step'["renewer"] = step["renewer"] /\ DOMAIN step' = Actors /\ at'["main"] = Apps
    BY <1>0, <2>1, PcOf
  <2>3. Tables'
    BY <1>0, <2>1 DEF Tables, None
  <2>4. Places'
    BY <1>0, <2>1, <2>2, Zenon DEF Places, EnsureSteps
  <2>5. Booting'
    BY <2>1, <2>2 DEF CertsServe, Booting
  <2>. QED
    BY <2>2, <2>3, <2>4, <2>5, Zenon DEF CertTypes, CertsServe, BootEnsures, EnsureSteps
<1>2. CASE BootNext
  <2>1. /\ UNCHANGED <<dir, cert, key, row, entry, issued, ser, work, mishap>> /\ Booting /\ Returned("main")
        /\ \/ at["main"] = Apps /\ row # NoZone /\ Goto("main", "check") /\ at' = [at EXCEPT !["main"] = row]
           \/ /\ ~(at["main"] = Apps /\ row # NoZone)
              /\ step' = [main |-> "idle", renewer |-> "wait"] /\ at' = at
    BY <1>2 DEF BootNext, Ensure, certFiles
  <2>2. ~mishap => step["main"] = "ok"
    BY <2>1, Zenon DEF CertsServe, BootEnsures, Returned
  <2>3. ~mishap => entry[Apps] # None
    BY <2>1, <2>2, Zenon DEF CertsServe, BootEnsures
  <2>t. Tables'
    BY <1>0, <2>1 DEF Tables
  <2>4. CASE at["main"] = Apps /\ row # NoZone /\ Goto("main", "check") /\ at' = [at EXCEPT !["main"] = row]
    <3>1. step'["main"] = "check" /\ step'["renewer"] = step["renewer"] /\ DOMAIN step' = Actors /\ at'["main"] = row
      BY <1>0, <2>4, PcOf
    <3>2. Places'
      BY <1>0, <2>1, <2>4, <3>1, Zenon DEF Places, EnsureSteps
    <3>3. Booting'
      BY <2>1, <3>1 DEF Booting
    <3>. QED
      BY <2>1, <2>3, <2>t, <3>1, <3>2, <3>3, Zenon DEF CertTypes, CertsServe, BootEnsures, EnsureSteps
  <2>5. CASE /\ ~(at["main"] = Apps /\ row # NoZone)
             /\ step' = [main |-> "idle", renewer |-> "wait"] /\ at' = at
    <3>1. step'["main"] = "idle" /\ step'["renewer"] = "wait" /\ DOMAIN step' = Actors
      BY <2>5 DEF Actors
    <3>2. Places'
      BY <1>0, <2>1, <2>5, <3>1, Zenon DEF Places
    <3>3. ~mishap /\ row # NoZone => entry[row] # None
      BY <2>1, <2>2, <2>5, Zenon DEF CertsServe, BootEnsures
    <3>4. ~Booting'
      BY <3>1 DEF Booting
    <3>. QED
      BY <2>1, <2>3, <2>t, <3>1, <3>2, <3>3, <3>4, Zenon DEF CertTypes, CertsServe, RowServed, EnsureSteps
  <2>. QED
    BY <2>1, <2>4, <2>5
<1>3. ASSUME NEW z \in Zones, PushZone(z) PROVE CertTypes' /\ CertsServe'
  <2>1. /\ UNCHANGED <<dir, cert, key, row, entry, issued, ser, work, mishap>> /\ step["main"] = "idle"
        /\ \/ UNCHANGED <<step, at>>
           \/ Goto("main", "check") /\ at' = [at EXCEPT !["main"] = z]
    BY <1>3 DEF PushZone, Ensure, certFiles
  <2>2. ~Booting
    BY <2>1 DEF CertsServe, EnsureSteps
  <2>3. /\ step'["main"] \in {"idle", "check"} /\ step'["renewer"] = step["renewer"] /\ DOMAIN step' = Actors
        /\ step'["main"] = "check" => at'["main"] = z
    BY <1>0, <2>1, PcOf
  <2>4. Tables' /\ Places'
    BY <1>0, <2>1, <2>3, Zenon DEF Tables, Places, EnsureSteps
  <2>5. ~Booting'
    BY <2>2, <2>3 DEF Booting
  <2>. QED
    BY <2>1, <2>2, <2>3, <2>4, <2>5, Zenon DEF CertTypes, CertsServe, RowServed, EnsureSteps
<1>4. CASE SetRow
  <2>1. /\ UNCHANGED <<dir, cert, key, entry, issued, at, ser, work>> /\ ~Booting /\ Returned("main")
        /\ Goto("main", "idle")
        /\ \/ row' = (IF step["main"] = "ok" THEN at["main"] ELSE row) /\ (mishap => mishap')
           \/ row' = row /\ mishap'
    BY <1>4 DEF SetRow, WriteFault, certFiles
  <2>2. step'["main"] = "idle" /\ step'["renewer"] = step["renewer"] /\ DOMAIN step' = Actors
    BY <1>0, <2>1, PcOf
  <2>3. at["main"] \in Zones
    BY <2>1, Zenon DEF CertsServe, Returned, EnsureSteps
  <2>4. Tables' /\ Places' /\ ~Booting'
    BY <1>0, <2>1, <2>2, <2>3, Zenon DEF Tables, Places, Booting
  <2>5. ASSUME ~mishap' PROVE ~mishap /\ RowServed'
    <3>1. ~mishap /\ row' = (IF step["main"] = "ok" THEN at["main"] ELSE row)
      BY <2>1, <2>5, Zenon
    <3>. QED
      BY <2>1, <3>1, Zenon DEF CertsServe, RowServed, Returned
  <2>. QED
    BY <2>1, <2>2, <2>4, <2>5, Zenon DEF CertTypes, CertsServe, EnsureSteps
<1>5. CASE PushNone
  <2>1. /\ UNCHANGED <<dir, cert, key, row, issued, at, ser, work, mishap>> /\ step["main"] = "idle"
        /\ \/ UNCHANGED <<step, entry>>
           \/ row # NoZone /\ entry' = [entry EXCEPT ![row] = None] /\ Goto("main", "remove files")
    BY <1>5, Zenon DEF PushNone, certFiles
  <2>2. ~Booting
    BY <2>1, Zenon DEF CertsServe, EnsureSteps
  <2>3. step'["main"] \in {"idle", "remove files"} /\ step'["renewer"] = step["renewer"] /\ DOMAIN step' = Actors
    BY <1>0, <2>1, PcOf, Zenon
  <2>a. None \in Nat /\ entry \in [Suffixes -> Nat]
    BY <1>0 DEF None, Tables
  <2>b. entry' \in [Suffixes -> Nat]
    BY <2>1, <2>a, Zenon
  <2>c. Tables'
    BY <1>0, <2>1, <2>b, Zenon DEF Tables
  <2>4. Places' /\ ~Booting'
    BY <1>0, <2>1, <2>2, <2>3, Zenon DEF Places, Booting
  <2>5. entry'[Apps] = entry[Apps] /\ (step'["main"] = "idle" => entry' = entry)
    <3>1. CASE UNCHANGED <<step, entry>>
      BY <3>1
    <3>2. CASE row # NoZone /\ entry' = [entry EXCEPT ![row] = None] /\ Goto("main", "remove files")
      <4>1. row \in Zones /\ step'["main"] = "remove files"
        BY <1>0, <3>2, PcOf, Zenon DEF Places
      <4>. QED
        BY <1>0, <2>a, <3>2, <4>1, Zenon
    <3>. QED
      BY <2>1, <3>1, <3>2, Zenon
  <2>. QED
    BY <2>c, <2>1, <2>2, <2>3, <2>4, <2>5, Zenon DEF CertTypes, CertsServe, RowServed, EnsureSteps
<1>6. CASE RemoveFiles \/ ClearRow
  <2>1. /\ UNCHANGED <<entry, issued, at, ser, work>> /\ step["main"] \in {"remove files", "clear row"}
        /\ mishap => mishap'
        /\ \/ row' = row /\ Goto("main", "clear row")
           \/ row' = NoZone /\ Goto("main", "idle")
           \/ row' = row /\ Goto("main", "idle") /\ mishap'
        /\ dir' \in {dir, [dir EXCEPT ![row] = FALSE]}
        /\ cert' \in {cert, [cert EXCEPT ![row] = None]} /\ key' \in {key, [key EXCEPT ![row] = None]}
    <3>1. CASE RemoveFiles
      <4>1. /\ UNCHANGED <<row, entry, issued, at, ser, work>> /\ step["main"] = "remove files" /\ Goto("main", "clear row")
            /\ dir' \in {dir, [dir EXCEPT ![row] = FALSE]}
            /\ cert' \in {cert, [cert EXCEPT ![row] = None]} /\ key' \in {key, [key EXCEPT ![row] = None]}
        BY <3>1 DEF RemoveFiles
      <4>2. mishap => mishap'
        BY <3>1, Zenon DEF RemoveFiles, WriteFault
      <4>. QED
        BY <4>1, <4>2, Zenon
    <3>2. CASE ClearRow
      <4>1. /\ UNCHANGED <<dir, cert, key, entry, issued, at, ser, work>> /\ step["main"] = "clear row" /\ Goto("main", "idle")
        BY <3>2 DEF ClearRow, certFiles
      <4>2. (row' = NoZone /\ UNCHANGED mishap) \/ (row' = row /\ WriteFault)
        BY <3>2 DEF ClearRow
      <4>3. CASE row' = NoZone /\ UNCHANGED mishap
        BY <4>1, <4>3, Zenon
      <4>4. CASE row' = row /\ WriteFault
        BY <4>1, <4>4, Zenon DEF WriteFault
      <4>. QED
        BY <4>2, <4>3, <4>4
    <3>. QED
      BY <1>6, <3>1, <3>2
  <2>2. ~Booting
    BY <2>1, Zenon DEF CertsServe, EnsureSteps
  <2>3. /\ step'["renewer"] = step["renewer"] /\ DOMAIN step' = Actors
        /\ \/ row' = row /\ step'["main"] = "clear row"
           \/ step'["main"] = "idle" /\ (row' = NoZone \/ (row' = row /\ mishap'))
    BY <1>0, <2>1, PcOf, Zenon
  <2>a. None \in Nat /\ cert \in [Suffixes -> Nat] /\ key \in [Suffixes -> Nat] /\ dir \in [Suffixes -> BOOLEAN]
    BY <1>0 DEF None, Tables
  <2>b. cert' \in [Suffixes -> Nat] /\ key' \in [Suffixes -> Nat]
    BY <2>1, <2>a, Zenon
  <2>c. dir' \in [Suffixes -> BOOLEAN]
    BY <2>1, <2>a, Zenon
  <2>4. Tables'
    BY <1>0, <2>1, <2>b, <2>c, Zenon DEF Tables
  <2>5. Places' /\ ~Booting'
    BY <1>0, <2>1, <2>2, <2>3, Zenon DEF Places, Booting
  <2>6. ASSUME ~mishap' PROVE entry'[Apps] # None /\ RowServed'
    <3>1. ~mishap /\ (row' = NoZone \/ (row' = row /\ step'["main"] = "clear row"))
      BY <2>1, <2>3, <2>6, Zenon
    <3>. QED
      BY <2>1, <2>2, <3>1, Zenon DEF CertsServe, RowServed
  <2>. QED
    BY <2>2, <2>3, <2>4, <2>5, <2>6, Zenon DEF CertTypes, CertsServe, EnsureSteps
<1>. QED
  BY <1>1, <1>2, <1>3, <1>4, <1>5, <1>6 DEF Main

(* The steps of renewAll outside EnsureCert.                               *)
LEMMA RenewServes ==
    ASSUME CertTypes, CertsServe, Renew
    PROVE  CertTypes' /\ CertsServe'
<1>0. Tables /\ Places /\ "renewer" \in Actors /\ "main" \in Actors /\ DOMAIN step = Actors
  BY Zenon DEF CertTypes, Places, Actors
<1>1. /\ UNCHANGED <<cert, key, row, entry, issued, ser, mishap>> /\ step["renewer"] \notin {"off"}
      /\ dir' = dir \/ \E z \in Suffixes : dir' = [dir EXCEPT ![z] = TRUE]
      /\ at' = at \/ \E z \in Suffixes : at' = [at EXCEPT !["renewer"] = z]
      /\ work' \subseteq Suffixes
      /\ step' = step \/ \E l \in EnsureSteps \cup {"wait", "next"} : Goto("renewer", l)
  BY <1>0, Zenon DEF Renew, RenewTick, RenewNext, RenewRecord, RenewDone, Returned, Ensure, certFiles, Places, EnsureSteps
<1>2. step'["main"] = step["main"] /\ DOMAIN step' = Actors /\ step'["renewer"] \in EnsureSteps \cup {"wait", "next"}
  BY <1>0, <1>1, PcOf, Zenon DEF Places
<1>3. at'["main"] = at["main"] /\ at' \in [Actors -> Suffixes]
  BY <1>0, <1>1, Zenon DEF Places
<1>4. Tables' /\ Places'
  BY <1>0, <1>1, <1>2, <1>3, Zenon DEF Tables, Places
<1>5. ~Booting /\ ~Booting'
  BY <1>1, <1>2, Zenon DEF Booting, EnsureSteps
<1>. QED
  BY <1>1, <1>2, <1>3, <1>4, <1>5, Zenon DEF CertTypes, CertsServe, RowServed

LEMMA ServingInductive ==
    ASSUME CertInv, [TLSNext]_tlsVars
    PROVE  CertInv'
<1>. USE DEF CertInv
<1>1. ASSUME NEW a \in Actors, EnsureCert(a) PROVE CertInv'
  BY <1>1, EnsureTypes, EnsureServes
<1>2. CASE Main \/ (\E z \in Zones : PushZone(z)) \/ PushNone
  BY <1>2, MainServes
<1>3. CASE Renew
  BY <1>3, RenewServes
<1>4. CASE (\E z \in Suffixes : ComesDue(z)) \/ UNCHANGED tlsVars
  <2>1. UNCHANGED <<dir, cert, key, row, entry, issued, step, at, ser, work, mishap>>
    BY <1>4 DEF ComesDue, tlsVars, certFiles
  <2>. QED
    BY <2>1, Zenon DEF CertTypes, Tables, Places, CertsServe, Booting, BootEnsures, RowServed
<1>5. CASE TLSCrash
  <2>1. /\ UNCHANGED <<dir, cert, key, row, issued>> /\ entry' = Zero /\ step' = [main |-> "load", renewer |-> "off"]
        /\ at' = [a \in Actors |-> Apps] /\ ser' = [a \in Actors |-> None] /\ work' = {}
    BY <1>5 DEF TLSCrash, certFiles
  <2>2. DOMAIN step' = Actors /\ step'["main"] = "load" /\ step'["renewer"] = "off" /\ at'["main"] = Apps
    BY <2>1 DEF Actors
  <2>3. Zero \in [Suffixes -> Nat] /\ ser' \in [Actors -> Nat] /\ Apps \in Suffixes
    BY <2>1 DEF Zero, None, Suffixes
  <2>4. Tables' /\ Places'
    BY <2>1, <2>2, <2>3, Zenon DEF CertTypes, Tables, Places
  <2>. QED
    BY <2>1, <2>2, <2>4, Zenon DEF CertTypes, CertsServe, Booting, BootEnsures, EnsureSteps
<1>. QED
  BY <1>1, <1>2, <1>3, <1>4, <1>5 DEF TLSNext

LEMMA InitServing ==
    ASSUME TLSInit
    PROVE  CertInv
<1>1. /\ DOMAIN step = Actors /\ step["main"] = "load" /\ step["renewer"] = "off" /\ at["main"] = Apps
      /\ at = [a \in Actors |-> Apps] /\ Apps \in Suffixes
  BY DEF TLSInit, Actors, Suffixes
<1>2. Zero \in [Suffixes -> Nat] /\ ser \in [Actors -> Nat]
  BY DEF TLSInit, Zero, None
<1>3. Tables
  BY <1>2 DEF TLSInit, Tables
<1>4. Places
  BY <1>1 DEF TLSInit, Places
<1>. QED
  BY <1>1, <1>3, <1>4 DEF TLSInit, CertInv, CertTypes, CertsServe, Booting, BootEnsures, EnsureSteps

(* An agent whose issuances and writes have worked since it started serves *)
(* the apps hostname and the stored custom domain, for every number of     *)
(* zones, pushes, crashes and renewals: the boot sequence repairs whatever *)
(* an earlier life left on disk.                                           *)
THEOREM BootedAgentServes == TLSSpec => []BootServes
<1>1. TLSInit => CertInv
  BY InitServing
<1>2. CertInv /\ [TLSNext]_tlsVars => CertInv'
  BY ServingInductive
<1>3. CertInv => BootServes
  BY DEF CertInv, CertsServe, RowServed, BootServes, EnsureSteps
<1>. QED
  BY <1>1, <1>2, <1>3, PTL DEF TLSSpec

(* What is served is replaced only by a pair that loads, and goes only     *)
(* with a push that clears it or with the process: no failed issuance,     *)
(* write or load takes a certificate out of the Registry.                  *)
THEOREM StaleIsKept == TLSSpec => StaleBeatsNothing
<1>. DEFINE Kept == \A z \in Suffixes : entry'[z] # entry[z] =>
                       \/ entry'[z] = cert[z] /\ PairLoads(z)
                       \/ z = row /\ push' = NoZone /\ step["main"] = "idle"
                       \/ step'["main"] = "load"
<1>1. TLSInit => CertInv
  BY InitServing
<1>2. CertInv /\ [TLSNext]_tlsVars => CertInv'
  BY ServingInductive
<1>3. CertInv /\ [TLSNext]_tlsVars => [Kept]_tlsVars
  <2>. SUFFICES ASSUME CertInv, TLSNext PROVE Kept
    BY Zenon
  <2>1. ASSUME NEW a \in Actors, EnsureCert(a) PROVE Kept
    BY <2>1, EnsureTypes, Zenon DEF CertInv
  <2>2. CASE BootLoad
    <3>1. \A z \in Suffixes : entry[z] = None
      BY <2>2 DEF BootLoad, CertInv, CertsServe, Zero, None
    <3>. QED
      BY <2>2, <3>1 DEF BootLoad
  <2>3. CASE PushNone
    BY <2>3, Zenon DEF PushNone, CertInv, CertTypes, Tables
  <2>4. CASE TLSCrash
    BY <2>4 DEF TLSCrash
  <2>5. CASE BootNext \/ SetRow \/ RemoveFiles \/ ClearRow
    BY <2>5, Zenon DEF BootNext, SetRow, RemoveFiles, ClearRow
  <2>6. CASE Renew
    BY <2>6 DEF Renew, RenewTick, RenewNext, RenewRecord, RenewDone
  <2>7. CASE (\E z \in Zones : PushZone(z)) \/ \E z \in Suffixes : ComesDue(z)
    BY <2>7, Zenon DEF PushZone, ComesDue
  <2>. QED
    BY <2>1, <2>2, <2>3, <2>4, <2>5, <2>6, <2>7, Zenon DEF TLSNext, Main
<1>4. [][Kept]_tlsVars => StaleBeatsNothing
  BY PTL DEF StaleBeatsNothing
<1>. QED
  BY <1>1, <1>2, <1>3, <1>4, PTL DEF TLSSpec
===============================================================================
