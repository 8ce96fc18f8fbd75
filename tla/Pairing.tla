-------------------------------- MODULE Pairing --------------------------------
(***************************************************************************)
(* How an agent comes to belong to a device of the coordination service    *)
(* and to an owner, and how it stops: the pairing branch of Agent.Run, the *)
(* command `atreoagent pair` (cmd/atreoagent/pair.go), HandleUnpaired      *)
(* (internal/tunnel/handler.go), and the three files between which a crash *)
(* can come: pairing.json (the device), admin_pin.json (the owner's key)   *)
(* and acl.json (the list).                                                *)
(*                                                                         *)
(* A device is a number, its owner the key that approved it.  An approval  *)
(* decodes or it does not.  Of the list the keys of its owner entries and  *)
(* its generation are kept, of a push its generation.  What start-up does  *)
(* besides (interface, firewall, certificates) is in the other modules.    *)
(***************************************************************************)
EXTENDS Naturals

CONSTANTS
    Owners,
    NoKey,
    MaxPairings,  \* bound: the devices approved before the environment is calm
    MaxGen,       \* bound: the states the service makes for one device
    EventSets     \* the choices for the events below that may happen

(* "crash": the process dies; "write": a write of a file fails; "remove":  *)
(* a removal fails; "anonymous": the service names no owner member;        *)
(* "nohost": it names no host names; "pair": the operator uses the command *)
(* while the agent is stopped; "both": or while it runs; "flag": the agent *)
(* is run with --data-dir.                                                 *)
Events == {"crash", "write", "remove", "anonymous", "nohost", "pair", "both", "flag"}

ASSUME PairingAssumption ==
    /\ NoKey \notin Owners /\ MaxPairings \in Nat /\ MaxGen \in Nat
    /\ EventSets \subseteq SUBSET Events

VARIABLES
    events,       \* the events that may happen in this behaviour
    calm,         \* no failure, crash, unpairing, command or push is still to come
    ownerOf,      \* service: the owner of each device approved so far
    generation,   \* service: the newest state of each of them
    pairingFile, pinFile, aclFile,
    pc, cfg, pin, acl,            \* the agent; the Store is empty before Load
    command, cmdResult, cmdPin, cmdAcl,  \* the command
    interrupted,  \* history: an unpairing did not remove both files
    cutShort      \* history: a pairing wrote the pin and not pairing.json

files == <<pairingFile, pinFile, aclFile>>
service == <<ownerOf, generation>>
agent == <<pc, cfg, pin, acl>>
cmd == <<command, cmdResult, cmdPin, cmdAcl>>
history == <<interrupted, cutShort>>
vars == <<events, calm, service, files, agent, cmd, history>>

Devices == 1 .. (MaxPairings + 1)
Result == [dev : Devices, host : BOOLEAN, named : BOOLEAN]
NoResult == [dev |-> 0, host |-> FALSE, named |-> FALSE]
EmptyList == [admins |-> {}, gen |-> 0]

Approved == {d \in Devices : ownerOf[d] # NoKey}
Paired(c) == c.dev # 0

Init ==
    /\ events \in EventSets /\ calm = FALSE
    /\ ownerOf = [d \in Devices |-> NoKey] /\ generation = [d \in Devices |-> 0]
    /\ pairingFile = NoResult /\ pinFile = NoKey /\ aclFile = EmptyList
    /\ pc = "down" /\ cfg = NoResult /\ pin = NoKey /\ acl = EmptyList
    /\ command = "off" /\ cmdResult = NoResult /\ cmdPin = NoKey /\ cmdAcl = EmptyList
    /\ interrupted = FALSE /\ cutShort = FALSE

MayFail(event) == event \in events /\ ~calm

-------------------------------------------------------------------------------
(* The process is gone with everything in memory.                          *)
Down == pc' = "down" /\ cfg' = NoResult /\ pin' = NoKey /\ acl' = EmptyList

(* config.Load and loadPairing: pairing.json, when there, gives the device.*)
(* The flag replaces the directory only after the file has been read.      *)
Configured == IF "flag" \in events THEN NoResult ELSE pairingFile

(* Mutated form of Boot: the Store is loaded before the pairing.           *)
MutBootLoadsList ==
    /\ pc = "down" /\ (command = "off" \/ "both" \in events)
    /\ cfg' = Configured
    /\ pc' = IF Paired(cfg') THEN "start" ELSE "pair"
    /\ acl' = aclFile
    /\ UNCHANGED <<events, calm, service, files, pin, cmd, history>>

Boot ==
    /\ pc = "down" /\ (command = "off" \/ "both" \in events)
    /\ cfg' = Configured
    /\ pc' = IF Paired(cfg') THEN "start" ELSE "pair"
    /\ UNCHANGED <<events, calm, service, files, pin, acl, cmd, history>>

(* What an approved poll returns: a new device, whose owner is the key in  *)
(* the approval.                                                           *)
Approval(o, r) ==
    /\ r.dev \notin Approved /\ \A d \in Devices : d < r.dev => d \in Approved
    /\ ~r.host => "nohost" \in events
    /\ ~r.named => "anonymous" \in events
    /\ ownerOf' = [ownerOf EXCEPT ![r.dev] = o]
    /\ generation' = [generation EXCEPT ![r.dev] = 1]

(* Pair: init, then polls, repeated when they fail, until one is approved. *)
Pair(o, r) ==
    /\ pc = "pair" /\ (r.dev <= MaxPairings \/ calm)
    /\ Approval(o, r)
    /\ cfg' = r
    /\ pc' = "pin"
    /\ UNCHANGED <<events, calm, files, pin, acl, cmd, history>>

(* The init request fails, or the approval has no blob or one that does    *)
(* not decode: Run returns the error.                                      *)
PairFails ==
    /\ pc = "pair" /\ ~calm
    /\ Down
    /\ UNCHANGED <<events, calm, service, files, cmd, history>>

(* Mutated form of SetPin: the pin is kept in memory only.                 *)
MutSetPinInMemory ==
    /\ pc = "pin"
    /\ pin' = ownerOf[cfg.dev]
    /\ pc' = "owner"
    /\ UNCHANGED <<events, calm, service, files, cfg, acl, cmd, history>>

(* SetPinnedAdminPublicKey of a Store that has not been loaded.  An error  *)
(* ends Run.                                                               *)
SetPin ==
    /\ pc = "pin"
    /\ \/ /\ pinFile' = ownerOf[cfg.dev] /\ pin' = ownerOf[cfg.dev]
          /\ pc' = "owner" /\ UNCHANGED <<cfg, acl>>
       \/ MayFail("write") /\ Down /\ UNCHANGED pinFile
    /\ UNCHANGED <<events, calm, service, pairingFile, aclFile, cmd, history>>

(* UpsertMember of the owner's entry, which carries the pinned key.        *)
UpsertOwner(list, o) == [list EXCEPT !.admins = @ \cup {o}]

(* Store.Save; the callers only log an error.                              *)
Save(list) == aclFile' = list \/ (MayFail("write") /\ UNCHANGED aclFile)

InstallOwner ==
    /\ pc = "owner"
    /\ IF cfg.named THEN acl' = UpsertOwner(acl, pin) /\ Save(acl')
                    ELSE UNCHANGED <<acl, aclFile>>
    /\ pc' = "save"
    /\ UNCHANGED <<events, calm, service, pairingFile, pinFile, cfg, pin, cmd, history>>

(* Mutated form of SavePairing: the host names are not saved.              *)
MutSavePairingHostless ==
    /\ pc = "save"
    /\ pairingFile' = [cfg EXCEPT !.host = FALSE]
    /\ pc' = "start"
    /\ UNCHANGED <<events, calm, service, pinFile, aclFile, cfg, pin, acl, cmd, history>>

(* SavePairing; Run only logs an error.                                    *)
SavePairing ==
    /\ pc = "save"
    /\ \/ pairingFile' = cfg /\ UNCHANGED cutShort
       \/ MayFail("write") /\ cutShort' = TRUE /\ UNCHANGED pairingFile
    /\ pc' = "start"
    /\ UNCHANGED <<events, calm, service, pinFile, aclFile, cfg, pin, acl, cmd, interrupted>>

(* The rest of Run: without host names it returns an error; Store.Load     *)
(* reads pin and list.                                                     *)
Start ==
    /\ pc = "start"
    /\ \/ ~cfg.host /\ Down
       \/ cfg.host /\ pc' = "run" /\ pin' = pinFile /\ acl' = aclFile /\ UNCHANGED cfg
    /\ UNCHANGED <<events, calm, service, files, cmd, history>>

-------------------------------------------------------------------------------
(* HandleDeviceState, for the newest state of the device: an older one     *)
(* than the list's is ignored; it is rejected without a pin, or when its   *)
(* signatures and its owner entry, if it has one, are another owner's.     *)
HandleDeviceState(admins) ==
    LET g == generation[cfg.dev]
        owner == ownerOf[cfg.dev]
    IN  /\ pc = "run"
        /\ admins \in {{}, {owner}}
        /\ IF g >= acl.gen /\ pin = owner
           THEN acl' = [admins |-> admins, gen |-> g] /\ Save(acl')
           ELSE UNCHANGED <<acl, aclFile>>
        /\ UNCHANGED <<events, calm, service, pairingFile, pinFile, pc, cfg, pin, cmd, history>>

(* HandleUnpaired, a command that an owner entry of the list signed.       *)
HandleUnpaired ==
    /\ pc = "run" /\ ~calm
    /\ ownerOf[cfg.dev] \in acl.admins
    /\ pc' = "unpin"
    /\ UNCHANGED <<events, calm, service, files, cfg, pin, acl, cmd, history>>

(* ClearPinnedAdminPublicKey: memory, then the file; an error is logged.   *)
ClearPin ==
    /\ pc = "unpin"
    /\ pin' = NoKey
    /\ \/ pinFile' = NoKey /\ UNCHANGED interrupted
       \/ MayFail("remove") /\ interrupted' = TRUE /\ UNCHANGED pinFile
    /\ pc' = "forget"
    /\ UNCHANGED <<events, calm, service, pairingFile, aclFile, cfg, acl, cmd, cutShort>>

(* Mutated form of Forget: the device is forgotten in memory only.         *)
MutForgetInMemory ==
    /\ pc = "forget"
    /\ Down
    /\ UNCHANGED <<events, calm, service, files, cmd, history>>

(* pairing.json is removed, an error logged, and the process exits.        *)
Forget ==
    /\ pc = "forget"
    /\ \/ pairingFile' = NoResult /\ UNCHANGED interrupted
       \/ MayFail("remove") /\ interrupted' = TRUE /\ UNCHANGED pairingFile
    /\ Down
    /\ UNCHANGED <<events, calm, service, pinFile, aclFile, cmd, cutShort>>

Crash ==
    /\ pc # "down" /\ MayFail("crash")
    /\ Down
    /\ interrupted' = (interrupted \/ pc \in {"unpin", "forget"})
    /\ cutShort' = (cutShort \/ pc \in {"owner", "save"})
    /\ UNCHANGED <<events, calm, service, files, cmd>>

-------------------------------------------------------------------------------
(* The command `atreoagent pair`: Store.Load first, then as above, except  *)
(* that a pin already set is refused and a failing SavePairing is fatal.   *)
CommandOff == command' = "off" /\ cmdResult' = NoResult /\ cmdPin' = NoKey /\ cmdAcl' = EmptyList

CommandLoads ==
    /\ command = "off"
    /\ MayFail("both") \/ (MayFail("pair") /\ pc = "down")
    /\ command' = "pair" /\ cmdPin' = pinFile /\ cmdAcl' = aclFile
    /\ UNCHANGED <<events, calm, service, files, agent, cmdResult, history>>

CommandPairs(o, r) ==
    /\ command = "pair" /\ r.dev <= MaxPairings
    /\ Approval(o, r)
    /\ cmdResult' = r
    /\ command' = "pin"
    /\ UNCHANGED <<events, calm, files, agent, cmdPin, cmdAcl, history>>

(* Mutated form of CommandPins: a pin already set is replaced.             *)
MutCommandPinsAnyway ==
    /\ command = "pin"
    /\ pinFile' = ownerOf[cmdResult.dev] /\ cmdPin' = ownerOf[cmdResult.dev]
    /\ command' = "owner"
    /\ UNCHANGED <<events, calm, service, pairingFile, aclFile, agent, cmdResult, cmdAcl, history>>

CommandPins ==
    /\ command = "pin"
    /\ IF cmdPin = NoKey
       THEN /\ pinFile' = ownerOf[cmdResult.dev] /\ cmdPin' = ownerOf[cmdResult.dev]
            /\ command' = "owner" /\ UNCHANGED <<cmdResult, cmdAcl>>
       ELSE CommandOff /\ UNCHANGED pinFile
    /\ UNCHANGED <<events, calm, service, pairingFile, aclFile, agent, history>>

CommandInstallsOwner ==
    /\ command = "owner"
    /\ IF cmdResult.named THEN cmdAcl' = UpsertOwner(cmdAcl, cmdPin) /\ Save(cmdAcl')
                          ELSE UNCHANGED <<cmdAcl, aclFile>>
    /\ command' = "save"
    /\ UNCHANGED <<events, calm, service, pairingFile, pinFile, agent, cmdResult, cmdPin, history>>

CommandSaves ==
    /\ command = "save"
    /\ \/ pairingFile' = cmdResult /\ UNCHANGED cutShort
       \/ MayFail("write") /\ cutShort' = TRUE /\ UNCHANGED pairingFile
    /\ CommandOff
    /\ UNCHANGED <<events, calm, service, pinFile, aclFile, agent, interrupted>>

(* A request, a write or the approval fails, the operator gives up, or the *)
(* process dies.                                                           *)
CommandEnds ==
    /\ command # "off" /\ (command = "pair" \/ MayFail("crash") \/ MayFail("write"))
    /\ CommandOff
    /\ cutShort' = (cutShort \/ command \in {"owner", "save"})
    /\ UNCHANGED <<events, calm, service, files, agent, interrupted>>

-------------------------------------------------------------------------------
(* The service has a newer state for the device.                           *)
NewState ==
    /\ ~calm /\ Paired(cfg) /\ generation[cfg.dev] < MaxGen
    /\ generation' = [generation EXCEPT ![cfg.dev] = @ + 1]
    /\ UNCHANGED <<events, calm, ownerOf, files, agent, cmd, history>>

CalmDown ==
    /\ ~calm
    /\ calm' = TRUE
    /\ UNCHANGED <<events, service, files, agent, cmd, history>>

Pairs == \E o \in Owners, r \in Result : Pair(o, r)
Handles == \E admins \in {{}} \cup {{o} : o \in Owners} : HandleDeviceState(admins)
Command ==
    \/ CommandLoads \/ CommandPins \/ CommandInstallsOwner \/ CommandSaves \/ CommandEnds
    \/ \E o \in Owners, r \in Result : CommandPairs(o, r)
Steps == Boot \/ Pairs \/ SetPin \/ InstallOwner \/ SavePairing \/ Start \/ Handles \/ ClearPin \/ Forget

Next == Steps \/ PairFails \/ HandleUnpaired \/ Crash \/ Command \/ NewState \/ CalmDown

(* The service manager restarts the agent, the owner approves a pairing    *)
(* that is waiting, the service sends its newest state, calls return, and  *)
(* an operator's command ends.                                             *)
Spec == Init /\ [][Next]_vars /\ WF_vars(Steps) /\ WF_vars(Command /\ command # "off")

-------------------------------------------------------------------------------
(* The events after which the list on disk can be another pairing's.       *)
ListMayLag == events \cap {"write", "anonymous", "pair", "both"} # {}

(* pairing.json never names a device without admin_pin.json holding the    *)
(* key of that device's owner, at whatever step the agent or the command   *)
(* dies, unless an unpairing is under way or was cut short.                *)
PairedIsPinned ==
    Paired(pairingFile) /\ pc # "forget" /\ ~interrupted => pinFile = ownerOf[pairingFile.dev]

(* "The admin entry's identityKey is invariantly equal to the pinned admin *)
(* pubkey" (handler.go, requireAdmin), after any number of unpairings and  *)
(* pairings by other owners and crashes in them, where writes succeed and  *)
(* the service names the owner: an owner entry of an earlier pairing does  *)
(* not come back with acl.json, which no unpairing removes.                *)
AdminsArePinned ==
    pc = "run" /\ pin # NoKey => acl.admins \subseteq {pin}

AdminsArePinnedIfSaved == ListMayLag \/ AdminsArePinned

(* "Rotation only happens via an explicit re-pair (which clears the pin    *)
(* first)": a pinned key is removed only by an unpairing, and replaced     *)
(* uncleared only as the leftover of a pairing or an unpairing that was    *)
(* cut short, with no pairing.json there; the command never replaces it.   *)
PinReplacedOnlyUnpaired ==
    [][pinFile # NoKey /\ pinFile' # pinFile =>
          IF pinFile' = NoKey THEN pc = "unpin"
          ELSE pc = "pin" /\ ~Paired(pairingFile) /\ (interrupted \/ cutShort)]_vars

(* "One-shot: re-pairing must call ClearPinnedAdminPublicKey first": a pin *)
(* gives way to no other before it is cleared.  Not so after a crash in a  *)
(* pairing: Run pairs before it loads the Store, which then has no pin to  *)
(* refuse another for.                                                     *)
PinClearedFirst == [][pinFile # NoKey => pinFile' \in {pinFile, NoKey}]_vars

(* "The container restart re-enters pairing mode": an unpairing is         *)
(* followed by a pairing that waits for approval, the agent's or the       *)
(* command's, unless a removal failed or the process died in it.           *)
UnpairedPairsAgain == pc = "unpin" ~> ("pair" \in {pc, command} \/ interrupted)

(* Whatever crashes, failed attempts and unpairings came before, an agent  *)
(* left alone ends up running with the pin of its device's owner and with  *)
(* the service's newest state, unless an unpairing was cut short: then it  *)
(* has a device and no pin, and rejects every state.  (An approval without *)
(* host names is saved and makes every later start fail.)                  *)
Serving == pc = "run" /\ pin = ownerOf[cfg.dev] /\ acl.gen = generation[cfg.dev]

EndsServing == (calm /\ ~ListMayLag /\ "nohost" \notin events) ~> []((pc = "run" /\ pin = NoKey /\ interrupted) \/ Serving)

(* "pairing.json is authoritative for the agent-owned identity": a start   *)
(* never enters pairing with that file there.  Not so with --data-dir,     *)
(* which takes effect after the file has been looked for.                  *)
StartKeepsPairing == [][pc = "down" /\ pc' = "pair" => ~Paired(pairingFile)]_vars
===============================================================================
