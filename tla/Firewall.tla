------------------------------- MODULE Firewall -------------------------------
(***************************************************************************)
(* The tunnel firewall of internal/firewall/firewall.go: a Manager that    *)
(* confines WireGuard peers to the proxy ports, plus per-peer raw-port     *)
(* grants, with the same ruleset in iptables and ip6tables.                *)
(*                                                                         *)
(* Three callers share it: start-up (Apply), the tunnel read loop          *)
(* (SetPortGrants), and the watchdog goroutine.  Apply holds the mutex but *)
(* runs one command after another against a kernel that others (firewalld, *)
(* Docker, `iptables -F`) change as well, and any command can fail, those  *)
(* of teardown without anybody noticing.  One step here is one table:      *)
(* teardown of it, or the whole of applyTable.                             *)
(***************************************************************************)
EXTENDS Naturals, FiniteSets

CONSTANTS
    Grants,       \* the values SetPortGrants is called with
    NoGrants,     \* the nil slice of a new Manager
    MaxTrouble    \* bound: command failures, foreign flushes and restarts

ASSUME GrantAssumption == NoGrants \in Grants /\ MaxTrouble \in Nat

Tables == {"v4", "v6"}
Hooks == {"INPUT", "FORWARD"}
Callers == {"startup", "readloop", "watchdog"}

VARIABLES
    enabled, portGrants,  \* the Manager's fields
    mu,        \* who holds the Manager's mutex, "none" if nobody
    chain,     \* per table: the grants in the private chains, "absent", or
               \* "partial" when only some chains or rules are there
    jump,      \* per table: the built-in chains with a jump in place
    uncleared, \* tables whose last teardown failed or was not reached
    at,        \* per caller: what it is doing
    peersUp,   \* start-up went past the firewall: peers may be installed
    stopping,  \* Agent.Run is shutting down: its context is cancelled
    trouble    \* how much trouble there has been

kernel == <<chain, jump, uncleared>>
fwVars == <<enabled, portGrants, mu, kernel, at, peersUp, stopping, trouble>>

FWInit ==
    /\ enabled = FALSE /\ portGrants = NoGrants
    /\ mu = "none"
    /\ chain = [t \in Tables |-> "absent"]
    /\ jump = [t \in Tables |-> {}]
    /\ uncleared = {}
    /\ at = [c \in Callers |-> IF c = "startup" THEN "apply" ELSE "idle"]
    /\ peersUp = FALSE /\ stopping = FALSE
    /\ trouble = 0

Goto(c, l) == at' = [at EXCEPT ![c] = l]
Troubled == trouble < MaxTrouble /\ trouble' = trouble + 1

-------------------------------------------------------------------------------
(* Apply, called by c: take the mutex, clear both tables of whatever is    *)
(* left in them, then rebuild v4 and v6.  The watchdog's commands run      *)
(* under the agent's context and fail once it is cancelled.                *)
Dead(c) == c = "watchdog" /\ stopping
Built == {t \in Tables : chain[t] # "absent"}

(* Without the binaries on the PATH, Apply returns before its teardown.    *)
ApplyLock(c) ==
    /\ at[c] = "apply" /\ mu = "none"
    /\ mu' = c
    /\ \/ Goto(c, "clear v4") /\ UNCHANGED <<uncleared, trouble>>
       \/ Goto(c, "failed") /\ Troubled /\ uncleared' = Built
    /\ UNCHANGED <<enabled, portGrants, chain, jump, peersUp, stopping>>

(* teardown of one table: drain the jumps, flush and delete the chains.    *)
ClearTable(t) ==
    /\ jump' = [jump EXCEPT ![t] = {}]
    /\ chain' = [chain EXCEPT ![t] = "absent"]
    /\ uncleared' = uncleared \ {t}

(* Commands of it fail, which is not noticed: some jumps stay, and with    *)
(* the chains all, or only some, of their rules.                           *)
ClearTableFails(t) ==
    /\ chain[t] # "absent"
    /\ \E hooks \in SUBSET jump[t] : jump' = [jump EXCEPT ![t] = hooks]
    /\ \E rules \in {chain[t], "partial"} : chain' = [chain EXCEPT ![t] = rules]
    /\ uncleared' = uncleared \cup {t}

Clear(c, t, from, to) ==
    /\ at[c] = from
    /\ \/ ~Dead(c) /\ ClearTable(t) /\ UNCHANGED trouble
       \/ ~Dead(c) /\ ClearTableFails(t) /\ Troubled
       \/ /\ Dead(c) /\ uncleared' = uncleared \cup ({t} \cap Built)
          /\ UNCHANGED <<chain, jump, trouble>>
    /\ Goto(c, to)
    /\ UNCHANGED <<enabled, portGrants, mu, peersUp, stopping>>

(* Mutated form of Fill: a rebuild keeps the grants the chain had before.  *)
MutFillOldGrants(c, t, from, to) ==
    /\ at[c] = from /\ ~Dead(c)
    /\ chain' = [chain EXCEPT ![t] = NoGrants]
    /\ jump' = [jump EXCEPT ![t] = Hooks]
    /\ Goto(c, to)
    /\ UNCHANGED <<enabled, portGrants, mu, uncleared, peersUp, stopping, trouble>>

(* applyTable: the chains are made, which fails where they exist, and      *)
(* filled before the jumps lead to them.                                   *)
Fill(c, t, from, to) ==
    /\ at[c] = from /\ ~Dead(c)
    /\ chain[t] = "absent"
    /\ chain' = [chain EXCEPT ![t] = portGrants]
    /\ jump' = [jump EXCEPT ![t] = Hooks]
    /\ Goto(c, to)
    /\ UNCHANGED <<enabled, portGrants, mu, uncleared, peersUp, stopping, trouble>>

(* Mutated form of FillFails: an error of ip6tables is tolerated.          *)
MutFillFailsV6Tolerated(c, t, from) ==
    /\ at[c] = from
    /\ Troubled
    /\ Goto(c, IF t = "v6" THEN "applied" ELSE "undo v4")
    /\ UNCHANGED <<enabled, portGrants, mu, kernel, peersUp, stopping>>

(* A command of applyTable fails, as the first does where the chains       *)
(* survived the teardown: both tables are torn down again.  Some rules may *)
(* be there, and even the INPUT jump, whose removal may fail too.          *)
FillFails(c, t, from) ==
    /\ at[c] = from
    /\ \/ (Dead(c) \/ t \in Built) /\ UNCHANGED <<chain, jump, trouble>>
       \/ /\ ~Dead(c) /\ t \notin Built /\ Troubled
          /\ \E rules \in {"absent", "partial", portGrants} : chain' = [chain EXCEPT ![t] = rules]
          /\ UNCHANGED jump \/ (chain'[t] = portGrants /\ jump' = [jump EXCEPT ![t] = {"INPUT"}])
    /\ Goto(c, "undo v4")
    /\ UNCHANGED <<enabled, portGrants, mu, uncleared, peersUp, stopping>>

ApplyDone(c) ==
    /\ at[c] = "applied"
    /\ enabled' = TRUE
    /\ mu' = "none"
    /\ peersUp' = (peersUp \/ c = "startup")
    /\ Goto(c, "idle")
    /\ UNCHANGED <<portGrants, kernel, stopping, trouble>>

(* The error is returned.  Start-up gives up; the others log it, and       *)
(* enabled stays what it was.                                              *)
ApplyFailed(c) ==
    /\ at[c] = "failed"
    /\ mu' = "none"
    /\ Goto(c, IF c = "startup" THEN "exit" ELSE "idle")
    /\ UNCHANGED <<enabled, portGrants, kernel, peersUp, stopping, trouble>>

Apply(c) ==
    \/ ApplyLock(c)
    \/ Clear(c, "v4", "clear v4", "clear v6") \/ Clear(c, "v6", "clear v6", "fill v4")
    \/ Fill(c, "v4", "fill v4", "fill v6") \/ Fill(c, "v6", "fill v6", "applied")
    \/ FillFails(c, "v4", "fill v4") \/ FillFails(c, "v6", "fill v6")
    \/ Clear(c, "v4", "undo v4", "undo v6") \/ Clear(c, "v6", "undo v6", "failed")
    \/ ApplyDone(c) \/ ApplyFailed(c)

-------------------------------------------------------------------------------
(* SetPortGrants: nothing when the grants are unchanged; else they are     *)
(* stored, the mutex is released, and the rules are rebuilt if enabled.    *)
SetPortGrants(g) ==
    /\ peersUp
    /\ at["readloop"] = "idle" /\ mu = "none"
    /\ g # portGrants
    /\ portGrants' = g
    /\ Goto("readloop", IF enabled THEN "apply" ELSE "idle")
    /\ UNCHANGED <<enabled, mu, kernel, peersUp, stopping, trouble>>

(* The watchdog reads enabled under the mutex, and then asks the kernel    *)
(* for the INPUT jump of one table after the other without it; Apply       *)
(* follows when a jump, or the answer, is missing.                         *)
WatchdogTick ==
    /\ peersUp
    /\ at["watchdog"] = "idle" /\ mu = "none" /\ enabled
    /\ Goto("watchdog", "look v4")
    /\ UNCHANGED <<enabled, portGrants, mu, kernel, peersUp, stopping, trouble>>

(* Mutated form of WatchdogLook: only the v4 table is looked at.           *)
MutWatchdogLookV4(t, from, to) ==
    /\ at["watchdog"] = from
    /\ Goto("watchdog", IF (t = "v4" => "INPUT" \in jump[t]) /\ ~stopping THEN to ELSE "apply")
    /\ UNCHANGED <<enabled, portGrants, mu, kernel, peersUp, stopping, trouble>>

WatchdogLook(t, from, to) ==
    /\ at["watchdog"] = from
    /\ \/ Goto("watchdog", IF "INPUT" \in jump[t] /\ ~stopping THEN to ELSE "apply") /\ UNCHANGED trouble
       \/ Goto("watchdog", "apply") /\ Troubled
    /\ UNCHANGED <<enabled, portGrants, mu, kernel, peersUp, stopping>>

-------------------------------------------------------------------------------
(* Something else on the host flushes built-in chains of a table.          *)
ForeignFlush(t, hooks) ==
    /\ Troubled
    /\ hooks \cap jump[t] # {}
    /\ jump' = [jump EXCEPT ![t] = @ \ hooks]
    /\ UNCHANGED <<enabled, portGrants, mu, chain, uncleared, at, peersUp, stopping>>

Cancel ==
    /\ peersUp /\ ~stopping
    /\ stopping' = TRUE
    /\ UNCHANGED <<enabled, portGrants, mu, kernel, at, peersUp, trouble>>

(* Stop, and the interface is deleted right after it.  In a table where    *)
(* commands fail, chains, rules and jumps may stay.                        *)
StopClears(kept, whole, hooks) ==
    /\ jump' = [t \in Tables |-> IF t \in kept THEN jump[t] \cap hooks ELSE {}]
    /\ chain' = [t \in Tables |-> IF t \notin kept THEN "absent" ELSE IF whole THEN chain[t] ELSE "partial"]
    /\ uncleared' = kept

Stop ==
    /\ stopping /\ mu = "none" /\ peersUp
    /\ enabled' = FALSE
    /\ \/ ~enabled /\ UNCHANGED <<kernel, trouble>>
       \/ enabled /\ StopClears({}, FALSE, {}) /\ UNCHANGED trouble
       \/ /\ enabled /\ Troubled
          /\ \E kept \in SUBSET Built, whole \in BOOLEAN, hooks \in SUBSET Hooks : StopClears(kept, whole, hooks)
    /\ peersUp' = FALSE
    /\ UNCHANGED <<portGrants, mu, at, stopping>>

(* The process ends, at a clean stop or by a crash, and is started again:  *)
(* its rules stay in the kernel, its peers do not.                         *)
FWRestart ==
    /\ Troubled
    /\ enabled' = FALSE /\ portGrants' = NoGrants
    /\ mu' = "none"
    /\ at' = [c \in Callers |-> IF c = "startup" THEN "apply" ELSE "idle"]
    /\ peersUp' = FALSE /\ stopping' = FALSE
    /\ UNCHANGED kernel

Watchdog ==
    \/ WatchdogTick
    \/ WatchdogLook("v4", "look v4", "look v6") \/ WatchdogLook("v6", "look v6", "idle")

FWNext ==
    \/ \E c \in Callers : Apply(c)
    \/ \E g \in Grants : SetPortGrants(g)
    \/ Watchdog
    \/ \E t \in Tables, hooks \in SUBSET Hooks : ForeignFlush(t, hooks)
    \/ Cancel \/ Stop \/ FWRestart

(* A call that has begun returns and the watchdog's ticker fires; strong   *)
(* fairness because a waiter gets a Go mutex in the end.                   *)
FWFairness ==
    /\ \A c \in Callers : SF_fwVars(Apply(c))
    /\ SF_fwVars(Watchdog)

FWSpec == FWInit /\ [][FWNext]_fwVars /\ FWFairness

-------------------------------------------------------------------------------
InApply == {"clear v4", "clear v6", "fill v4", "fill v6", "undo v4", "undo v6", "applied", "failed"}

(* Every variable of the firewall keeps its type, and one caller at a time *)
(* is inside Apply, the one that holds the mutex.                          *)
FWTypeOK ==
    /\ enabled \in BOOLEAN /\ peersUp \in BOOLEAN /\ stopping \in BOOLEAN
    /\ portGrants \in Grants
    /\ mu \in Callers \cup {"none"}
    /\ chain \in [Tables -> Grants \cup {"absent", "partial"}] /\ uncleared \subseteq Tables
    /\ jump \in [Tables -> SUBSET Hooks]
    /\ at \in [Callers -> InApply \cup {"idle", "apply", "exit", "look v4", "look v6"}]
    /\ trouble \in 0 .. MaxTrouble
    /\ \A c \in Callers : at[c] \in InApply <=> mu = c

(* Start-up admits peers only with the rules of both tables built by an    *)
(* Apply none of whose commands failed ("Fail closed: abort startup ...    *)
(* rather than admit peers unconfined"), a restart over the rules a crash  *)
(* left behind included.                                                   *)
AdmitsOnlyConfined ==
    [][~peersUp /\ peersUp' => \A t \in Tables : chain[t] = portGrants]_fwVars

(* With peers admitted and no rebuild under way or waiting for the mutex,  *)
(* a chain that opens other raw ports than those of the last SetPortGrants *)
(* is one that the last Apply could not take down: neither the watchdog    *)
(* nor an Apply that fails later brings earlier grants back.               *)
Current(t) == chain[t] \in {"absent", portGrants}

NoStaleGrants ==
    peersUp /\ mu = "none" /\ at["readloop"] # "apply" => \A t \in Tables : Current(t) \/ t \in uncleared

(* The same without the exception, which is what teardown's comment has in *)
(* mind ("Errors swallowed -- a missing rule is the desired post-state").  *)
(* Not so: a failed teardown leaves the earlier grants open, and a repeat  *)
(* of SetPortGrants does nothing.                                          *)
RevokedGrantsClose ==
    peersUp /\ mu = "none" /\ at["readloop"] # "apply" => \A t \in Tables : Current(t)

(* After a foreign flush, a failed teardown or a failed Apply the watchdog *)
(* brings the current rules back into both INPUT chains, as long as the    *)
(* agent runs, with one exception: what an Apply failed to take down has   *)
(* kept its INPUT jump, and that jump is all the watchdog looks for.       *)
InForce == \A t \in Tables : "INPUT" \in jump[t] /\ chain[t] = portGrants
Unnoticed == uncleared # {} /\ \A t \in Tables : "INPUT" \in jump[t]

RulesComeBack == (peersUp /\ ~stopping) ~> (InForce \/ Unnoticed \/ ~peersUp \/ stopping)
===============================================================================
