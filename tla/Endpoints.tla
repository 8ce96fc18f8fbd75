------------------------------- MODULE Endpoints -------------------------------
(***************************************************************************)
(* How the addresses the agent can be reached at get to the coordination   *)
(* service: the endpoints Service (internal/endpoints/service.go) signs a  *)
(* device:endpoints envelope whenever they change and sends it over the    *)
(* tunnel (internal/tunnel/client.go), whose on-connect hook sends the     *)
(* current envelope again on every attach.  OnChange of agent.go gives the *)
(* LAN addresses of each new envelope to the probe server                  *)
(* (internal/probe/server.go), which answers pings on them.                *)
(*                                                                         *)
(* Two goroutines: the Service, and the tunnel client.  They share the     *)
(* last envelope and the active connection, each under a mutex of its own. *)
(* An envelope is its set of addresses and its signing time; the receiver  *)
(* is external and is represented by the newest envelope it was given.     *)
(***************************************************************************)
EXTENDS Naturals

CONSTANTS
    Lan,         \* the addresses of kind LAN
    Addrs,       \* the sets of addresses collectCandidates can return
    MaxChanges,  \* bound: changes of the addresses
    MaxDrops,    \* bound: connections that break
    MaxFailures  \* bound: refreshes that fail

ASSUME EndpointAssumption == MaxChanges \in Nat /\ MaxDrops \in Nat /\ MaxFailures \in Nat

NoEnvelope == [addr |-> {}, ts |-> 0]
NoConn == 0

VARIABLES
    ticker,            \* configuration: the periodic refresh is on (the default)
    addr,              \* what collectCandidates would return now
    noticed,           \* the last change of addr came with a notification
    trigger, debounce, \* triggerCh holds a token; the debounce timer runs
    last,              \* lastEnvelope
    spc, cands, to,    \* the Service; its candidates, and the connection Send read
    listeners, closing, \* the probe server's listeners; those told to shut down
    skipped,           \* history: the addresses the last SetBindAddresses could not bind
    conn, broken,      \* the socket of the tunnel client (a number), and whether it is dead
    active,            \* activeConn
    tpc, hook,         \* the tunnel client; the envelope onConnect returned
    received,          \* the newest envelope that arrived
    missed, failures,  \* history: the last refresh failed; how many did
    changes, drops

failing == <<missed, failures>>
service == <<trigger, debounce, last, spc, cands, to>>
probe == <<listeners, closing, skipped>>
tunnel == <<conn, active, tpc, hook>>
vars == <<ticker, addr, noticed, service, probe, tunnel, broken, received, failing, changes, drops>>

Init ==
    /\ ticker \in BOOLEAN
    /\ addr \in Addrs /\ noticed = TRUE
    /\ trigger = FALSE /\ debounce = FALSE
    /\ last = NoEnvelope
    /\ spc = "first" /\ cands = NoEnvelope.addr /\ to = NoConn
    /\ listeners = {} /\ closing = {} /\ skipped = {}
    /\ conn = NoConn /\ broken = FALSE /\ active = NoConn
    /\ tpc = "dial" /\ hook = NoEnvelope
    /\ received = NoEnvelope
    /\ missed = FALSE /\ failures = 0
    /\ changes = 0 /\ drops = 0

(* wsjson.Write of e to socket c.  What is written to a dead socket is     *)
(* lost, with or without an error; a socket may die with e on its way.     *)
Write(c, e) ==
    \/ /\ c = conn /\ ~broken
       /\ received' = IF e.ts > received.ts THEN e ELSE received
       /\ UNCHANGED <<broken, drops>>
    \/ /\ c = conn /\ ~broken /\ drops < MaxDrops
       /\ broken' = TRUE /\ drops' = drops + 1
       /\ UNCHANGED received
    \/ /\ c # conn \/ broken
       /\ UNCHANGED <<received, broken, drops>>

-------------------------------------------------------------------------------
(* The Service.  Run refreshes once before the interface watcher starts;   *)
(* then a trigger starts the debounce timer unless it is running, and the  *)
(* timer and the ticker refresh.                                           *)
TakeTrigger ==
    /\ spc = "idle" /\ trigger
    /\ trigger' = FALSE
    /\ debounce' = TRUE
    /\ UNCHANGED <<ticker, addr, noticed, last, spc, cands, to, probe, tunnel, broken, received, failing, changes, drops>>

(* doRefresh up to the comparison with the last candidates.  When the      *)
(* interfaces cannot be enumerated it returns, and what called for it is   *)
(* used up.                                                                *)
RefreshFails == failures < MaxFailures /\ failures' = failures + 1 /\ missed' = TRUE

Refresh(from) ==
    /\ spc = from
    /\ \/ /\ cands' = addr
          /\ spc' = IF addr = last.addr /\ last # NoEnvelope THEN "idle" ELSE "build"
          /\ missed' = FALSE /\ UNCHANGED failures
       \/ spc' = "idle" /\ RefreshFails /\ UNCHANGED cands
    /\ UNCHANGED <<ticker, addr, noticed, trigger, last, to, probe, tunnel, broken, received, changes, drops>>

FirstRefresh == Refresh("first") /\ UNCHANGED debounce
DebouncedRefresh == debounce /\ Refresh("idle") /\ debounce' = FALSE
PeriodicRefresh == ticker /\ Refresh("idle") /\ UNCHANGED debounce

(* Mutated form of Store: OnChange is called for changes only, not for the *)
(* first envelope.                                                         *)
MutStoreFirstUnbound ==
    /\ spc = "build"
    /\ last' = [addr |-> cands, ts |-> last.ts + 1]
    /\ spc' = IF last = NoEnvelope THEN "send" ELSE "bind"
    /\ UNCHANGED <<ticker, addr, noticed, trigger, debounce, cands, to, probe, tunnel, broken, received, failing, changes, drops>>

(* doRefresh: sign and record the envelope, call OnChange, then Send: read *)
(* the active connection, release its mutex, write.                        *)
Store ==
    /\ spc = "build"
    /\ last' = [addr |-> cands, ts |-> last.ts + 1]
    /\ spc' = "bind"
    /\ UNCHANGED <<ticker, addr, noticed, trigger, debounce, cands, to, probe, tunnel, broken, received, failing, changes, drops>>

BuildFails ==
    /\ spc = "build"
    /\ RefreshFails
    /\ spc' = "idle"
    /\ UNCHANGED <<ticker, addr, noticed, trigger, debounce, last, cands, to, probe, tunnel, broken, received, changes, drops>>

(* SetBindAddresses: listeners no longer wanted are told to shut down, in  *)
(* goroutines; the missing ones are started, one that cannot be bound is   *)
(* skipped.  An address whose old listener is still open cannot be bound.  *)
SetBindAddresses(failed) ==
    LET want == cands \cap Lan
        new == want \ listeners
    IN  /\ spc = "bind"
        /\ failed \subseteq new /\ new \cap closing \subseteq failed
        /\ listeners' = want \ failed
        /\ closing' = closing \cup (listeners \ want)
        /\ skipped' = failed
        /\ spc' = "send"
        /\ UNCHANGED <<ticker, addr, noticed, trigger, debounce, last, cands, to, tunnel, broken, received, failing, changes, drops>>

ShutdownListener(h) ==
    /\ h \in closing
    /\ closing' = closing \ {h}
    /\ UNCHANGED <<ticker, addr, noticed, service, listeners, skipped, tunnel, broken, received, failing, changes, drops>>

(* Mutated form of SendLooks: triggers that came meanwhile are discarded.  *)
MutSendLooksDrains ==
    /\ spc = "send"
    /\ to' = active
    /\ spc' = IF active = NoConn THEN "idle" ELSE "write"
    /\ trigger' = FALSE
    /\ UNCHANGED <<ticker, addr, noticed, debounce, last, cands, probe, tunnel, broken, received, failing, changes, drops>>

SendLooks ==
    /\ spc = "send"
    /\ to' = active
    /\ spc' = IF active = NoConn THEN "idle" ELSE "write"
    /\ UNCHANGED <<ticker, addr, noticed, trigger, debounce, last, cands, probe, tunnel, broken, received, failing, changes, drops>>

SendWrites ==
    /\ spc = "write"
    /\ Write(to, last)
    /\ spc' = "idle" /\ to' = NoConn
    /\ UNCHANGED <<ticker, addr, noticed, trigger, debounce, last, cands, probe, tunnel, failing, changes>>

-------------------------------------------------------------------------------
(* The tunnel client: runWebSocket, again and again.                       *)
Dial ==
    /\ tpc = "dial"
    /\ conn' = conn + 1 /\ broken' = FALSE
    /\ tpc' = "attach"
    /\ UNCHANGED <<ticker, addr, noticed, service, probe, active, hook, received, failing, changes, drops>>

Attach ==
    /\ tpc = "attach"
    /\ active' = conn
    /\ tpc' = "hook"
    /\ UNCHANGED <<ticker, addr, noticed, service, probe, conn, hook, broken, received, failing, changes, drops>>

(* Mutated form of OnConnect: the envelope goes out on the first attach    *)
(* only.                                                                   *)
MutOnConnectOnce ==
    /\ tpc = "hook"
    /\ hook' = last
    /\ tpc' = IF last = NoEnvelope \/ conn > 1 THEN "read" ELSE "publish"
    /\ UNCHANGED <<ticker, addr, noticed, service, probe, conn, active, broken, received, failing, changes, drops>>

(* onConnect: CurrentMessage, or nothing before the first envelope.        *)
OnConnect ==
    /\ tpc = "hook"
    /\ hook' = last
    /\ tpc' = IF last = NoEnvelope THEN "read" ELSE "publish"
    /\ UNCHANGED <<ticker, addr, noticed, service, probe, conn, active, broken, received, failing, changes, drops>>

Publish ==
    /\ tpc = "publish"
    /\ Write(conn, hook)
    /\ hook' = NoEnvelope
    /\ tpc' = "read"
    /\ UNCHANGED <<ticker, addr, noticed, service, probe, conn, active, failing, changes>>

(* A read or a ping fails: runWebSocket returns and Start backs off.       *)
Close ==
    /\ tpc = "read" /\ broken
    /\ active' = NoConn
    /\ tpc' = "dial"
    /\ UNCHANGED <<ticker, addr, noticed, service, probe, conn, hook, broken, received, failing, changes, drops>>

-------------------------------------------------------------------------------
(* Interfaces, routes or the port mapping change, with a netlink message   *)
(* or a Trigger of the main loop, or without.                              *)
AddressChanges(a, seen) ==
    /\ changes < MaxChanges /\ a # addr
    /\ changes' = changes + 1
    /\ addr' = a
    /\ noticed' = seen
    /\ trigger' = (trigger \/ seen)
    /\ UNCHANGED <<ticker, debounce, last, spc, cands, to, probe, tunnel, broken, received, failing, drops>>

Breaks ==
    /\ tpc # "dial" /\ ~broken /\ drops < MaxDrops
    /\ broken' = TRUE
    /\ drops' = drops + 1
    /\ UNCHANGED <<ticker, addr, noticed, service, probe, tunnel, received, failing, changes>>

ServiceStep ==
    \/ TakeTrigger \/ FirstRefresh \/ DebouncedRefresh \/ Store \/ BuildFails \/ SendLooks \/ SendWrites
    \/ \E failed \in SUBSET Lan : SetBindAddresses(failed)
TunnelStep == Dial \/ Attach \/ OnConnect \/ Publish \/ Close

Shutdowns == \E h \in Lan : ShutdownListener(h)

Next ==
    \/ Shutdowns
    \/ ServiceStep \/ PeriodicRefresh
    \/ TunnelStep
    \/ \E a \in Addrs, seen \in BOOLEAN : AddressChanges(a, seen)
    \/ Breaks

(* Both goroutines go on, calls return and dials succeed in the end, and   *)
(* the ticker fires; a select that is ready again and again for the timer  *)
(* takes it.                                                               *)
Fairness ==
    /\ WF_vars(ServiceStep) /\ WF_vars(TunnelStep) /\ WF_vars(Shutdowns)
    /\ SF_vars(DebouncedRefresh) /\ SF_vars(PeriodicRefresh)

Spec == Init /\ [][Next]_vars /\ Fairness

-------------------------------------------------------------------------------
Envelope == [addr : Addrs, ts : Nat \ {0}] \cup {NoEnvelope}

(* Every variable keeps its type; Send finds the socket in use or none,    *)
(* and nothing is published that is not recorded for the next attach.      *)
TypeOK ==
    /\ addr \in Addrs /\ cands \in Addrs \cup {{}}
    /\ {listeners, closing, skipped} \subseteq SUBSET Lan /\ listeners \cap skipped = {}
    /\ {ticker, noticed, trigger, debounce, broken, missed} \subseteq BOOLEAN /\ failures \in 0 .. MaxFailures
    /\ {last, hook, received} \subseteq Envelope
    /\ hook.ts <= last.ts /\ received.ts <= last.ts
    /\ spc \in {"first", "idle", "build", "bind", "send", "write"}
    /\ tpc \in {"dial", "attach", "hook", "publish", "read"}
    /\ active \in {NoConn, conn} /\ to \in NoConn .. conn

(* With the ticker on, when the addresses settle the receiver ends up with *)
(* them: an envelope that cannot be sent, or is lost with its connection,  *)
(* goes out through the on-connect hook ("Next WS attach will pick up msg  *)
(* via the onConnect hook"), wherever the attach and the refresh meet.     *)
SettledAddressPublished == \A a \in Addrs : <>[](ticker /\ addr = a) => <>[](received.addr = a)

(* The same for a change that came with a notification, without the help   *)
(* of the ticker: the channel of one token and the debounce timer coalesce *)
(* notifications and lose none.  A change is left unpublished only by a    *)
(* refresh that failed and was the last one.                               *)
NoticedChangePublished ==
    \A a \in Addrs : <>[](addr = a /\ noticed /\ ~missed) => <>[](received.addr = a)

(* The same without the exception: "Errors logged and swallowed -- the     *)
(* service runs forever".  Not so without the ticker: the failed refresh   *)
(* has used up the notification.                                           *)
FailedRefreshRepeated == \A a \in Addrs : <>[](addr = a /\ noticed) => <>[](received.addr = a)

(* When the addresses settle, the probe ends up answering on exactly the   *)
(* LAN addresses that are advertised, whatever happens to the tunnel:      *)
(* OnChange comes with every new envelope, the first one included, and     *)
(* before a Send that may find no connection.  An address that could not   *)
(* be bound is skipped, until the addresses change again.                  *)
ProbeFollowsAddresses ==
    \A a \in Addrs : <>[](ticker /\ addr = a) => <>[](listeners = (a \cap Lan) \ skipped /\ closing = {})
================================================================================
