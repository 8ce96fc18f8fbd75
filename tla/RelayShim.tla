------------------------------- MODULE RelayShim -------------------------------
(***************************************************************************)
(* The shim of one relay session (internal/relay/shim.go), which carries   *)
(* datagrams between the session's socket to the relay and one loopback    *)
(* socket per client tunnel, from newShim to the end of run.               *)
(*                                                                         *)
(* Four kinds of goroutine share the table of tunnels: the reader (run),   *)
(* the reaper, and one replyPump per loopback socket; the keep-alive only  *)
(* writes.  Each takes sockets out of the table under the mutex and closes *)
(* them after releasing it.  Datagrams are not kept, time is the set of    *)
(* sockets that have been idle too long, and a tunnel id that is closed    *)
(* may be used again at once.                                              *)
(***************************************************************************)
EXTENDS FiniteSets, Naturals

CONSTANTS
    Ids,         \* tunnel ids
    Sockets,     \* the loopback sockets, each of which is dialled once
    NoSocket,
    MaxTunnels   \* maxTunnels

VARIABLES
    run,         \* where run is: "bind", "read", "write", "close", "closeall" or "over"
    current,     \* the socket run has in hand
    cancelled,   \* the session's context is done
    table,       \* tunnels
    dialled, open, idle,
    expired,     \* what reapOnce took out of the table and has not closed yet
    leaving,     \* what closeAll took out and has not closed yet
    pumping,     \* the sockets whose replyPump runs
    warm,        \* the keep-alive goroutine runs
    failed       \* history: a pump ended with an error on an open socket

sockets == <<dialled, open, idle>>
vars == <<run, current, cancelled, table, sockets, expired, leaving, pumping, warm, failed>>

Tunnels == {i \in Ids : table[i] # NoSocket}
Held == {table[i] : i \in Tunnels}

Init ==
    /\ run = "bind" /\ current = NoSocket /\ cancelled = FALSE
    /\ table = [i \in Ids |-> NoSocket]
    /\ dialled = {} /\ open = {} /\ idle = {}
    /\ expired = {} /\ leaving = {}
    /\ pumping = {} /\ warm = FALSE /\ failed = FALSE

-------------------------------------------------------------------------------
(* The first write binds the association; its error ends run.              *)
Bind ==
    /\ run = "bind"
    /\ \/ run' = "read" /\ warm' = TRUE
       \/ run' = "over" /\ UNCHANGED warm
    /\ UNCHANGED <<current, cancelled, table, sockets, expired, leaving, pumping, failed>>

(* toWireGuard, under the mutex: a tunnel that is there is active again; a *)
(* new one is dropped at the ceiling, or when the dial fails.              *)
KnownTunnel(i) ==
    /\ run = "read" /\ i \in Tunnels
    /\ idle' = idle \ {table[i]}
    /\ run' = "write" /\ current' = table[i]
    /\ UNCHANGED <<cancelled, table, dialled, open, expired, leaving, pumping, warm, failed>>

NewTunnel(i, s) ==
    /\ run = "read" /\ i \notin Tunnels
    /\ Cardinality(Tunnels) < MaxTunnels
    /\ s \in Sockets \ dialled
    /\ dialled' = dialled \cup {s} /\ open' = open \cup {s}
    /\ table' = [table EXCEPT ![i] = s]
    /\ pumping' = pumping \cup {s}
    /\ run' = "write" /\ current' = s
    /\ UNCHANGED <<cancelled, idle, expired, leaving, warm, failed>>

(* After the mutex: the datagram goes to the socket, closed or not.        *)
ToWireGuard ==
    /\ run = "write"
    /\ run' = "read" /\ current' = NoSocket
    /\ UNCHANGED <<cancelled, table, sockets, expired, leaving, pumping, warm, failed>>

(* closeTunnel, for a CLOSE frame, in its two halves.                      *)
TakeTunnel(i) ==
    /\ run = "read" /\ i \in Tunnels
    /\ table' = [table EXCEPT ![i] = NoSocket]
    /\ run' = "close" /\ current' = table[i]
    /\ UNCHANGED <<cancelled, sockets, expired, leaving, pumping, warm, failed>>

CloseTunnel ==
    /\ run = "close"
    /\ open' = open \ {current}
    /\ run' = "read" /\ current' = NoSocket
    /\ UNCHANGED <<cancelled, table, dialled, idle, expired, leaving, pumping, warm, failed>>

(* A read fails, or run sees that the context is done: closeAll empties    *)
(* the table and closes what was in it; then the reaper and the keep-alive *)
(* are told to stop.                                                       *)
CloseAll ==
    /\ run = "read"
    /\ table' = [i \in Ids |-> NoSocket]
    /\ leaving' = Held
    /\ run' = "closeall"
    /\ UNCHANGED <<current, cancelled, sockets, expired, pumping, warm, failed>>

CloseOne(s) ==
    /\ run = "closeall" /\ s \in leaving
    /\ leaving' = leaving \ {s}
    /\ open' = open \ {s}
    /\ UNCHANGED <<run, current, cancelled, table, dialled, idle, expired, pumping, warm, failed>>

Return ==
    /\ run = "closeall" /\ leaving = {}
    /\ run' = "over"
    /\ UNCHANGED <<current, cancelled, table, sockets, expired, leaving, pumping, warm, failed>>

-------------------------------------------------------------------------------
(* reapOnce takes the idle tunnels out of the table, then closes them; a   *)
(* tick may still win over a context that is done.                         *)
Reap ==
    /\ run # "bind" /\ expired = {}
    /\ expired' = Held \cap idle
    /\ table' = [i \in Ids |-> IF table[i] \in idle THEN NoSocket ELSE table[i]]
    /\ UNCHANGED <<run, current, cancelled, sockets, leaving, pumping, warm, failed>>

CloseExpired(s) ==
    /\ s \in expired
    /\ expired' = expired \ {s}
    /\ open' = open \ {s}
    /\ UNCHANGED <<run, current, cancelled, table, dialled, idle, leaving, pumping, warm, failed>>

(* replyPump: a datagram of WireGuard is sent on.  A read or a write that  *)
(* fails, a socket that was closed or a context that is done end the pump, *)
(* which leaves the table alone; a read fails when nothing listens at      *)
(* WireGuard's port.                                                       *)
Reply(s) ==
    /\ s \in pumping \cap open
    /\ \/ idle' = idle \ {s} /\ UNCHANGED <<pumping, failed>>
       \/ idle' \in {idle, idle \ {s}} /\ pumping' = pumping \ {s} /\ failed' = TRUE
    /\ UNCHANGED <<run, current, cancelled, table, dialled, open, expired, leaving, warm>>

PumpEnds(s) ==
    /\ s \in pumping /\ (s \notin open \/ cancelled)
    /\ pumping' = pumping \ {s}
    /\ UNCHANGED <<run, current, cancelled, table, sockets, expired, leaving, warm, failed>>

(* The keep-alive ends for good with its first error, or with the context. *)
KeepaliveEnds ==
    /\ warm
    /\ warm' = FALSE
    /\ UNCHANGED <<run, current, cancelled, table, sockets, expired, leaving, pumping, failed>>

(* A socket has been idle for tunnelIdleTimeout.                           *)
GoesIdle(s) ==
    /\ s \in open \ idle
    /\ idle' = idle \cup {s}
    /\ UNCHANGED <<run, current, cancelled, table, dialled, open, expired, leaving, pumping, warm, failed>>

(* runSession gives the session up.                                        *)
Cancel ==
    /\ ~cancelled
    /\ cancelled' = TRUE
    /\ UNCHANGED <<run, current, table, sockets, expired, leaving, pumping, warm, failed>>

RunStep ==
    \/ Bind \/ ToWireGuard \/ CloseTunnel \/ CloseAll \/ Return
    \/ \E s \in leaving : CloseOne(s)
Finish == \E s \in Sockets : CloseExpired(s) \/ PumpEnds(s)

Next ==
    \/ RunStep \/ Finish \/ Reap \/ KeepaliveEnds \/ Cancel
    \/ \E i \in Ids : KnownTunnel(i) \/ TakeTunnel(i) \/ \E s \in Sockets : NewTunnel(i, s)
    \/ \E s \in Sockets : Reply(s) \/ GoesIdle(s)

(* Goroutines go on and calls return; run looks at the context before each *)
(* read, which a cancelled session makes fail.                             *)
Fairness ==
    /\ WF_vars(RunStep /\ run # "read") /\ SF_vars(CloseAll /\ cancelled)
    /\ WF_vars(Finish)

Spec == Init /\ [][Next]_vars /\ Fairness

-------------------------------------------------------------------------------
Closing == IF run = "close" THEN {current} ELSE {}

(* Every open loopback socket has exactly one owner that will close it:    *)
(* the table, the reader, the reaper or closeAll.  So none leaks, whatever *)
(* CLOSE frames, expiry, reuse of a tunnel id and the end of the session   *)
(* do at the same time, and none is closed twice (closeOnce is never       *)
(* needed).                                                                *)
OneOwner ==
    /\ open = Held \cup Closing \cup expired \cup leaving
    /\ \A i, j \in Tunnels : table[i] = table[j] => i = j
    /\ Held \cap (Closing \cup expired \cup leaving) = {}
    /\ Closing \cap (expired \cup leaving) = {}
    /\ expired \cap leaving = {}

(* The table never exceeds maxTunnels.                                     *)
Ceiling == IsFiniteSet(Tunnels) /\ Cardinality(Tunnels) <= MaxTunnels

(* A tunnel in the table has a pump that carries its replies, unless a     *)
(* pump met an error: it then leaves its tunnel in the table, where the    *)
(* client's own datagrams keep it from expiring.                           *)
TunnelsAnswer == ~failed /\ ~cancelled => Held \subseteq pumping

(* The same without the exception.                                         *)
TunnelsAlwaysAnswer == ~cancelled => Held \subseteq pumping

(* Once the session is given up, its sockets and pumps are gone.           *)
SocketsReleased == cancelled ~> (open = {} /\ pumping = {})
===============================================================================
