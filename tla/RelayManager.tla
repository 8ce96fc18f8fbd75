----------------------------- MODULE RelayManager -----------------------------
(***************************************************************************)
(* The relay client of internal/relay/client.go: one loop goroutine that   *)
(* obtains a grant over the tunnel, opens a session with the relay node    *)
(* the grant names, fails over to another node after repeated failures,    *)
(* and gives the session up when the relay is no longer wanted.            *)
(*                                                                         *)
(* Beside the loop run the tunnel read loop (relay:grant, relay:keepalive) *)
(* and whatever changes the agent's own reachability.  Timers are events   *)
(* that may come at any time; the coordination service is external and is  *)
(* modelled by the grants it answers with.                                 *)
(***************************************************************************)
EXTENDS Naturals

CONSTANTS
    Nodes,              \* relay nodes
    DeadNodes,          \* those that cannot be reached
    FailoverThreshold,  \* relayFailoverThreshold
    KeepAliveMessages,  \* the values relay:keepalive is received with
    MaxFlips,           \* bound: changes of the public path
    MaxDetach           \* bound: losses of the tunnel

None == "none"
Plain == "plain"    \* a request without a failed-host hint

ASSUME NodeAssumption == None \notin Nodes /\ DeadNodes \subseteq Nodes /\ DeadNodes # Nodes
ASSUME NumberAssumption == FailoverThreshold \in Nat \ {0} /\ MaxFlips \in Nat /\ MaxDetach \in Nat
ASSUME KeepAliveAssumption == KeepAliveMessages \subseteq BOOLEAN

VARIABLES
    loop,        \* what the loop is doing
    keepAlive, wake, throttled,   \* the Manager's fields; throttled: lastRequest is recent
    grant,       \* [node, age]; age "none" before the first
    session,     \* [node, cancelled] of the session being run
    hasCancel,   \* Manager.cancelSession is set
    endpoint,    \* the node of Manager.endpoint
    failures,
    keeper,      \* SetKeepAlive between its two halves: what it read of cancelSession
    publicPath,  \* the agent has a public inbound path
    attached,    \* the tunnel is connected
    asked,       \* the requests on their way to the coordination service
    assigned,    \* the node the service has assigned to this agent
    flips, detaches

rmVars == <<loop, keepAlive, wake, throttled, grant, session, hasCancel, endpoint, failures, keeper,
          publicPath, attached, asked, assigned, flips, detaches>>
env == <<publicPath, attached, assigned, flips, detaches>>

NoGrant == [node |-> None, age |-> "none"]
NoSession == [node |-> None, cancelled |-> FALSE]

(* relayWanted                                                             *)
Wanted == keepAlive \/ ~publicPath

RMInit ==
    /\ loop = "top"
    /\ keepAlive = FALSE /\ wake = FALSE /\ throttled = FALSE
    /\ grant = NoGrant /\ session = NoSession /\ hasCancel = FALSE /\ endpoint = None
    /\ failures = 0
    /\ keeper = "idle"
    /\ publicPath \in BOOLEAN /\ attached \in BOOLEAN
    /\ asked = {} /\ assigned \in Nodes
    /\ flips = 0 /\ detaches = 0

(* requestGrant: an unhinted request within the interval is not sent; one  *)
(* that cannot be sent does not start the interval.                        *)
RequestGrant(hint) ==
    IF (hint = Plain /\ throttled) \/ ~attached THEN UNCHANGED <<asked, throttled>>
    ELSE asked' = asked \cup {hint} /\ throttled' = TRUE

-------------------------------------------------------------------------------
(* Mutated form of LoopTop: a grant is kept current, wanted or not.        *)
MutLoopTopAlways ==
    /\ loop = "top"
    /\ loop' = "grant"
    /\ UNCHANGED <<keepAlive, wake, throttled, grant, session, hasCancel, endpoint, failures, keeper, asked, env>>

(* The loop.                                                               *)
LoopTop ==
    /\ loop = "top"
    /\ loop' = IF Wanted THEN "grant" ELSE "unwanted"
    /\ UNCHANGED <<keepAlive, wake, throttled, grant, session, hasCancel, endpoint, failures, keeper, asked, env>>

(* A wait ends with a wake-up or its timer.                                *)
WaitEnds ==
    /\ loop \in {"unwanted", "nogrant", "backoff"}
    /\ loop' = "top"
    /\ wake' \in {FALSE, wake}
    /\ UNCHANGED <<keepAlive, throttled, grant, session, hasCancel, endpoint, failures, keeper, asked, env>>

NeedGrant ==
    /\ loop = "grant"
    /\ grant.age \in {"none", "expired"}
    /\ RequestGrant(Plain)
    /\ loop' = "nogrant"
    /\ UNCHANGED <<keepAlive, wake, grant, session, hasCancel, endpoint, failures, keeper, env>>

UseGrant ==
    /\ loop = "grant"
    /\ grant.age \in {"fresh", "expiring"}
    /\ IF grant.age = "expiring" THEN RequestGrant(Plain) ELSE UNCHANGED <<asked, throttled>>
    /\ session' = [node |-> grant.node, cancelled |-> FALSE]
    /\ loop' = "start"
    /\ UNCHANGED <<keepAlive, wake, grant, hasCancel, endpoint, failures, keeper, env>>

(* runSession: expose the canceller, dial and authenticate, run the shim   *)
(* and the control watcher until one of them ends.                         *)
ExposeCancel ==
    /\ loop = "start"
    /\ hasCancel' = TRUE
    /\ loop' = "dial"
    /\ UNCHANGED <<keepAlive, wake, throttled, grant, session, endpoint, failures, keeper, asked, env>>

Established ==
    /\ loop = "dial" /\ ~session.cancelled /\ session.node \notin DeadNodes
    /\ endpoint' = session.node
    /\ loop' = "ready"
    /\ UNCHANGED <<keepAlive, wake, throttled, grant, session, hasCancel, failures, keeper, asked, env>>

(* The shim or the control watcher of a session ends, or it never gets     *)
(* that far.  What follows is runSession's return, deferred call by        *)
(* deferred call, and the endpoint is offered until the loop has it back.  *)
RunReturns(from, to) ==
    /\ loop = from /\ loop' = to
    /\ UNCHANGED <<keepAlive, wake, throttled, grant, session, hasCancel, endpoint, failures, keeper, asked, env>>

SessionEnds == RunReturns("ready", "closing")
DialFails == RunReturns("dial", "failing")

(* The control connection is closed, which may wait for the relay, and     *)
(* then the canceller is withdrawn.                                        *)
WithdrawCancel ==
    /\ loop \in {"closing", "failing"}
    /\ loop' = IF loop = "closing" THEN "closed" ELSE "failed"
    /\ hasCancel' = FALSE
    /\ keeper' = IF keeper = "current" THEN "old" ELSE keeper
    /\ UNCHANGED <<keepAlive, wake, throttled, grant, session, endpoint, failures, asked, env>>

(* Mutated form of SessionOver: the endpoint of the session stays offered. *)
MutSessionOverOffers ==
    /\ session' = NoSession
    /\ loop' = "backoff"
    /\ UNCHANGED <<keepAlive, wake, grant, hasCancel, endpoint, keeper, env>>

(* Back in the loop, which withdraws the endpoint.                         *)
SessionOver ==
    /\ session' = NoSession /\ endpoint' = None
    /\ loop' = "backoff"
    /\ UNCHANGED <<keepAlive, wake, grant, hasCancel, keeper, env>>

AfterSession ==
    /\ loop = "closed"
    /\ SessionOver
    /\ failures' = 0
    /\ UNCHANGED <<asked, throttled>>

(* Mutated form of AfterFailure: the failed node is never reported.        *)
MutAfterFailureNoHint ==
    /\ loop = "failed"
    /\ SessionOver
    /\ failures' = IF failures + 1 >= FailoverThreshold THEN 0 ELSE failures + 1
    /\ UNCHANGED <<asked, throttled>>

(* After FailoverThreshold sessions that never got ready the agent asks    *)
(* for another node, unless manual configs pin it to this one.             *)
AfterFailure ==
    /\ loop = "failed"
    /\ SessionOver
    /\ IF failures + 1 >= FailoverThreshold
       THEN /\ failures' = 0
            /\ IF keepAlive THEN UNCHANGED <<asked, throttled>> ELSE RequestGrant(session.node)
       ELSE failures' = failures + 1 /\ UNCHANGED <<asked, throttled>>

-------------------------------------------------------------------------------
(* SetKeepAlive reads cancelSession together with the assignment, and      *)
(* cancels after releasing the mutex.                                      *)
KeepAliveSet(keep) ==
    /\ attached /\ keeper = "idle"
    /\ keepAlive' = keep
    /\ keeper' = IF hasCancel THEN "current" ELSE "nil"
    /\ UNCHANGED <<loop, wake, throttled, grant, session, hasCancel, endpoint, failures, asked, env>>

KeepAliveCancel ==
    /\ keeper # "idle"
    /\ session' = IF ~Wanted /\ keeper = "current" THEN [session EXCEPT !.cancelled = TRUE] ELSE session
    /\ wake' = TRUE
    /\ keeper' = "idle"
    /\ UNCHANGED <<loop, keepAlive, throttled, grant, hasCancel, endpoint, failures, asked, env>>

(* SetGrant; a hinted request moves the agent to another node.             *)
GrantArrives(r) ==
    /\ r \in asked /\ attached
    /\ assigned' \in IF r = assigned THEN Nodes \ {r} ELSE {assigned}
    /\ grant' = [node |-> assigned', age |-> "fresh"]
    /\ wake' = TRUE
    /\ asked' = asked \ {r}
    /\ UNCHANGED <<loop, keepAlive, throttled, session, hasCancel, endpoint, failures, keeper,
                   publicPath, attached, flips, detaches>>

-------------------------------------------------------------------------------
(* A grant lasts longer than the loop needs to react to a wake-up.         *)
GrantAges ==
    /\ loop \notin {"top", "grant"} /\ ~(wake /\ loop \in {"unwanted", "nogrant", "backoff"})
    /\ grant.age \in {"fresh", "expiring"}
    /\ grant' = [grant EXCEPT !.age = IF @ = "fresh" THEN "expiring" ELSE "expired"]
    /\ UNCHANGED <<loop, keepAlive, wake, throttled, session, hasCancel, endpoint, failures, keeper, asked, env>>

ThrottleEnds ==
    /\ throttled
    /\ throttled' = FALSE
    /\ UNCHANGED <<loop, keepAlive, wake, grant, session, hasCancel, endpoint, failures, keeper, asked, env>>

PathFlips ==
    /\ flips < MaxFlips
    /\ flips' = flips + 1
    /\ publicPath' = ~publicPath
    /\ UNCHANGED <<loop, keepAlive, wake, throttled, grant, session, hasCancel, endpoint, failures, keeper, asked,
                   attached, assigned, detaches>>

Attach ==
    /\ ~attached
    /\ attached' = TRUE
    /\ UNCHANGED <<loop, keepAlive, wake, throttled, grant, session, hasCancel, endpoint, failures, keeper, asked,
                   publicPath, assigned, flips, detaches>>

(* A request or its answer is lost with the connection.                    *)
Detach ==
    /\ attached /\ detaches < MaxDetach
    /\ detaches' = detaches + 1
    /\ attached' = FALSE /\ asked' = {}
    /\ UNCHANGED <<loop, keepAlive, wake, throttled, grant, session, hasCancel, endpoint, failures, keeper,
                   publicPath, assigned, flips>>

LoopStep ==
    \/ LoopTop \/ WaitEnds \/ NeedGrant \/ UseGrant \/ ExposeCancel
    \/ DialFails \/ WithdrawCancel \/ AfterSession \/ AfterFailure

RMNext ==
    \/ LoopStep \/ Established \/ SessionEnds
    \/ \E keep \in KeepAliveMessages : KeepAliveSet(keep)
    \/ KeepAliveCancel
    \/ \E r \in asked : GrantArrives(r)
    \/ GrantAges \/ ThrottleEnds
    \/ PathFlips \/ Attach \/ Detach

(* The loop's calls return and its timers fire; a node that can be reached *)
(* is reached in the end; a cancelled session ends (but one that works may *)
(* last); the tunnel reconnects and the service answers.                   *)
RMFairness ==
    /\ WF_rmVars(LoopStep)
    /\ SF_rmVars(Established)
    /\ WF_rmVars(session.cancelled /\ SessionEnds)
    /\ WF_rmVars(KeepAliveCancel)
    /\ \A r \in Nodes \cup {Plain} : WF_rmVars(GrantArrives(r))
    /\ WF_rmVars(ThrottleEnds) /\ WF_rmVars(Attach)

RMSpec == RMInit /\ [][RMNext]_rmVars /\ RMFairness

-------------------------------------------------------------------------------
(* Every variable of the relay manager keeps its type; a canceller is set, *)
(* and an endpoint offered, only while there is a session.                 *)
RMTypeOK ==
    /\ loop \in {"top", "unwanted", "grant", "nogrant", "start", "dial", "ready",
                "closing", "closed", "failing", "failed", "backoff"}
    /\ {keepAlive, wake, throttled, hasCancel, publicPath, attached} \subseteq BOOLEAN
    /\ grant \in [node : Nodes, age : {"fresh", "expiring", "expired"}] \cup {NoGrant}
    /\ session \in [node : Nodes, cancelled : BOOLEAN] \cup {NoSession}
    /\ endpoint \in Nodes \cup {None}
    /\ failures \in 0 .. (FailoverThreshold - 1)
    /\ keeper \in {"idle", "nil", "current", "old"}
    /\ asked \subseteq Nodes \cup {Plain} /\ assigned \in Nodes

(* The endpoint that Endpoint hands out is that of the session runSession  *)
(* is in, from ready to the end of its close, and a session that dials or  *)
(* serves can be cancelled: no failed dial, cancelled session, late        *)
(* SetKeepAlive or change of node leaves the endpoint of an earlier one    *)
(* behind, or a session that SetKeepAlive could not end.                   *)
OffersItsSession ==
    /\ endpoint # None => loop \in {"ready", "closing", "closed"} /\ endpoint = session.node
    /\ loop \in {"dial", "ready"} => hasCancel

(* "Endpoint returns relayHost:dataPort and true once a relay session is   *)
(* live".  Not so while a dead session's control connection is closed: its *)
(* endpoint is handed out until the loop has returned from runSession.     *)
EndpointIsLive == endpoint # None /\ Wanted => loop = "ready"

(* An agent that needs the relay from some time on, and whose manual       *)
(* configs do not pin it, has a session again and again: lost requests,    *)
(* the request interval, expired grants and unreachable nodes delay the    *)
(* loop but never stop it.                                                 *)
RelayComesUp == <>[](Wanted /\ ~keepAlive) => []<>(loop = "ready")

(* An agent that does not want the relay from some time on stops asking    *)
(* for grants, once sessions have ended.                                   *)
SilentWhenUnwanted == <>[](~Wanted) => <>[](asked = {})

(* When keep-alive clears and the relay is no longer wanted, the session   *)
(* ends ("torn down at once rather than left to linger").                  *)
TornDownWhenUnwanted == <>[](~Wanted) => []<>(loop # "ready")
===============================================================================
