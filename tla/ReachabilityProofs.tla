-------------------------- MODULE ReachabilityProofs --------------------------
(***************************************************************************)
(* Proofs about how the agent is reached: Transport, for any set of        *)
(* holders; RelayManager, for any nodes; PortMapping, for any lease and    *)
(* any amount of trouble.                                                  *)
(***************************************************************************)
EXTENDS Transport, RelayManager, PortMapping, TLAPS

-------------------------------------------------------------------------------
(* The transport reports.                                                  *)

(* The strengthening: while the history is clean, a holder the loop has    *)
(* still to visit was not warned, and without a marker nobody was, outside *)
(* the loop.  The loop runs only where there is no marker.                 *)
Unwarned ==
    ~unmarked =>
        /\ reporter = "warn" => ~marker /\ \A h \in todo : warnings[h] = 0
        /\ reporter # "warn" /\ ~marker => \A h \in Holders : warnings[h] = 0

WarnInv == TRTypeOK /\ WarnedOncePerEpisode /\ Unwarned

(* The invariant holds when the agent is first started.                    *)
LEMMA WarnInit == TRInit => WarnInv
<1> SUFFICES ASSUME TRInit PROVE WarnInv
  OBVIOUS
<1>1. TRTypeOK
  <2>1. warnings \in [Holders -> 0 .. 2]
    BY DEF TRInit, NoWarnings
  <2>2. link \in BOOLEAN /\ settled \in BOOLEAN /\ marker \in BOOLEAN /\ unmarked \in BOOLEAN
    BY Zenon DEF TRInit
  <2>3. streak \in 0 .. 2 /\ todo \subseteq Holders
    BY DEF TRInit
  <2>4. /\ last \in Transports \cup {"unknown"} /\ known \in Transports \cup {"unknown"}
        /\ report \in Transports \cup {"unknown"} /\ reporter \in {"wait", "warn", "send"}
    BY DEF TRInit
  <2> QED
    BY <2>1, <2>2, <2>3, <2>4 DEF TRInit, TRTypeOK
<1>2. \A h \in Holders : warnings[h] = 0
  BY Zenon DEF TRInit, NoWarnings
<1>3. reporter # "warn"
  BY DEF TRInit
<1> QED
  BY <1>1, <1>2, <1>3 DEF WarnInv, WarnedOncePerEpisode, Unwarned

(* What a read does to the files and the history: the marker survives a    *)
(* read of a lost path, and the warnings start only without one.           *)
LEMMA ReadEffect ==
    ASSUME TRTypeOK, Read
    PROVE  /\ TRTypeOK'
           /\ path = "direct" => warnings' = NoWarnings /\ reporter' # "warn" /\ ~unmarked'
           /\ path = "relay" => warnings' = warnings /\ unmarked' = unmarked /\ marker' = marker
           /\ reporter' = "warn" => ~marker
<1>1. report' \in Transports \cup {"unknown"} /\ (path = "direct" => report' # "relay")
                                               /\ (path = "relay" => report' # "direct")
  BY DEF TRTypeOK, Read, transportReportDecision, Transports
<1>2. streak' \in 0 .. 2
  BY DEF TRTypeOK, Read, Transports
<1>3. reporter' \in {"wait", "warn", "send"} /\ (reporter' = "warn" => report' = "relay" /\ ~marker)
  BY DEF Read
<1>4. todo' \subseteq Holders
  BY DEF Read
<1>5. warnings' \in [Holders -> 0 .. 2] /\ marker' \in BOOLEAN /\ unmarked' \in BOOLEAN
  BY DEF TRTypeOK, Read, NoWarnings
<1>6. path = "relay" => warnings' = warnings /\ unmarked' = unmarked /\ marker' = marker
  BY <1>1 DEF TRTypeOK, Read
<1>7. path = "direct" => warnings' = NoWarnings /\ reporter' # "warn" /\ ~unmarked'
  BY <1>1, <1>3, Zenon DEF Read
<1>8. TRTypeOK'
  BY <1>1, <1>2, <1>3, <1>4, <1>5 DEF TRTypeOK, Read
<1> QED
  BY <1>3, <1>6, <1>7, <1>8

(* Every step keeps the invariant.                                         *)
LEMMA WarnStep == WarnInv /\ [TRNext]_trVars => WarnInv'
<1> SUFFICES ASSUME WarnInv, [TRNext]_trVars PROVE WarnInv'
  OBVIOUS
<1> USE DEF WarnInv
<1>1. CASE Read
  <2>1. path = "direct" \/ path = "relay"
    BY DEF TRTypeOK, Transports
  <2>2. CASE path = "direct"
    BY <1>1, <2>2, ReadEffect DEF WarnedOncePerEpisode, Unwarned, NoWarnings
  <2>3. CASE path = "relay"
    <3>1. reporter = "wait" /\ (reporter' = "warn" => todo' = Holders)
      BY <1>1 DEF Read
    <3> QED
      BY <1>1, <2>3, <3>1, ReadEffect DEF WarnedOncePerEpisode, Unwarned
  <2> QED
    BY <2>1, <2>2, <2>3
<1>2. ASSUME NEW h \in Holders, Warn(h) PROVE WarnInv'
  <2>1. TRTypeOK'
    BY <1>2 DEF TRTypeOK, Warn
  <2>2. WarnedOncePerEpisode'
    BY <1>2 DEF TRTypeOK, Warn, WarnedOncePerEpisode, Unwarned
  <2>3. Unwarned'
    BY <1>2 DEF TRTypeOK, Warn, Unwarned
  <2> QED
    BY <2>1, <2>2, <2>3
<1>3. CASE SetMarker
  BY <1>3, Zenon DEF SetMarker, TRTypeOK, WarnedOncePerEpisode, Unwarned
<1>4. CASE Send
  BY <1>4 DEF Send, TRTypeOK, WarnedOncePerEpisode, Unwarned
<1>5. CASE PathChanges
  BY <1>5 DEF PathChanges, memory, TRTypeOK, WarnedOncePerEpisode, Unwarned
<1>6. CASE LinkChanges
  BY <1>6 DEF LinkChanges, memory, TRTypeOK, WarnedOncePerEpisode, Unwarned
<1>7. CASE TRCrash
  <2>1. TRTypeOK'
    <3>1. last' \in Transports \cup {"unknown"} /\ streak' \in 0 .. 2
          /\ reporter' \in {"wait", "warn", "send"} /\ report' \in Transports \cup {"unknown"} /\ todo' \subseteq Holders
      BY <1>7 DEF TRCrash, Boot
    <3>2. unmarked' \in BOOLEAN
      BY <1>7 DEF TRCrash
    <3> QED
      BY <1>7, <3>1, <3>2 DEF TRCrash, TRTypeOK
  <2>2. CASE reporter = "warn"
    <3>1. unmarked'
      BY <1>7, <2>2, Zenon DEF TRCrash
    <3> QED
      BY <2>1, <3>1 DEF WarnedOncePerEpisode, Unwarned
  <2>3. CASE reporter # "warn"
    <3>1. reporter' # "warn" /\ marker' = marker /\ warnings' = warnings
      BY <1>7 DEF TRCrash, Boot
    <3>2. unmarked' = unmarked
      BY <1>7, <2>3 DEF TRCrash, TRTypeOK
    <3> QED
      BY <2>1, <2>3, <3>1, <3>2 DEF WarnedOncePerEpisode, Unwarned
  <2> QED
    BY <2>2, <2>3
<1>8. CASE Settle
  BY <1>8 DEF Settle, memory, TRTypeOK, WarnedOncePerEpisode, Unwarned
<1>9. CASE UNCHANGED trVars
  BY <1>9 DEF trVars, memory, TRTypeOK, WarnedOncePerEpisode, Unwarned
<1> QED
  BY <1>1, <1>2, <1>3, <1>4, <1>5, <1>6, <1>7, <1>8, <1>9 DEF TRNext, TRSteps

(* Holders of direct configurations are warned at most once between two    *)
(* reads of a direct path, through any number of crashes, restarts and     *)
(* failed reports, unless the marker could not be written.                 *)
THEOREM WarnedOnce == TRSpec => []WarnedOncePerEpisode
<1>1. WarnInv => WarnedOncePerEpisode
  BY DEF WarnInv
<1> QED
  BY WarnInit, WarnStep, <1>1, PTL DEF TRSpec

-------------------------------------------------------------------------------
(* The relay client.                                                       *)

(* What the Manager's mutex protects: the session, its canceller and the   *)
(* endpoint follow the loop's way through runSession and back, and         *)
(* SetKeepAlive only has the canceller of the session in use.              *)
InSession == {"start", "dial", "ready", "closing", "closed", "failing", "failed"}

Sessions ==
    /\ RMTypeOK
    /\ loop \in InSession => session.node \in Nodes
    /\ loop \notin InSession => session = NoSession
    /\ hasCancel <=> loop \in {"dial", "ready", "closing", "failing"}
    /\ endpoint = IF loop \in {"ready", "closing", "closed"} THEN session.node ELSE None
    /\ keeper = "current" => hasCancel

(* requestGrant only adds its hint to what is on its way.                  *)
LEMMA RequestKeepsTypes ==
    ASSUME NEW hint \in Nodes \cup {Plain}, asked \subseteq Nodes \cup {Plain}, throttled \in BOOLEAN,
           RequestGrant(hint)
    PROVE  asked' \subseteq Nodes \cup {Plain} /\ throttled' \in BOOLEAN
BY Zenon DEF RequestGrant

(* Back in the loop, nothing is left of a session, whichever way it ended. *)
LEMMA SessionOverKeeps ==
    ASSUME Sessions, SessionOver, loop \in {"closed", "failed"}, failures' \in 0 .. (FailoverThreshold - 1),
           asked' \subseteq Nodes \cup {Plain}, throttled' \in BOOLEAN
    PROVE  Sessions'
BY Zenon DEF Sessions, SessionOver, InSession, RMTypeOK, env

LEMMA SessionsInductive ==
    ASSUME Sessions, [RMNext]_rmVars
    PROVE  Sessions'
<1>. USE DEF Sessions, InSession, RMTypeOK, env
<1>0. CASE LoopTop
  BY <1>0 DEF LoopTop
<1>1. CASE WaitEnds
  <2>1. wake' \in BOOLEAN
    BY <1>1, Zenon DEF WaitEnds
  <2>. QED
    BY <1>1, <2>1 DEF WaitEnds
<1>2. CASE NeedGrant
  BY <1>2, RequestKeepsTypes DEF NeedGrant
<1>3. CASE UseGrant
  <2>1. asked' \subseteq Nodes \cup {Plain} /\ throttled' \in BOOLEAN
    BY <1>3, RequestKeepsTypes DEF UseGrant
  <2>2. grant.node \in Nodes
    BY <1>3 DEF UseGrant, NoGrant
  <2>. QED
    BY <1>3, <2>1, <2>2 DEF UseGrant
<1>4. CASE ExposeCancel
  BY <1>4 DEF ExposeCancel
<1>5. CASE Established
  BY <1>5 DEF Established
<1>5a. CASE SessionEnds \/ DialFails
  BY <1>5a DEF SessionEnds, DialFails, RunReturns
<1>5b. CASE WithdrawCancel
  BY <1>5b DEF WithdrawCancel
<1>6. CASE AfterSession
  <2>1. 0 \in 0 .. (FailoverThreshold - 1)
    BY NumberAssumption
  <2>. QED
    BY <1>6, <2>1, SessionOverKeeps DEF AfterSession
<1>7. CASE AfterFailure
  <2>1. failures' \in 0 .. (FailoverThreshold - 1)
    BY <1>7, NumberAssumption DEF AfterFailure
  <2>2. asked' \subseteq Nodes \cup {Plain} /\ throttled' \in BOOLEAN
    BY <1>7, RequestKeepsTypes DEF AfterFailure
  <2>. QED
    BY <1>7, <2>1, <2>2, SessionOverKeeps DEF AfterFailure
<1>8. ASSUME NEW keep \in KeepAliveMessages, KeepAliveSet(keep) PROVE Sessions'
  BY <1>8, KeepAliveAssumption DEF KeepAliveSet
<1>9. CASE KeepAliveCancel
  <2>1. session' = session \/ (session.node \in Nodes /\ session' = [session EXCEPT !.cancelled = TRUE])
    BY <1>9 DEF KeepAliveCancel
  <2>2. session' \in [node : Nodes, cancelled : BOOLEAN] \cup {NoSession}
        /\ session'.node = session.node /\ (session = NoSession => session' = NoSession)
    <3>1. NoSession.node = None
      BY DEF NoSession
    <3>2. CASE session.node \in Nodes /\ session' = [session EXCEPT !.cancelled = TRUE]
      <4>1. session \in [node : Nodes, cancelled : BOOLEAN] /\ session # NoSession
        BY <3>1, <3>2, NodeAssumption
      <4>. QED
        BY <3>2, <4>1, Zenon
    <3>. QED
      BY <2>1, <3>2
  <2>3. {keepAlive', wake', throttled', hasCancel', publicPath', attached'} \subseteq BOOLEAN
    BY <1>9 DEF KeepAliveCancel
  <2>4. UNCHANGED <<loop, grant, endpoint, failures, asked, assigned, hasCancel>> /\ keeper' = "idle"
    BY <1>9 DEF KeepAliveCancel
  <2>. QED
    BY <2>2, <2>3, <2>4
<1>10. ASSUME NEW r \in asked, GrantArrives(r) PROVE Sessions'
  BY <1>10 DEF GrantArrives
<1>11. CASE GrantAges
  BY <1>11 DEF GrantAges, NoGrant
<1>12. CASE ThrottleEnds \/ Attach
  <2>1. {keepAlive', wake', throttled', hasCancel', publicPath', attached'} \subseteq BOOLEAN
    BY <1>12, Zenon DEF ThrottleEnds, Attach
  <2>2. UNCHANGED <<loop, grant, session, hasCancel, endpoint, failures, keeper, asked, assigned>>
    BY <1>12 DEF ThrottleEnds, Attach
  <2>. QED
    BY <2>1, <2>2
<1>15. CASE Detach
  BY <1>15, Zenon DEF Detach
<1>14. CASE PathFlips
  <2>1. publicPath' \in BOOLEAN
    BY <1>14 DEF PathFlips
  <2>. QED
    BY <1>14, <2>1 DEF PathFlips
<1>13. CASE UNCHANGED rmVars
  BY <1>13 DEF rmVars
<1>. QED
  BY <1>0, <1>1, <1>2, <1>3, <1>4, <1>5, <1>5a, <1>5b, <1>6, <1>7, <1>8, <1>9, <1>10, <1>11, <1>12, <1>13, <1>14, <1>15, Zenon
     DEF RMNext, LoopStep

(* The endpoint that Endpoint hands out is that of the session runSession  *)
(* is in, until its close is over, and SetKeepAlive can cancel every       *)
(* session that dials or serves, for any nodes, any threshold and any      *)
(* order of messages.                                                      *)
THEOREM EndpointIsOfSession == RMSpec => []OffersItsSession
<1>1. RMInit => Sessions
  <2>. SUFFICES ASSUME RMInit PROVE Sessions
    OBVIOUS
  <2>1. 0 \in 0 .. (FailoverThreshold - 1)
    BY NumberAssumption
  <2>2. {keepAlive, wake, throttled, hasCancel, publicPath, attached} \subseteq BOOLEAN
    BY Zenon DEF RMInit
  <2>. QED
    BY <2>1, <2>2 DEF RMInit, Sessions, InSession, RMTypeOK
<1>2. Sessions => OffersItsSession
  BY NodeAssumption DEF Sessions, RMTypeOK, OffersItsSession
<1>. QED
  BY <1>1, <1>2, SessionsInductive, PTL DEF RMSpec

-------------------------------------------------------------------------------
(* The port mapping and its alerts.                                        *)

(* What RestoredAnswersAlert rests on: the cooldown file is there only     *)
(* while the owner's last message is an alert, since a working mapping     *)
(* removes the file before it sends "restored"; and between the alert and  *)
(* its record in the file no other message is sent.                        *)
Messages ==
    /\ RestoredAnswersAlert
    /\ pending \in Alerts \cup {"none"}
    /\ pc = "alert" => pending \in Alerts
    /\ pc = "mark" => pending \in Alerts /\ told = pending
    /\ file # 0 => told \in Alerts

LEMMA MessagesInductive ==
    ASSUME Messages, [PMNext]_pmVars
    PROVE  Messages'
<1>. USE DEF Messages, RestoredAnswersAlert
<1>1. CASE Request("try", "tried") \/ Request("renew", "renewed")
  <2>1. UNCHANGED <<notified, told, file, pending>> /\ pc' \in {"tried", "renewed"}
    BY <1>1, Zenon DEF Request, episode
  <2>. QED
    BY <2>1
<1>2. CASE TryReturns
  BY <1>2 DEF TryReturns, Alerts, episode
<1>3. CASE RenewReturns
  <2>1. CASE RenewFailed
    BY <1>3, <2>1 DEF RenewReturns, RenewFailed, Alerts
  <2>2. CASE RenewCarrierNAT
    BY <1>3, <2>2 DEF RenewReturns, RenewCarrierNAT, Alerts
  <2>3. CASE RenewHealthy
    BY <1>3, <2>3 DEF RenewReturns, RenewHealthy, Alerts
  <2>. QED
    BY <1>3, <2>1, <2>2, <2>3 DEF RenewReturns
<1>4. CASE Alert
  BY <1>4 DEF Alert, OnCooldown
<1>5. CASE markPortMappingAlertSent
  BY <1>5 DEF markPortMappingAlertSent
<1>6. CASE Tick \/ StaysDown
  BY <1>6 DEF Tick, StaysDown, TimePasses, Older
<1>7. CASE Stop \/ Crash
  BY <1>7, Zenon DEF Stop, Crash, Fresh
<1>8. CASE StartUp \/ GatewayChanges \/ CalmDown
  BY <1>8 DEF StartUp, GatewayChanges, CalmDown, episode
<1>9. CASE UNCHANGED pmVars
  BY <1>9 DEF pmVars, episode
<1>. QED
  BY <1>1, <1>2, <1>3, <1>4, <1>5, <1>6, <1>7, <1>8, <1>9 DEF PMNext, Steps

(* "Port mapping restored" always answers an alert (RenewHealthy's case of *)
(* Agent.Run), for any lease, cooldown and patience, whatever the gateway  *)
(* does and however many sends and writes fail.                            *)
THEOREM RestoredFollowsAlert == PMSpec => []RestoredAnswersAlert
<1>1. PMInit => Messages
  BY Zenon DEF PMInit, Messages, RestoredAnswersAlert
<1>2. Messages => RestoredAnswersAlert
  BY DEF Messages
<1>. QED
  BY <1>1, <1>2, MessagesInductive, PTL DEF PMSpec, SpecOff
===============================================================================
