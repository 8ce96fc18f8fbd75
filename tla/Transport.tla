------------------------------- MODULE Transport -------------------------------
(***************************************************************************)
(* reportTransport (internal/agent/agent.go): the goroutine that reads     *)
(* every 30 s whether the agent has a public inbound path, reports a       *)
(* change to the coordination service (device:transport), and warns the    *)
(* holders of manual 'direct' configurations when the path is lost.  A     *)
(* marker file makes the warning fire once per relay episode, across       *)
(* restarts.                                                               *)
(*                                                                         *)
(* What relayNeeded answers is the input path (module PortMapping models   *)
(* where it comes from).  A clean stop in the middle of the warnings makes *)
(* the remaining sends fail and is not told apart from sends that fail.    *)
(***************************************************************************)
EXTENDS Naturals

CONSTANTS
    Holders   \* the active members with a manual 'direct' configuration

VARIABLES
    path,      \* input: what relayNeeded would say now
    link,      \* input: the tunnel has a connection that works
    settled,   \* input: no more changes of path, failures or crashes from here
    last, streak,  \* the locals of reportTransport
    reporter, report, todo,
    marker,    \* the marker file exists
    known,     \* what the coordination service was last told
    warnings,  \* history: warnings each holder got since a direct path was last read
    unmarked   \* history: warnings were sent and the marker was not written

memory == <<last, streak, reporter, report, todo>>
trVars == <<path, link, settled, memory, marker, known, warnings, unmarked>>

Transports == {"direct", "relay"}
NoWarnings == [h \in Holders |-> 0]

Boot == last' = "unknown" /\ streak' = 0 /\ reporter' = "wait" /\ report' = "unknown" /\ todo' = {}

TRInit ==
    /\ path \in Transports /\ link = TRUE /\ settled = FALSE
    /\ last = "unknown" /\ streak = 0 /\ reporter = "wait" /\ report = "unknown" /\ todo = {}
    /\ marker = FALSE /\ known = "unknown"
    /\ warnings = NoWarnings /\ unmarked = FALSE

-------------------------------------------------------------------------------
(* Mutated form of transportReportDecision: only a flip is news, the first *)
(* reading after a start is not.                                           *)
MutDecisionStuck(cur, prev, n) ==
    IF cur = "direct" /\ prev = "relay" THEN "direct"
    ELSE IF cur = "relay" /\ prev = "direct" /\ n = 2 THEN "relay"
    ELSE "unknown"

transportReportDecision(cur, prev, n) ==
    IF cur = "direct" /\ prev # "direct" THEN "direct"
    ELSE IF cur = "relay" /\ prev # "relay" /\ n = 2 THEN "relay"
    ELSE "unknown"

(* One read.  streak counts to 2, the only value the decision tests.  The  *)
(* marker is looked at, or removed, before the report is sent.             *)
Read ==
    /\ reporter = "wait"
    /\ streak' = CASE path = "direct" -> 0 [] streak < 2 /\ path = "relay" -> streak + 1 [] OTHER -> 2
    /\ report' = transportReportDecision(path, last, streak')
    /\ reporter' = CASE report' = "unknown" -> "wait"
                     [] report' = "relay" /\ ~marker -> "warn"
                     [] OTHER -> "send"
    /\ todo' = IF reporter' = "warn" THEN Holders ELSE {}
    /\ marker' = (marker /\ report' # "direct")
    /\ warnings' = IF path = "direct" THEN NoWarnings ELSE warnings
    /\ unmarked' = (unmarked /\ path = "relay")
    /\ UNCHANGED <<path, link, settled, last, known>>

(* warnDirectConfigHolders: one holder; a send that fails is not repeated. *)
Warn(h) ==
    /\ reporter = "warn" /\ h \in todo
    /\ todo' = todo \ {h}
    /\ \/ warnings' = [warnings EXCEPT ![h] = IF @ < 2 THEN @ + 1 ELSE 2]
       \/ ~settled /\ UNCHANGED warnings
    /\ UNCHANGED <<path, link, settled, last, streak, reporter, report, marker, known, unmarked>>

(* Mutated form of SetMarker: the marker is not written.                   *)
MutSetMarkerNever ==
    /\ reporter = "warn" /\ todo = {}
    /\ reporter' = "send"
    /\ UNCHANGED <<path, link, settled, last, streak, report, todo, marker, known, warnings, unmarked>>

SetMarker ==
    /\ reporter = "warn" /\ todo = {}
    /\ reporter' = "send"
    /\ \/ marker' = TRUE /\ UNCHANGED unmarked
       \/ ~settled /\ unmarked' = TRUE /\ UNCHANGED marker
    /\ UNCHANGED <<path, link, settled, last, streak, report, todo, known, warnings>>

(* tunnel.Send: an error when there is no connection; what is written to a *)
(* connection that is dying is lost, with or without an error.             *)
Send ==
    /\ reporter = "send"
    /\ reporter' = "wait"
    /\ \/ link /\ last' = report /\ known' = report
       \/ ~link /\ UNCHANGED <<last, known>>
       \/ ~settled /\ link /\ last' = report /\ UNCHANGED known
    /\ UNCHANGED <<path, link, settled, streak, report, todo, marker, warnings, unmarked>>

-------------------------------------------------------------------------------
(* The environment.                                                        *)
PathChanges ==
    /\ ~settled
    /\ path' \in Transports \ {path}
    /\ UNCHANGED <<link, settled, memory, marker, known, warnings, unmarked>>

LinkChanges ==
    /\ ~settled
    /\ link' = ~link
    /\ UNCHANGED <<path, settled, memory, marker, known, warnings, unmarked>>

(* The process dies and starts again.                                      *)
TRCrash ==
    /\ ~settled
    /\ Boot
    /\ unmarked' = (unmarked \/ reporter = "warn")
    /\ UNCHANGED <<path, link, settled, marker, known, warnings>>

Settle ==
    /\ ~settled /\ link
    /\ settled' = TRUE
    /\ UNCHANGED <<path, link, memory, marker, known, warnings, unmarked>>

TRSteps == Read \/ (\E h \in Holders : Warn(h)) \/ SetMarker \/ Send
TRNext == TRSteps \/ PathChanges \/ LinkChanges \/ TRCrash \/ Settle

(* The goroutine's ticker fires and its calls return.                      *)
TRSpec == TRInit /\ [][TRNext]_trVars /\ WF_trVars(TRSteps)

-------------------------------------------------------------------------------
(* Types of the goroutine's locals and of the files.                       *)
TRTypeOK ==
    /\ path \in Transports /\ link \in BOOLEAN /\ settled \in BOOLEAN
    /\ last \in Transports \cup {"unknown"} /\ known \in Transports \cup {"unknown"}
    /\ streak \in 0 .. 2 /\ reporter \in {"wait", "warn", "send"}
    /\ report \in Transports \cup {"unknown"} /\ todo \subseteq Holders
    /\ marker \in BOOLEAN /\ unmarked \in BOOLEAN /\ warnings \in [Holders -> 0 .. 2]

(* "A persisted marker makes this fire once per relay episode": between    *)
(* two reads of a direct path a holder is warned once, whatever restarts   *)
(* and failed reports come in between, unless the marker could not be      *)
(* written after the warnings.                                             *)
WarnedOncePerEpisode == unmarked \/ \A h \in Holders : warnings[h] <= 1

(* When the path stops changing, the last report whose Send returned no    *)
(* error is about the path as it is: a report that fails is tried again    *)
(* until one succeeds, and no older one follows it.                        *)
LastReportIsCurrent == settled ~> [](last = path)

(* "Recovered to a direct path - re-arm so the next loss warns again":     *)
(* after a direct path has been read there is no marker.  Not so when the  *)
(* report of the loss could not be sent: last is still "direct", so the    *)
(* recovery is no news and the marker stays.                               *)
RecoveryRearms == [][Read /\ path = "direct" => ~marker']_trVars

(* When the path stops changing, the coordination service knows it.  Not   *)
(* so after a report was lost with its connection: unlike the endpoints,   *)
(* the transport is not sent again on the next attach.                     *)
ServiceKnowsTransport == settled ~> [](known = path)
===============================================================================
