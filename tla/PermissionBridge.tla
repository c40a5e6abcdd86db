--------------------------- MODULE PermissionBridge ---------------------------
(***************************************************************************)
(* How a permission request reaches the phone and how its answer gets back *)
(* to Claude: the hook server, the daemon's tracking of blocking requests  *)
(* and of notification deliveries, and the SDK's canUseTool channel.       *)
(*                                                                         *)
(*   src/src/hooks/hook-server.ts            held HTTP hooks, their timers *)
(*   src/src/wiring/notification-bookkeeping.ts   the two tracking maps    *)
(*   src/src/wiring/hook-handlers-lifecycle.ts, hook-handlers-codex.ts,    *)
(*   session-manager-handlers.ts, transport-handlers.ts     event wiring   *)
(*   src/src/commands/handlers/responses.ts, acks.ts        phone commands *)
(*   src/src/sessions/session-manager.ts     the SDK permission promises   *)
(*                                                                         *)
(* The daemon is one Node process: a handler runs to its end, or to an     *)
(* await, without interruption, and EventEmitter.emit calls the listeners  *)
(* at once, so a hook together with the wiring it triggers is one action.  *)
(* What is interleaved is everything between handlers: several Claude      *)
(* processes, their terminals, the phone, timers and retry ticks.          *)
(***************************************************************************)
EXTENDS PreToolUseCorrelator, FiniteSets

CONSTANTS
    Sessions,
    SdkCalls,       \* canUseTool callbacks of controller-mode sessions
    SessionOf,      \* the session of a tool call or of an SDK call
    KindOf,         \* what it asks: a member of Kinds; stands for toolName
    ModernSessions, \* sessions whose PermissionRequest carries tool_use_id
    NoTool,         \* no entry in pendingPermissions
    AckChoices,     \* what a peer_hello may say of NOTIFICATION_DELIVERY_ACKS
    MaxRestarts     \* bound on restarts of the hook server

Kinds == {"permission_request", "user_question", "plan_review"}
Calls == Tools \cup SdkCalls
Controlled == { SessionOf[c] : c \in SdkCalls }

ASSUME CallAssumption ==
    /\ Tools \cap SdkCalls = {}
    /\ NoTool \notin Tools
    /\ SessionOf \in [Calls -> Sessions]
    /\ KindOf \in [Calls -> Kinds]
    /\ \A t \in Tools : SessionOf[t] \notin Controlled
ASSUME PeerAssumption == AckChoices \subseteq BOOLEAN /\ MaxRestarts \in Nat

(***************************************************************************)
(* Wire request ids.  A hook request is known by a tool_use_id or, when no *)
(* PreToolUse could be correlated, by a fresh hook id; an SDK request by   *)
(* the id canUseTool generates.                                            *)
(***************************************************************************)
ToolReq(t) == [by |-> "tool", call |-> t]
HookReq(t) == [by |-> "hook", call |-> t]
SdkReq(c)  == [by |-> "sdk",  call |-> c]

HookRequests == [by : {"tool", "hook"}, call : Tools]
SdkRequests  == [by : {"sdk"}, call : SdkCalls]
Requests     == HookRequests \cup SdkRequests
NoRequest    == [by |-> "none", call |-> NoTool]

Kind(r)       == KindOf[r.call]
SessionOfR(r) == SessionOf[r.call]
RequestsOf(s) == { r \in Requests : SessionOfR(r) = s }
Key(t)        == << SessionOf[t], KindOf[t] >>
Keys          == Sessions \X Kinds

VARIABLES
    \* HookServer
    queue,      \* preToolUseCorrelator: one queue for each key
    correlated, \* toolUseToHookId; it maps an id to itself, so it is a set
    pending,    \* pendingPermissions: the call whose HTTP response waits
    reqOf,      \* the requestId a PermissionRequest handler closed over
    http,       \* the PermissionRequest's HTTP response, for each call
    armed,      \* calls whose hold timer is armed
    open,       \* calls whose 'close' event has not fired
    hookGen,    \* how often the hook server has been replaced
    \* the daemon's bookkeeping
    blocking,   \* keys of pendingBlockingRequests
    deliveries, \* keys of pendingNotificationDeliveries
    \* the phone as the daemon knows it
    phoneOnline, ackCap,
    told,       \* the last card event sent to the phone for a request
    \* SessionManager
    sdk,        \* the canUseTool promise of a call
    sdkPending, \* pendingPermissions of all sessions
    ended,      \* sessions removed or aborted
    escaped,    \* interrupted sessions whose session_interrupted is to come
    \* the Claude processes
    phase       \* how far a tool call has come

hookVars  == << queue, correlated, pending, reqOf, http, armed, open, hookGen >>
trackVars == << blocking, deliveries >>
peerVars  == << phoneOnline, ackCap >>
sdkVars   == << sdk, sdkPending, ended >>
vars == << queue, correlated, pending, reqOf, http, armed, open, hookGen,
           blocking, deliveries, phoneOnline, ackCap, told,
           sdk, sdkPending, ended, escaped, phase >>

TypeOK ==
    /\ queue \in [Keys -> Seq(Tools)]
    /\ correlated \subseteq Tools
    /\ pending \in [HookRequests -> Tools \cup {NoTool}]
    /\ reqOf \in [Tools -> HookRequests \cup {NoRequest}]
    /\ http \in [Tools -> {"none", "held", "allow", "deny", "empty", "closed", "twice"}]
    /\ armed \subseteq Tools
    /\ open \subseteq Tools
    /\ hookGen \in 0 .. MaxRestarts
    /\ blocking \subseteq Requests
    /\ deliveries \subseteq Requests
    /\ phoneOnline \in BOOLEAN
    /\ ackCap \in BOOLEAN
    /\ told \in [Requests -> {"none", "shown", "answered", "expired", "dismissed"}]
    /\ sdk \in [SdkCalls -> {"none", "waiting", "allow", "deny"}]
    /\ sdkPending \subseteq SdkRequests
    /\ ended \subseteq Sessions
    /\ escaped \subseteq Sessions
    /\ phase \in [Tools -> {"idle", "called", "prompting", "running", "done"}]

Init ==
    /\ queue = [k \in Keys |-> << >>]
    /\ correlated = {}
    /\ pending = [r \in HookRequests |-> NoTool]
    /\ reqOf = [t \in Tools |-> NoRequest]
    /\ http = [t \in Tools |-> "none"]
    /\ armed = {} /\ open = {} /\ hookGen = 0
    /\ blocking = {} /\ deliveries = {}
    /\ phoneOnline = FALSE /\ ackCap = FALSE
    /\ told = [r \in Requests |-> "none"]
    /\ sdk = [c \in SdkCalls |-> "none"]
    /\ sdkPending = {} /\ ended = {} /\ escaped = {}
    /\ phase = [t \in Tools |-> "idle"]

-----------------------------------------------------------------------------
(***************************************************************************)
(* Helpers shared by the handlers                                          *)
(***************************************************************************)

HookPending(r) == r \in HookRequests /\ pending[r] # NoTool

\* res.writeHead + res.end: a response can be written once; writing it again
\* throws ERR_HTTP_HEADERS_SENT.  A response whose socket is gone is lost.
Answered(response, body) == CASE response = "held"   -> body
                              [] response = "closed" -> "closed"
                              [] OTHER               -> "twice"

\* Mutant: the hold timer is not cleared.
ResolveKeepingTimer(r, verdict) ==
    /\ pending' = [pending EXCEPT ![r] = NoTool]
    /\ armed' = armed
    /\ http' = [http EXCEPT ![pending[r]] = Answered(@, verdict)]

\* resolvePermissionPrompt and its siblings on an entry that exists.
ResolvePending(r, verdict) ==
    /\ pending' = [pending EXCEPT ![r] = NoTool]
    /\ armed' = armed \ {pending[r]}
    /\ http' = [http EXCEPT ![pending[r]] = Answered(@, verdict)]

\* clearNotificationDelivery for each of the event types given.
Cleared(types, r) == { d \in deliveries : ~(d = r /\ Kind(d) \in types) }

\* sendNotificationEventToPhone: tracked only while the phone is online, and
\* only if it acknowledges notifications.
TrackedDelivery(r) == IF phoneOnline /\ ackCap THEN deliveries \cup {r} ELSE deliveries

\* Mutant: only the SDK channel is asked.
StillPendingInSdk(r) == r \in sdkPending

\* isStillPending.  The bookkeeping and the phone_online handler were given
\* the HookServer that existed when they were wired: after a restart they ask
\* the one that was stopped, which holds nothing.
StillPending(r) == (hookGen = 0 /\ HookPending(r)) \/ r \in sdkPending

\* Mutant: the expired request goes on being tracked.
ExpireButTrack(r) ==
    /\ told' = [told EXCEPT ![r] = "expired"]
    /\ blocking' = blocking
    /\ deliveries' = Cleared({Kind(r)}, r)

\* The permission_expired handler.
Expire(r) ==
    /\ told' = [told EXCEPT ![r] = "expired"]
    /\ blocking' = blocking \ {r}
    /\ deliveries' = Cleared(IF r \in blocking THEN {Kind(r)} ELSE {"permission_request"}, r)

-----------------------------------------------------------------------------
(***************************************************************************)
(* Claude Code, its terminal and its user: external to the daemon          *)
(***************************************************************************)

\* The tool needs no approval.
RunUnasked(t) ==
    /\ phase[t] = "called"
    /\ phase' = [phase EXCEPT ![t] = "running"]
    /\ UNCHANGED << hookVars, trackVars, peerVars, told, sdkVars, escaped >>

\* The prompt is also in the terminal; whoever answers first wins.
TerminalAnswers(t) ==
    /\ phase[t] = "prompting"
    /\ \E p \in {"running", "done"} : phase' = [phase EXCEPT ![t] = p]
    /\ UNCHANGED << hookVars, trackVars, peerVars, told, sdkVars, escaped >>

\* Claude reads the daemon's decision; "{}" leaves it to the terminal.
ClaudeReadsDecision(t) ==
    /\ phase[t] = "prompting" /\ t \in open
    /\ http[t] \in {"allow", "deny"}
    /\ phase' = [phase EXCEPT ![t] = IF http[t] = "allow" THEN "running" ELSE "done"]
    /\ UNCHANGED << hookVars, trackVars, peerVars, told, sdkVars, escaped >>

\* The call ends and no PostToolUse comes: it fails, a rule denies it, or the
\* process dies.
CallAbandoned(t) ==
    /\ phase[t] \in {"called", "prompting", "running"}
    /\ phase' = [phase EXCEPT ![t] = "done"]
    /\ UNCHANGED << hookVars, trackVars, peerVars, told, sdkVars, escaped >>

\* ESC in a terminal, or Query.interrupt() for an SDK session: the SDK aborts
\* the signals of its waiting calls, whose listeners deny them and leave the
\* pendingPermissions entries.  session_interrupted follows later.
Interrupt(s) ==
    /\ s \notin ended /\ s \notin escaped
    /\ \/ \E t \in Tools : SessionOf[t] = s /\ phase[t] \in {"called", "prompting", "running"}
       \/ \E c \in SdkCalls : SessionOf[c] = s /\ sdk[c] = "waiting"
    /\ phase' = [t \in Tools |-> IF SessionOf[t] = s /\ phase[t] # "idle"
                                 THEN "done" ELSE phase[t]]
    /\ sdk' = [c \in SdkCalls |-> IF SessionOf[c] = s /\ sdk[c] = "waiting"
                                  THEN "deny" ELSE sdk[c]]
    /\ escaped' = escaped \cup {s}
    /\ UNCHANGED << hookVars, trackVars, peerVars, told, sdkPending, ended >>

-----------------------------------------------------------------------------
(***************************************************************************)
(* Hooks                                                                   *)
(***************************************************************************)

\* handlePermissionRequestHook (the PreToolUse hook) with its passthrough
\* listener: the connection it holds is answered '{}' before it returns.
PreToolUse(t) ==
    /\ phase[t] = "idle"
    /\ \E q \in Fresh(queue[Key(t)]) :
           queue' = [queue EXCEPT ![Key(t)] = Enqueue(q, t)]
    /\ phase' = [phase EXCEPT ![t] = "called"]
    /\ UNCHANGED << correlated, pending, reqOf, http, armed, open, hookGen,
                    trackVars, peerVars, told, sdkVars, escaped >>

Claim(q, i) == [id |-> ToolReq(q[i]), rest |-> DropAt(q, i)]

\* Mutant: the id a PermissionRequest carries is ignored, the queue decides.
ClaimsFromQueue(t, q) ==
    IF q = << >> THEN { [id |-> HookReq(t), rest |-> q] }
    ELSE { Claim(q, i) : i \in ShiftIndex(q, t) }

\* Mutant: no hook id when nothing is correlated.
ClaimsNoFallback(t, q) ==
    IF q = << >> THEN { [id |-> NoRequest, rest |-> q] }
    ELSE { Claim(q, i) : i \in ShiftIndex(q, t) }

\* The id a PermissionRequest of t goes by, and what it leaves of the pruned
\* queue of its key: its own id if it carries one, else that of the entry the
\* correlator finds, else a fresh hook id.
Claims(t, q) ==
    LET carried == SessionOf[t] \in ModernSessions
        at      == IF carried THEN RemoveIndex(q, t) ELSE ShiftIndex(q, t)
    IN  IF at = {} THEN { [id |-> IF carried THEN ToolReq(t) ELSE HookReq(t), rest |-> q] }
        ELSE { Claim(q, i) : i \in at }

\* handlePermissionPromptHook and the permission_prompt listener.
PermissionRequest(t) ==
    /\ phase[t] = "called"
    /\ \E q \in Fresh(queue[Key(t)]) : \E claim \in Claims(t, q) :
         LET r == claim.id
         IN  /\ queue' = [queue EXCEPT ![Key(t)] = claim.rest]
             /\ correlated' = IF r.by = "tool" THEN correlated \cup {r.call} ELSE correlated
             /\ reqOf' = [reqOf EXCEPT ![t] = r]
             /\ pending' = [pending EXCEPT ![r] = t]
             /\ deliveries' = TrackedDelivery(r)
             /\ blocking' = blocking \cup {r}
             /\ told' = [told EXCEPT ![r] = "shown"]
    /\ http' = [http EXCEPT ![t] = "held"]
    /\ armed' = armed \cup {t}
    /\ open' = open \cup {t}
    /\ phase' = [phase EXCEPT ![t] = "prompting"]
    /\ UNCHANGED << hookGen, peerVars, sdkVars, escaped >>

\* The hold timer fires: it answers '{}' whether or not its entry is there.
HoldTimeout(t) ==
    LET r == reqOf[t] IN
    /\ t \in armed
    /\ armed' = armed \ {t}
    /\ pending' = [pending EXCEPT ![r] = NoTool]
    /\ http' = [http EXCEPT ![t] = Answered(@, "empty")]
    /\ IF HookPending(r) THEN Expire(r) ELSE UNCHANGED << trackVars, told >>
    /\ UNCHANGED << queue, correlated, reqOf, open, hookGen,
                    peerVars, sdkVars, escaped, phase >>

\* Mutant: a lost connection is forgotten without telling the phone.
ConnectionClosedSilently(t) ==
    LET r == reqOf[t] IN
    /\ t \in open
    /\ open' = open \ {t}
    /\ http' = [http EXCEPT ![t] = IF @ = "held" THEN "closed" ELSE @]
    /\ IF HookPending(r)
       THEN /\ armed' = armed \ {t}
            /\ pending' = [pending EXCEPT ![r] = NoTool]
       ELSE UNCHANGED << armed, pending >>
    /\ UNCHANGED << trackVars, told, queue, correlated, reqOf, hookGen, peerVars,
                    sdkVars, escaped, phase >>

\* 'close' of the HTTP response: Claude hung up, or the answer is out.
ConnectionClosed(t) ==
    LET r == reqOf[t] IN
    /\ t \in open
    /\ open' = open \ {t}
    /\ http' = [http EXCEPT ![t] = IF @ = "held" THEN "closed" ELSE @]
    /\ IF HookPending(r)
       THEN /\ armed' = armed \ {t}
            /\ pending' = [pending EXCEPT ![r] = NoTool]
            /\ Expire(r)
       ELSE UNCHANGED << armed, pending, trackVars, told >>
    /\ UNCHANGED << queue, correlated, reqOf, hookGen, peerVars, sdkVars, escaped, phase >>

\* handlePostToolUseHook and the permission_dismissed listener, which untracks
\* the request but leaves its notification delivery.
PostToolUse(t) ==
    LET r == ToolReq(t) IN
    /\ phase[t] = "running"
    /\ phase' = [phase EXCEPT ![t] = "done"]
    /\ IF t \in correlated
       THEN /\ IF HookPending(r) THEN ResolvePending(r, "empty")
               ELSE UNCHANGED << pending, armed, http >>
            /\ correlated' = correlated \ {t}
            /\ blocking' = blocking \ {r}
            /\ told' = [told EXCEPT ![r] = "dismissed"]
       ELSE UNCHANGED << pending, armed, http, correlated, blocking, told >>
    /\ UNCHANGED << queue, reqOf, open, hookGen, deliveries, peerVars, sdkVars, escaped >>

\* Claude fires Stop and StopFailure when its turn is over.
TurnOver(s) ==
    \A t \in Tools : SessionOf[t] = s => phase[t] \in {"idle", "done"}

\* The synchronous part of the session_stop listener.
Stop(s) ==
    /\ TurnOver(s)
    /\ blocking' = blocking \ RequestsOf(s)
    /\ deliveries' = deliveries \ (RequestsOf(s) \cap blocking)
    /\ UNCHANGED << hookVars, peerVars, told, sdkVars, escaped, phase >>

StopFailure(s) ==
    /\ TurnOver(s)
    /\ blocking' = blocking \ RequestsOf(s)
    /\ UNCHANGED << hookVars, deliveries, peerVars, told, sdkVars, escaped, phase >>

\* The session_interrupted listener.
InterruptReported(s) ==
    /\ s \in escaped
    /\ escaped' = escaped \ {s}
    /\ blocking' = blocking \ RequestsOf(s)
    /\ told' = [r \in Requests |-> IF r \in blocking \cap RequestsOf(s)
                                   THEN "dismissed" ELSE told[r]]
    /\ UNCHANGED << hookVars, deliveries, peerVars, sdkVars, phase >>

\* restartHookServer's timer: stop() answers everything held with '{}', and a
\* new HookServer with empty maps takes over.  Close handlers of the old one
\* stay attached and find its map empty.
RestartHookServer ==
    /\ hookGen < MaxRestarts
    /\ hookGen' = hookGen + 1
    /\ LET held == { pending[r] : r \in { x \in HookRequests : HookPending(x) } }
       IN  /\ http' = [t \in Tools |-> IF t \in held THEN Answered(http[t], "empty") ELSE http[t]]
           /\ armed' = armed \ held
    /\ pending' = [r \in HookRequests |-> NoTool]
    /\ queue' = [k \in Keys |-> << >>]
    /\ correlated' = {}
    /\ UNCHANGED << reqOf, open, trackVars, peerVars, told, sdkVars, escaped, phase >>

-----------------------------------------------------------------------------
(***************************************************************************)
(* The phone                                                               *)
(***************************************************************************)

\* Mutant: permission_response forgets that it also answers plan reviews.
ResponseClearsOne(r) ==
    IF Kind(r) = "user_question" THEN {"user_question"} ELSE {"permission_request"}

\* permission_response clears permission_request and plan_review deliveries,
\* question_response clears user_question ones; both happen first.
ResponseClears(r) ==
    IF Kind(r) = "user_question" THEN {"user_question"}
    ELSE {"permission_request", "plan_review"}

\* Mutant: the notification delivery survives the answer.
ResponseUntracksOnly(r) ==
    /\ told[r] # "none"
    /\ blocking' = blocking \ {r}
    /\ deliveries' = deliveries

ResponseArrives(r) ==
    /\ told[r] # "none"
    /\ blocking' = blocking \ {r}
    /\ deliveries' = Cleared(ResponseClears(r), r)

Verdicts(r) == IF Kind(r) = "user_question" THEN {"allow"} ELSE {"allow", "deny"}

\* Only permission_response is signed.  A bad signature ends the handler.
ResponseRejected(r) ==
    /\ Kind(r) # "user_question"
    /\ ResponseArrives(r)
    /\ UNCHANGED << hookVars, peerVars, told, sdkVars, escaped, phase >>

ResponseToHook(r) ==
    /\ HookPending(r)
    /\ ResponseArrives(r)
    /\ \E v \in Verdicts(r) : ResolvePending(r, v)
    /\ told' = [told EXCEPT ![r] = "answered"]
    /\ UNCHANGED << queue, correlated, reqOf, open, hookGen,
                    peerVars, sdkVars, escaped, phase >>

\* respondPermission: the promise is resolved if its resolver is still there.
ResponseToSdk(r) ==
    /\ ~HookPending(r) /\ r \in sdkPending
    /\ ResponseArrives(r)
    /\ sdkPending' = sdkPending \ {r}
    /\ \E v \in Verdicts(r) :
           sdk' = [sdk EXCEPT ![r.call] = IF @ = "waiting" THEN v ELSE @]
    /\ told' = [told EXCEPT ![r] = "answered"]
    /\ UNCHANGED << hookVars, peerVars, ended, escaped, phase >>

\* Nothing waits for it any more: respondPermission throws, an error is sent.
ResponseTooLate(r) ==
    /\ ~HookPending(r) /\ r \notin sdkPending
    /\ ResponseArrives(r)
    /\ UNCHANGED << hookVars, peerVars, told, sdkVars, escaped, phase >>

NotificationAck(r) ==
    /\ r \in deliveries
    /\ deliveries' = deliveries \ {r}
    /\ UNCHANGED << hookVars, blocking, peerVars, told, sdkVars, escaped, phase >>

PeerHello ==
    /\ \E cap \in AckChoices : cap # ackCap /\ ackCap' = cap
    /\ UNCHANGED << hookVars, trackVars, phoneOnline, told, sdkVars, escaped, phase >>

\* peer_status offline -> online, with the phone_online listener: it resends
\* what is still pending and forgets the rest.
PhoneOnline ==
    /\ ~phoneOnline
    /\ phoneOnline' = TRUE
    /\ LET live == { r \in blocking : StillPending(r) }
       IN  /\ blocking' = live
           /\ deliveries' = deliveries \ (blocking \ live)
           /\ told' = [r \in Requests |-> IF r \in live THEN "shown" ELSE told[r]]
    /\ UNCHANGED << hookVars, ackCap, sdkVars, escaped, phase >>

PhoneOffline ==
    /\ phoneOnline
    /\ phoneOnline' = FALSE
    /\ UNCHANGED << hookVars, trackVars, ackCap, told, sdkVars, escaped, phase >>

-----------------------------------------------------------------------------
(***************************************************************************)
(* The two retry ticks.  Which entries are old enough is up to the clock.  *)
(***************************************************************************)

\* Mutant: what is not pending is skipped but kept.
RetryBlockingKeepsStale ==
    LET live == { r \in blocking : StillPending(r) } IN
    /\ \E old \in SUBSET live :
           told' = [r \in Requests |-> IF r \in old THEN "shown" ELSE told[r]]
    /\ UNCHANGED << blocking, deliveries, hookVars, peerVars, sdkVars, escaped, phase >>

\* retryPendingBlockingRequests
RetryBlocking ==
    LET live == { r \in blocking : StillPending(r) } IN
    /\ blocking' = live
    /\ deliveries' = deliveries \ (blocking \ live)
    /\ \E old \in SUBSET live :
           told' = [r \in Requests |-> IF r \in old THEN "shown" ELSE told[r]]
    /\ UNCHANGED << hookVars, peerVars, sdkVars, escaped, phase >>

\* retryPendingNotificationDeliveries: the forceWake push carries the event.
RetryDeliveries ==
    /\ ackCap
    /\ \E old \in SUBSET deliveries \ {{}} :
           /\ deliveries' = deliveries \ old
           /\ told' = [r \in Requests |-> IF r \in old THEN "shown" ELSE told[r]]
    /\ UNCHANGED << hookVars, blocking, peerVars, sdkVars, escaped, phase >>

-----------------------------------------------------------------------------
(***************************************************************************)
(* SDK sessions                                                            *)
(***************************************************************************)

\* canUseTool, registerPermissionRequest and the permission_request listener:
\* a plain permission is sent without a tracked notification.
SdkAsks(c) ==
    LET r == SdkReq(c) IN
    /\ sdk[c] = "none" /\ SessionOf[c] \notin ended
    /\ sdk' = [sdk EXCEPT ![c] = "waiting"]
    /\ sdkPending' = sdkPending \cup {r}
    /\ deliveries' = IF Kind(r) = "permission_request" THEN deliveries ELSE TrackedDelivery(r)
    /\ blocking' = blocking \cup {r}
    /\ told' = [told EXCEPT ![r] = "shown"]
    /\ UNCHANGED << hookVars, peerVars, ended, escaped, phase >>

\* The SDK aborts one call's signal; the listener keeps the pending entry.
SdkSignalAborts(c) ==
    /\ sdk[c] = "waiting"
    /\ sdk' = [sdk EXCEPT ![c] = "deny"]
    /\ UNCHANGED << hookVars, trackVars, peerVars, told, sdkPending, ended, escaped, phase >>

\* cleanupSession for the sessions S.
Cleanup(S) ==
    /\ sdkPending' = { r \in sdkPending : SessionOfR(r) \notin S }
    /\ sdk' = [c \in SdkCalls |-> IF SessionOf[c] \in S /\ sdk[c] = "waiting"
                                  THEN "deny" ELSE sdk[c]]
    /\ ended' = ended \cup S

\* The session_ended listener, exit code 0.
SessionEnded(s) ==
    /\ blocking' = blocking \ RequestsOf(s)
    /\ deliveries' = deliveries \ RequestsOf(s)

\* killSession up to its first await.
KillSession(s) ==
    /\ s \notin ended
    /\ Cleanup({s})
    /\ SessionEnded(s)
    /\ escaped' = escaped \ {s}
    /\ UNCHANGED << hookVars, peerVars, told, phase >>

\* emergencyAbort: every query is aborted; the sessions' streams end later.
EmergencyAbort ==
    /\ ~ Controlled \subseteq ended
    /\ Cleanup(Controlled)
    /\ UNCHANGED << hookVars, trackVars, peerVars, told, escaped, phase >>

\* consumeQueryStream meets AbortError and emits session_ended.
StreamAborted(s) ==
    /\ s \in ended \cap Controlled
    /\ SessionEnded(s)
    /\ UNCHANGED << hookVars, peerVars, told, sdkVars, escaped, phase >>

-----------------------------------------------------------------------------
Claude(t) == \/ RunUnasked(t) \/ TerminalAnswers(t)
             \/ ClaudeReadsDecision(t) \/ CallAbandoned(t)

Hook(t) == \/ PreToolUse(t) \/ PermissionRequest(t) \/ HoldTimeout(t)
           \/ ConnectionClosed(t) \/ PostToolUse(t)

Session(s) == \/ Interrupt(s) \/ InterruptReported(s) \/ Stop(s) \/ StopFailure(s)
              \/ KillSession(s) \/ StreamAborted(s)

Phone(r) == \/ ResponseRejected(r) \/ ResponseToHook(r) \/ ResponseToSdk(r)
            \/ ResponseTooLate(r) \/ NotificationAck(r)

Next ==
    \/ \E t \in Tools : Claude(t) \/ Hook(t)
    \/ \E s \in Sessions : Session(s)
    \/ \E r \in Requests : Phone(r)
    \/ \E c \in SdkCalls : SdkAsks(c) \/ SdkSignalAborts(c)
    \/ PeerHello \/ PhoneOnline \/ PhoneOffline
    \/ RetryBlocking \/ RetryDeliveries
    \/ RestartHookServer \/ EmergencyAbort

Spec == Init /\ [][Next]_vars

(***************************************************************************)
(* Fairness: setTimeout and setInterval fire, and the observer polls the   *)
(* transcript.  Nothing is assumed of Claude, of its user or of the phone. *)
(***************************************************************************)
FairSpec ==
    /\ Spec
    /\ \A t \in Tools : WF_vars(HoldTimeout(t))
    /\ \A s \in Sessions : WF_vars(InterruptReported(s))
    /\ WF_vars(RetryBlocking)

-----------------------------------------------------------------------------
(***************************************************************************)
(* Safety                                                                  *)
(***************************************************************************)

\* A held hook connection can be reached: its entry is in pendingPermissions
\* under the id its handler closed over, and its timer is armed; and nothing
\* else is.  So the phone, the timer, PostToolUse or 'close' always finds it,
\* none of them finds it twice, and no response is written twice (which would
\* throw in a timer and take the daemon down).
HeldIsReachable ==
    \A t \in Tools :
        /\ http[t] # "twice"
        /\ (http[t] = "held") <=> (t \in armed)
        /\ (http[t] = "held") <=> (reqOf[t] # NoRequest /\ pending[reqOf[t]] = t)
        /\ http[t] = "held" => t \in open

\* A card the phone was told is answered or expired no longer blocks Claude:
\* neither a hook connection nor an entry of the SDK channel waits under its
\* id, and the daemon neither tracks nor resends it.
OverMeansOver ==
    \A r \in Requests : told[r] \in {"answered", "expired"} =>
        ~HookPending(r) /\ r \notin sdkPending /\ r \notin blocking

\* The retry and the reconnect replay can only resend what is tracked.  While
\* a hook is held the daemon stops tracking it only because the phone's answer
\* was refused, the session was interrupted, killed, or its turn ended: no
\* tick, reconnect, ack, or other request's end loses it.
TrackingKept ==
    [][\A r \in HookRequests :
          (HookPending(r) /\ r \in blocking /\ HookPending(r)' /\ r \notin blocking')
          => \/ ResponseRejected(r)
             \/ Stop(SessionOfR(r)) \/ StopFailure(SessionOfR(r))
             \/ InterruptReported(SessionOfR(r)) \/ KillSession(SessionOfR(r))]_vars

\* A card that was answered is never shown again as open, by whichever of the
\* retry tick, the reconnect replay or the forceWake fallback comes late.
AnsweredStaysAnswered ==
    [][\A r \in Requests : told[r] = "answered" => told'[r] # "shown"]_vars

\* hook-server.ts: a PostToolUse dismisses "any stale pending permissions for
\* this tool": the prompt of one call is never taken off the phone, unanswered,
\* by the end of another.
OwnPostToolUse ==
    [][\A t \in Tools : (http[t] = "held" /\ \E u \in Tools : PostToolUse(u))
          => (http'[t] = "held" \/ PostToolUse(t))]_vars

\* hook-server.ts: PostToolUse is "the reliable terminal-completed signal that
\* should remove the request"; it is not put back on the phone afterwards.
DismissedStaysDismissed ==
    [][\A r \in Requests : told[r] = "dismissed" => told'[r] # "shown"]_vars

\* index.ts: "If no phone response within BLOCKING_RETRY_INTERVAL_MS, resend
\* the event": a request that Claude still waits for is not forgotten by the
\* tick that is there to resend it.
RetryKeepsWhatBlocks ==
    [][RetryBlocking => \A r \in HookRequests :
          (r \in blocking /\ HookPending(r)) => r \in blocking']_vars
(***************************************************************************)
(* Liveness, under FairSpec                                                *)
(***************************************************************************)

\* index.ts: "track pending requests that block Claude's progress": what does
\* not block a hook any more is eventually not tracked, whatever ended it.
StaleTrackingDropped ==
    \A r \in HookRequests : (r \in blocking /\ ~HookPending(r)) ~> (r \notin blocking)

\* When a tool call is over, however it ended, its card does not stay open on
\* the phone for ever, unless the hook server that knew of it was replaced.
CardRetired ==
    \A t \in Tools : (phase[t] = "done" /\ told[ToolReq(t)] = "shown" /\ hookGen = 0)
                     ~> (told[ToolReq(t)] # "shown" \/ hookGen # 0)

=============================================================================
