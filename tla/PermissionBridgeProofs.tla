------------------------ MODULE PermissionBridgeProofs ------------------------
(***************************************************************************)
(* Theorems about PermissionBridge, for any sessions, calls, kinds, queue  *)
(* bound and number of restarts.                                           *)
(***************************************************************************)
EXTENDS PermissionBridge, SequenceTheorems, TLAPS

(***************************************************************************)
(* The correlator's queues                                                 *)
(***************************************************************************)
Elems(q) == { q[i] : i \in 1 .. Len(q) }

Distinct(q) == \A i, j \in 1 .. Len(q) : q[i] = q[j] => i = j

\* Pruning keeps a queue of calls a queue of calls, adds no entry and repeats
\* none (prune of pre-tool-use-correlator.ts).
LEMMA FreshFacts ==
    ASSUME NEW q \in Seq(Tools), NEW p \in Fresh(q)
    PROVE  /\ p \in Seq(Tools)
           /\ Elems(p) \subseteq Elems(q)
           /\ Distinct(q) => Distinct(p)
<1>1. PICK n \in 1 .. Len(q) + 1 : p = SubSeq(q, n, Len(q))
  BY DEF Fresh
<1>2. p \in Seq(Tools) /\ Len(p) = Len(q) - n + 1
  BY <1>1
<1>3. \A i \in 1 .. Len(p) : i + n - 1 \in 1 .. Len(q) /\ p[i] = q[i + n - 1]
  BY <1>1, <1>2
<1>4. Elems(p) \subseteq Elems(q)
  BY <1>3 DEF Elems
<1>5. ASSUME Distinct(q) PROVE Distinct(p)
  BY <1>2, <1>3, <1>5 DEF Distinct
<1> QED BY <1>2, <1>4, <1>5

\* enqueue adds at most its own call, and repeats nothing if it is new.
LEMMA EnqueueFacts ==
    ASSUME NEW q \in Seq(Tools), NEW t \in Tools
    PROVE  /\ Enqueue(q, t) \in Seq(Tools)
           /\ Elems(Enqueue(q, t)) \subseteq Elems(q) \cup {t}
           /\ Distinct(q) /\ t \notin Elems(q) => Distinct(Enqueue(q, t))
<1> DEFINE longer == Append(q, t)
<1>1. longer \in Seq(Tools) /\ Len(longer) = Len(q) + 1
  OBVIOUS
<1>2. \A i \in 1 .. Len(longer) : longer[i] = IF i = Len(q) + 1 THEN t ELSE q[i]
  OBVIOUS
<1>3. Elems(longer) \subseteq Elems(q) \cup {t}
  BY <1>1, <1>2 DEF Elems
<1>4. ASSUME Distinct(q), t \notin Elems(q) PROVE Distinct(longer)
  <2>1. \A i \in 1 .. Len(q) : q[i] # t
    BY <1>4 DEF Elems
  <2> QED BY <1>1, <1>2, <1>4, <2>1 DEF Distinct
<1>5. CASE Len(longer) <= QueueCap
  BY <1>1, <1>3, <1>4, <1>5, QueueCapAssumption DEF Enqueue
<1>6. CASE Len(longer) > QueueCap
  <2>1. Enqueue(q, t) = Tail(longer)
    BY <1>6 DEF Enqueue
  <2>2. Tail(longer) \in Seq(Tools) /\ Len(Tail(longer)) = Len(q)
    BY <1>1
  <2>3. \A i \in 1 .. Len(q) : Tail(longer)[i] = longer[i + 1]
    BY <1>1
  <2>4. Elems(Tail(longer)) \subseteq Elems(longer)
    BY <1>1, <2>2, <2>3 DEF Elems
  <2>5. Distinct(longer) => Distinct(Tail(longer))
    BY <1>1, <2>2, <2>3 DEF Distinct
  <2> QED BY <1>3, <1>4, <2>1, <2>2, <2>4, <2>5
<1> QED BY <1>1, <1>5, <1>6, QueueCapAssumption

\* splice(i, 1) takes exactly the i-th entry out.
LEMMA DropFacts ==
    ASSUME NEW q \in Seq(Tools), NEW i \in 1 .. Len(q)
    PROVE  /\ DropAt(q, i) \in Seq(Tools)
           /\ Elems(DropAt(q, i)) \subseteq Elems(q)
           /\ Distinct(q) => Distinct(DropAt(q, i)) /\ q[i] \notin Elems(DropAt(q, i))
<1> DEFINE a == SubSeq(q, 1, i - 1)
           b == SubSeq(q, i + 1, Len(q))
           d == DropAt(q, i)
<1>1. a \in Seq(Tools) /\ Len(a) = i - 1 /\ \A j \in 1 .. i - 1 : a[j] = q[j]
  OBVIOUS
<1>2. b \in Seq(Tools) /\ Len(b) = Len(q) - i /\ \A j \in 1 .. Len(q) - i : b[j] = q[j + i]
  OBVIOUS
<1>c. d = a \o b
  BY DEF DropAt
<1>d. HIDE DEF a, b, d
<1>3. d \in Seq(Tools) /\ Len(d) = Len(q) - 1
  BY <1>1, <1>2, <1>c, ConcatProperties
<1>4. \A j \in 1 .. Len(d) : d[j] = IF j < i THEN q[j] ELSE q[j + 1]
  BY <1>1, <1>2, <1>3, <1>c, ConcatProperties
<1>5. Elems(d) \subseteq Elems(q)
  <2>1. \A j \in 1 .. Len(d) : \E k \in 1 .. Len(q) : d[j] = q[k]
    <3> SUFFICES ASSUME NEW j \in 1 .. Len(d) PROVE \E k \in 1 .. Len(q) : d[j] = q[k]
      OBVIOUS
    <3>1. j \in 1 .. Len(q) /\ j + 1 \in 1 .. Len(q)
      BY <1>3
    <3> QED BY <1>4, <3>1
  <2> QED BY <2>1 DEF Elems
<1>6. ASSUME Distinct(q) PROVE Distinct(d) /\ q[i] \notin Elems(d)
  <2> DEFINE at(j) == IF j < i THEN j ELSE j + 1
  <2>1. \A j \in 1 .. Len(d) : at(j) \in 1 .. Len(q) /\ at(j) # i /\ d[j] = q[at(j)]
    BY <1>3, <1>4
  <2>2. \A j, k \in 1 .. Len(d) : at(j) = at(k) => j = k
    BY <1>3
  <2>3. \A j, k \in 1 .. Len(q) : q[j] = q[k] => j = k
    BY <1>6 DEF Distinct
  <2> HIDE DEF at
  <2>4. Distinct(d)
    BY <2>1, <2>2, <2>3 DEF Distinct
  <2>5. q[i] \notin Elems(d)
    BY <2>1, <2>3 DEF Elems
  <2> QED BY <2>4, <2>5
<1> QED BY <1>3, <1>5, <1>6 DEF d

\* The id a PermissionRequest goes by, and what it leaves of the queue
\* (handlePermissionPromptHook with shift and remove).
LEMMA ClaimFacts ==
    ASSUME NEW t \in Tools, NEW q \in Seq(Tools), NEW claim \in Claims(t, q)
    PROVE  /\ claim.id \in HookRequests
           /\ claim.rest \in Seq(Tools)
           /\ Elems(claim.rest) \subseteq Elems(q)
           /\ Distinct(q) => Distinct(claim.rest)
           /\ SessionOf[t] \in ModernSessions => claim.id = ToolReq(t)
           /\ SessionOf[t] \notin ModernSessions =>
                \/ claim.id = HookReq(t)
                \/ \E v \in Elems(q) :
                      /\ claim.id = ToolReq(v)
                      /\ Distinct(q) => v \notin Elems(claim.rest)
<1> DEFINE carried == SessionOf[t] \in ModernSessions
           at == IF carried THEN RemoveIndex(q, t) ELSE ShiftIndex(q, t)
<1>1. at \subseteq 1 .. Len(q) /\ (carried => \A i \in at : q[i] = t)
  BY DEF RemoveIndex, ShiftIndex
<1>2. CASE at = {}
  <2>1. claim = [id |-> IF carried THEN ToolReq(t) ELSE HookReq(t), rest |-> q]
    BY <1>2 DEF Claims
  <2> QED BY <2>1 DEF ToolReq, HookReq, HookRequests
<1>3. CASE at # {}
  <2>1. PICK i \in at : claim = Claim(q, i)
    BY <1>3 DEF Claims
  <2>2. i \in 1 .. Len(q) /\ q[i] \in Tools /\ q[i] \in Elems(q)
    BY <1>1, <2>1 DEF Elems
  <2>3. claim.id = ToolReq(q[i]) /\ claim.rest = DropAt(q, i)
    BY <2>1 DEF Claim
  <2>4. /\ claim.rest \in Seq(Tools)
        /\ Elems(claim.rest) \subseteq Elems(q)
        /\ Distinct(q) => Distinct(claim.rest) /\ q[i] \notin Elems(claim.rest)
    BY <2>2, <2>3, DropFacts
  <2>5. claim.id \in HookRequests
    BY <2>2, <2>3 DEF ToolReq, HookRequests
  <2>6. carried => claim.id = ToolReq(t)
    BY <1>1, <2>1, <2>3
  <2> QED BY <2>2, <2>3, <2>4, <2>5, <2>6
<1> QED BY <1>2, <1>3

(***************************************************************************)
(* Requests, and what the handlers' helpers keep                           *)
(***************************************************************************)

\* Ids are what the wire uses them for: distinct kinds of id never meet.
LEMMA RequestFacts ==
    /\ NoTool \notin Tools
    /\ NoRequest \notin HookRequests
    /\ HookRequests \subseteq Requests /\ SdkRequests \subseteq Requests
    /\ \A t \in Tools : ToolReq(t) \in HookRequests /\ HookReq(t) \in HookRequests
                       /\ Key(t) \in Keys
    /\ \A c \in SdkCalls : SdkReq(c) \in SdkRequests
    /\ \A r \in HookRequests : r.call \in Tools
    /\ \A r \in SdkRequests : r.call \in SdkCalls /\ r \notin HookRequests
BY CallAssumption DEF NoRequest, HookRequests, SdkRequests, Requests, ToolReq, HookReq,
                      SdkReq, Key, Keys, Calls

\* Answering an entry that exists keeps the types of what it touches.
LEMMA ResolveTypes ==
    ASSUME TypeOK, NEW r \in Requests, HookPending(r),
           NEW verdict \in {"allow", "deny", "empty"}, ResolvePending(r, verdict)
    PROVE  /\ pending' \in [HookRequests -> Tools \cup {NoTool}]
           /\ armed' \subseteq Tools
           /\ http' \in [Tools -> {"none", "held", "allow", "deny", "empty", "closed", "twice"}]
<1>1. r \in HookRequests /\ pending[r] \in Tools
  BY DEF HookPending, TypeOK
<1>2. http[pending[r]] \in {"none", "held", "allow", "deny", "empty", "closed", "twice"}
  BY <1>1 DEF TypeOK
<1>3. Answered(http[pending[r]], verdict) \in {"none", "held", "allow", "deny", "empty", "closed", "twice"}
  BY <1>2 DEF Answered
<1> QED BY <1>1, <1>3 DEF ResolvePending, TypeOK

\* Declaring a request expired keeps the types of the tracking.
LEMMA ExpireTypes ==
    ASSUME TypeOK, NEW r \in Requests, Expire(r)
    PROVE  /\ blocking' \subseteq Requests
           /\ deliveries' \subseteq Requests
           /\ told' \in [Requests -> {"none", "shown", "answered", "expired", "dismissed"}]
BY DEF Expire, Cleared, TypeOK

(***************************************************************************)
(* Type correctness                                                        *)
(***************************************************************************)

LEMMA TypeInit == Init => TypeOK
<1> SUFFICES ASSUME Init PROVE TypeOK
  OBVIOUS
<1>1. MaxRestarts \in Nat
  BY PeerAssumption
<1>2. queue \in [Keys -> Seq(Tools)] /\ hookGen \in 0 .. MaxRestarts
  BY <1>1 DEF Init
<1>3. pending \in [HookRequests -> Tools \cup {NoTool}] /\ reqOf \in [Tools -> HookRequests \cup {NoRequest}]
  BY DEF Init
<1>4. http \in [Tools -> {"none", "held", "allow", "deny", "empty", "closed", "twice"}]
  BY DEF Init
<1>5. told \in [Requests -> {"none", "shown", "answered", "expired", "dismissed"}]
  BY DEF Init
<1>6. sdk \in [SdkCalls -> {"none", "waiting", "allow", "deny"}]
  BY DEF Init
<1>7. phase \in [Tools -> {"idle", "called", "prompting", "running", "done"}]
  BY DEF Init
<1>8. /\ correlated \subseteq Tools /\ armed \subseteq Tools /\ open \subseteq Tools
      /\ blocking \subseteq Requests /\ deliveries \subseteq Requests
      /\ phoneOnline \in BOOLEAN /\ ackCap \in BOOLEAN
      /\ sdkPending \subseteq SdkRequests /\ ended \subseteq Sessions /\ escaped \subseteq Sessions
  BY DEF Init
<1> QED BY <1>2, <1>3, <1>4, <1>5, <1>6, <1>7, <1>8 DEF TypeOK

\* A step of a Claude process.
LEMMA TypeClaude ==
    ASSUME TypeOK, NEW t \in Tools, Claude(t) PROVE TypeOK'
<1>1. UNCHANGED << hookVars, trackVars, peerVars, told, sdkVars, escaped >>
  BY DEF Claude, RunUnasked, TerminalAnswers, ClaudeReadsDecision, CallAbandoned
<1>2. \E p \in {"running", "done"} : phase' = [phase EXCEPT ![t] = p]
  BY DEF Claude, RunUnasked, TerminalAnswers, ClaudeReadsDecision, CallAbandoned
<1>3. phase' \in [Tools -> {"idle", "called", "prompting", "running", "done"}]
  BY <1>2 DEF TypeOK
<1>4. TypeOK /\ UNCHANGED << queue, correlated, pending, reqOf, http, armed, open, hookGen >>
  BY <1>1 DEF hookVars
<1>5. UNCHANGED << blocking, deliveries, phoneOnline, ackCap, told, sdk, sdkPending, ended, escaped >>
  BY <1>1 DEF trackVars, peerVars, sdkVars
<1> QED BY <1>3, <1>4, <1>5 DEF TypeOK

\* What a PermissionRequest of t does with the id it claims.
HeldUnder(t, claim) ==
    LET r == claim.id
    IN  /\ queue' = [queue EXCEPT ![Key(t)] = claim.rest]
        /\ correlated' = IF r.by = "tool" THEN correlated \cup {r.call} ELSE correlated
        /\ reqOf' = [reqOf EXCEPT ![t] = r]
        /\ pending' = [pending EXCEPT ![r] = t]
        /\ deliveries' = TrackedDelivery(r)
        /\ blocking' = blocking \cup {r}
        /\ told' = [told EXCEPT ![r] = "shown"]

\* A hook, its connection or its timer.
LEMMA TypeHook ==
    ASSUME TypeOK, NEW t \in Tools, Hook(t) PROVE TypeOK'
<1> USE DEF hookVars, trackVars, peerVars, sdkVars
<1> DEFINE r == reqOf[t]
<1>0. /\ Key(t) \in Keys /\ queue[Key(t)] \in Seq(Tools) /\ ToolReq(t) \in HookRequests
      /\ HookRequests \subseteq Requests
      /\ HookPending(r) => r \in Requests
      /\ http[t] \in {"none", "held", "allow", "deny", "empty", "closed", "twice"}
  BY RequestFacts DEF TypeOK, HookPending
<1>1. CASE PreToolUse(t)
  <2>1. PICK q \in Fresh(queue[Key(t)]) :
            queue' = [queue EXCEPT ![Key(t)] = Enqueue(q, t)]
    BY <1>1 DEF PreToolUse
  <2>2. Enqueue(q, t) \in Seq(Tools)
    BY <1>0, FreshFacts, EnqueueFacts
  <2>3. queue' \in [Keys -> Seq(Tools)]
    BY <2>1, <2>2 DEF TypeOK
  <2> QED BY <1>1, <2>3 DEF PreToolUse, TypeOK
<1>2. CASE PermissionRequest(t)
  <2>0. PICK q \in Fresh(queue[Key(t)]) : \E claim \in Claims(t, q) : HeldUnder(t, claim)
    BY <1>2 DEF PermissionRequest, HeldUnder
  <2>1. PICK claim \in Claims(t, q) : HeldUnder(t, claim)
    BY <2>0
  <2>2. claim.id \in HookRequests /\ claim.rest \in Seq(Tools)
    BY <1>0, FreshFacts, ClaimFacts
  <2>3. claim.id \in Requests /\ claim.id.call \in Tools
    BY <2>2, RequestFacts
  <2>4. queue' \in [Keys -> Seq(Tools)]
    BY <2>1, <2>2 DEF HeldUnder, TypeOK
  <2>5. correlated' \subseteq Tools /\ blocking' \subseteq Requests /\ deliveries' \subseteq Requests
    BY <2>1, <2>3 DEF HeldUnder, TypeOK, TrackedDelivery
  <2>6. /\ reqOf' \in [Tools -> HookRequests \cup {NoRequest}]
        /\ pending' \in [HookRequests -> Tools \cup {NoTool}]
        /\ told' \in [Requests -> {"none", "shown", "answered", "expired", "dismissed"}]
    BY <2>1, <2>2, <2>3 DEF HeldUnder, TypeOK
  <2> QED BY <1>2, <2>4, <2>5, <2>6 DEF PermissionRequest, TypeOK
<1>3. CASE HoldTimeout(t)
  <2>1. Answered(http[t], "empty") \in {"empty", "closed", "twice"}
    BY <1>0 DEF Answered
  <2>2. /\ blocking' \subseteq Requests /\ deliveries' \subseteq Requests
        /\ told' \in [Requests -> {"none", "shown", "answered", "expired", "dismissed"}]
    BY <1>0, <1>3, ExpireTypes DEF HoldTimeout, TypeOK
  <2>3. http' \in [Tools -> {"none", "held", "allow", "deny", "empty", "closed", "twice"}]
    BY <1>3, <2>1 DEF HoldTimeout, TypeOK
  <2> QED BY <1>3, <2>2, <2>3 DEF HoldTimeout, TypeOK
<1>4. CASE ConnectionClosed(t)
  <2>1. /\ blocking' \subseteq Requests /\ deliveries' \subseteq Requests
        /\ told' \in [Requests -> {"none", "shown", "answered", "expired", "dismissed"}]
    BY <1>0, <1>4, ExpireTypes DEF ConnectionClosed, TypeOK
  <2>2. /\ http' \in [Tools -> {"none", "held", "allow", "deny", "empty", "closed", "twice"}]
        /\ pending' \in [HookRequests -> Tools \cup {NoTool}]
        /\ armed' \subseteq Tools
    BY <1>0, <1>4 DEF ConnectionClosed, TypeOK
  <2> QED BY <1>4, <2>1, <2>2 DEF ConnectionClosed, TypeOK
<1>5. CASE PostToolUse(t)
  <2>1. /\ pending' \in [HookRequests -> Tools \cup {NoTool}]
        /\ armed' \subseteq Tools
        /\ http' \in [Tools -> {"none", "held", "allow", "deny", "empty", "closed", "twice"}]
    BY <1>0, <1>5, ResolveTypes DEF PostToolUse, TypeOK
  <2> QED BY <1>0, <1>5, <2>1 DEF PostToolUse, TypeOK
<1> QED BY <1>1, <1>2, <1>3, <1>4, <1>5 DEF Hook

\* What ends or interrupts a session's work.
LEMMA TypeSession ==
    ASSUME TypeOK, NEW s \in Sessions, Session(s) PROVE TypeOK'
<1> USE DEF hookVars, trackVars, peerVars, sdkVars
<1>1. CASE Interrupt(s)
  BY <1>1 DEF Interrupt, TypeOK
<1>2. CASE InterruptReported(s)
  BY <1>2 DEF InterruptReported, TypeOK
<1>3. CASE Stop(s) \/ StopFailure(s)
  BY <1>3 DEF Stop, StopFailure, TypeOK
<1>4. CASE KillSession(s)
  BY <1>4 DEF KillSession, Cleanup, SessionEnded, TypeOK
<1>5. CASE StreamAborted(s)
  BY <1>5 DEF StreamAborted, SessionEnded, TypeOK
<1> QED BY <1>1, <1>2, <1>3, <1>4, <1>5 DEF Session

\* A command of the phone about a request.
LEMMA TypePhone ==
    ASSUME TypeOK, NEW r \in Requests, Phone(r) PROVE TypeOK'
<1> USE DEF hookVars, trackVars, peerVars, sdkVars
<1>1. CASE ResponseRejected(r) \/ ResponseTooLate(r)
  BY <1>1 DEF ResponseRejected, ResponseTooLate, ResponseArrives, Cleared, TypeOK
<1>2. CASE ResponseToHook(r)
  <2>1. PICK v \in Verdicts(r) : ResolvePending(r, v)
    BY <1>2 DEF ResponseToHook
  <2>2. v \in {"allow", "deny", "empty"}
    BY <2>1 DEF Verdicts
  <2>3. /\ pending' \in [HookRequests -> Tools \cup {NoTool}]
        /\ armed' \subseteq Tools
        /\ http' \in [Tools -> {"none", "held", "allow", "deny", "empty", "closed", "twice"}]
    BY <1>2, <2>1, <2>2, ResolveTypes DEF ResponseToHook
  <2> QED BY <1>2, <2>3 DEF ResponseToHook, ResponseArrives, Cleared, TypeOK
<1>3. CASE ResponseToSdk(r)
  <2>1. r.call \in SdkCalls
    BY <1>3, RequestFacts DEF ResponseToSdk, TypeOK
  <2>2. sdk' \in [SdkCalls -> {"none", "waiting", "allow", "deny"}]
    BY <1>3, <2>1 DEF ResponseToSdk, Verdicts, TypeOK
  <2> QED BY <1>3, <2>2 DEF ResponseToSdk, ResponseArrives, Cleared, TypeOK
<1>4. CASE NotificationAck(r)
  BY <1>4 DEF NotificationAck, TypeOK
<1> QED BY <1>1, <1>2, <1>3, <1>4 DEF Phone

\* An SDK callback.
LEMMA TypeSdk ==
    ASSUME TypeOK, NEW c \in SdkCalls, SdkAsks(c) \/ SdkSignalAborts(c) PROVE TypeOK'
<1> USE DEF hookVars, trackVars, peerVars, sdkVars
<1>1. SdkReq(c) \in SdkRequests /\ SdkReq(c) \in Requests
  BY RequestFacts
<1>2. CASE SdkAsks(c)
  BY <1>1, <1>2 DEF SdkAsks, TrackedDelivery, TypeOK
<1>3. CASE SdkSignalAborts(c)
  BY <1>3 DEF SdkSignalAborts, TypeOK
<1> QED BY <1>2, <1>3

\* The connection to the phone, the retry ticks, a restart and an abort.
LEMMA TypeDaemon ==
    ASSUME TypeOK, \/ PeerHello \/ PhoneOnline \/ PhoneOffline
                   \/ RetryBlocking \/ RetryDeliveries
                   \/ RestartHookServer \/ EmergencyAbort
    PROVE TypeOK'
<1> USE DEF hookVars, trackVars, peerVars, sdkVars
<1>1. CASE PeerHello
  BY <1>1, PeerAssumption DEF PeerHello, TypeOK
<1>2. CASE PhoneOnline
  BY <1>2 DEF PhoneOnline, TypeOK
<1>3. CASE PhoneOffline
  BY <1>3 DEF PhoneOffline, TypeOK
<1>4. CASE RetryBlocking
  BY <1>4 DEF RetryBlocking, TypeOK
<1>5. CASE RetryDeliveries
  BY <1>5 DEF RetryDeliveries, TypeOK
<1>6. CASE RestartHookServer
  <2>1. hookGen' \in 0 .. MaxRestarts
    BY <1>6, PeerAssumption DEF RestartHookServer, TypeOK
  <2>2. \A t \in Tools : Answered(http[t], "empty") \in {"empty", "closed", "twice"}
    BY DEF Answered, TypeOK
  <2>3. /\ http' \in [Tools -> {"none", "held", "allow", "deny", "empty", "closed", "twice"}]
        /\ armed' \subseteq Tools
    BY <1>6, <2>2 DEF RestartHookServer, TypeOK
  <2>4. queue' \in [Keys -> Seq(Tools)] /\ pending' \in [HookRequests -> Tools \cup {NoTool}]
    BY <1>6 DEF RestartHookServer
  <2> QED BY <1>6, <2>1, <2>3, <2>4 DEF RestartHookServer, TypeOK
<1>7. CASE EmergencyAbort
  BY <1>7, CallAssumption DEF EmergencyAbort, Cleanup, Controlled, Calls, TypeOK
<1> QED BY <1>1, <1>2, <1>3, <1>4, <1>5, <1>6, <1>7

LEMMA TypeStep == TypeOK /\ [Next]_vars => TypeOK'
<1> SUFFICES ASSUME TypeOK, [Next]_vars PROVE TypeOK'
  OBVIOUS
<1>1. CASE UNCHANGED vars
  BY <1>1 DEF vars, TypeOK
<1>2. CASE Next
  BY <1>2, TypeClaude, TypeHook, TypeSession, TypePhone, TypeSdk, TypeDaemon DEF Next
<1> QED BY <1>1, <1>2

\* Every variable keeps its type: no handler, retry tick or restart leaves an
\* entry in the daemon's maps that is not a request, or a response in a state
\* the HTTP server does not know.
THEOREM TypeCorrect == Spec => []TypeOK
<1>1. Init => TypeOK
  BY TypeInit
<1>2. TypeOK /\ [Next]_vars => TypeOK'
  BY TypeStep
<1> QED BY <1>1, <1>2, PTL DEF Spec

(***************************************************************************)
(* Held connections                                                        *)
(*                                                                         *)
(* HeldIsReachable is not inductive: the id a PermissionRequest is given   *)
(* must be one that no other call goes by, which depends on what has been  *)
(* in the correlator's queues.                                             *)
(***************************************************************************)

\* HeldIsReachable, and when a response and a request id come into being.
HeldInv ==
    \A t \in Tools :
        /\ http[t] # "twice"
        /\ (http[t] = "held") <=> (t \in armed)
        /\ http[t] = "held" => t \in open /\ reqOf[t] # NoRequest /\ pending[reqOf[t]] = t
        /\ (reqOf[t] = NoRequest) <=> (http[t] = "none")
        /\ t \in open => reqOf[t] # NoRequest
        /\ phase[t] \in {"idle", "called"} => http[t] = "none"

\* An entry of pendingPermissions belongs to a held call that knows its id.
PendInv ==
    \A r \in HookRequests :
        pending[r] # NoTool => reqOf[pending[r]] = r /\ http[pending[r]] = "held"

\* Two calls never go by one id.
UniqueInv ==
    \A t, u \in Tools : reqOf[t] # NoRequest /\ reqOf[t] = reqOf[u] => t = u

\* Where an id comes from.
IdInv ==
    \A t \in Tools : reqOf[t] # NoRequest =>
        /\ Key(reqOf[t].call) = Key(t)
        /\ reqOf[t].by = "hook" => reqOf[t].call = t
        /\ SessionOf[t] \in ModernSessions => reqOf[t] = ToolReq(t)
        /\ phase[reqOf[t].call] # "idle"

\* A queue holds calls of its own key, each once, whose ids nobody has claimed.
QueueInv ==
    \A k \in Keys :
        /\ Distinct(queue[k])
        /\ \A v \in Elems(queue[k]) :
              /\ Key(v) = k /\ phase[v] # "idle"
              /\ k[1] \notin ModernSessions => \A u \in Tools : reqOf[u] # ToolReq(v)

ConnInv == HeldInv /\ PendInv /\ UniqueInv
IInv == ConnInv /\ IdInv /\ QueueInv

LEMMA InvInit == Init => IInv
<1> SUFFICES ASSUME Init PROVE IInv
  OBVIOUS
<1>1. HeldInv /\ PendInv /\ UniqueInv /\ IdInv
  BY DEF Init, HeldInv, PendInv, UniqueInv, IdInv
<1>2. QueueInv
  <2>1. \A k \in Keys : queue[k] = << >>
    BY DEF Init
  <2> QED BY <2>1 DEF QueueInv, Distinct, Elems
<1> QED BY <1>1, <1>2 DEF IInv, ConnInv

\* A tool call only moves on.
PhaseMovesOn ==
    \A t \in Tools :
        /\ phase[t] # "idle" => phase'[t] # "idle"
        /\ phase'[t] \in {"idle", "called"} => phase[t] \in {"idle", "called"}

\* Steps that touch neither the queues nor the ids keep both parts.
LEMMA QueueFrame ==
    ASSUME TypeOK, IInv, UNCHANGED << queue, reqOf >>, PhaseMovesOn
    PROVE  IdInv' /\ QueueInv'
<1>1. \A v \in Tools : phase[v] # "idle" => phase'[v] # "idle"
  BY DEF PhaseMovesOn
<1>2. \A k \in Keys : \A v \in Elems(queue[k]) : v \in Tools
  BY DEF TypeOK, Elems
<1>3. \A t \in Tools : reqOf[t] # NoRequest => reqOf[t].call \in Tools
  BY RequestFacts DEF TypeOK
<1>4. IdInv'
  BY <1>1, <1>3 DEF IInv, IdInv, Key
<1>5. QueueInv'
  BY <1>1, <1>2 DEF IInv, QueueInv, Key, Elems, Distinct
<1> QED BY <1>4, <1>5

\* Steps outside the hook server keep the invariant.
LEMMA InvFrame ==
    ASSUME TypeOK, IInv, UNCHANGED << queue, pending, reqOf, http, armed, open >>,
           PhaseMovesOn
    PROVE  IInv'
<1>1. ConnInv'
  BY DEF IInv, ConnInv, HeldInv, PendInv, UniqueInv, PhaseMovesOn
<1> QED BY <1>1, QueueFrame DEF IInv

\* Answering an entry that exists answers a held connection, once.
LEMMA InvResolve ==
    ASSUME TypeOK, IInv, NEW r \in HookRequests, HookPending(r),
           NEW v \in {"allow", "deny", "empty"}, ResolvePending(r, v),
           UNCHANGED << queue, reqOf, open >>, PhaseMovesOn
    PROVE  IInv'
<1> DEFINE t == pending[r]
<1>1. t \in Tools /\ http[t] = "held" /\ reqOf[t] = r
  BY DEF HookPending, IInv, ConnInv, PendInv, TypeOK
<1>2. Answered(http[t], v) = v
  BY <1>1 DEF Answered
<1>3. /\ pending' = [pending EXCEPT ![r] = NoTool]
      /\ armed' = armed \ {t}
      /\ http' = [http EXCEPT ![t] = v]
  BY <1>2 DEF ResolvePending
<1>4. HeldInv'
  BY <1>1, <1>3, RequestFacts DEF IInv, ConnInv, HeldInv, UniqueInv, PhaseMovesOn, TypeOK
<1>5. PendInv'
  BY <1>1, <1>3, RequestFacts DEF IInv, ConnInv, PendInv, TypeOK
<1>6. UniqueInv'
  BY DEF IInv, ConnInv, UniqueInv
<1> QED BY <1>4, <1>5, <1>6, QueueFrame DEF IInv, ConnInv

\* A PreToolUse puts a call into its queue that is not in any, and whose id
\* nobody goes by.
LEMMA InvPreToolUse ==
    ASSUME TypeOK, IInv, NEW t \in Tools, PreToolUse(t)
    PROVE  IInv'
<1> DEFINE k0 == Key(t)
<1>0. k0 \in Keys /\ queue[k0] \in Seq(Tools) /\ phase[t] = "idle"
  BY RequestFacts DEF TypeOK, PreToolUse
<1>1. PICK q \in Fresh(queue[k0]) : queue' = [queue EXCEPT ![k0] = Enqueue(q, t)]
  BY DEF PreToolUse
<1>2. /\ UNCHANGED << pending, reqOf, http, armed, open >>
      /\ phase' = [phase EXCEPT ![t] = "called"]
  BY DEF PreToolUse
<1>3. PhaseMovesOn
  BY <1>0, <1>2 DEF PhaseMovesOn, TypeOK
<1>4. ConnInv'
  BY <1>2, <1>3 DEF IInv, ConnInv, HeldInv, PendInv, UniqueInv, PhaseMovesOn
<1>5. \A u \in Tools : reqOf[u] # NoRequest => reqOf[u].call \in Tools /\ reqOf[u].call # t
  BY <1>0, RequestFacts DEF IInv, IdInv, TypeOK
<1>6. IdInv'
  BY <1>2, <1>3, <1>5 DEF IInv, IdInv, Key, PhaseMovesOn
<1>7. \A u \in Tools : reqOf[u] # ToolReq(t)
  <2>1. ToolReq(t) # NoRequest
    BY RequestFacts
  <2>2. ToolReq(t).call = t
    BY DEF ToolReq
  <2> QED BY <1>5, <2>1, <2>2
<1>8. /\ Distinct(queue[k0])
      /\ \A v \in Elems(queue[k0]) : v # t
  BY <1>0 DEF IInv, QueueInv
<1>9. q \in Seq(Tools) /\ Elems(q) \subseteq Elems(queue[k0]) /\ Distinct(q)
  BY <1>0, <1>1, <1>8, FreshFacts
<1>10. Distinct(Enqueue(q, t)) /\ Elems(Enqueue(q, t)) \subseteq Elems(queue[k0]) \cup {t}
  BY <1>8, <1>9, EnqueueFacts
<1>11. \A v \in Tools : phase[v] # "idle" => phase'[v] # "idle"
  BY <1>3 DEF PhaseMovesOn
<1>12. \A k \in Keys : \A v \in Elems(queue[k]) : v \in Tools
  BY DEF TypeOK, Elems
<1>13. QueueInv'
  <2>1. ASSUME NEW k \in Keys
        PROVE  /\ Distinct(queue'[k])
               /\ Elems(queue'[k]) \subseteq Elems(queue[k]) \cup (IF k = k0 THEN {t} ELSE {})
    BY <1>0, <1>1, <1>10, <1>8, <2>1 DEF TypeOK, IInv, QueueInv
  <2>2. phase'[t] # "idle"
    BY <1>2 DEF TypeOK
  <2> QED BY <1>2, <1>7, <1>11, <1>12, <2>1, <2>2 DEF IInv, QueueInv, Key
<1> QED BY <1>4, <1>6, <1>13 DEF IInv

\* The id a PermissionRequest claims is free: no call goes by it and nothing
\* is pending under it; and it is out of the queues.
LEMMA ClaimIsFree ==
    ASSUME TypeOK, IInv, NEW t \in Tools, phase[t] = "called",
           NEW q \in Fresh(queue[Key(t)]), NEW claim \in Claims(t, q)
    PROVE  /\ claim.id \in HookRequests
           /\ \A u \in Tools : reqOf[u] # claim.id
           /\ pending[claim.id] = NoTool
           /\ Key(claim.id.call) = Key(t)
           /\ claim.id.by = "hook" => claim.id.call = t
           /\ SessionOf[t] \in ModernSessions => claim.id = ToolReq(t)
           /\ phase[claim.id.call] # "idle"
           /\ Distinct(claim.rest) /\ Elems(claim.rest) \subseteq Elems(queue[Key(t)])
           /\ SessionOf[t] \notin ModernSessions =>
                \A v \in Elems(claim.rest) : claim.id # ToolReq(v)
<1> DEFINE r == claim.id
<1>0. Key(t) \in Keys /\ queue[Key(t)] \in Seq(Tools)
  BY RequestFacts DEF TypeOK
<1>1. Distinct(queue[Key(t)])
  BY <1>0 DEF IInv, QueueInv
<1>2. q \in Seq(Tools) /\ Elems(q) \subseteq Elems(queue[Key(t)]) /\ Distinct(q)
  BY <1>0, <1>1, FreshFacts
<1>3. /\ r \in HookRequests
      /\ Distinct(claim.rest) /\ Elems(claim.rest) \subseteq Elems(queue[Key(t)])
  BY <1>2, ClaimFacts
<1>4. reqOf[t] = NoRequest /\ http[t] = "none"
  BY DEF IInv, ConnInv, HeldInv
<1>5. ToolReq(t).call = t /\ HookReq(t).call = t /\ ToolReq(t).by = "tool" /\ HookReq(t).by = "hook"
  BY DEF ToolReq, HookReq
<1>6. CASE SessionOf[t] \in ModernSessions
  <2>1. r = ToolReq(t)
    BY <1>2, <1>6, ClaimFacts
  <2>2. ASSUME NEW u \in Tools, reqOf[u] = r PROVE FALSE
    <3>1. Key(t) = Key(u)
      BY <1>3, <1>5, <2>1, <2>2, RequestFacts DEF IInv, IdInv
    <3>2. SessionOf[u] \in ModernSessions
      BY <1>6, <3>1 DEF Key
    <3>3. reqOf[u] = ToolReq(u)
      BY <1>3, <2>2, <3>2, RequestFacts DEF IInv, IdInv
    <3>4. u = t
      BY <2>1, <2>2, <3>3 DEF ToolReq
    <3> QED BY <1>3, <1>4, <2>2, <3>4, RequestFacts
  <2>3. pending[r] = NoTool
    BY <1>3, <2>2 DEF IInv, ConnInv, PendInv, TypeOK
  <2> QED BY <1>3, <1>5, <1>6, <2>1, <2>2, <2>3
<1>7. CASE SessionOf[t] \notin ModernSessions /\ r = HookReq(t)
  <2>1. ASSUME NEW u \in Tools, reqOf[u] = r PROVE FALSE
    <3>1. u = t
      BY <1>3, <1>5, <1>7, <2>1, RequestFacts DEF IInv, IdInv
    <3> QED BY <1>3, <1>4, <2>1, <3>1, RequestFacts
  <2>2. pending[r] = NoTool
    BY <1>3, <2>1 DEF IInv, ConnInv, PendInv, TypeOK
  <2>3. \A v \in Elems(claim.rest) : r # ToolReq(v)
    BY <1>7 DEF ToolReq, HookReq
  <2> QED BY <1>3, <1>5, <1>7, <2>1, <2>2, <2>3
<1>8. CASE SessionOf[t] \notin ModernSessions /\ r # HookReq(t)
  <2>1. PICK v \in Elems(q) : r = ToolReq(v) /\ v \notin Elems(claim.rest)
    BY <1>2, <1>8, ClaimFacts
  <2>2. /\ Key(v) = Key(t) /\ phase[v] # "idle"
        /\ \A u \in Tools : reqOf[u] # ToolReq(v)
    <3>1. Key(t)[1] \notin ModernSessions
      BY <1>8 DEF Key
    <3> QED BY <1>0, <1>2, <2>1, <3>1 DEF IInv, QueueInv
  <2>3. pending[r] = NoTool
    BY <1>3, <2>1, <2>2 DEF IInv, ConnInv, PendInv, TypeOK
  <2>4. r.call = v /\ r.by = "tool"
    BY <2>1 DEF ToolReq
  <2>5. \A w \in Elems(claim.rest) : r # ToolReq(w)
    BY <2>1, <2>4 DEF ToolReq
  <2> QED BY <1>3, <1>8, <2>1, <2>2, <2>3, <2>4, <2>5
<1> QED BY <1>6, <1>7, <1>8

LEMMA InvPermissionRequest ==
    ASSUME TypeOK, IInv, NEW t \in Tools, PermissionRequest(t)
    PROVE  IInv'
<1> DEFINE k0 == Key(t)
<1>0. phase[t] = "called" /\ k0 \in Keys
  BY RequestFacts DEF PermissionRequest
<1>1. PICK q \in Fresh(queue[k0]) : \E claim \in Claims(t, q) : HeldUnder(t, claim)
  BY DEF PermissionRequest, HeldUnder
<1>2. PICK claim \in Claims(t, q) : HeldUnder(t, claim)
  BY <1>1
<1> DEFINE r == claim.id
<1>3. /\ r \in HookRequests
      /\ \A u \in Tools : reqOf[u] # r
      /\ pending[r] = NoTool
      /\ Key(r.call) = Key(t)
      /\ r.by = "hook" => r.call = t
      /\ SessionOf[t] \in ModernSessions => r = ToolReq(t)
      /\ phase[r.call] # "idle"
      /\ Distinct(claim.rest) /\ Elems(claim.rest) \subseteq Elems(queue[k0])
      /\ SessionOf[t] \notin ModernSessions => \A v \in Elems(claim.rest) : r # ToolReq(v)
  BY <1>0, <1>2, ClaimIsFree
<1>4. /\ queue' = [queue EXCEPT ![k0] = claim.rest]
      /\ reqOf' = [reqOf EXCEPT ![t] = r]
      /\ pending' = [pending EXCEPT ![r] = t]
  BY <1>2 DEF HeldUnder
<1>5. /\ http' = [http EXCEPT ![t] = "held"]
      /\ armed' = armed \cup {t} /\ open' = open \cup {t}
      /\ phase' = [phase EXCEPT ![t] = "prompting"]
  BY DEF PermissionRequest
<1>6. PhaseMovesOn
  BY <1>0, <1>5 DEF PhaseMovesOn, TypeOK
<1>7. http[t] = "none" /\ reqOf[t] = NoRequest
  BY <1>0 DEF IInv, ConnInv, HeldInv
<1>8. r # NoRequest /\ r.call \in Tools /\ t # NoTool
  BY <1>3, RequestFacts
<1>9. HeldInv'
  <2> SUFFICES ASSUME NEW u \in Tools
               PROVE  /\ http'[u] # "twice"
                      /\ (http'[u] = "held") <=> (u \in armed')
                      /\ http'[u] = "held" => /\ u \in open' /\ reqOf'[u] # NoRequest
                                              /\ pending'[reqOf'[u]] = u
                      /\ (reqOf'[u] = NoRequest) <=> (http'[u] = "none")
                      /\ u \in open' => reqOf'[u] # NoRequest
                      /\ phase'[u] \in {"idle", "called"} => http'[u] = "none"
    BY DEF HeldInv
  <2>1. CASE u = t
    BY <1>3, <1>4, <1>5, <1>8, <2>1 DEF TypeOK
  <2>2. CASE u # t
    <3>1. UNCHANGED << http[u], reqOf[u], phase[u] >>
      BY <1>4, <1>5, <2>2 DEF TypeOK
    <3>2. reqOf[u] # NoRequest => pending'[reqOf[u]] = pending[reqOf[u]]
      BY <1>3, <1>4 DEF TypeOK
    <3> QED BY <1>5, <2>2, <3>1, <3>2 DEF IInv, ConnInv, HeldInv
  <2> QED BY <2>1, <2>2
<1>10. PendInv'
  <2> SUFFICES ASSUME NEW x \in HookRequests, pending'[x] # NoTool
               PROVE  reqOf'[pending'[x]] = x /\ http'[pending'[x]] = "held"
    BY DEF PendInv
  <2>1. CASE x = r
    BY <1>3, <1>4, <1>5, <2>1 DEF TypeOK
  <2>2. CASE x # r
    <3>1. pending'[x] = pending[x] /\ pending[x] \in Tools
      BY <1>4, <2>2 DEF TypeOK
    <3>2. reqOf[pending[x]] = x /\ http[pending[x]] = "held"
      BY <3>1, RequestFacts DEF IInv, ConnInv, PendInv
    <3>3. pending[x] # t
      BY <1>7, <3>2
    <3> QED BY <1>4, <1>5, <3>1, <3>2, <3>3 DEF TypeOK
  <2> QED BY <2>1, <2>2
<1>11. UniqueInv'
  BY <1>3, <1>4 DEF IInv, ConnInv, UniqueInv, TypeOK
<1>12. IdInv'
  <2> SUFFICES ASSUME NEW u \in Tools, reqOf'[u] # NoRequest
               PROVE  /\ Key(reqOf'[u].call) = Key(u)
                      /\ reqOf'[u].by = "hook" => reqOf'[u].call = u
                      /\ SessionOf[u] \in ModernSessions => reqOf'[u] = ToolReq(u)
                      /\ phase'[reqOf'[u].call] # "idle"
    BY DEF IdInv, Key
  <2>1. reqOf'[u].call \in Tools
    BY <1>4, <1>8, RequestFacts DEF TypeOK
  <2>2. CASE u = t
    BY <1>3, <1>4, <1>6, <1>8, <2>2 DEF PhaseMovesOn, TypeOK
  <2>3. CASE u # t
    <3>1. reqOf'[u] = reqOf[u]
      BY <1>4, <2>3 DEF TypeOK
    <3> QED BY <1>6, <2>1, <3>1 DEF IInv, IdInv, PhaseMovesOn
  <2> QED BY <2>2, <2>3
<1>13. QueueInv'
  <2> SUFFICES ASSUME NEW k \in Keys
               PROVE  /\ Distinct(queue'[k])
                      /\ \A v \in Elems(queue'[k]) :
                            /\ Key(v) = k /\ phase'[v] # "idle"
                            /\ k[1] \notin ModernSessions =>
                                  \A u \in Tools : reqOf'[u] # ToolReq(v)
    BY DEF QueueInv, Key, Distinct, Elems
  <2>1. Distinct(queue'[k])
    BY <1>3, <1>4 DEF TypeOK, IInv, QueueInv
  <2>2. Elems(queue'[k]) \subseteq Elems(queue[k])
    BY <1>3, <1>4 DEF TypeOK
  <2>3. Elems(queue[k]) \subseteq Tools
    BY DEF TypeOK, Elems
  <2>4. ASSUME NEW v \in Elems(queue'[k])
        PROVE  Key(v) = k /\ phase'[v] # "idle"
    BY <1>6, <2>2, <2>3 DEF IInv, QueueInv, PhaseMovesOn
  <2>5. ASSUME NEW v \in Elems(queue'[k]), k[1] \notin ModernSessions, NEW u \in Tools
        PROVE  reqOf'[u] # ToolReq(v)
    <3>1. reqOf[u] # ToolReq(v)
      BY <2>2, <2>5 DEF IInv, QueueInv
    <3>2. r # ToolReq(v)
      <4>1. CASE k = k0
        <5>1. SessionOf[t] \notin ModernSessions
          BY <2>5, <4>1 DEF Key
        <5>2. v \in Elems(claim.rest)
          BY <1>4, <4>1 DEF TypeOK
        <5> QED BY <1>3, <5>1, <5>2
      <4>2. CASE k # k0
        <5>1. Key(v) # k0
          BY <2>4, <4>2
        <5>2. ToolReq(v).call = v
          BY DEF ToolReq
        <5> QED BY <1>3, <5>1, <5>2
      <4> QED BY <4>1, <4>2
    <3> QED BY <1>4, <3>1, <3>2 DEF TypeOK
  <2> QED BY <2>1, <2>4, <2>5
<1> QED BY <1>9, <1>10, <1>11, <1>12, <1>13 DEF IInv, ConnInv

\* A connection that closes takes its own entry away, and no other's.
LEMMA InvConnectionClosed ==
    ASSUME TypeOK, IInv, NEW t \in Tools, ConnectionClosed(t)
    PROVE  IInv'
<1> DEFINE r == reqOf[t]
<1>0. /\ r \in HookRequests /\ r # NoRequest
      /\ UNCHANGED << queue, reqOf, phase >>
      /\ open' = open \ {t}
      /\ http' = [http EXCEPT ![t] = IF @ = "held" THEN "closed" ELSE @]
  BY RequestFacts DEF ConnectionClosed, IInv, ConnInv, HeldInv, TypeOK
<1>1. PhaseMovesOn
  BY <1>0 DEF PhaseMovesOn
<1>2. CASE HookPending(r)
  <2>1. pending[r] = t /\ http[t] = "held"
    <3>1. pending[r] \in Tools /\ reqOf[pending[r]] = r /\ http[pending[r]] = "held"
      BY <1>0, <1>2 DEF HookPending, IInv, ConnInv, PendInv, TypeOK
    <3> QED BY <1>0, <3>1 DEF IInv, ConnInv, UniqueInv
  <2>2. /\ pending' = [pending EXCEPT ![r] = NoTool]
        /\ armed' = armed \ {t}
        /\ http' = [http EXCEPT ![t] = "closed"]
    BY <1>0, <1>2, <2>1 DEF ConnectionClosed
  <2>3. HeldInv'
    BY <1>0, <2>1, <2>2, RequestFacts DEF IInv, ConnInv, HeldInv, UniqueInv, TypeOK
  <2>4. PendInv'
    BY <1>0, <2>1, <2>2, RequestFacts DEF IInv, ConnInv, PendInv, TypeOK
  <2>5. UniqueInv'
    BY <1>0 DEF IInv, ConnInv, UniqueInv
  <2> QED BY <1>0, <1>1, <2>3, <2>4, <2>5, QueueFrame DEF IInv, ConnInv
<1>3. CASE ~HookPending(r)
  <2>1. http[t] # "held"
    BY <1>0, <1>3, RequestFacts DEF HookPending, IInv, ConnInv, HeldInv
  <2>2. UNCHANGED << pending, armed >> /\ http' = http
    BY <1>0, <1>3, <2>1 DEF ConnectionClosed, TypeOK
  <2>3. HeldInv'
    BY <1>0, <2>1, <2>2 DEF IInv, ConnInv, HeldInv
  <2>4. PendInv' /\ UniqueInv'
    BY <1>0, <2>2 DEF IInv, ConnInv, PendInv, UniqueInv
  <2> QED BY <1>0, <1>1, <2>3, <2>4, QueueFrame DEF IInv, ConnInv
<1> QED BY <1>2, <1>3

\* The hold timer answers the connection it was armed for.
LEMMA InvHoldTimeout ==
    ASSUME TypeOK, IInv, NEW t \in Tools, HoldTimeout(t)
    PROVE  IInv'
<1> DEFINE r == reqOf[t]
<1>1. r \in HookRequests /\ pending[r] = t
  BY RequestFacts DEF HoldTimeout, IInv, ConnInv, HeldInv, TypeOK
<1>2. HookPending(r)
  BY <1>1, RequestFacts DEF HookPending
<1>3. ResolvePending(r, "empty")
  BY <1>1 DEF HoldTimeout, ResolvePending
<1>4. UNCHANGED << queue, reqOf, open >> /\ PhaseMovesOn
  BY DEF HoldTimeout, PhaseMovesOn
<1> QED BY <1>1, <1>2, <1>3, <1>4, InvResolve

\* Replacing the hook server answers everything that is held.
LEMMA InvRestart ==
    ASSUME TypeOK, IInv, RestartHookServer
    PROVE  IInv'
<1> DEFINE held == { pending[r] : r \in { x \in HookRequests : HookPending(x) } }
<1>1. \A t \in Tools : t \in held <=> http[t] = "held"
  <2>1. ASSUME NEW t \in Tools, t \in held PROVE http[t] = "held"
    BY <2>1 DEF HookPending, IInv, ConnInv, PendInv
  <2>2. ASSUME NEW t \in Tools, http[t] = "held" PROVE t \in held
    <3>1. reqOf[t] \in HookRequests /\ pending[reqOf[t]] = t
      BY <2>2 DEF IInv, ConnInv, HeldInv, TypeOK
    <3> QED BY <3>1, RequestFacts DEF HookPending
  <2> QED BY <2>1, <2>2
<1>2. /\ armed' = armed \ held
      /\ pending' = [r \in HookRequests |-> NoTool]
      /\ queue' = [k \in Keys |-> << >>]
      /\ UNCHANGED << reqOf, open, phase >>
  BY DEF RestartHookServer
<1>3. \A t \in Tools : http'[t] = IF t \in held THEN "empty" ELSE http[t]
  BY <1>1 DEF RestartHookServer, Answered
<1>4. HeldInv'
  BY <1>1, <1>2, <1>3 DEF IInv, ConnInv, HeldInv
<1>5. PendInv' /\ UniqueInv'
  BY <1>2 DEF IInv, ConnInv, PendInv, UniqueInv
<1>6. IdInv'
  BY <1>2 DEF IInv, IdInv
<1>7. QueueInv'
  BY <1>2 DEF QueueInv, Distinct, Elems
<1> QED BY <1>4, <1>5, <1>6, <1>7 DEF IInv, ConnInv

LEMMA InvStep == TypeOK /\ IInv /\ [Next]_vars => IInv'
<1> SUFFICES ASSUME TypeOK, IInv, [Next]_vars PROVE IInv'
  OBVIOUS
<1> USE DEF hookVars, trackVars, peerVars, sdkVars
<1>1. CASE UNCHANGED vars
  BY <1>1, InvFrame DEF vars, PhaseMovesOn
<1>2. ASSUME NEW t \in Tools, Claude(t) PROVE IInv'
  <2>1. UNCHANGED << queue, pending, reqOf, http, armed, open >>
    BY <1>2 DEF Claude, RunUnasked, TerminalAnswers, ClaudeReadsDecision, CallAbandoned
  <2>2. PhaseMovesOn
    BY <1>2 DEF PhaseMovesOn, Claude, RunUnasked, TerminalAnswers, ClaudeReadsDecision,
                CallAbandoned, TypeOK
  <2> QED BY <2>1, <2>2, InvFrame
<1>3. ASSUME NEW t \in Tools, PostToolUse(t) PROVE IInv'
  <2>1. UNCHANGED << queue, reqOf, open >>
    BY <1>3 DEF PostToolUse
  <2>2. PhaseMovesOn
    BY <1>3 DEF PostToolUse, PhaseMovesOn, TypeOK
  <2>3. CASE t \in correlated /\ HookPending(ToolReq(t))
    BY <1>3, <2>1, <2>2, <2>3, InvResolve, RequestFacts DEF PostToolUse
  <2>4. CASE ~(t \in correlated /\ HookPending(ToolReq(t)))
    BY <1>3, <2>1, <2>2, <2>4, InvFrame DEF PostToolUse
  <2> QED BY <2>3, <2>4
<1>4. ASSUME NEW t \in Tools, Hook(t) PROVE IInv'
  BY <1>3, <1>4, InvPreToolUse, InvPermissionRequest, InvHoldTimeout, InvConnectionClosed
     DEF Hook
<1>5. ASSUME NEW s \in Sessions, Session(s) PROVE IInv'
  <2>1. UNCHANGED << queue, pending, reqOf, http, armed, open >>
    BY <1>5 DEF Session, Interrupt, InterruptReported, Stop, StopFailure, KillSession,
                StreamAborted
  <2>2. PhaseMovesOn
    BY <1>5 DEF PhaseMovesOn, Session, Interrupt, InterruptReported, Stop, StopFailure,
                KillSession, StreamAborted, TypeOK
  <2> QED BY <2>1, <2>2, InvFrame
<1>6. ASSUME NEW r \in Requests, Phone(r) PROVE IInv'
  <2>1. CASE ResponseToHook(r)
    <3>1. PICK v \in Verdicts(r) : ResolvePending(r, v)
      BY <2>1 DEF ResponseToHook
    <3>2. v \in {"allow", "deny", "empty"}
      BY <3>1 DEF Verdicts
    <3>3. r \in HookRequests /\ HookPending(r)
      BY <2>1 DEF ResponseToHook, HookPending
    <3>4. UNCHANGED << queue, reqOf, open >> /\ PhaseMovesOn
      BY <2>1 DEF ResponseToHook, PhaseMovesOn
    <3> QED BY <3>1, <3>2, <3>3, <3>4, InvResolve
  <2>2. CASE ResponseRejected(r) \/ ResponseToSdk(r) \/ ResponseTooLate(r) \/ NotificationAck(r)
    <3>1. UNCHANGED << queue, pending, reqOf, http, armed, open, phase >>
      BY <2>2 DEF ResponseRejected, ResponseToSdk, ResponseTooLate, NotificationAck
    <3> QED BY <3>1, InvFrame DEF PhaseMovesOn
  <2> QED BY <1>6, <2>1, <2>2 DEF Phone
<1>7. ASSUME NEW c \in SdkCalls, SdkAsks(c) \/ SdkSignalAborts(c) PROVE IInv'
  <2>1. UNCHANGED << queue, pending, reqOf, http, armed, open, phase >>
    BY <1>7 DEF SdkAsks, SdkSignalAborts
  <2> QED BY <2>1, InvFrame DEF PhaseMovesOn
<1>8. CASE \/ PeerHello \/ PhoneOnline \/ PhoneOffline
           \/ RetryBlocking \/ RetryDeliveries \/ EmergencyAbort
  <2>1. UNCHANGED << queue, pending, reqOf, http, armed, open, phase >>
    BY <1>8 DEF PeerHello, PhoneOnline, PhoneOffline, RetryBlocking, RetryDeliveries,
                EmergencyAbort
  <2> QED BY <2>1, InvFrame DEF PhaseMovesOn
<1>9. CASE Next
  BY <1>2, <1>4, <1>5, <1>6, <1>7, <1>8, <1>9, InvRestart DEF Next
<1> QED BY <1>1, <1>9

\* IInv says more than HeldIsReachable.
LEMMA InvImpliesReachable == TypeOK /\ IInv => HeldIsReachable
<1> SUFFICES ASSUME TypeOK, IInv, NEW t \in Tools
             PROVE  /\ http[t] # "twice"
                    /\ (http[t] = "held") <=> (t \in armed)
                    /\ (http[t] = "held") <=> (reqOf[t] # NoRequest /\ pending[reqOf[t]] = t)
                    /\ http[t] = "held" => t \in open
  BY DEF HeldIsReachable
<1>1. ASSUME reqOf[t] \in HookRequests, pending[reqOf[t]] = t PROVE http[t] = "held"
  BY <1>1, RequestFacts DEF IInv, ConnInv, PendInv
<1>2. reqOf[t] # NoRequest => reqOf[t] \in HookRequests
  BY DEF TypeOK
<1> QED BY <1>1, <1>2 DEF IInv, ConnInv, HeldInv

\* HeldIsReachable, for every number of sessions, calls and restarts: a held
\* connection can always be answered by the phone, its timer, PostToolUse or
\* 'close', and no response is written twice.
THEOREM HeldConnections == Spec => []HeldIsReachable
<1>1. Init => TypeOK /\ IInv
  BY TypeInit, InvInit
<1>2. TypeOK /\ IInv /\ [Next]_vars => TypeOK' /\ IInv'
  BY TypeStep, InvStep
<1>3. TypeOK /\ IInv => HeldIsReachable
  BY InvImpliesReachable
<1> QED BY <1>1, <1>2, <1>3, PTL DEF Spec

(***************************************************************************)
(* Cards that are over                                                     *)
(***************************************************************************)

\* Nothing waits under r and nothing resends it.
Over(r) == ~HookPending(r) /\ r \notin sdkPending /\ r \notin blocking

\* No fallback push carries r, and no prompt will go by its id again.
Final(r) ==
    /\ r \notin deliveries
    /\ r \in HookRequests => \E t \in Tools : reqOf[t] = r
    /\ r \in SdkRequests => sdk[r.call] # "none"

CardInv ==
    /\ \A r \in Requests : /\ told[r] \in {"answered", "expired"} => Over(r)
                           /\ told[r] = "answered" => Final(r)
    /\ \A r \in sdkPending : sdk[r.call] # "none"

\* What AnsweredStaysAnswered says of one step.
NotReopened == \A r \in Requests : told[r] = "answered" => told'[r] # "shown"

LEMMA CardInit == Init => CardInv
BY DEF Init, CardInv

\* A step that gives out no new id keeps CardInv if each card it changes is
\* dismissed, shown again unanswered, or over for good.
LEMMA CardFrame ==
    ASSUME TypeOK, CardInv, UNCHANGED reqOf,
           \A r \in HookRequests : pending'[r] \in {NoTool, pending[r]},
           blocking' \subseteq blocking, sdkPending' \subseteq sdkPending,
           deliveries' \subseteq deliveries,
           \A c \in SdkCalls : sdk[c] # "none" => sdk'[c] # "none",
           \A r \in Requests :
               \/ told'[r] = told[r]
               \/ told'[r] = "dismissed"
               \/ told'[r] = "shown" /\ told[r] # "answered"
               \/ told'[r] = "expired" /\ Over(r)'
               \/ told'[r] = "answered" /\ Over(r)' /\ r \notin deliveries'
                  /\ (r \in HookRequests => \E t \in Tools : reqOf[t] = r)
                  /\ (r \in SdkRequests => sdk[r.call] # "none")
    PROVE  CardInv' /\ NotReopened
<1>1. \A r \in Requests : Over(r) => Over(r)'
  BY DEF Over, HookPending
<1>2. \A r \in SdkRequests : r.call \in SdkCalls
  BY RequestFacts
<1>3. \A r \in sdkPending' : sdk'[r.call] # "none"
  BY <1>2 DEF CardInv, TypeOK
<1>4. ASSUME NEW r \in Requests
      PROVE  /\ told'[r] \in {"answered", "expired"} => Over(r)'
             /\ told'[r] = "answered" => Final(r)'
             /\ told[r] = "answered" => told'[r] # "shown"
  <2>1. told'[r] = "answered" => Final(r)'
    BY <1>2 DEF CardInv, Final
  <2> QED BY <1>1, <2>1 DEF CardInv
<1> QED BY <1>3, <1>4 DEF CardInv, NotReopened

\* A prompt that appears on the phone has an id that was never answered.
LEMMA CardPermissionRequest ==
    ASSUME TypeOK, IInv, CardInv, NEW t \in Tools, PermissionRequest(t)
    PROVE  CardInv' /\ NotReopened
<1>0. phase[t] = "called" /\ UNCHANGED << sdk, sdkPending >>
  BY DEF PermissionRequest, sdkVars
<1>1. PICK q \in Fresh(queue[Key(t)]) : \E claim \in Claims(t, q) : HeldUnder(t, claim)
  BY DEF PermissionRequest, HeldUnder
<1>2. PICK claim \in Claims(t, q) : HeldUnder(t, claim)
  BY <1>1
<1> DEFINE r == claim.id
<1>3. r \in HookRequests /\ r \in Requests /\ \A u \in Tools : reqOf[u] # r
  BY <1>0, <1>2, ClaimIsFree, RequestFacts
<1>4. told[r] # "answered"
  BY <1>3 DEF CardInv, Final
<1>5. reqOf[t] = NoRequest /\ NoRequest \notin HookRequests
  BY <1>0, RequestFacts DEF IInv, ConnInv, HeldInv
<1>6. /\ pending' = [pending EXCEPT ![r] = t]
      /\ reqOf' = [reqOf EXCEPT ![t] = r]
      /\ deliveries' \subseteq deliveries \cup {r}
      /\ blocking' = blocking \cup {r}
      /\ told' = [told EXCEPT ![r] = "shown"]
  BY <1>2 DEF HeldUnder, TrackedDelivery
<1>7. ASSUME NEW x \in Requests, x # r
      PROVE  /\ told'[x] = told[x]
             /\ Over(x) => Over(x)'
             /\ Final(x) => Final(x)'
  <2>1. told'[x] = told[x] /\ (x \in HookRequests => pending'[x] = pending[x])
    BY <1>6, <1>7 DEF TypeOK
  <2>2. Over(x) => Over(x)'
    BY <1>0, <1>6, <1>7, <2>1 DEF Over, HookPending
  <2>3. \A u \in Tools : reqOf[u] = x /\ x \in HookRequests => reqOf'[u] = x
    BY <1>5, <1>6 DEF TypeOK
  <2>4. Final(x) => Final(x)'
    BY <1>0, <1>6, <1>7, <2>3 DEF Final
  <2> QED BY <2>1, <2>2, <2>4
<1>8. told'[r] = "shown"
  BY <1>3, <1>6 DEF TypeOK
<1> QED BY <1>0, <1>4, <1>7, <1>8 DEF CardInv, NotReopened

LEMMA CardSdkAsks ==
    ASSUME TypeOK, CardInv, NEW c \in SdkCalls, SdkAsks(c)
    PROVE  CardInv' /\ NotReopened
<1> DEFINE r == SdkReq(c)
<1>1. r \in SdkRequests /\ r \in Requests /\ r.call = c /\ r \notin HookRequests
  BY RequestFacts DEF SdkReq
<1>2. told[r] # "answered"
  BY <1>1 DEF SdkAsks, CardInv, Final
<1>3. /\ sdk' = [sdk EXCEPT ![c] = "waiting"]
      /\ sdkPending' = sdkPending \cup {r}
      /\ deliveries' \subseteq deliveries \cup {r}
      /\ blocking' = blocking \cup {r}
      /\ told' = [told EXCEPT ![r] = "shown"]
      /\ UNCHANGED << pending, reqOf >>
  BY DEF SdkAsks, TrackedDelivery, hookVars
<1>4. \A x \in SdkRequests : sdk[x.call] # "none" => sdk'[x.call] # "none"
  BY <1>3, RequestFacts DEF TypeOK
<1>5. \A x \in sdkPending' : sdk'[x.call] # "none"
  BY <1>1, <1>3, <1>4 DEF CardInv, TypeOK
<1>6. ASSUME NEW x \in Requests, x # r
      PROVE  /\ told'[x] = told[x]
             /\ Over(x) => Over(x)'
             /\ Final(x) => Final(x)'
  <2>1. told'[x] = told[x]
    BY <1>3, <1>6 DEF TypeOK
  <2>2. Over(x) => Over(x)'
    BY <1>3, <1>6 DEF Over, HookPending
  <2>3. Final(x) => Final(x)'
    BY <1>3, <1>4, <1>6 DEF Final
  <2> QED BY <2>1, <2>2, <2>3
<1>7. told'[r] = "shown"
  BY <1>1, <1>3 DEF TypeOK
<1> QED BY <1>2, <1>5, <1>6, <1>7 DEF CardInv, NotReopened

\* permission_expired comes with the removal of the entry.
LEMMA CardExpire ==
    ASSUME TypeOK, CardInv, NEW r \in HookRequests, Expire(r),
           pending' = [pending EXCEPT ![r] = NoTool], UNCHANGED << reqOf, sdkVars >>
    PROVE  CardInv' /\ NotReopened
<1>1. r \in Requests /\ r \notin SdkRequests
  BY RequestFacts
<1>2. /\ \A x \in HookRequests : pending'[x] \in {NoTool, pending[x]}
      /\ UNCHANGED << sdk, sdkPending >>
      /\ blocking' \subseteq blocking /\ deliveries' \subseteq deliveries
  BY DEF TypeOK, Expire, Cleared, sdkVars
<1>3. ~HookPending(r)' /\ r \notin sdkPending' /\ r \notin blocking'
  BY <1>1, <1>2 DEF HookPending, Expire, TypeOK
<1>4. \A x \in Requests : told'[x] = told[x] \/ (x = r /\ told'[x] = "expired")
  BY DEF Expire, TypeOK
<1> QED BY <1>2, <1>3, <1>4, CardFrame DEF Over

LEMMA CardHook ==
    ASSUME TypeOK, IInv, CardInv, NEW t \in Tools, Hook(t)
    PROVE  CardInv' /\ NotReopened
<1> DEFINE r == reqOf[t]
<1> USE DEF hookVars, trackVars, peerVars, sdkVars
<1>1. CASE PreToolUse(t)
  BY <1>1, CardFrame DEF PreToolUse
<1>2. CASE PermissionRequest(t)
  BY <1>2, CardPermissionRequest
<1>3. CASE HoldTimeout(t)
  <2>1. r \in HookRequests /\ pending[r] = t
    BY <1>3, RequestFacts DEF HoldTimeout, IInv, ConnInv, HeldInv, TypeOK
  <2>2. HookPending(r)
    BY <2>1, RequestFacts DEF HookPending
  <2> QED BY <1>3, <2>1, <2>2, CardExpire DEF HoldTimeout
<1>4. CASE ConnectionClosed(t)
  <2>1. CASE HookPending(r)
    BY <1>4, <2>1, CardExpire DEF ConnectionClosed, HookPending
  <2>2. CASE ~HookPending(r)
    BY <1>4, <2>2, CardFrame DEF ConnectionClosed
  <2> QED BY <2>1, <2>2
<1>5. CASE PostToolUse(t)
  <2>1. \A x \in HookRequests : pending'[x] \in {NoTool, pending[x]}
    BY <1>5 DEF PostToolUse, ResolvePending, TypeOK
  <2>2. \A x \in Requests : told'[x] = told[x] \/ told'[x] = "dismissed"
    BY <1>5 DEF PostToolUse, TypeOK
  <2>3. UNCHANGED << reqOf, sdk, sdkPending, deliveries >> /\ blocking' \subseteq blocking
    BY <1>5 DEF PostToolUse
  <2> QED BY <2>1, <2>2, <2>3, CardFrame
<1> QED BY <1>1, <1>2, <1>3, <1>4, <1>5 DEF Hook

LEMMA CardSession ==
    ASSUME TypeOK, CardInv, NEW s \in Sessions, Session(s)
    PROVE  CardInv' /\ NotReopened
<1> USE DEF hookVars, trackVars, peerVars, sdkVars
<1>1. /\ UNCHANGED << reqOf, pending >>
      /\ blocking' \subseteq blocking /\ deliveries' \subseteq deliveries
      /\ sdkPending' \subseteq sdkPending
  BY DEF Session, Interrupt, InterruptReported, Stop, StopFailure, KillSession,
         StreamAborted, Cleanup, SessionEnded
<1>2. \A c \in SdkCalls : sdk[c] # "none" => sdk'[c] # "none"
  BY DEF Session, Interrupt, InterruptReported, Stop, StopFailure, KillSession,
         StreamAborted, Cleanup, SessionEnded
<1>3. \A r \in Requests : told'[r] = told[r] \/ told'[r] = "dismissed"
  BY DEF Session, Interrupt, InterruptReported, Stop, StopFailure, KillSession,
         StreamAborted, TypeOK
<1> QED BY <1>1, <1>2, <1>3, CardFrame

LEMMA CardPhone ==
    ASSUME TypeOK, IInv, CardInv, NEW r \in Requests, Phone(r)
    PROVE  CardInv' /\ NotReopened
<1> USE DEF hookVars, trackVars, peerVars, sdkVars
<1>1. CASE ResponseRejected(r) \/ ResponseTooLate(r) \/ NotificationAck(r)
  BY <1>1, CardFrame DEF ResponseRejected, ResponseTooLate, NotificationAck,
                         ResponseArrives, Cleared
<1>2. ASSUME ResponseArrives(r)
      PROVE  /\ blocking' = blocking \ {r}
             /\ deliveries' \subseteq deliveries /\ r \notin deliveries'
  <2>1. Kind(r) \in Kinds
    BY CallAssumption, RequestFacts DEF Kind, Calls, Requests
  <2>2. Kind(r) \in ResponseClears(r)
    BY <2>1 DEF ResponseClears, Kinds
  <2> QED BY <1>2, <2>2 DEF ResponseArrives, Cleared
<1>3. CASE ResponseToHook(r)
  <2>1. r \in HookRequests /\ r \notin SdkRequests /\ pending[r] \in Tools /\ reqOf[pending[r]] = r
    BY <1>3, RequestFacts DEF ResponseToHook, HookPending, IInv, ConnInv, PendInv, TypeOK
  <2>2. /\ \A x \in HookRequests : pending'[x] \in {NoTool, pending[x]}
        /\ pending'[r] = NoTool
    BY <1>3, <2>1 DEF ResponseToHook, ResolvePending, TypeOK
  <2>3. UNCHANGED << reqOf, sdk, sdkPending >> /\ r \notin sdkPending
    BY <1>3, <2>1 DEF ResponseToHook, TypeOK
  <2>4. \A x \in Requests : told'[x] = told[x] \/ (x = r /\ told'[x] = "answered")
    BY <1>3 DEF ResponseToHook, TypeOK
  <2>5. /\ blocking' = blocking \ {r}
        /\ deliveries' \subseteq deliveries /\ r \notin deliveries'
    BY <1>2, <1>3 DEF ResponseToHook
  <2>6. Over(r)'
    BY <2>2, <2>3, <2>5 DEF Over, HookPending
  <2> QED BY <2>1, <2>2, <2>3, <2>4, <2>5, <2>6, CardFrame
<1>4. CASE ResponseToSdk(r)
  <2>1. r \in SdkRequests /\ r \notin HookRequests /\ sdk[r.call] # "none"
    BY <1>4, RequestFacts DEF ResponseToSdk, CardInv, TypeOK
  <2>2. UNCHANGED << reqOf, pending >> /\ sdkPending' = sdkPending \ {r}
    BY <1>4 DEF ResponseToSdk
  <2>3. \A c \in SdkCalls : sdk[c] # "none" => sdk'[c] # "none"
    BY <1>4 DEF ResponseToSdk, Verdicts, TypeOK
  <2>4. \A x \in Requests : told'[x] = told[x] \/ (x = r /\ told'[x] = "answered")
    BY <1>4 DEF ResponseToSdk, TypeOK
  <2>5. /\ blocking' = blocking \ {r}
        /\ deliveries' \subseteq deliveries /\ r \notin deliveries'
    BY <1>2, <1>4 DEF ResponseToSdk
  <2>6. Over(r)'
    BY <2>1, <2>2, <2>5 DEF Over, HookPending
  <2> QED BY <2>1, <2>2, <2>3, <2>4, <2>5, <2>6, CardFrame
<1> QED BY <1>1, <1>3, <1>4 DEF Phone

LEMMA CardDaemon ==
    ASSUME TypeOK, CardInv,
           \/ PeerHello \/ PhoneOnline \/ PhoneOffline \/ RetryBlocking \/ RetryDeliveries
           \/ RestartHookServer \/ EmergencyAbort
    PROVE  CardInv' /\ NotReopened
<1> USE DEF hookVars, trackVars, peerVars, sdkVars
<1>1. CASE PeerHello \/ PhoneOffline
  BY <1>1, CardFrame DEF PeerHello, PhoneOffline
<1>2. CASE PhoneOnline \/ RetryBlocking
  <2>1. \A r \in Requests : told'[r] = told[r] \/ (told'[r] = "shown" /\ r \in blocking)
    BY <1>2 DEF PhoneOnline, RetryBlocking, TypeOK
  <2>2. \A r \in Requests : r \in blocking => told[r] # "answered"
    BY DEF CardInv, Over
  <2>3. UNCHANGED << reqOf, pending, sdk, sdkPending >> /\ blocking' \subseteq blocking
        /\ deliveries' \subseteq deliveries
    BY <1>2 DEF PhoneOnline, RetryBlocking
  <2> QED BY <2>1, <2>2, <2>3, CardFrame
<1>3. CASE RetryDeliveries
  <2>1. \A r \in Requests : told'[r] = told[r] \/ (told'[r] = "shown" /\ r \in deliveries)
    BY <1>3 DEF RetryDeliveries, TypeOK
  <2>2. \A r \in Requests : r \in deliveries => told[r] # "answered"
    BY DEF CardInv, Final
  <2>3. UNCHANGED << reqOf, pending, sdk, sdkPending, blocking >> /\ deliveries' \subseteq deliveries
    BY <1>3 DEF RetryDeliveries
  <2> QED BY <2>1, <2>2, <2>3, CardFrame
<1>4. CASE RestartHookServer
  BY <1>4, CardFrame DEF RestartHookServer
<1>5. CASE EmergencyAbort
  BY <1>5, CardFrame DEF EmergencyAbort, Cleanup
<1> QED BY <1>1, <1>2, <1>3, <1>4, <1>5

LEMMA CardStep == TypeOK /\ IInv /\ CardInv /\ [Next]_vars => CardInv' /\ NotReopened
<1> SUFFICES ASSUME TypeOK, IInv, CardInv, [Next]_vars PROVE CardInv' /\ NotReopened
  OBVIOUS
<1> USE DEF hookVars, trackVars, peerVars, sdkVars
<1>1. CASE UNCHANGED vars
  BY <1>1, CardFrame DEF vars
<1>2. ASSUME NEW t \in Tools, Claude(t) PROVE CardInv' /\ NotReopened
  BY <1>2, CardFrame DEF Claude, RunUnasked, TerminalAnswers, ClaudeReadsDecision, CallAbandoned
<1>3. ASSUME NEW c \in SdkCalls, SdkSignalAborts(c) PROVE CardInv' /\ NotReopened
  BY <1>3, CardFrame DEF SdkSignalAborts
<1>4. CASE Next
  BY <1>2, <1>3, <1>4, CardHook, CardSession, CardPhone, CardSdkAsks, CardDaemon DEF Next
<1> QED BY <1>1, <1>4

\* OverMeansOver: an answered or expired card blocks nothing and is not resent.
THEOREM OverCards == Spec => []OverMeansOver
<1>1. Init => TypeOK /\ IInv /\ CardInv
  BY TypeInit, InvInit, CardInit
<1>2. TypeOK /\ IInv /\ CardInv /\ [Next]_vars => TypeOK' /\ IInv' /\ CardInv'
  BY TypeStep, InvStep, CardStep
<1>3. CardInv => OverMeansOver
  BY DEF CardInv, Over, OverMeansOver
<1> QED BY <1>1, <1>2, <1>3, PTL DEF Spec

\* AnsweredStaysAnswered: neither the retry tick, nor a reconnect, nor the
\* forceWake fallback, nor a later prompt opens an answered card again.
THEOREM AnsweredCards == Spec => AnsweredStaysAnswered
<1>1. Init => TypeOK /\ IInv /\ CardInv
  BY TypeInit, InvInit, CardInit
<1>2. TypeOK /\ IInv /\ CardInv /\ [Next]_vars => TypeOK' /\ IInv' /\ CardInv'
  BY TypeStep, InvStep, CardStep
<1>3. TypeOK /\ IInv /\ CardInv /\ [Next]_vars => [NotReopened]_vars
  BY CardStep
<1> QED BY <1>1, <1>2, <1>3, PTL DEF Spec, AnsweredStaysAnswered, NotReopened

(***************************************************************************)
(* What a held hook keeps                                                  *)
(***************************************************************************)

\* What TrackingKept says of one step and one request, before the hook server
\* was replaced for the first time.
KeptTracked(r) ==
    (HookPending(r) /\ r \in blocking /\ HookPending(r)' /\ r \notin blocking')
    => \/ ResponseRejected(r)
       \/ Stop(SessionOfR(r)) \/ StopFailure(SessionOfR(r))
       \/ InterruptReported(SessionOfR(r)) \/ KillSession(SessionOfR(r))

\* What takes a request off the tracking and leaves its hook held is an answer
\* that was refused or the end of its session's turn.
LEMMA KeptStep ==
    ASSUME TypeOK, [Next]_vars, hookGen = 0, NEW r \in HookRequests
    PROVE  KeptTracked(r)
<1> SUFFICES ASSUME HookPending(r), r \in blocking, HookPending(r)', r \notin blocking'
             PROVE  \/ ResponseRejected(r)
                    \/ Stop(SessionOfR(r)) \/ StopFailure(SessionOfR(r))
                    \/ InterruptReported(SessionOfR(r)) \/ KillSession(SessionOfR(r))
  BY DEF KeptTracked
<1> DEFINE Allowed == \/ ResponseRejected(r)
                      \/ Stop(SessionOfR(r)) \/ StopFailure(SessionOfR(r))
                      \/ InterruptReported(SessionOfR(r)) \/ KillSession(SessionOfR(r))
<1> USE DEF hookVars, trackVars, peerVars, sdkVars
<1>1. pending'[r] # NoTool
  BY DEF HookPending
<1>2. r.call \in Tools /\ r \notin SdkRequests
  BY RequestFacts
<1>3. CASE UNCHANGED vars
  BY <1>3 DEF vars
<1>4. ASSUME NEW t \in Tools, Claude(t) PROVE FALSE
  BY <1>4 DEF Claude, RunUnasked, TerminalAnswers, ClaudeReadsDecision, CallAbandoned
<1>5. ASSUME NEW t \in Tools, Hook(t) PROVE FALSE
  <2>1. CASE PreToolUse(t)
    BY <2>1 DEF PreToolUse
  <2>2. CASE PermissionRequest(t)
    BY <2>2 DEF PermissionRequest
  <2>3. CASE HoldTimeout(t) \/ ConnectionClosed(t)
    <3>1. r = reqOf[t] /\ pending' = [pending EXCEPT ![r] = NoTool]
      BY <2>3 DEF HoldTimeout, ConnectionClosed, Expire
    <3> QED BY <1>1, <3>1 DEF TypeOK
  <2>4. CASE PostToolUse(t)
    <3>1. r = ToolReq(t) /\ pending' = [pending EXCEPT ![r] = NoTool]
      BY <2>4 DEF PostToolUse, ResolvePending
    <3> QED BY <1>1, <3>1 DEF TypeOK
  <2> QED BY <1>5, <2>1, <2>2, <2>3, <2>4 DEF Hook
<1>6. ASSUME NEW s \in Sessions, Session(s) PROVE Allowed
  <2>1. CASE Interrupt(s)
    BY <2>1 DEF Interrupt
  <2>2. CASE InterruptReported(s) \/ Stop(s) \/ StopFailure(s) \/ KillSession(s)
    <3>1. r \in RequestsOf(s)
      BY <2>2 DEF InterruptReported, Stop, StopFailure, KillSession, SessionEnded
    <3> QED BY <2>2, <3>1 DEF RequestsOf
  <2>3. CASE StreamAborted(s)
    <3>1. s \in Controlled /\ SessionOfR(r) = s
      BY <2>3 DEF StreamAborted, SessionEnded, RequestsOf
    <3> QED BY <1>2, <3>1, CallAssumption DEF SessionOfR
  <2> QED BY <1>6, <2>1, <2>2, <2>3 DEF Session
<1>7. ASSUME NEW x \in Requests, Phone(x) PROVE Allowed
  <2>1. CASE ResponseRejected(x)
    BY <2>1 DEF ResponseRejected, ResponseArrives
  <2>2. CASE ResponseToHook(x)
    <3>1. r = x /\ pending' = [pending EXCEPT ![r] = NoTool]
      BY <2>2 DEF ResponseToHook, ResponseArrives, ResolvePending
    <3> QED BY <1>1, <3>1 DEF TypeOK
  <2>3. CASE ResponseToSdk(x) \/ ResponseTooLate(x)
    BY <2>3 DEF ResponseToSdk, ResponseTooLate, ResponseArrives
  <2>4. CASE NotificationAck(x)
    BY <2>4 DEF NotificationAck
  <2> QED BY <1>7, <2>1, <2>2, <2>3, <2>4 DEF Phone
<1>8. ASSUME NEW c \in SdkCalls, SdkAsks(c) \/ SdkSignalAborts(c) PROVE FALSE
  BY <1>8 DEF SdkAsks, SdkSignalAborts
<1>9. CASE PhoneOnline \/ RetryBlocking
  BY <1>9 DEF PhoneOnline, RetryBlocking, StillPending
<1>10. CASE PeerHello \/ PhoneOffline \/ RetryDeliveries \/ RestartHookServer \/ EmergencyAbort
  BY <1>10 DEF PeerHello, PhoneOffline, RetryDeliveries, RestartHookServer, EmergencyAbort
<1> QED BY <1>3, <1>4, <1>5, <1>6, <1>7, <1>8, <1>9, <1>10 DEF Next

\* Until the hook server is replaced, no tick, reconnect, ack, timer or other
\* request's end loses a request that a held hook waits with.
THEOREM HeldIsTracked == Spec => [][hookGen = 0 => \A r \in HookRequests : KeptTracked(r)]_vars
<1>1. TypeOK /\ [Next]_vars => [hookGen = 0 => \A r \in HookRequests : KeptTracked(r)]_vars
  BY KeptStep
<1> QED BY <1>1, TypeCorrect, PTL DEF Spec

\* TrackingKept: that is all there is to say of a hook server that is not
\* replaced.
THEOREM TrackingIsKept ==
    ASSUME MaxRestarts = 0
    PROVE  Spec => TrackingKept
<1>1. TypeOK => hookGen = 0
  BY DEF TypeOK
<1>2. TypeOK /\ [Next]_vars => [\A r \in HookRequests : KeptTracked(r)]_vars
  BY <1>1, KeptStep
<1> QED BY <1>2, TypeCorrect, PTL DEF Spec, TrackingKept, KeptTracked

\* What OwnPostToolUse says of one step and one call.
EndsItsOwn(t) ==
    (http[t] = "held" /\ \E u \in Tools : PostToolUse(u))
    => (http'[t] = "held" \/ PostToolUse(t))

\* A prompt that was correlated by the id it carries is dismissed by the end of
\* its own call alone.
LEMMA EndsItsOwnStep ==
    ASSUME TypeOK, IInv, NEW t \in Tools, SessionOf[t] \in ModernSessions
    PROVE  EndsItsOwn(t)
<1> SUFFICES ASSUME http[t] = "held", NEW u \in Tools, PostToolUse(u), u # t
             PROVE  http'[t] = "held"
  BY DEF EndsItsOwn
<1>1. reqOf[t] = ToolReq(t)
  BY DEF IInv, ConnInv, HeldInv, IdInv
<1>2. ToolReq(u) \in HookRequests /\ ToolReq(u) # ToolReq(t)
  BY RequestFacts DEF ToolReq
<1>3. pending[ToolReq(u)] # t
  <2>1. t # NoTool
    BY RequestFacts
  <2> QED BY <1>1, <1>2, <2>1 DEF IInv, ConnInv, PendInv
<1>4. CASE http' = http
  BY <1>4
<1>5. CASE ResolvePending(ToolReq(u), "empty")
  BY <1>3, <1>5 DEF ResolvePending, TypeOK
<1> QED BY <1>4, <1>5 DEF PostToolUse

\* In a session whose PermissionRequest hooks carry their tool_use_id, the end
\* of one call never takes the prompt of another off the phone.
THEOREM OwnEnds ==
    Spec => [][\A t \in Tools : SessionOf[t] \in ModernSessions => EndsItsOwn(t)]_vars
<1>1. Init => TypeOK /\ IInv
  BY TypeInit, InvInit
<1>2. TypeOK /\ IInv /\ [Next]_vars => TypeOK' /\ IInv'
  BY TypeStep, InvStep
<1>3. TypeOK /\ IInv => [\A t \in Tools : SessionOf[t] \in ModernSessions => EndsItsOwn(t)]_vars
  BY EndsItsOwnStep
<1> QED BY <1>1, <1>2, <1>3, PTL DEF Spec

\* OwnPostToolUse, where every session is such a one.
THEOREM OwnEndsOnly ==
    ASSUME \A t \in Tools : SessionOf[t] \in ModernSessions
    PROVE  Spec => OwnPostToolUse
<1>1. Init => TypeOK /\ IInv
  BY TypeInit, InvInit
<1>2. TypeOK /\ IInv /\ [Next]_vars => TypeOK' /\ IInv'
  BY TypeStep, InvStep
<1>3. TypeOK /\ IInv => [\A t \in Tools : EndsItsOwn(t)]_vars
  BY EndsItsOwnStep
<1> QED BY <1>1, <1>2, <1>3, PTL DEF Spec, OwnPostToolUse, EndsItsOwn
-----------------------------------------------------------------------------
(***************************************************************************)
(* The entry the correlator takes                                          *)
(***************************************************************************)

\* Facts of sequences that need no fold.
AnyStep(p, v, e) == v
Facts == INSTANCE SequenceFacts WITH Op <- AnyStep

\* shift() takes exactly one entry of a queue that has one, of an equal input
\* if there is any, and remove() exactly one of the id if it is there: with two
\* prompts of the same tool, each is given one id and leaves the other its own.
THEOREM OneEntryIsTaken ==
    ASSUME NEW q \in Seq(Tools), NEW t \in Tools
    PROVE  /\ q # << >> =>
                \E i \in DOMAIN q :
                    /\ ShiftIndex(q, t) = {i}
                    /\ \A j \in DOMAIN q : InputOf[q[j]] = InputOf[t] =>
                                               InputOf[q[i]] = InputOf[t] /\ i <= j
           /\ q = << >> => ShiftIndex(q, t) = {}
           /\ (\E i \in DOMAIN q : q[i] = t) =>
                \E i \in DOMAIN q : RemoveIndex(q, t) = {i} /\ q[i] = t
           /\ (\A i \in DOMAIN q : q[i] # t) => RemoveIndex(q, t) = {}
<1> DEFINE n == Len(q)
           equal == { i \in DOMAIN q : InputOf[q[i]] = InputOf[t] }
           own == { i \in DOMAIN q : q[i] = t }
<1>1. n \in Nat /\ DOMAIN q = 1 .. n
  OBVIOUS
<1>2. q # << >> => n # 0
  OBVIOUS
<1>3. /\ equal \in SUBSET (1 .. n) /\ own \in SUBSET (1 .. n)
      /\ \A j \in DOMAIN q : InputOf[q[j]] = InputOf[t] <=> j \in equal
      /\ \A j \in DOMAIN q : q[j] = t <=> j \in own
  BY <1>1
<1>4. /\ ShiftIndex(q, t) = { i \in DOMAIN q : IF equal = {} THEN i = 1
                                              ELSE i \in equal /\ \A j \in equal : i <= j }
      /\ RemoveIndex(q, t) = { i \in own : \A j \in own : i <= j }
  BY DEF ShiftIndex, RemoveIndex
<1> HIDE DEF n, equal, own
<1>5. ASSUME NEW s \in SUBSET (1 .. n), s # {}
      PROVE  \E i \in s : { k \in s : \A j \in s : k <= j } = {i} /\ \A j \in s : i <= j
  <2>1. PICK i \in s : \A j \in s : i <= j
    BY <1>1, <1>5, Facts!LeastOf
  <2>2. \A k \in s : (\A j \in s : k <= j) => k = i
    BY <1>1, <2>1
  <2> QED BY <2>1, <2>2
<1>6. ASSUME q # << >>
      PROVE  \E i \in DOMAIN q :
                 /\ ShiftIndex(q, t) = {i}
                 /\ \A j \in DOMAIN q : InputOf[q[j]] = InputOf[t] =>
                                            InputOf[q[i]] = InputOf[t] /\ i <= j
  <2>1. CASE equal = {}
    <3>1. 1 \in DOMAIN q /\ ShiftIndex(q, t) = {1}
      BY <1>1, <1>2, <1>4, <1>6, <2>1
    <3> QED BY <1>3, <2>1, <3>1
  <2>2. CASE equal # {}
    <3>1. PICK i \in equal : /\ { k \in equal : \A j \in equal : k <= j } = {i}
                             /\ \A j \in equal : i <= j
      BY <1>3, <1>5, <2>2
    <3>2. ShiftIndex(q, t) = {i}
      BY <1>1, <1>3, <1>4, <2>2, <3>1
    <3> QED BY <1>1, <1>3, <3>1, <3>2
  <2> QED BY <2>1, <2>2
<1>7. q = << >> => ShiftIndex(q, t) = {}
  BY <1>4
<1>8. ASSUME NEW i \in DOMAIN q, q[i] = t
      PROVE  \E k \in DOMAIN q : RemoveIndex(q, t) = {k} /\ q[k] = t
  <2>1. own # {}
    BY <1>3, <1>8
  <2>2. PICK k \in own : { x \in own : \A j \in own : x <= j } = {k}
    BY <1>3, <1>5, <2>1
  <2> QED BY <1>1, <1>3, <1>4, <2>2
<1>9. (\A i \in DOMAIN q : q[i] # t) => RemoveIndex(q, t) = {}
  BY <1>1, <1>3, <1>4
<1> QED BY <1>6, <1>7, <1>8, <1>9
=============================================================================
