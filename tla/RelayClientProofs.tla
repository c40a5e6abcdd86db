-------------------------- MODULE RelayClientProofs --------------------------
(***************************************************************************)
(* RelayClient, for every value of its constants: the type invariant, that *)
(* the client never gets stuck, the order and the loss of envelopes, and   *)
(* that the client implements LossyChannel.                                *)
(***************************************************************************)
EXTENDS RelayClient, TLAPS

USE DEF socketVars, sendVars, netVars, peerVars

-----------------------------------------------------------------------------
(***************************************************************************)
(* Types                                                                   *)
(***************************************************************************)

\* The next delay is never below the first one, nor above the greatest.
LEMMA DelayGrows ==
  ASSUME NEW d \in BaseDelay .. MaxDelay
  PROVE  AtMost(d * Multiplier, MaxDelay) \in BaseDelay .. MaxDelay
<1>1. \A a \in Nat, b \in Nat \ {0} : a * b \in Nat /\ a * b >= a
  BY SMT
<1>2. d \in Nat /\ MaxDelay \in Nat /\ BaseDelay \in Nat /\ BaseDelay <= d /\ BaseDelay <= MaxDelay
  BY RelayAssumption
<1>3. d * Multiplier \in Nat /\ d * Multiplier >= d
  BY <1>1, <1>2, RelayAssumption
<1> QED
  BY <1>2, <1>3 DEF AtMost

\* Taking the head of a sequence leaves a sequence of the same things.
LEMMA TailOfSeq ==
  ASSUME NEW S, NEW s \in Seq(S), s # << >>
  PROVE  Tail(s) \in Seq(S) /\ Head(s) \in S /\ Len(Tail(s)) = Len(s) - 1
OBVIOUS

LEMMA SmallCounts == \A n \in 0 .. 4 : AtMost(n + 1, 4) \in 0 .. 4
BY DEF AtMost

LEMMA EnqueueKeepsType ==
  ASSUME offlineQueue \in Seq(Envelopes), Len(offlineQueue) <= OfflineCap,
         NEW e \in Envelopes, EnqueueOffline(e)
  PROVE  offlineQueue' \in Seq(Envelopes) /\ Len(offlineQueue') <= OfflineCap
<1> USE RelayAssumption
<1>1. CASE Len(offlineQueue) >= OfflineCap
  <2>1. offlineQueue # << >> /\ Len(offlineQueue) = OfflineCap
    BY <1>1
  <2>2. Tail(offlineQueue) \in Seq(Envelopes) /\ Len(Tail(offlineQueue)) = OfflineCap - 1
    BY <2>1, TailOfSeq
  <2> QED
    BY <1>1, <2>2 DEF EnqueueOffline
<1>2. CASE ~(Len(offlineQueue) >= OfflineCap)
  BY <1>2 DEF EnqueueOffline
<1> QED
  BY <1>1, <1>2

\* The socket and the timers.
SocketType ==
    /\ ws \in {"none", "connecting", "open", "closing"}
    /\ isConnected \in BOOLEAN /\ isShuttingDown \in BOOLEAN
    /\ reconnectTimer \in BOOLEAN /\ pingTimer \in BOOLEAN /\ awaitingPong \in BOOLEAN
    /\ phonePeerOnline \in BOOLEAN /\ phone \in BOOLEAN
    /\ reconnectDelay \in BaseDelay .. MaxDelay
    /\ decryptFailures \in 0 .. 4
    /\ link \in {"up", "dead"}
    /\ status \in Seq(BOOLEAN)
    /\ faults \in 0 .. MaxFaults /\ toggles \in 0 .. MaxToggles

\* The envelopes.
EnvelopeType ==
    /\ offlineQueue \in Seq(Envelopes) /\ Len(offlineQueue) <= OfflineCap
    /\ nonce \in 0 .. MaxSends
    /\ wire \in Seq(Envelopes) /\ received \in Seq(Envelopes)
    /\ lostOnLink \subseteq Envelopes /\ requeued \subseteq Envelopes

\* Whatever it was, the timer is on after a close that was not asked for.
LEMMA TimerAfterClose ==
  ASSUME reconnectTimer \in BOOLEAN, isShuttingDown \in BOOLEAN, ScheduleReconnect
  PROVE  /\ reconnectTimer' \in BOOLEAN
         /\ reconnectTimer' <=> (reconnectTimer \/ ~isShuttingDown)
BY Zenon DEF ScheduleReconnect

LEMMA AppendOfSeq ==
  ASSUME NEW S, NEW s \in Seq(S), NEW b \in S
  PROVE  Append(s, b) \in Seq(S)
OBVIOUS

LEMMA SocketTypeStep == SocketType /\ [Next]_vars => SocketType'
<1>1. SocketType /\ LinkDies => SocketType'
  BY RelayAssumption DEF LinkDies, WireLost, SocketType
<1>2. SocketType /\ SocketBreaks => SocketType'
  BY RelayAssumption DEF SocketBreaks, WireLost, SocketType
<1>3. SocketType /\ EnvelopeReceived => SocketType'
  BY RelayAssumption DEF EnvelopeReceived, SocketType
<1>4. SocketType /\ PhoneToggles => SocketType'
  <2> SUFFICES ASSUME SocketType, PhoneToggles PROVE SocketType'
    OBVIOUS
  <2>1. phone' \in BOOLEAN
    BY Zenon DEF SocketType, PhoneToggles
  <2>2. (~phone) \in BOOLEAN /\ status \in Seq(BOOLEAN)
    BY DEF SocketType
  <2>3. Append(status, ~phone) \in Seq(BOOLEAN)
    BY <2>2, AppendOfSeq
  <2>4. status' \in Seq(BOOLEAN)
    BY Zenon, <2>2, <2>3 DEF PhoneToggles
  <2> QED
    BY <2>1, <2>4, RelayAssumption DEF PhoneToggles, SocketType
<1>5. SocketType /\ ConnectFails => SocketType'
  <2> SUFFICES ASSUME SocketType, ConnectFails PROVE SocketType'
    OBVIOUS
  <2>1. reconnectTimer \in BOOLEAN /\ isShuttingDown \in BOOLEAN /\ ScheduleReconnect
    BY DEF SocketType, ConnectFails, SocketClosed
  <2>2. reconnectTimer' \in BOOLEAN
    BY <2>1, TimerAfterClose
  <2>3. faults' \in 0 .. MaxFaults /\ decryptFailures' \in 0 .. 4
    BY RelayAssumption DEF ConnectFails, SocketClosed, SocketType
  <2>4. isConnected' \in BOOLEAN /\ pingTimer' \in BOOLEAN /\ awaitingPong' \in BOOLEAN
    BY DEF ConnectFails, SocketClosed
  <2> QED
    BY <2>2, <2>3, <2>4 DEF ConnectFails, SocketClosed, SocketType
<1>6. SocketType /\ Send => SocketType'
  BY RelayAssumption DEF Send, SocketType
<1>7. SocketType /\ SendThrows => SocketType'
  BY RelayAssumption DEF SendThrows, SocketType
<1>8. SocketType /\ Opened => SocketType'
  <2> SUFFICES ASSUME SocketType, Opened PROVE SocketType'
    OBVIOUS
  <2>1. Append(status, phone) \in Seq(BOOLEAN)
    BY AppendOfSeq DEF SocketType
  <2>2. status' \in Seq(BOOLEAN)
    BY <2>1 DEF Opened, PeerStatusQuery
  <2>3. reconnectDelay' \in BaseDelay .. MaxDelay
    BY RelayAssumption DEF Opened
  <2>4. decryptFailures' \in 0 .. 4
    BY DEF Opened
  <2>5. isConnected' \in BOOLEAN /\ pingTimer' \in BOOLEAN /\ awaitingPong' \in BOOLEAN
    BY DEF Opened
  <2> QED
    BY <2>2, <2>3, <2>4, <2>5 DEF Opened, SocketType
<1>9. SocketType /\ Closed => SocketType'
  <2> SUFFICES ASSUME SocketType, Closed PROVE SocketType'
    OBVIOUS
  <2>1. reconnectTimer \in BOOLEAN /\ isShuttingDown \in BOOLEAN /\ ScheduleReconnect
    BY DEF SocketType, Closed, SocketClosed
  <2>2. reconnectTimer' \in BOOLEAN
    BY <2>1, TimerAfterClose
  <2>3. decryptFailures' \in 0 .. 4
    BY RelayAssumption DEF Closed, SocketClosed, SocketType
  <2>4. isConnected' \in BOOLEAN /\ pingTimer' \in BOOLEAN /\ awaitingPong' \in BOOLEAN
    BY DEF Closed, SocketClosed
  <2> QED
    BY <2>2, <2>3, <2>4 DEF Closed, SocketClosed, SocketType
<1>10. SocketType /\ ReconnectFires => SocketType'
  <2> SUFFICES ASSUME SocketType, ReconnectFires PROVE SocketType'
    OBVIOUS
  <2>1. reconnectDelay' \in BaseDelay .. MaxDelay
    BY DelayGrows DEF ReconnectFires, SocketType
  <2> QED
    BY <2>1 DEF ReconnectFires, SocketType
<1>11. SocketType /\ PingTick => SocketType'
  <2> SUFFICES ASSUME SocketType, PingTick PROVE SocketType'
    OBVIOUS
  <2>1. CASE awaitingPong
    <3>1. faults' \in 0 .. MaxFaults
      BY <2>1, RelayAssumption DEF SocketType, PingTick
    <3> QED
      BY <2>1, <3>1 DEF SocketType, PingTick, WireLost
  <2>2. CASE ~awaitingPong
    BY <2>2 DEF SocketType, PingTick
  <2> QED
    BY <2>1, <2>2
<1>12. SocketType /\ Pong => SocketType'
  BY RelayAssumption DEF Pong, SocketType
<1>13. SocketType /\ PeerStatus => SocketType'
  <2> SUFFICES ASSUME SocketType, PeerStatus PROVE SocketType'
    OBVIOUS
  <2>1. status' \in Seq(BOOLEAN) /\ phonePeerOnline' \in BOOLEAN
    BY TailOfSeq DEF PeerStatus, SocketType
  <2> QED
    BY <2>1 DEF PeerStatus, SocketType
<1>14. SocketType /\ MessageArrives => SocketType'
  <2> SUFFICES ASSUME SocketType, MessageArrives PROVE SocketType'
    OBVIOUS
  <2>1. decryptFailures' \in 0 .. 4
    BY SmallCounts DEF MessageArrives, SocketType
  <2> QED
    BY <2>1 DEF MessageArrives, SocketType
<1>15. SocketType /\ Disconnect => SocketType'
  BY RelayAssumption DEF Disconnect, SocketType
<1>16. SocketType /\ UNCHANGED vars => SocketType'
  BY DEF vars, SocketType
<1> QED
  BY <1>1, <1>2, <1>3, <1>4, <1>5, <1>6, <1>7, <1>8, <1>9, <1>10, <1>11,
     <1>12, <1>13, <1>14, <1>15, <1>16 DEF Next, Network, Client

LEMMA ElementsOfSeq == ASSUME NEW S, NEW s \in Seq(S) PROVE Elements(s) \subseteq S
BY DEF Elements

LEMMA EnvelopeTypeStep == EnvelopeType /\ [Next]_vars => EnvelopeType'
<1>1. EnvelopeType /\ LinkDies => EnvelopeType'
  BY ElementsOfSeq DEF LinkDies, WireLost, EnvelopeType
<1>2. EnvelopeType /\ SocketBreaks => EnvelopeType'
  BY ElementsOfSeq DEF SocketBreaks, WireLost, EnvelopeType
<1>3. EnvelopeType /\ EnvelopeReceived => EnvelopeType'
  BY TailOfSeq DEF EnvelopeReceived, EnvelopeType
<1>4. EnvelopeType /\ PhoneToggles => EnvelopeType'
  BY DEF PhoneToggles, EnvelopeType
<1>5. EnvelopeType /\ ConnectFails => EnvelopeType'
  BY DEF ConnectFails, EnvelopeType
<1>6. EnvelopeType /\ Send => EnvelopeType'
  <2> SUFFICES ASSUME EnvelopeType, Send PROVE EnvelopeType'
    OBVIOUS
  <2>1. nonce \in Envelopes /\ nonce' \in 0 .. MaxSends
    BY RelayAssumption DEF Send, EnvelopeType, Envelopes
  <2>2. CASE isConnected /\ ws = "open"
    <3>1. CASE link = "up"
      <4>1. wire' \in Seq(Envelopes)
        BY <2>1, <2>2, <3>1, AppendOfSeq DEF Send, EnvelopeType
      <4> QED
        BY <2>1, <2>2, <3>1, <4>1 DEF Send, EnvelopeType
    <3>2. CASE link # "up"
      BY <2>1, <2>2, <3>2 DEF Send, EnvelopeType
    <3> QED
      BY <3>1, <3>2
  <2>3. CASE ~(isConnected /\ ws = "open")
    <3>1. offlineQueue' \in Seq(Envelopes) /\ Len(offlineQueue') <= OfflineCap
      BY <2>1, <2>3, EnqueueKeepsType DEF Send, EnvelopeType
    <3> QED
      BY <2>1, <2>3, <3>1 DEF Send, EnvelopeType
  <2> QED
    BY <2>2, <2>3
<1>7. EnvelopeType /\ SendThrows => EnvelopeType'
  <2> SUFFICES ASSUME EnvelopeType, SendThrows PROVE EnvelopeType'
    OBVIOUS
  <2>1. nonce \in Envelopes /\ nonce' \in 0 .. MaxSends
    BY RelayAssumption DEF SendThrows, EnvelopeType, Envelopes
  <2>2. offlineQueue' \in Seq(Envelopes) /\ Len(offlineQueue') <= OfflineCap
    BY <2>1, EnqueueKeepsType DEF SendThrows, EnvelopeType
  <2> QED
    BY <2>1, <2>2 DEF SendThrows, EnvelopeType
<1>8. EnvelopeType /\ Opened => EnvelopeType'
  BY RelayAssumption DEF Opened, FlushOfflineQueue, EnvelopeType
<1>9. EnvelopeType /\ Closed => EnvelopeType'
  BY DEF Closed, EnvelopeType
<1>10. EnvelopeType /\ ReconnectFires => EnvelopeType'
  BY DEF ReconnectFires, EnvelopeType
<1>11. EnvelopeType /\ PingTick => EnvelopeType'
  <2> SUFFICES ASSUME EnvelopeType, PingTick PROVE EnvelopeType'
    OBVIOUS
  <2>1. CASE awaitingPong
    BY <2>1, ElementsOfSeq DEF PingTick, WireLost, EnvelopeType
  <2>2. CASE ~awaitingPong
    BY <2>2 DEF PingTick, EnvelopeType
  <2> QED
    BY <2>1, <2>2
<1>12. EnvelopeType /\ Pong => EnvelopeType'
  BY DEF Pong, EnvelopeType
<1>13. EnvelopeType /\ PeerStatus => EnvelopeType'
  BY DEF PeerStatus, EnvelopeType
<1>14. EnvelopeType /\ MessageArrives => EnvelopeType'
  BY DEF MessageArrives, EnvelopeType
<1>15. EnvelopeType /\ Disconnect => EnvelopeType'
  BY DEF Disconnect, EnvelopeType
<1>16. EnvelopeType /\ UNCHANGED vars => EnvelopeType'
  BY DEF vars, EnvelopeType
<1> QED
  BY <1>1, <1>2, <1>3, <1>4, <1>5, <1>6, <1>7, <1>8, <1>9, <1>10, <1>11,
     <1>12, <1>13, <1>14, <1>15, <1>16 DEF Next, Network, Client

LEMMA InitSocketType == Init => SocketType
<1> SUFFICES ASSUME Init PROVE SocketType
  OBVIOUS
<1>1. /\ isConnected \in BOOLEAN /\ isShuttingDown \in BOOLEAN /\ reconnectTimer \in BOOLEAN
      /\ pingTimer \in BOOLEAN /\ awaitingPong \in BOOLEAN
      /\ phonePeerOnline \in BOOLEAN /\ phone \in BOOLEAN
  BY DEF Init
<1>2. /\ reconnectDelay \in BaseDelay .. MaxDelay /\ decryptFailures \in 0 .. 4
      /\ faults \in 0 .. MaxFaults /\ toggles \in 0 .. MaxToggles
  BY RelayAssumption DEF Init
<1>3. /\ ws \in {"none", "connecting", "open", "closing"}
      /\ link \in {"up", "dead"} /\ status \in Seq(BOOLEAN)
  BY DEF Init
<1> QED
  BY <1>1, <1>2, <1>3 DEF SocketType

LEMMA InitEnvelopeType == Init => EnvelopeType
BY RelayAssumption DEF Init, EnvelopeType

\* Every variable keeps its type, the queue its bound and the delay its range.
THEOREM TypeAlways == Spec => []RelayTypeOK
<1>1. SocketType /\ EnvelopeType => RelayTypeOK
  BY DEF SocketType, EnvelopeType, RelayTypeOK
<1> QED
  BY <1>1, InitSocketType, InitEnvelopeType, SocketTypeStep, EnvelopeTypeStep,
     PTL DEF Spec

-----------------------------------------------------------------------------
(***************************************************************************)
(* The client never gets stuck                                             *)
(***************************************************************************)

\* CanRecover is inductive: every handler that gives up the socket sets the
\* timer, and every one that takes the timer opens a socket.
LEMMA RecoveryStep == SocketType /\ CanRecover /\ [Next]_vars => CanRecover'
<1>1. SocketType /\ CanRecover /\ LinkDies => CanRecover'
  BY DEF LinkDies, WireLost, SocketType, CanRecover
<1>2. SocketType /\ CanRecover /\ SocketBreaks => CanRecover'
  BY DEF SocketBreaks, WireLost, SocketType, CanRecover
<1>3. SocketType /\ CanRecover /\ EnvelopeReceived => CanRecover'
  BY DEF EnvelopeReceived, SocketType, CanRecover
<1>4. SocketType /\ CanRecover /\ PhoneToggles => CanRecover'
  BY DEF PhoneToggles, SocketType, CanRecover
<1>5. SocketType /\ CanRecover /\ ConnectFails => CanRecover'
  <2> SUFFICES ASSUME SocketType, CanRecover, ConnectFails PROVE CanRecover'
    OBVIOUS
  <2>1. reconnectTimer \in BOOLEAN /\ isShuttingDown \in BOOLEAN /\ ScheduleReconnect
    BY DEF SocketType, ConnectFails, SocketClosed
  <2>2. reconnectTimer' <=> (reconnectTimer \/ ~isShuttingDown)
    BY <2>1, TimerAfterClose
  <2> QED
    BY <2>2 DEF ConnectFails, SocketClosed, CanRecover
<1>6. SocketType /\ CanRecover /\ Send => CanRecover'
  BY DEF Send, SocketType, CanRecover
<1>7. SocketType /\ CanRecover /\ SendThrows => CanRecover'
  BY DEF SendThrows, SocketType, CanRecover
<1>8. SocketType /\ CanRecover /\ Opened => CanRecover'
  BY DEF Opened, SocketType, CanRecover
<1>9. SocketType /\ CanRecover /\ Closed => CanRecover'
  <2> SUFFICES ASSUME SocketType, CanRecover, Closed PROVE CanRecover'
    OBVIOUS
  <2>1. reconnectTimer \in BOOLEAN /\ isShuttingDown \in BOOLEAN /\ ScheduleReconnect
    BY DEF SocketType, Closed, SocketClosed
  <2>2. reconnectTimer' <=> (reconnectTimer \/ ~isShuttingDown)
    BY <2>1, TimerAfterClose
  <2> QED
    BY <2>2 DEF Closed, SocketClosed, CanRecover
<1>10. SocketType /\ CanRecover /\ ReconnectFires => CanRecover'
  BY DEF ReconnectFires, SocketType, CanRecover
<1>11. SocketType /\ CanRecover /\ PingTick => CanRecover'
  BY DEF PingTick, SocketType, CanRecover
<1>12. SocketType /\ CanRecover /\ Pong => CanRecover'
  BY DEF Pong, SocketType, CanRecover
<1>13. SocketType /\ CanRecover /\ PeerStatus => CanRecover'
  BY DEF PeerStatus, SocketType, CanRecover
<1>14. SocketType /\ CanRecover /\ MessageArrives => CanRecover'
  BY DEF MessageArrives, SocketType, CanRecover
<1>15. SocketType /\ CanRecover /\ Disconnect => CanRecover'
  BY DEF Disconnect, SocketType, CanRecover
<1>16. CanRecover /\ UNCHANGED vars => CanRecover'
  BY DEF vars, CanRecover
<1> QED
  BY <1>1, <1>2, <1>3, <1>4, <1>5, <1>6, <1>7, <1>8, <1>9, <1>10, <1>11,
     <1>12, <1>13, <1>14, <1>15, <1>16 DEF Next, Network, Client

\* The client never ends with no socket and no timer, nor with a timer beside
\* a socket, however connects, closes, pongs and shutdown interleave.
THEOREM RecoveryAlways == Spec => []CanRecover
<1>1. Init => CanRecover
  BY DEF Init, CanRecover
<1> QED
  BY <1>1, InitSocketType, SocketTypeStep, RecoveryStep, PTL DEF Spec

-----------------------------------------------------------------------------
(***************************************************************************)
(* Sequences of numbers that are ordered but for some exceptions           *)
(***************************************************************************)

\* May b follow a?  An exception may follow anything but itself.
May(R, a, b) == a < b \/ (b \in R /\ a # b)
Ordered(R, s) == \A i, j \in DOMAIN s : i < j => May(R, s[i], s[j])
Before(R, s, t) == \A i \in DOMAIN s, j \in DOMAIN t : May(R, s[i], t[j])
Below(s, n) == \A i \in DOMAIN s : s[i] < n

LEMMA OrderedAppend ==
  ASSUME NEW R, NEW s \in Seq(Nat), NEW n \in Nat, Ordered(R, s),
         \A i \in DOMAIN s : May(R, s[i], n)
  PROVE  Ordered(R, Append(s, n))
<1> DEFINE t == Append(s, n)
<1>1. /\ Len(s) \in Nat /\ DOMAIN s = 1 .. Len(s) /\ DOMAIN t = 1 .. Len(s) + 1
      /\ t[Len(s) + 1] = n /\ \A i \in DOMAIN s : t[i] = s[i]
  OBVIOUS
<1> HIDE DEF t
<1>2. ASSUME NEW i \in DOMAIN t, NEW j \in DOMAIN t, i < j
      PROVE  May(R, t[i], t[j])
  <2>1. i \in DOMAIN s /\ t[i] = s[i]
    BY <1>1, <1>2
  <2>2. CASE j = Len(s) + 1
    BY <1>1, <2>1, <2>2
  <2>3. CASE j # Len(s) + 1
    <3>1. j \in DOMAIN s /\ t[j] = s[j]
      BY <1>1, <2>3
    <3> QED BY <1>2, <2>1, <3>1 DEF Ordered
  <2> QED BY <2>2, <2>3
<1> QED BY <1>2 DEF Ordered, t

LEMMA BeforeAppend ==
  ASSUME NEW R, NEW s \in Seq(Nat), NEW t \in Seq(Nat), NEW n \in Nat,
         Before(R, s, t), \A i \in DOMAIN s : May(R, s[i], n)
  PROVE  Before(R, s, Append(t, n))
BY DEF Before

LEMMA NewerMay ==
  ASSUME NEW R, NEW s, NEW n, Below(s, n)
  PROVE  \A i \in DOMAIN s : May(R, s[i], n)
BY DEF Below, May

LEMMA AppendBefore ==
  ASSUME NEW R, NEW s \in Seq(Nat), NEW t \in Seq(Nat), NEW n \in Nat,
         Before(R, s, t), \A j \in DOMAIN t : May(R, n, t[j])
  PROVE  Before(R, Append(s, n), t)
BY DEF Before

LEMMA TailOf ==
  ASSUME NEW s \in Seq(Nat), s # << >>
  PROVE  /\ Tail(s) \in Seq(Nat) /\ Len(Tail(s)) = Len(s) - 1
         /\ 1 \in DOMAIN s /\ Head(s) = s[1] /\ Head(s) \in Nat
         /\ \A i \in DOMAIN Tail(s) : i + 1 \in DOMAIN s /\ Tail(s)[i] = s[i + 1]
OBVIOUS

LEMMA OrderedTail ==
  ASSUME NEW R, NEW s \in Seq(Nat), s # << >>, Ordered(R, s)
  PROVE  Ordered(R, Tail(s)) /\ \A i \in DOMAIN Tail(s) : May(R, Head(s), Tail(s)[i])
<1>1. Ordered(R, Tail(s))
  <2> DEFINE t == Tail(s)
  <2>1. /\ DOMAIN t \subseteq Nat
        /\ \A i \in DOMAIN t : i + 1 \in DOMAIN s /\ t[i] = s[i + 1]
    BY TailOf
  <2> HIDE DEF t
  <2>2. ASSUME NEW i \in DOMAIN t, NEW j \in DOMAIN t, i < j
        PROVE  May(R, t[i], t[j])
    <3>1. i + 1 < j + 1
      BY <2>1, <2>2
    <3> QED BY <2>1, <3>1 DEF Ordered
  <2> QED BY <2>2 DEF Ordered, t
<1>2. ASSUME NEW i \in DOMAIN Tail(s) PROVE May(R, Head(s), Tail(s)[i])
  <2>1. /\ 1 \in DOMAIN s /\ i + 1 \in DOMAIN s /\ 1 < i + 1
        /\ Head(s) = s[1] /\ Tail(s)[i] = s[i + 1]
    BY TailOf
  <2> QED
    BY <2>1 DEF Ordered
<1> QED
  BY <1>1, <1>2

LEMMA TailBefore ==
  ASSUME NEW R, NEW s \in Seq(Nat), NEW t \in Seq(Nat), Before(R, s, t)
  PROVE  /\ s # << >> => Before(R, Tail(s), t) /\ \A j \in DOMAIN t : May(R, Head(s), t[j])
         /\ t # << >> => Before(R, s, Tail(t)) /\ \A i \in DOMAIN s : May(R, s[i], Head(t))
<1>1. ASSUME s # << >>
      PROVE  Before(R, Tail(s), t) /\ \A j \in DOMAIN t : May(R, Head(s), t[j])
  BY <1>1, TailOf DEF Before
<1>2. ASSUME t # << >>
      PROVE  Before(R, s, Tail(t)) /\ \A i \in DOMAIN s : May(R, s[i], Head(t))
  <2>1. /\ 1 \in DOMAIN t /\ Head(t) = t[1]
        /\ \A i \in DOMAIN Tail(t) : i + 1 \in DOMAIN t /\ Tail(t)[i] = t[i + 1]
    BY <1>2, TailOf
  <2> QED
    BY <2>1 DEF Before
<1> QED
  BY <1>1, <1>2

LEMMA BelowTail ==
  ASSUME NEW s \in Seq(Nat), NEW n, s # << >>, Below(s, n)
  PROVE  Below(Tail(s), n) /\ Head(s) < n
BY TailOf DEF Below

LEMMA BelowAppend ==
  ASSUME NEW s \in Seq(Nat), NEW n \in Nat, Below(s, n)
  PROVE  Below(Append(s, n), n + 1)
BY DEF Below

LEMMA BelowNext ==
  ASSUME NEW s \in Seq(Nat), NEW n \in Nat, Below(s, n)
  PROVE  Below(s, n + 1)
BY DEF Below

\* An element of a concatenation is one of either part.
LEMMA OfConcat ==
  ASSUME NEW s \in Seq(Nat), NEW t \in Seq(Nat)
  PROVE  /\ s \o t \in Seq(Nat) /\ DOMAIN (s \o t) = 1 .. Len(s) + Len(t)
         /\ \A i \in DOMAIN s : (s \o t)[i] = s[i]
         /\ \A i \in DOMAIN (s \o t) : i > Len(s) =>
                i - Len(s) \in DOMAIN t /\ (s \o t)[i] = t[i - Len(s)]
         /\ \A i \in DOMAIN (s \o t) : i <= Len(s) => i \in DOMAIN s
OBVIOUS

LEMMA OrderedConcat ==
  ASSUME NEW R, NEW s \in Seq(Nat), NEW t \in Seq(Nat),
         Ordered(R, s), Ordered(R, t), Before(R, s, t)
  PROVE  Ordered(R, s \o t)
<1> SUFFICES ASSUME NEW i \in DOMAIN (s \o t), NEW j \in DOMAIN (s \o t), i < j
             PROVE  May(R, (s \o t)[i], (s \o t)[j])
  BY DEF Ordered
<1>0. i \in Nat /\ j \in Nat /\ Len(s) \in Nat
  BY OfConcat
<1>1. CASE j <= Len(s)
  BY <1>0, <1>1, OfConcat DEF Ordered
<1>2. CASE i <= Len(s) /\ j > Len(s)
  BY <1>0, <1>2, OfConcat DEF Before
<1>3. CASE i > Len(s)
  <2>1. i - Len(s) \in DOMAIN t /\ j - Len(s) \in DOMAIN t /\ i - Len(s) < j - Len(s)
    BY <1>0, <1>3, OfConcat
  <2>2. (s \o t)[i] = t[i - Len(s)] /\ (s \o t)[j] = t[j - Len(s)]
    BY <1>0, <1>3, OfConcat
  <2> QED
    BY <2>1, <2>2 DEF Ordered
<1> QED
  BY <1>0, <1>1, <1>2, <1>3

LEMMA BeforeConcat ==
  ASSUME NEW R, NEW r \in Seq(Nat), NEW s \in Seq(Nat), NEW t \in Seq(Nat),
         Before(R, r, s), Before(R, r, t)
  PROVE  Before(R, r, s \o t)
<1> SUFFICES ASSUME NEW i \in DOMAIN r, NEW j \in DOMAIN (s \o t)
             PROVE  May(R, r[i], (s \o t)[j])
  BY DEF Before
<1>0. j \in Nat /\ Len(s) \in Nat
  BY OfConcat
<1>1. CASE j <= Len(s)
  BY <1>0, <1>1, OfConcat DEF Before
<1>2. CASE j > Len(s)
  BY <1>0, <1>2, OfConcat DEF Before
<1> QED
  BY <1>0, <1>1, <1>2

LEMMA BelowConcat ==
  ASSUME NEW s \in Seq(Nat), NEW t \in Seq(Nat), NEW n, Below(s, n), Below(t, n)
  PROVE  Below(s \o t, n)
<1> SUFFICES ASSUME NEW i \in DOMAIN (s \o t) PROVE (s \o t)[i] < n
  BY DEF Below
<1>0. i \in Nat /\ Len(s) \in Nat
  BY OfConcat
<1>1. CASE i <= Len(s)
  BY <1>0, <1>1, OfConcat DEF Below
<1>2. CASE i > Len(s)
  BY <1>0, <1>2, OfConcat DEF Below
<1> QED
  BY <1>0, <1>1, <1>2

\* More exceptions allow more.
LEMMA MoreExceptions ==
  ASSUME NEW R, NEW Q, R \subseteq Q, NEW s, NEW t
  PROVE  /\ Ordered(R, s) => Ordered(Q, s)
         /\ Before(R, s, t) => Before(Q, s, t)
BY DEF Ordered, Before, May

LEMMA ElementsAppend ==
  ASSUME NEW s \in Seq(Nat), NEW n \in Nat
  PROVE  Elements(Append(s, n)) = Elements(s) \cup {n}
<1>1. n \in Elements(Append(s, n))
  <2>1. Len(s) + 1 \in DOMAIN Append(s, n) /\ Append(s, n)[Len(s) + 1] = n
    OBVIOUS
  <2> QED
    BY <2>1 DEF Elements
<1>2. Elements(s) \subseteq Elements(Append(s, n))
  <2>1. \A i \in DOMAIN s : i \in DOMAIN Append(s, n) /\ Append(s, n)[i] = s[i]
    OBVIOUS
  <2> QED
    BY <2>1 DEF Elements
<1>3. Elements(Append(s, n)) \subseteq Elements(s) \cup {n}
  BY DEF Elements
<1> QED
  BY <1>1, <1>2, <1>3

LEMMA ElementsTail ==
  ASSUME NEW s \in Seq(Nat), s # << >>
  PROVE  /\ Elements(s) \subseteq Elements(Tail(s)) \cup {s[1]}
         /\ Elements(Tail(s)) \subseteq Elements(s)
<1>1. ASSUME NEW i \in DOMAIN s PROVE i = 1 \/ s[i] \in Elements(Tail(s))
  <2>1. CASE i # 1
    <3>1. i - 1 \in DOMAIN Tail(s) /\ Tail(s)[i - 1] = s[i]
      BY <2>1
    <3> QED
      BY <3>1 DEF Elements
  <2> QED
    BY <2>1
<1>2. \A i \in DOMAIN Tail(s) : i + 1 \in DOMAIN s /\ Tail(s)[i] = s[i + 1]
  BY TailOf
<1> QED
  BY <1>1, <1>2 DEF Elements

LEMMA ElementsConcat ==
  ASSUME NEW s \in Seq(Nat), NEW t \in Seq(Nat)
  PROVE  Elements(s) \cup Elements(t) \subseteq Elements(s \o t)
<1>1. \A i \in DOMAIN s : i \in DOMAIN (s \o t) /\ (s \o t)[i] = s[i]
  BY OfConcat
<1>2. \A i \in DOMAIN t : i + Len(s) \in DOMAIN (s \o t) /\ (s \o t)[i + Len(s)] = t[i]
  OBVIOUS
<1> QED
  BY <1>1, <1>2 DEF Elements

-----------------------------------------------------------------------------
(***************************************************************************)
(* The order of the envelopes                                              *)
(***************************************************************************)

\* What is received comes before what is under way, and that before what is
\* queued; each is ordered by itself, but for the exceptions R.
Arranged(R, r, w, q, n) ==
    /\ Ordered(R, r) /\ Ordered(R, w) /\ Ordered(R, q)
    /\ Before(R, r, w) /\ Before(R, r, q) /\ Before(R, w, q)
    /\ Below(r, n) /\ Below(w, n) /\ Below(q, n)

LEMMA ArrangedReceive ==
  ASSUME NEW R, NEW r \in Seq(Nat), NEW w \in Seq(Nat), NEW q \in Seq(Nat), NEW n \in Nat,
         Arranged(R, r, w, q, n), w # << >>
  PROVE  Arranged(R, Append(r, Head(w)), Tail(w), q, n)
<1> USE DEF Arranged
<1>1. Head(w) \in Nat /\ Head(w) < n /\ Tail(w) \in Seq(Nat) /\ Below(Tail(w), n)
  BY TailOf, BelowTail
<1>2. /\ Ordered(R, Tail(w)) /\ \A i \in DOMAIN Tail(w) : May(R, Head(w), Tail(w)[i])
  BY OrderedTail
<1>3. /\ Before(R, r, Tail(w)) /\ \A i \in DOMAIN r : May(R, r[i], Head(w))
      /\ Before(R, Tail(w), q) /\ \A j \in DOMAIN q : May(R, Head(w), q[j])
  BY TailBefore
<1>4. Ordered(R, Append(r, Head(w)))
  BY <1>1, <1>3, OrderedAppend
<1>5. Before(R, Append(r, Head(w)), Tail(w)) /\ Before(R, Append(r, Head(w)), q)
  BY <1>1, <1>2, <1>3, AppendBefore
<1>6. Below(Append(r, Head(w)), n)
  BY <1>1 DEF Below
<1> QED
  BY <1>1, <1>2, <1>3, <1>4, <1>5, <1>6

LEMMA ArrangedNext ==
  ASSUME NEW R, NEW r \in Seq(Nat), NEW w \in Seq(Nat), NEW q \in Seq(Nat), NEW n \in Nat,
         Arranged(R, r, w, q, n)
  PROVE  Arranged(R, r, w, q, n + 1)
BY BelowNext DEF Arranged

LEMMA ArrangedSend ==
  ASSUME NEW R, NEW r \in Seq(Nat), NEW w \in Seq(Nat), NEW q \in Seq(Nat), NEW n \in Nat,
         Arranged(R, r, w, q, n), Elements(q) \subseteq R
  PROVE  Arranged(R, r, Append(w, n), q, n + 1)
<1> USE DEF Arranged
<1>1. \A j \in DOMAIN q : May(R, n, q[j])
  BY DEF Elements, May, Below
<1>2. Ordered(R, Append(w, n)) /\ Before(R, r, Append(w, n))
  BY NewerMay, OrderedAppend, BeforeAppend
<1>3. Before(R, Append(w, n), q)
  BY <1>1, AppendBefore
<1> QED
  BY <1>2, <1>3, BelowNext, BelowAppend

LEMMA ArrangedQueue ==
  ASSUME NEW R, NEW r \in Seq(Nat), NEW w \in Seq(Nat), NEW q \in Seq(Nat), NEW n \in Nat,
         Arranged(R, r, w, q, n)
  PROVE  Arranged(R, r, w, Append(q, n), n + 1)
<1> USE DEF Arranged
<1>1. Ordered(R, Append(q, n)) /\ Before(R, r, Append(q, n)) /\ Before(R, w, Append(q, n))
  BY NewerMay, OrderedAppend, BeforeAppend
<1> QED
  BY <1>1, BelowNext, BelowAppend

LEMMA ArrangedDrop ==
  ASSUME NEW R, NEW r \in Seq(Nat), NEW w \in Seq(Nat), NEW q \in Seq(Nat), NEW n \in Nat,
         Arranged(R, r, w, q, n), q # << >>
  PROVE  Arranged(R, r, w, Tail(q), n)
BY OrderedTail, TailBefore, BelowTail DEF Arranged

LEMMA ArrangedFlush ==
  ASSUME NEW R, NEW r \in Seq(Nat), NEW w \in Seq(Nat), NEW q \in Seq(Nat), NEW n \in Nat,
         Arranged(R, r, w, q, n)
  PROVE  Arranged(R, r, w \o q, << >>, n)
<1>1. Ordered(R, w \o q) /\ Before(R, r, w \o q) /\ Below(w \o q, n)
  BY OrderedConcat, BeforeConcat, BelowConcat DEF Arranged
<1>2. Ordered(R, << >>) /\ Before(R, r, << >>) /\ Before(R, w \o q, << >>) /\ Below(<< >>, n)
  BY DEF Ordered, Before, Below
<1> QED
  BY <1>1, <1>2 DEF Arranged

LEMMA ArrangedLose ==
  ASSUME NEW R, NEW r, NEW w, NEW q, NEW n, Arranged(R, r, w, q, n)
  PROVE  Arranged(R, r, << >>, q, n)
<1>1. Ordered(R, << >>) /\ Before(R, r, << >>) /\ Before(R, << >>, q) /\ Below(<< >>, n)
  BY DEF Ordered, Before, Below
<1> QED
  BY <1>1 DEF Arranged

LEMMA ArrangedExcept ==
  ASSUME NEW R, NEW Q, R \subseteq Q, NEW r, NEW w, NEW q, NEW n, Arranged(R, r, w, q, n)
  PROVE  Arranged(Q, r, w, q, n)
BY MoreExceptions DEF Arranged

\* While the socket is open, only envelopes whose ws.send() threw are queued.
OnlyThrownWait == isConnected /\ ws = "open" => Elements(offlineQueue) \subseteq requeued

OrderInv ==
    /\ Arranged(requeued, received, wire, offlineQueue, nonce)
    /\ OnlyThrownWait

LEMMA EnvelopesAreNumbers ==
  ASSUME EnvelopeType
  PROVE  /\ offlineQueue \in Seq(Nat) /\ wire \in Seq(Nat) /\ received \in Seq(Nat)
         /\ nonce \in Nat
<1>1. Envelopes \subseteq Nat
  BY RelayAssumption DEF Envelopes
<1>2. ASSUME NEW s \in Seq(Envelopes) PROVE s \in Seq(Nat)
  <2>1. Len(s) \in Nat /\ s \in [1 .. Len(s) -> Envelopes]
    OBVIOUS
  <2>2. s \in [1 .. Len(s) -> Nat]
    BY <1>1, <2>1
  <2> QED
    BY <2>1, <2>2
<1> QED
  BY <1>2, RelayAssumption DEF EnvelopeType

LEMMA ArrangedEnqueue ==
  ASSUME EnvelopeType, NEW R, Arranged(R, received, wire, offlineQueue, nonce),
         EnqueueOffline(nonce)
  PROVE  Arranged(R, received, wire, offlineQueue', nonce + 1)
<1> USE EnvelopesAreNumbers
<1>1. CASE Len(offlineQueue) >= OfflineCap
  <2>1. offlineQueue # << >>
    BY <1>1, RelayAssumption
  <2>2. Tail(offlineQueue) \in Seq(Nat)
    BY <2>1, TailOf
  <2>3. Arranged(R, received, wire, Append(Tail(offlineQueue), nonce), nonce + 1)
    BY <2>1, <2>2, ArrangedDrop, ArrangedQueue
  <2> QED
    BY <1>1, <2>3 DEF EnqueueOffline
<1>2. CASE ~(Len(offlineQueue) >= OfflineCap)
  BY <1>2, ArrangedQueue DEF EnqueueOffline
<1> QED
  BY <1>1, <1>2

LEMMA EnqueuedElements ==
  ASSUME EnvelopeType, EnqueueOffline(nonce)
  PROVE  Elements(offlineQueue') \subseteq Elements(offlineQueue) \cup {nonce}
<1> USE EnvelopesAreNumbers
<1>1. CASE Len(offlineQueue) >= OfflineCap
  <2>1. offlineQueue # << >>
    BY <1>1, RelayAssumption
  <2>2. Tail(offlineQueue) \in Seq(Nat)
    BY <2>1, TailOf
  <2>3. Elements(Append(Tail(offlineQueue), nonce)) = Elements(Tail(offlineQueue)) \cup {nonce}
    BY <2>2, ElementsAppend
  <2>4. Elements(Tail(offlineQueue)) \subseteq Elements(offlineQueue)
    BY <2>1, ElementsTail
  <2> QED
    BY <1>1, <2>3, <2>4 DEF EnqueueOffline
<1>2. CASE ~(Len(offlineQueue) >= OfflineCap)
  BY <1>2, ElementsAppend DEF EnqueueOffline
<1> QED
  BY <1>1, <1>2

LEMMA OrderStep == EnvelopeType /\ OrderInv /\ [Next]_vars => OrderInv'
<1>1. EnvelopeType /\ OrderInv /\ LinkDies => OrderInv'
  BY ArrangedLose DEF LinkDies, WireLost, OrderInv, OnlyThrownWait
<1>2. EnvelopeType /\ OrderInv /\ SocketBreaks => OrderInv'
  BY ArrangedLose DEF SocketBreaks, WireLost, OrderInv, OnlyThrownWait
<1>3. EnvelopeType /\ OrderInv /\ EnvelopeReceived => OrderInv'
  BY EnvelopesAreNumbers, ArrangedReceive DEF EnvelopeReceived, OrderInv, OnlyThrownWait
<1>4. EnvelopeType /\ OrderInv /\ PhoneToggles => OrderInv'
  BY DEF PhoneToggles, OrderInv, OnlyThrownWait
<1>5. EnvelopeType /\ OrderInv /\ ConnectFails => OrderInv'
  BY DEF ConnectFails, SocketClosed, OrderInv, OnlyThrownWait
<1>6. EnvelopeType /\ OrderInv /\ Send => OrderInv'
  <2> SUFFICES ASSUME EnvelopeType, OrderInv, Send PROVE OrderInv'
    OBVIOUS
  <2> USE EnvelopesAreNumbers
  <2>0. nonce' = nonce + 1 /\ UNCHANGED << requeued, received, ws, isConnected >>
    BY DEF Send
  <2>1. CASE isConnected /\ ws = "open"
    <3>1. Elements(offlineQueue) \subseteq requeued
      BY <2>1 DEF OrderInv, OnlyThrownWait
    <3>2. UNCHANGED offlineQueue /\ (wire' = wire \/ wire' = Append(wire, nonce))
      BY <2>1 DEF Send
    <3>3. Arranged(requeued, received, wire, offlineQueue, nonce + 1)
      BY ArrangedNext DEF OrderInv
    <3>4. Arranged(requeued, received, Append(wire, nonce), offlineQueue, nonce + 1)
      BY <3>1, ArrangedSend DEF OrderInv
    <3> QED
      BY <2>0, <3>1, <3>2, <3>3, <3>4 DEF OrderInv, OnlyThrownWait
  <2>2. CASE ~(isConnected /\ ws = "open")
    <3>1. EnqueueOffline(nonce) /\ UNCHANGED wire
      BY <2>2 DEF Send
    <3>2. Arranged(requeued, received, wire, offlineQueue', nonce + 1)
      BY <3>1, ArrangedEnqueue DEF OrderInv
    <3> QED
      BY <2>0, <2>2, <3>1, <3>2 DEF OrderInv, OnlyThrownWait
  <2> QED
    BY <2>1, <2>2
<1>7. EnvelopeType /\ OrderInv /\ SendThrows => OrderInv'
  <2> SUFFICES ASSUME EnvelopeType, OrderInv, SendThrows PROVE OrderInv'
    OBVIOUS
  <2> USE EnvelopesAreNumbers
  <2>0. /\ nonce' = nonce + 1 /\ requeued' = requeued \cup {nonce} /\ EnqueueOffline(nonce)
        /\ UNCHANGED << received, wire, ws, isConnected >>
    BY DEF SendThrows
  <2>1. Arranged(requeued', received, wire, offlineQueue, nonce)
    BY <2>0, ArrangedExcept DEF OrderInv
  <2>2. Arranged(requeued', received, wire, offlineQueue', nonce + 1)
    BY <2>0, <2>1, ArrangedEnqueue
  <2>3. Elements(offlineQueue) \subseteq requeued
    BY DEF SendThrows, OrderInv, OnlyThrownWait
  <2>4. Elements(offlineQueue') \subseteq Elements(offlineQueue) \cup {nonce}
    BY <2>0, EnqueuedElements
  <2> QED
    BY <2>0, <2>2, <2>3, <2>4 DEF OrderInv, OnlyThrownWait
<1>8. EnvelopeType /\ OrderInv /\ Opened => OrderInv'
  BY EnvelopesAreNumbers, ArrangedFlush
     DEF Opened, FlushOfflineQueue, OrderInv, OnlyThrownWait, Elements
<1>9. EnvelopeType /\ OrderInv /\ Closed => OrderInv'
  BY DEF Closed, SocketClosed, OrderInv, OnlyThrownWait
<1>10. EnvelopeType /\ OrderInv /\ ReconnectFires => OrderInv'
  BY DEF ReconnectFires, OrderInv, OnlyThrownWait
<1>11. EnvelopeType /\ OrderInv /\ PingTick => OrderInv'
  BY ArrangedLose DEF PingTick, WireLost, OrderInv, OnlyThrownWait
<1>12. EnvelopeType /\ OrderInv /\ Pong => OrderInv'
  BY DEF Pong, OrderInv, OnlyThrownWait
<1>13. EnvelopeType /\ OrderInv /\ PeerStatus => OrderInv'
  BY DEF PeerStatus, OrderInv, OnlyThrownWait
<1>14. EnvelopeType /\ OrderInv /\ MessageArrives => OrderInv'
  BY DEF MessageArrives, OrderInv, OnlyThrownWait
<1>15. EnvelopeType /\ OrderInv /\ Disconnect => OrderInv'
  BY DEF Disconnect, OrderInv, OnlyThrownWait
<1>16. OrderInv /\ UNCHANGED vars => OrderInv'
  BY DEF vars, OrderInv, OnlyThrownWait
<1> QED
  BY <1>1, <1>2, <1>3, <1>4, <1>5, <1>6, <1>7, <1>8, <1>9, <1>10, <1>11, <1>12, <1>13,
     <1>14, <1>15, <1>16 DEF Next, Network, Client

\* The relay receives the envelopes in the order of send(), each at most once,
\* over any number of reconnects; only one whose ws.send() threw is overtaken.
THEOREM OrderAlways == Spec => []InOrder
<1>1. Init => OrderInv
  BY DEF Init, OrderInv, OnlyThrownWait, Arranged, Ordered, Before, Below
<1>2. EnvelopeType /\ OrderInv => InOrder
  <2> SUFFICES ASSUME EnvelopeType, OrderInv, NEW i \in DOMAIN received,
                      NEW j \in DOMAIN received, i < j
               PROVE  \/ received[i] < received[j]
                      \/ received[j] \in requeued /\ received[i] # received[j]
    BY DEF InOrder
  <2> QED
    BY DEF OrderInv, Arranged, Ordered, May
<1> QED
  BY <1>1, <1>2, InitEnvelopeType, EnvelopeTypeStep, OrderStep, PTL DEF Spec

-----------------------------------------------------------------------------
(***************************************************************************)
(* What is dropped                                                         *)
(***************************************************************************)

\* The newest of the queue is at least as many numbers ahead as places.
Spread == \A i \in DOMAIN offlineQueue : offlineQueue[i] + (Len(offlineQueue) - i) < nonce

LEMMA SpreadEnqueue ==
  ASSUME EnvelopeType, Spread, EnqueueOffline(nonce)
  PROVE  /\ \A i \in DOMAIN offlineQueue' : offlineQueue'[i] + (Len(offlineQueue') - i) < nonce + 1
         /\ \A e \in Elements(offlineQueue) : e \in Elements(offlineQueue') \/ e + OfflineCap < nonce + 1
         /\ nonce \in Elements(offlineQueue')
<1> USE EnvelopesAreNumbers
<1>1. CASE Len(offlineQueue) >= OfflineCap
  <2>1. offlineQueue # << >> /\ Len(offlineQueue) = OfflineCap /\ OfflineCap \in Nat
    BY <1>1, RelayAssumption DEF EnvelopeType
  <2> DEFINE t == Tail(offlineQueue)
  <2>2. /\ t \in Seq(Nat) /\ Len(t) = Len(offlineQueue) - 1 /\ 1 \in DOMAIN offlineQueue
        /\ \A i \in DOMAIN t : i + 1 \in DOMAIN offlineQueue /\ t[i] = offlineQueue[i + 1]
    BY <2>1, TailOf
  <2>3. offlineQueue' = Append(t, nonce)
    BY <1>1 DEF EnqueueOffline
  <2>4. \A i \in DOMAIN t : t[i] + (Len(t) - i) < nonce
    BY <2>2 DEF Spread
  <2>5. offlineQueue[1] + OfflineCap < nonce + 1
    <3>1. offlineQueue[1] + (Len(offlineQueue) - 1) < nonce
      BY <2>2 DEF Spread
    <3>2. offlineQueue[1] \in Nat /\ nonce \in Nat
      BY <2>2
    <3> QED
      BY <2>1, <3>1, <3>2
  <2> HIDE DEF t
  <2>6. ASSUME NEW i \in DOMAIN offlineQueue'
        PROVE  offlineQueue'[i] + (Len(offlineQueue') - i) < nonce + 1
    <3>1. Len(offlineQueue') = Len(t) + 1 /\ Len(t) \in Nat /\ i \in 1 .. Len(t) + 1
      BY <2>2, <2>3
    <3>2. CASE i = Len(t) + 1
      <4>1. offlineQueue'[i] = nonce
        BY <2>2, <2>3, <3>2
      <4> QED
        BY <3>1, <3>2, <4>1
    <3>3. CASE i # Len(t) + 1
      <4>1. i \in DOMAIN t /\ offlineQueue'[i] = t[i] /\ t[i] \in Nat
        BY <2>2, <2>3, <3>1, <3>3
      <4>2. t[i] + (Len(t) - i) < nonce
        BY <2>4, <4>1
      <4> QED
        BY <3>1, <4>1, <4>2
    <3> QED
      BY <3>2, <3>3
  <2>7. Elements(offlineQueue') = Elements(t) \cup {nonce}
    BY <2>2, <2>3, ElementsAppend
  <2>8. Elements(offlineQueue) \subseteq Elements(t) \cup {offlineQueue[1]}
    BY <2>1, ElementsTail DEF t
  <2> QED
    BY <2>5, <2>6, <2>7, <2>8
<1>2. CASE ~(Len(offlineQueue) >= OfflineCap)
  <2>1. offlineQueue' = Append(offlineQueue, nonce)
    BY <1>2 DEF EnqueueOffline
  <2> DEFINE q == offlineQueue
             m == Len(offlineQueue)
  <2>a. /\ m \in Nat /\ Len(offlineQueue') = m + 1 /\ DOMAIN offlineQueue' = 1 .. m + 1
        /\ offlineQueue'[m + 1] = nonce
        /\ \A i \in 1 .. m : i \in DOMAIN q /\ offlineQueue'[i] = q[i] /\ q[i] \in Nat
    BY <2>1
  <2>b. \A i \in 1 .. m : q[i] + (m - i) < nonce
    BY <2>a DEF Spread
  <2> HIDE DEF q, m
  <2>2. \A i \in DOMAIN offlineQueue' : offlineQueue'[i] + (Len(offlineQueue') - i) < nonce + 1
    <3> SUFFICES ASSUME NEW i \in 1 .. m + 1
                 PROVE  offlineQueue'[i] + (m + 1 - i) < nonce + 1
      BY <2>a
    <3>1. CASE i = m + 1
      BY <2>a, <3>1
    <3>2. CASE i # m + 1
      <4>1. i \in 1 .. m
        BY <2>a, <3>2
      <4>2. q[i] \in Nat /\ q[i] + (m - i) < nonce /\ offlineQueue'[i] = q[i]
        BY <2>a, <2>b, <4>1
      <4> QED BY <2>a, <4>2
    <3> QED BY <3>1, <3>2
  <2>3. Elements(offlineQueue') = Elements(offlineQueue) \cup {nonce}
    BY <2>1, ElementsAppend
  <2> QED
    BY <2>2, <2>3
<1> QED
  BY <1>1, <1>2

KeepInv == Spread /\ KeepsNewest

\* Where an envelope may be that was not dropped.
Whereabouts == Elements(offlineQueue) \cup Elements(wire) \cup Elements(received) \cup lostOnLink

\* A step that drops nothing and numbers nothing keeps what is promised.
LEMMA KeptWhenNoneDropped ==
  ASSUME KeepsNewest, nonce' = nonce, Whereabouts \subseteq Whereabouts'
  PROVE  KeepsNewest'
BY DEF KeepsNewest, Whereabouts

LEMMA KeptWhenQueued ==
  ASSUME EnvelopeType, KeepInv, EnqueueOffline(nonce), nonce' = nonce + 1,
         UNCHANGED << wire, received, lostOnLink >>
  PROVE  KeepInv'
<1> USE EnvelopesAreNumbers
<1>1. Spread'
  BY SpreadEnqueue DEF KeepInv, Spread
<1>2. ASSUME NEW e \in Envelopes, e < nonce + 1
      PROVE  e \in Whereabouts' \/ e + OfflineCap < nonce + 1
  <2>0. e \in Nat /\ OfflineCap \in Nat
    BY RelayAssumption DEF Envelopes
  <2>1. CASE e = nonce
    BY <2>1, SpreadEnqueue DEF KeepInv, Whereabouts
  <2>2. CASE e < nonce
    <3>1. e \in Whereabouts \/ e + OfflineCap < nonce
      BY <2>0, <2>2 DEF KeepInv, KeepsNewest, Whereabouts
    <3>2. CASE e \in Elements(offlineQueue)
      BY <3>2, SpreadEnqueue DEF KeepInv, Whereabouts
    <3>3. CASE e \in Elements(wire) \cup Elements(received) \cup lostOnLink
      BY <3>3 DEF Whereabouts
    <3>4. CASE e + OfflineCap < nonce
      BY <2>0, <3>4
    <3> QED
      BY <3>1, <3>2, <3>3, <3>4 DEF Whereabouts
  <2> QED
    BY <1>2, <2>0, <2>1, <2>2
<1>3. KeepsNewest'
  <2> SUFFICES ASSUME NEW e \in Envelopes
               PROVE  e >= nonce' \/ e \in Whereabouts' \/ e + OfflineCap < nonce'
    BY DEF KeepsNewest, Whereabouts
  <2>1. e \in Nat
    BY RelayAssumption DEF Envelopes
  <2> QED
    BY <1>2, <2>1
<1> QED
  BY <1>1, <1>3 DEF KeepInv

LEMMA KeepStep == EnvelopeType /\ KeepInv /\ [Next]_vars => KeepInv'
<1>1. EnvelopeType /\ KeepInv /\ LinkDies => KeepInv'
  BY KeptWhenNoneDropped DEF LinkDies, WireLost, KeepInv, Spread, Whereabouts
<1>2. EnvelopeType /\ KeepInv /\ SocketBreaks => KeepInv'
  BY KeptWhenNoneDropped DEF SocketBreaks, WireLost, KeepInv, Spread, Whereabouts
<1>3. EnvelopeType /\ KeepInv /\ EnvelopeReceived => KeepInv'
  <2> SUFFICES ASSUME EnvelopeType, KeepInv, EnvelopeReceived PROVE KeepInv'
    OBVIOUS
  <2> USE EnvelopesAreNumbers
  <2>1. wire # << >> /\ Head(wire) = wire[1] /\ Head(wire) \in Nat
    BY TailOf DEF EnvelopeReceived
  <2>2. Elements(wire) \subseteq Elements(wire') \cup {Head(wire)}
    BY <2>1, ElementsTail DEF EnvelopeReceived
  <2>3. Elements(received') = Elements(received) \cup {Head(wire)}
    BY <2>1, ElementsAppend DEF EnvelopeReceived
  <2>4. Whereabouts \subseteq Whereabouts'
    BY <2>2, <2>3 DEF EnvelopeReceived, Whereabouts
  <2> QED
    BY <2>4, KeptWhenNoneDropped DEF EnvelopeReceived, KeepInv, Spread
<1>4. EnvelopeType /\ KeepInv /\ PhoneToggles => KeepInv'
  BY DEF PhoneToggles, KeepInv, Spread, KeepsNewest
<1>5. EnvelopeType /\ KeepInv /\ ConnectFails => KeepInv'
  BY DEF ConnectFails, KeepInv, Spread, KeepsNewest
<1>6. EnvelopeType /\ KeepInv /\ Send => KeepInv'
  <2> SUFFICES ASSUME EnvelopeType, KeepInv, Send PROVE KeepInv'
    OBVIOUS
  <2> USE EnvelopesAreNumbers
  <2>1. CASE isConnected /\ ws = "open"
    <3>1. UNCHANGED << offlineQueue, received >> /\ nonce' = nonce + 1
      BY <2>1 DEF Send
    <3>2. Spread'
      <4> SUFFICES ASSUME NEW i \in DOMAIN offlineQueue
                   PROVE  offlineQueue[i] + (Len(offlineQueue) - i) < nonce + 1
        BY <3>1 DEF Spread
      <4> QED
        BY DEF KeepInv, Spread
    <3>3. Whereabouts \cup {nonce} \subseteq Whereabouts'
      <4>1. Elements(Append(wire, nonce)) = Elements(wire) \cup {nonce}
        BY ElementsAppend
      <4> QED
        BY <2>1, <3>1, <4>1 DEF Send, Whereabouts
    <3>4. KeepsNewest'
      <4> SUFFICES ASSUME NEW e \in Envelopes, e < nonce + 1
                   PROVE  e \in Whereabouts' \/ e + OfflineCap < nonce + 1
        BY <3>1, RelayAssumption DEF KeepsNewest, Whereabouts, Envelopes
      <4>1. e \in Nat /\ OfflineCap \in Nat
        BY RelayAssumption DEF Envelopes
      <4>2. e = nonce \/ e \in Whereabouts \/ e + OfflineCap < nonce
        BY <4>1 DEF KeepInv, KeepsNewest, Whereabouts
      <4> QED
        BY <3>3, <4>1, <4>2
    <3> QED
      BY <3>2, <3>4 DEF KeepInv
  <2>2. CASE ~(isConnected /\ ws = "open")
    BY <2>2, KeptWhenQueued DEF Send
  <2> QED
    BY <2>1, <2>2
<1>7. EnvelopeType /\ KeepInv /\ SendThrows => KeepInv'
  BY KeptWhenQueued DEF SendThrows
<1>8. EnvelopeType /\ KeepInv /\ Opened => KeepInv'
  <2> SUFFICES ASSUME EnvelopeType, KeepInv, Opened PROVE KeepInv'
    OBVIOUS
  <2> USE EnvelopesAreNumbers
  <2>1. Elements(wire) \cup Elements(offlineQueue) \subseteq Elements(wire')
    BY ElementsConcat DEF Opened, FlushOfflineQueue
  <2>2. Whereabouts \subseteq Whereabouts'
    BY <2>1 DEF Opened, Whereabouts
  <2>3. Spread'
    BY DEF Opened, FlushOfflineQueue, Spread
  <2> QED
    BY <2>2, <2>3, KeptWhenNoneDropped DEF Opened, KeepInv
<1>9. EnvelopeType /\ KeepInv /\ Closed => KeepInv'
  BY DEF Closed, KeepInv, Spread, KeepsNewest
<1>10. EnvelopeType /\ KeepInv /\ ReconnectFires => KeepInv'
  BY DEF ReconnectFires, KeepInv, Spread, KeepsNewest
<1>11. EnvelopeType /\ KeepInv /\ PingTick => KeepInv'
  <2> SUFFICES ASSUME KeepInv, PingTick PROVE KeepInv'
    OBVIOUS
  <2>1. Whereabouts \subseteq Whereabouts'
    BY DEF PingTick, WireLost, Whereabouts
  <2> QED
    BY <2>1, KeptWhenNoneDropped DEF PingTick, KeepInv, Spread
<1>12. EnvelopeType /\ KeepInv /\ Pong => KeepInv'
  BY DEF Pong, KeepInv, Spread, KeepsNewest
<1>13. EnvelopeType /\ KeepInv /\ PeerStatus => KeepInv'
  BY DEF PeerStatus, KeepInv, Spread, KeepsNewest
<1>14. EnvelopeType /\ KeepInv /\ MessageArrives => KeepInv'
  BY DEF MessageArrives, KeepInv, Spread, KeepsNewest
<1>15. EnvelopeType /\ KeepInv /\ Disconnect => KeepInv'
  BY DEF Disconnect, KeepInv, Spread, KeepsNewest
<1>16. KeepInv /\ UNCHANGED vars => KeepInv'
  BY DEF vars, KeepInv, Spread, KeepsNewest
<1> QED
  BY <1>1, <1>2, <1>3, <1>4, <1>5, <1>6, <1>7, <1>8, <1>9, <1>10, <1>11, <1>12, <1>13,
     <1>14, <1>15, <1>16 DEF Next, Network, Client

\* An envelope that is nowhere any more went down with a connection, or was
\* the oldest of more than OfflineCap when room was needed.
THEOREM NewestAlwaysKept == Spec => []KeepsNewest
<1>1. Init => KeepInv
  <2>1. Init => Spread
    BY DEF Init, Spread
  <2>2. Init => KeepsNewest
    BY RelayAssumption DEF Init, KeepsNewest, Envelopes
  <2> QED
    BY <2>1, <2>2 DEF KeepInv
<1>2. KeepInv => KeepsNewest
  BY DEF KeepInv
<1> QED
  BY <1>1, <1>2, InitEnvelopeType, EnvelopeTypeStep, KeepStep, PTL DEF Spec

-----------------------------------------------------------------------------
(***************************************************************************)
(* The client implements the channel                                       *)
(***************************************************************************)

LEMMA StepsAreChannelSteps ==
  EnvelopeType /\ [Next]_vars => [Channel!Next]_(Channel!vars)
<1>1. EnvelopeType /\ Send => [Channel!Next]_(Channel!vars)
  <2> SUFFICES ASSUME EnvelopeType, Send PROVE Channel!Next
    OBVIOUS
  <2>1. CASE isConnected /\ ws = "open" /\ link = "up"
    BY <2>1 DEF Send, Channel!Dispatch, Channel!Next
  <2>2. CASE isConnected /\ ws = "open" /\ link # "up"
    BY <2>2 DEF Send, Channel!DispatchLost, Channel!Next
  <2>3. CASE ~(isConnected /\ ws = "open")
    BY <2>3, RelayAssumption DEF Send, EnqueueOffline, EnvelopeType, Channel!Hold, Channel!Next
  <2> QED
    BY <2>1, <2>2, <2>3
<1>2. EnvelopeType /\ SendThrows => [Channel!Next]_(Channel!vars)
  BY RelayAssumption DEF SendThrows, EnqueueOffline, EnvelopeType, Channel!Hold, Channel!Next
<1>3. EnvelopeType /\ Opened => [Channel!Next]_(Channel!vars)
  BY DEF Opened, FlushOfflineQueue, Channel!Release, Channel!Next
<1>4. EnvelopeType /\ EnvelopeReceived => [Channel!Next]_(Channel!vars)
  BY DEF EnvelopeReceived, Channel!Deliver, Channel!Next
<1>5. EnvelopeType /\ LinkDies => [Channel!Next]_(Channel!vars)
  BY DEF LinkDies, WireLost, Channel!Lose, Channel!Next, Channel!vars
<1>6. EnvelopeType /\ SocketBreaks => [Channel!Next]_(Channel!vars)
  BY DEF SocketBreaks, WireLost, Channel!Lose, Channel!Next, Channel!vars
<1>7. EnvelopeType /\ PingTick => [Channel!Next]_(Channel!vars)
  BY DEF PingTick, WireLost, Channel!Lose, Channel!Next, Channel!vars
<1>8. EnvelopeType /\ PhoneToggles => [Channel!Next]_(Channel!vars)
  BY DEF PhoneToggles, Channel!vars
<1>9. EnvelopeType /\ ConnectFails => [Channel!Next]_(Channel!vars)
  BY DEF ConnectFails, Channel!vars
<1>10. EnvelopeType /\ Closed => [Channel!Next]_(Channel!vars)
  BY DEF Closed, Channel!vars
<1>11. EnvelopeType /\ ReconnectFires => [Channel!Next]_(Channel!vars)
  BY DEF ReconnectFires, Channel!vars
<1>12. EnvelopeType /\ Pong => [Channel!Next]_(Channel!vars)
  BY DEF Pong, Channel!vars
<1>13. EnvelopeType /\ PeerStatus => [Channel!Next]_(Channel!vars)
  BY DEF PeerStatus, Channel!vars
<1>14. EnvelopeType /\ MessageArrives => [Channel!Next]_(Channel!vars)
  BY DEF MessageArrives, Channel!vars
<1>15. EnvelopeType /\ Disconnect => [Channel!Next]_(Channel!vars)
  BY DEF Disconnect, Channel!vars
<1>16. EnvelopeType /\ UNCHANGED vars => [Channel!Next]_(Channel!vars)
  BY DEF vars, Channel!vars
<1> QED
  BY <1>1, <1>2, <1>3, <1>4, <1>5, <1>6, <1>7, <1>8,
     <1>9, <1>10, <1>11, <1>12, <1>13, <1>14, <1>15, <1>16 DEF Next, Network, Client

\* Whatever the connection goes through, the envelopes fare as LossyChannel
\* allows: a step of the client is one of the channel, or none.
THEOREM ChannelImplemented == Spec => ImplementsChannel
<1>1. Init => Channel!Init
  BY DEF Init, Channel!Init
<1> QED
  BY <1>1, InitEnvelopeType, EnvelopeTypeStep, StepsAreChannelSteps, PTL DEF Spec, ImplementsChannel, Channel!Spec
===============================================================================
