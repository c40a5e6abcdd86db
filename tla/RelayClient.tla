----------------------------- MODULE RelayClient -----------------------------
(***************************************************************************)
(* src/src/relay/relay-client.ts: the daemon's one WebSocket to the relay, *)
(* its offline queue, keep-alive, reconnect timer and view of the phone.   *)
(*                                                                         *)
(* The relay and the network are external.  `link' says whether the bytes  *)
(* of an open socket still get through; a dead link shows itself only when *)
(* a pong is missing.  An envelope is its nonce, given by send() in order. *)
(***************************************************************************)
EXTENDS Naturals, Sequences, FiniteSets

CONSTANTS
    OfflineCap,   \* OFFLINE_MESSAGE_MAX_COUNT
    BaseDelay, MaxDelay, Multiplier,   \* RECONNECT_*
    MaxSends,     \* bound: envelopes sent
    MaxThrows,    \* bound: ws.send() calls that throw
    MaxFaults,    \* bound: connections refused, closed or cut by the network
    MaxToggles    \* bound: times the phone comes or goes

ASSUME RelayAssumption ==
    /\ OfflineCap \in Nat \ {0}
    /\ BaseDelay \in Nat \ {0} /\ MaxDelay \in Nat /\ Multiplier \in Nat \ {0}
    /\ BaseDelay <= MaxDelay
    /\ MaxSends \in Nat /\ MaxThrows \in Nat /\ MaxFaults \in Nat /\ MaxToggles \in Nat

Envelopes == 0 .. MaxSends - 1

VARIABLES
    ws,             \* the socket: none, or its readyState
    isConnected, isShuttingDown,
    reconnectTimer, reconnectDelay,
    pingTimer, awaitingPong,
    offlineQueue,
    phonePeerOnline,
    decryptFailures,  \* consecutiveDecryptFailures; 4 stands for more than 3
    nonce,          \* the nonce of the next envelope
    link,           \* do bytes get through?
    wire,           \* envelopes written to the socket and not yet received
    received,       \* envelopes the relay has received, in order
    lostOnLink,     \* envelopes that went down with a connection
    requeued,       \* envelopes whose ws.send() threw
    status,         \* peer_status frames on their way to the daemon
    phone,          \* is the phone connected to the relay?
    faults, toggles

socketVars == << ws, isConnected, isShuttingDown, reconnectTimer, reconnectDelay,
                 pingTimer, awaitingPong, decryptFailures >>
sendVars   == << offlineQueue, nonce, requeued >>
netVars    == << link, wire, received, lostOnLink, status >>
peerVars   == << phonePeerOnline, phone, toggles >>
vars == << ws, isConnected, isShuttingDown, reconnectTimer, reconnectDelay,
           pingTimer, awaitingPong, decryptFailures, offlineQueue, nonce, requeued,
           link, wire, received, lostOnLink, status, phonePeerOnline, phone,
           toggles, faults >>

Elements(s) == { s[i] : i \in DOMAIN s }
AtMost(n, bound) == IF n > bound THEN bound ELSE n

RelayTypeOK ==
    /\ ws \in {"none", "connecting", "open", "closing"}
    /\ {isConnected, isShuttingDown, reconnectTimer, pingTimer, awaitingPong,
        phonePeerOnline, phone} \subseteq BOOLEAN
    /\ reconnectDelay \in BaseDelay .. MaxDelay
    /\ decryptFailures \in 0 .. 4
    /\ offlineQueue \in Seq(Envelopes) /\ Len(offlineQueue) <= OfflineCap
    /\ nonce \in 0 .. MaxSends
    /\ link \in {"up", "dead"}
    /\ wire \in Seq(Envelopes) /\ received \in Seq(Envelopes)
    /\ lostOnLink \subseteq Envelopes /\ requeued \subseteq Envelopes
    /\ status \in Seq(BOOLEAN)
    /\ faults \in 0 .. MaxFaults /\ toggles \in 0 .. MaxToggles

\* connect() has been called; it is called once, by the daemon's start().
Init ==
    /\ ws = "connecting"
    /\ isConnected = FALSE /\ isShuttingDown = FALSE
    /\ reconnectTimer = FALSE /\ reconnectDelay = BaseDelay
    /\ pingTimer = FALSE /\ awaitingPong = FALSE
    /\ offlineQueue = << >> /\ nonce = 0 /\ requeued = {}
    /\ phonePeerOnline = FALSE /\ decryptFailures = 0
    /\ link = "up" /\ wire = << >> /\ received = << >> /\ lostOnLink = {}
    /\ status = << >> /\ phone = FALSE
    /\ faults = 0 /\ toggles = 0

-----------------------------------------------------------------------------
(***************************************************************************)
(* The network and the relay (external)                                    *)
(***************************************************************************)

\* What the network takes with it: frames to the daemon, and envelopes that
\* were written but not received.
WireLost ==
    /\ wire' = << >>
    /\ lostOnLink' = lostOnLink \cup Elements(wire)
    /\ status' = << >>

\* The peer vanishes without a FIN: nothing tells the daemon.
LinkDies ==
    /\ ws = "open" /\ link = "up" /\ faults < MaxFaults
    /\ link' = "dead" /\ faults' = faults + 1
    /\ WireLost
    /\ UNCHANGED << socketVars, sendVars, received, peerVars >>

\* The relay closes the socket, or it breaks: 'close' follows.
SocketBreaks ==
    /\ ws = "open" /\ link = "up" /\ faults < MaxFaults
    /\ ws' = "closing" /\ faults' = faults + 1
    /\ WireLost
    /\ UNCHANGED << isConnected, isShuttingDown, reconnectTimer, reconnectDelay, pingTimer,
                    awaitingPong, decryptFailures, sendVars, link, received, peerVars >>

EnvelopeReceived ==
    /\ wire # << >> /\ link = "up"
    /\ received' = Append(received, Head(wire))
    /\ wire' = Tail(wire)
    /\ UNCHANGED << socketVars, sendVars, link, lostOnLink, status, peerVars, faults >>

\* The relay tells a connected daemon when its phone comes or goes.
PhoneToggles ==
    /\ toggles < MaxToggles
    /\ toggles' = toggles + 1
    /\ phone' = ~phone
    /\ status' = IF ws = "open" /\ link = "up" THEN Append(status, ~phone) ELSE status
    /\ UNCHANGED << socketVars, sendVars, link, wire, received, lostOnLink,
                    phonePeerOnline, faults >>

-----------------------------------------------------------------------------
(***************************************************************************)
(* RelayClient                                                             *)
(***************************************************************************)

\* Mutant: a full queue refuses the new envelope.
EnqueueOfflineRefusing(e) ==
    offlineQueue' = IF Len(offlineQueue) >= OfflineCap
                    THEN offlineQueue ELSE Append(offlineQueue, e)

\* Mutant: off by one, the queue outgrows its bound.
EnqueueOfflineOver(e) ==
    offlineQueue' = Append(IF Len(offlineQueue) > OfflineCap
                           THEN Tail(offlineQueue) ELSE offlineQueue, e)

EnqueueOffline(e) ==
    offlineQueue' = Append(IF Len(offlineQueue) >= OfflineCap
                           THEN Tail(offlineQueue) ELSE offlineQueue, e)

\* send(): written if the socket is open, otherwise queued.  A socket whose
\* link is dead takes the bytes all the same.
Send ==
    /\ nonce < MaxSends
    /\ nonce' = nonce + 1
    /\ IF isConnected /\ ws = "open"
       THEN /\ wire' = IF link = "up" THEN Append(wire, nonce) ELSE wire
            /\ lostOnLink' = IF link = "up" THEN lostOnLink ELSE lostOnLink \cup {nonce}
            /\ UNCHANGED offlineQueue
       ELSE EnqueueOffline(nonce) /\ UNCHANGED << wire, lostOnLink >>
    /\ UNCHANGED << socketVars, requeued, link, received, status, peerVars, faults >>

\* send() when ws.send() throws: sendEnvelope queues the envelope.
SendThrows ==
    /\ nonce < MaxSends
    /\ isConnected /\ ws = "open"
    /\ Cardinality(requeued) < MaxThrows
    /\ nonce' = nonce + 1
    /\ requeued' = requeued \cup {nonce}
    /\ EnqueueOffline(nonce)
    /\ UNCHANGED << socketVars, netVars, peerVars, faults >>

\* Mutants: the queue is sent but not emptied; it is not sent at all.
FlushKeepingQueue ==
    wire' = wire \o offlineQueue /\ UNCHANGED offlineQueue
FlushForgotten ==
    UNCHANGED << wire, offlineQueue >>

\* Mutant: the newest is sent first.
FlushNewestFirst ==
    /\ wire' = wire \o [i \in DOMAIN offlineQueue |-> offlineQueue[Len(offlineQueue) + 1 - i]]
    /\ offlineQueue' = << >>

\* flushOfflineQueue: its loop never yields, so nothing gets in between.  A
\* send that throws is queued again and retried by the same loop.
FlushOfflineQueue ==
    /\ wire' = wire \o offlineQueue
    /\ offlineQueue' = << >>

\* Mutant: the view of the phone is kept over a reconnect.
NoPeerStatusQuery == UNCHANGED status

\* The last thing the open handler does is to ask for the phone's status; the
\* relay answers on the same socket.
PeerStatusQuery == status' = Append(status, phone)

\* The 'open' handler.  The 'connected' event it emits before the flush sends
\* the peer_hello control frame, no envelope.
Opened ==
    /\ ws = "connecting"
    /\ ws' = "open" /\ link' = "up"
    /\ isConnected' = TRUE
    /\ reconnectDelay' = BaseDelay
    /\ pingTimer' = TRUE /\ awaitingPong' = FALSE
    /\ decryptFailures' = 0
    /\ FlushOfflineQueue
    /\ PeerStatusQuery
    /\ UNCHANGED << isShuttingDown, reconnectTimer, nonce, requeued, received,
                    lostOnLink, peerVars, faults >>

\* Mutant: only a connection that had been open is tried again.
ScheduleIfWasConnected ==
    reconnectTimer' = (reconnectTimer \/ (~isShuttingDown /\ isConnected))

\* scheduleReconnect, unless the client is shutting down; a timer that runs
\* already is left alone.
ScheduleReconnect ==
    reconnectTimer' = (reconnectTimer \/ ~isShuttingDown)

\* The 'close' handler.
SocketClosed ==
    /\ ws' = "none"
    /\ isConnected' = FALSE
    /\ pingTimer' = FALSE /\ awaitingPong' = FALSE
    /\ decryptFailures' = 0
    /\ ScheduleReconnect
    /\ UNCHANGED << isShuttingDown, reconnectDelay >>

\* 'close' of a socket that had been open.
Closed ==
    /\ ws = "closing"
    /\ SocketClosed
    /\ UNCHANGED << sendVars, netVars, peerVars, faults >>

\* The connection is refused: 'error', which only reports, then 'close'.
ConnectFails ==
    /\ ws = "connecting" /\ faults < MaxFaults
    /\ faults' = faults + 1
    /\ SocketClosed
    /\ UNCHANGED << sendVars, netVars, peerVars >>

\* The reconnect timer: the delay grows, then connect().
ReconnectFires ==
    /\ reconnectTimer
    /\ reconnectTimer' = FALSE
    /\ reconnectDelay' = AtMost(reconnectDelay * Multiplier, MaxDelay)
    /\ ws' = IF ~isShuttingDown /\ ws \notin {"connecting", "open"} THEN "connecting" ELSE ws
    /\ UNCHANGED << isConnected, isShuttingDown, pingTimer, awaitingPong,
                    decryptFailures, sendVars, netVars, peerVars, faults >>

\* The ping interval.  A pong that does not come in time over a good link is
\* one of the network's faults.
PingTick ==
    /\ pingTimer /\ ws = "open"
    /\ IF awaitingPong
       THEN /\ link = "up" => faults < MaxFaults
            /\ faults' = IF link = "up" THEN faults + 1 ELSE faults
            /\ ws' = "closing"
            /\ WireLost
            /\ UNCHANGED << awaitingPong, link, received >>
       ELSE /\ awaitingPong' = TRUE
            /\ UNCHANGED << ws, netVars, faults >>
    /\ UNCHANGED << isConnected, isShuttingDown, reconnectTimer, reconnectDelay,
                    pingTimer, decryptFailures, sendVars, peerVars >>

Pong ==
    /\ ws = "open" /\ link = "up" /\ awaitingPong
    /\ awaitingPong' = FALSE
    /\ UNCHANGED << ws, isConnected, isShuttingDown, reconnectTimer, reconnectDelay,
                    pingTimer, decryptFailures, sendVars, netVars, peerVars, faults >>

\* A peer_status frame.
PeerStatus ==
    /\ ws = "open" /\ status # << >>
    /\ phonePeerOnline' = Head(status)
    /\ status' = Tail(status)
    /\ UNCHANGED << socketVars, sendVars, link, wire, received, lostOnLink,
                    phone, toggles, faults >>

\* An envelope from the phone that decrypts, or does not.
MessageArrives ==
    /\ ws = "open" /\ link = "up"
    /\ decryptFailures' \in {0, AtMost(decryptFailures + 1, 4)}
    /\ UNCHANGED << ws, isConnected, isShuttingDown, reconnectTimer, reconnectDelay,
                    pingTimer, awaitingPong, sendVars, netVars, peerVars, faults >>

\* disconnect(): what was written still goes out with the closing handshake.
Disconnect ==
    /\ ~isShuttingDown
    /\ isShuttingDown' = TRUE
    /\ reconnectTimer' = FALSE
    /\ pingTimer' = FALSE /\ awaitingPong' = FALSE
    /\ ws' = "none" /\ isConnected' = FALSE
    /\ UNCHANGED << reconnectDelay, decryptFailures, sendVars, netVars, peerVars, faults >>

-----------------------------------------------------------------------------
Network == LinkDies \/ SocketBreaks \/ EnvelopeReceived \/ PhoneToggles \/ ConnectFails
Client  == \/ Send \/ SendThrows \/ Opened \/ Closed \/ ReconnectFires \/ PingTick
           \/ Pong \/ PeerStatus \/ MessageArrives \/ Disconnect
Next == Network \/ Client

Spec == Init /\ [][Next]_vars

\* Timers fire, socket events are delivered, and a relay that can be reached
\* accepts the connection and answers; the network's faults are bounded.
FairSpec ==
    /\ Spec
    /\ WF_vars(Opened) /\ WF_vars(Closed) /\ WF_vars(ReconnectFires)
    /\ WF_vars(PingTick) /\ WF_vars(Pong) /\ WF_vars(PeerStatus)

-----------------------------------------------------------------------------
\* The client never gets stuck: until it is shut down it either has a socket,
\* whose events are still to come, or a reconnect timer, and never both (which
\* would open a second connection).  Afterwards it has neither.
CanRecover ==
    IF isShuttingDown THEN ws = "none" /\ ~reconnectTimer /\ ~pingTimer
                      ELSE (ws = "none") <=> reconnectTimer

\* The relay receives the envelopes in the order send() was called, each at
\* most once, over any number of reconnects; only one whose ws.send() threw
\* may be overtaken.
InOrder ==
    \A i, j \in DOMAIN received : i < j =>
        \/ received[i] < received[j]
        \/ received[j] \in requeued /\ received[i] # received[j]

\* relay-client.ts: "Drop oldest message to make room".  An envelope that is
\* nowhere any more, and did not go down with a connection, was the oldest
\* of more than OfflineCap.
KeepsNewest ==
    \A e \in Envelopes :
        \/ e >= nonce
        \/ e \in Elements(offlineQueue) \cup Elements(wire) \cup Elements(received)
        \/ e \in lostOnLink
        \/ e + OfflineCap < nonce

\* Through any connections, closes and half-open links, what becomes of the
\* envelopes is what LossyChannel says: reconnecting neither repeats nor
\* reorders them, and loses nothing that was held but the oldest.
Channel == INSTANCE LossyChannel WITH
    Capacity <- OfflineCap, sent <- nonce, transit <- wire,
    held <- offlineQueue, delivered <- received

ImplementsChannel == Channel!Spec

\* Once the network holds still, what waits in the offline queue is sent,
\* unless it is an envelope whose ws.send() threw.
QueueDrains == <>[](isShuttingDown \/ Elements(offlineQueue) \subseteq requeued)

\* Once the network and the phone hold still, the daemon's view of the phone
\* is right, although transitions were missed while it was not connected.
PeerViewConverges == <>[](isShuttingDown \/ phonePeerOnline = phone)
=============================================================================
