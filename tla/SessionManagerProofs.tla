------------------------- MODULE SessionManagerProofs -------------------------
(***************************************************************************)
(* Theorems about SessionManager, for any transcripts, terminals and       *)
(* bounds.                                                                 *)
(***************************************************************************)
EXTENDS SessionManager, FiniteSetTheorems, TLAPS

\* Only the facts about sub-sequences are used: the operator of the folds is
\* whichever.
AnyStep(p, v, e) == v
Facts == INSTANCE SequenceFacts WITH Op <- AnyStep

SessionRecord ==
    [ tracked : BOOLEAN, claude : ClaudeIds \cup {None}, isObserved : BOOLEAN,
      observer : BOOLEAN, terminalPid : Processes \cup {None}, history : BOOLEAN,
      queryHandle : Streams \cup {None}, latest : Streams \cup {None},
      pendingPermissions : SUBSET Streams ]

StreamRecord ==
    [ state : {"none", "live", "aborted", "ended"}, owner : Ids \cup {None},
      inputClosed : BOOLEAN, call : {"none", "waiting", "settled"} ]

\* The types of what the sessions and the streams are made of.
CoreType ==
    /\ sessions \in [Ids -> SessionRecord] /\ nextId \in 1 .. MaxIds + 1
    /\ stream \in [Streams -> StreamRecord] /\ nextStream \in 1 .. MaxStreams + 1
    /\ touched \subseteq Ids

\* The types of what the commands, discovery and the terminals know.
EnvType ==
    /\ awaiting \subseteq Awaiting
    /\ scan \in [Processes -> ClaudeIds \cup {None}]
    /\ process \in [Terminals -> ClaudeIds \cup {NotRunning, Exited}]

\* Ids and stream numbers are given out in order; a session made has a
\* transcript, a stream made has an owner, and the controllers a session holds
\* are those of a stream of its own.
FreshSessions ==
    \A s \in Ids : IF s < nextId THEN sessions[s].claude \in ClaudeIds
                                 ELSE sessions[s] = NoSession
FreshStreams ==
    \A k \in Streams : IF k < nextStream
        THEN stream[k].owner \in Ids /\ stream[k].owner < nextId
        ELSE stream[k] = NoStreamYet
OwnLatest ==
    \A s \in Ids : sessions[s].latest # None => stream[sessions[s].latest].owner = s
FreshInv == FreshSessions /\ FreshStreams /\ OwnLatest

\* A query that runs is the one its session holds.  In a session that is gone it
\* is aborted; in one that is there nothing else is true of the session.
HoldsQuery(s, k) ==
    /\ sessions[s].latest = k
    /\ sessions[s].tracked =>
         /\ sessions[s].queryHandle = k /\ ~stream[k].inputClosed
         /\ ~sessions[s].isObserved /\ ~sessions[s].history
    /\ ~sessions[s].tracked => stream[k].state = "aborted"

\* What is true of a session that no emergency abort has touched.
SessionOk(s) ==
    /\ \A k \in Streams : stream[k].owner = s =>
         /\ Live(k) => HoldsQuery(s, k)
         /\ stream[k].call = "waiting" =>
              sessions[s].tracked /\ k \in sessions[s].pendingPermissions
    /\ sessions[s].observer <=> (sessions[s].tracked /\ sessions[s].isObserved)

Core == CoreType /\ FreshInv /\ \A s \in Ids \ touched : SessionOk(s)
IInv == EnvType /\ Core

coreVars == << sessions, nextId, stream, nextStream, touched >>

\* What the methods return is a session again.
LEMMA SessionRecords ==
    ASSUME NEW r \in SessionRecord
    PROVE  /\ Historified(r) \in SessionRecord
           /\ Cleaned(r) \in SessionRecord
           /\ Deleted(r) \in SessionRecord
           /\ \A h \in BOOLEAN : WithHistory(r, h) \in SessionRecord
<1>1. Historified(r) \in SessionRecord
  BY DEF Historified, SessionRecord
<1>2. Cleaned(r) \in SessionRecord
  BY DEF Cleaned, SessionRecord
<1>3. Deleted(r) \in SessionRecord
  BY DEF Deleted, SessionRecord
<1>4. \A h \in BOOLEAN : WithHistory(r, h) \in SessionRecord
  BY DEF WithHistory, SessionRecord
<1> QED BY <1>1, <1>2, <1>3, <1>4

\* A session in the map was made, and so was a query that is more than
\* NoStreamYet, by a session that was made.
Begun(k) == stream[k].owner # None \/ stream[k].state # "none" \/ stream[k].call # "none"
LEMMA MadeFacts ==
    ASSUME CoreType, FreshInv
    PROVE  /\ \A s \in Ids : sessions[s].tracked => s < nextId
           /\ \A k \in Streams : Begun(k) =>
                k < nextStream /\ stream[k].owner \in Ids /\ stream[k].owner < nextId
<1>1. \A s \in Ids : sessions[s].tracked => s < nextId
  BY DEF FreshInv, FreshSessions, NoSession
<1>2. \A k \in Streams : Begun(k) => k < nextStream
  BY DEF FreshInv, FreshStreams, NoStreamYet, Begun
<1> QED BY <1>1, <1>2 DEF FreshInv, FreshStreams

\* The controllers a session holds are those of a query that was made.
LEMMA LatestFacts ==
    ASSUME CoreType, FreshInv
    PROVE  \A s \in Ids : sessions[s].latest # None =>
             sessions[s].latest \in Streams /\ sessions[s].latest # nextStream
<1> SUFFICES ASSUME NEW s \in Ids, sessions[s].latest # None
             PROVE  sessions[s].latest \in Streams /\ sessions[s].latest # nextStream
  OBVIOUS
<1>1. sessions[s].latest \in Streams
  BY DEF CoreType, SessionRecord
<1>2. stream[sessions[s].latest].owner = s
  BY DEF FreshInv, OwnLatest
<1>3. sessions[s].latest < nextStream
  BY <1>1, <1>2, MadeFacts, SessionAssumption DEF Begun, Ids, None
<1> QED BY <1>1, <1>3, SessionAssumption DEF CoreType, Streams

\* A step that makes no session and no query, and keeps what they were made with.
LEMMA FreshKept ==
    ASSUME CoreType, FreshInv, UNCHANGED << nextId, nextStream >>,
           \A s \in Ids : /\ sessions'[s].claude = sessions[s].claude
                          /\ sessions'[s].latest = sessions[s].latest
                          /\ s < nextId \/ sessions'[s] = sessions[s],
           \A k \in Streams : /\ stream'[k].owner = stream[k].owner
                              /\ k < nextStream \/ stream'[k] = stream[k]
    PROVE  FreshInv'
<1>1. FreshSessions'
  BY DEF FreshInv, FreshSessions
<1>2. FreshStreams'
  BY DEF FreshInv, FreshStreams
<1>3. OwnLatest'
  BY DEF FreshInv, OwnLatest, CoreType, SessionRecord, None
<1> QED BY <1>1, <1>2, <1>3 DEF FreshInv

\* A step that changes only the sessions S and their queries.
LEMMA LocalStep ==
    ASSUME Core, NEW S \in SUBSET Ids, CoreType', FreshInv', touched \subseteq touched',
           \A s \in Ids \ S : sessions'[s] = sessions[s],
           \A k \in Streams : stream'[k] = stream[k] \/ stream'[k].owner \in S,
           \A s \in S \ touched' : SessionOk(s)'
    PROVE  Core'
<1> SUFFICES ASSUME NEW s \in Ids \ touched', s \notin S PROVE SessionOk(s)'
  BY DEF Core
<1>1. SessionOk(s) /\ sessions'[s] = sessions[s]
  BY DEF Core
<1>2. \A k \in Streams : stream'[k].owner = s => stream'[k] = stream[k]
  OBVIOUS
<1> QED BY <1>1, <1>2 DEF SessionOk, HoldsQuery, Live

\* The same for a step that makes no session and no query.
LEMMA OldStep ==
    ASSUME Core, NEW S \in SUBSET Ids, CoreType', UNCHANGED << nextId, nextStream >>,
           touched \subseteq touched',
           \A s \in Ids \ S : sessions'[s] = sessions[s],
           \A s \in S : /\ s < nextId /\ sessions'[s].claude = sessions[s].claude
                        /\ sessions'[s].latest = sessions[s].latest,
           \A k \in Streams : /\ stream'[k].owner = stream[k].owner
                              /\ stream'[k] = stream[k] \/ stream[k].owner \in S,
           \A s \in S \ touched' : SessionOk(s)'
    PROVE  Core'
<1>1. \A k \in Streams : stream[k].owner \in S => k < nextStream
  BY MadeFacts DEF Core, Begun, Ids, None
<1>2. \A s \in Ids : /\ sessions'[s].claude = sessions[s].claude
                     /\ sessions'[s].latest = sessions[s].latest
                     /\ s < nextId \/ sessions'[s] = sessions[s]
  OBVIOUS
<1>3. \A k \in Streams : /\ stream'[k].owner = stream[k].owner
                         /\ k < nextStream \/ stream'[k] = stream[k]
  BY <1>1
<1>4. FreshInv'
  BY <1>2, <1>3, FreshKept DEF Core
<1>5. \A k \in Streams : stream'[k] = stream[k] \/ stream'[k].owner \in S
  OBVIOUS
<1> QED BY <1>4, <1>5, LocalStep

\* The same for a step of one session.
LEMMA OneSessionStep ==
    ASSUME Core, NEW s \in Ids, s < nextId, NEW r \in SessionRecord,
           sessions' = [ sessions EXCEPT ![s] = r ],
           r.claude = sessions[s].claude, r.latest = sessions[s].latest,
           stream' \in [Streams -> StreamRecord],
           \A k \in Streams : /\ stream'[k].owner = stream[k].owner
                              /\ stream'[k] = stream[k] \/ stream[k].owner = s,
           UNCHANGED << nextId, nextStream, touched >>,
           s \notin touched => SessionOk(s)'
    PROVE  Core'
<1>1. CoreType'
  BY DEF Core, CoreType
<1>2. /\ sessions'[s] = r
      /\ \A t \in Ids \ {s} : sessions'[t] = sessions[t]
  BY DEF Core, CoreType
<1>3. \A t \in {s} : /\ t < nextId /\ sessions'[t].claude = sessions[t].claude
                     /\ sessions'[t].latest = sessions[t].latest
  BY <1>2
<1>4. \A k \in Streams : /\ stream'[k].owner = stream[k].owner
                         /\ stream'[k] = stream[k] \/ stream[k].owner \in {s}
  OBVIOUS
<1>5. {s} \in SUBSET Ids /\ \A t \in {s} \ touched' : SessionOk(t)'
  OBVIOUS
<1> QED BY <1>1, <1>2, <1>3, <1>4, <1>5, OldStep

LEMMA InitCore == Init => Core
<1> SUFFICES ASSUME Init PROVE Core
  OBVIOUS
<1> USE SessionAssumption DEF Init, Ids, Streams, None, NoSession, NoStreamYet
<1>1. CoreType
  BY DEF CoreType, SessionRecord, StreamRecord
<1>2. FreshInv
  BY DEF FreshInv, FreshSessions, FreshStreams, OwnLatest
<1>3. ASSUME NEW s \in Ids PROVE SessionOk(s)
  BY DEF SessionOk, Live
<1> QED BY <1>1, <1>2, <1>3 DEF Core

\* Observed sessions become history: they have no query.
LEMMA HistorifyCore ==
    ASSUME Core, NEW S \in SUBSET Ids,
           \A s \in S : sessions[s].tracked /\ sessions[s].isObserved,
           sessions' = [ s \in Ids |->
               IF s \in S THEN Historified(sessions[s]) ELSE sessions[s] ],
           UNCHANGED << nextId, stream, nextStream, touched >>
    PROVE  Core'
<1> USE DEF Core
<1>1. CoreType'
  BY SessionRecords DEF CoreType
<1>2. \A s \in S : /\ sessions'[s].claude = sessions[s].claude
                   /\ sessions'[s].latest = sessions[s].latest
                   /\ sessions'[s].tracked = sessions[s].tracked
                   /\ sessions'[s].pendingPermissions = sessions[s].pendingPermissions
                   /\ ~sessions'[s].isObserved /\ ~sessions'[s].observer
  BY DEF CoreType, SessionRecord, Historified
<1>3. ASSUME NEW s \in S \ touched' PROVE SessionOk(s)'
  <2>1. SessionOk(s)
    OBVIOUS
  <2> QED BY <1>2, <2>1 DEF SessionOk, HoldsQuery, Live
<1> QED BY <1>1, <1>2, <1>3, MadeFacts, OldStep

\* A query that was just started, by session s.
Started(s) == [ NoStreamYet EXCEPT !.state = "live", !.owner = s ]
LEMMA StartedFacts ==
    ASSUME NEW s \in Ids
    PROVE  /\ Started(s) \in StreamRecord
           /\ Started(s).state = "live" /\ Started(s).owner = s
           /\ ~Started(s).inputClosed /\ Started(s).call = "none"
BY DEF Started, NoStreamYet, StreamRecord

\* createSession and resumeSession, after the observers S have become history.
LEMMA StartCore ==
    ASSUME Core, NEW S \in SUBSET Ids,
           \A s \in S : sessions[s].tracked /\ sessions[s].isObserved,
           NEW ss, ss = [ s \in Ids |->
               IF s \in S THEN Historified(sessions[s]) ELSE sessions[s] ],
           NEW map, NEW c \in ClaudeIds, StartSession(ss, map, c), UNCHANGED touched
    PROVE  Core'
<1> USE SessionAssumption DEF Core
<1>1. /\ nextId \in Ids /\ nextStream \in Streams
      /\ nextId' = nextId + 1 /\ nextStream' = nextStream + 1
  BY DEF StartSession, Spawn, CoreType, Ids, Streams
<1>2. sessions' = [ s \in Ids |->
          IF s = nextId THEN Controller(c)
          ELSE IF s \in S THEN Historified(sessions[s]) ELSE sessions[s] ]
  BY <1>1 DEF StartSession
<1>3. stream' = [ k \in Streams |-> IF k = nextStream THEN Started(nextId) ELSE stream[k] ]
  <2>1. stream \in [Streams -> StreamRecord]
    BY DEF CoreType
  <2>2. stream' = [ stream EXCEPT ![nextStream] = Started(nextId) ]
    BY DEF StartSession, Spawn, Started
  <2> QED BY <1>1, <2>1, <2>2
<1>4. \A s \in S : /\ s # nextId
                   /\ sessions'[s].claude = sessions[s].claude
                   /\ sessions'[s].latest = sessions[s].latest
                   /\ sessions'[s].tracked = sessions[s].tracked
                   /\ sessions'[s].pendingPermissions = sessions[s].pendingPermissions
                   /\ ~sessions'[s].isObserved /\ ~sessions'[s].observer
  <2>1. \A s \in S : s # nextId
    BY MadeFacts DEF CoreType
  <2> SUFFICES ASSUME NEW s \in S
               PROVE  /\ sessions'[s].claude = sessions[s].claude
                      /\ sessions'[s].latest = sessions[s].latest
                      /\ sessions'[s].tracked = sessions[s].tracked
                      /\ sessions'[s].pendingPermissions = sessions[s].pendingPermissions
                      /\ ~sessions'[s].isObserved /\ ~sessions'[s].observer
    BY <2>1
  <2>2. s \in Ids /\ sessions'[s] = Historified(sessions[s])
    BY <1>2, <2>1 DEF CoreType
  <2>3. sessions[s] \in SessionRecord
    BY <2>2 DEF CoreType
  <2> DEFINE r == sessions[s]
             h == Historified(r)
  <2>4. /\ h.claude = r.claude /\ h.latest = r.latest /\ h.tracked = r.tracked
        /\ h.pendingPermissions = r.pendingPermissions /\ ~h.isObserved /\ ~h.observer
    <3> HIDE DEF r
    <3> QED BY <2>3 DEF SessionRecord, Historified, r
  <2> HIDE DEF h
  <2> QED BY <2>2, <2>4 DEF h
<1>5. /\ sessions'[nextId] = Controller(c) /\ Controller(c) \in SessionRecord
      /\ Controller(c).tracked /\ Controller(c).claude = c
      /\ Controller(c).latest = nextStream /\ Controller(c).queryHandle = nextStream
      /\ ~Controller(c).isObserved /\ ~Controller(c).observer /\ ~Controller(c).history
  BY <1>1, <1>2 DEF Controller, NoSession, SessionRecord
<1>6. /\ stream'[nextStream] = Started(nextId)
      /\ \A k \in Streams \ {nextStream} : stream'[k] = stream[k]
  BY <1>1, <1>3
<1>7. \A k \in Streams : stream[k].owner # nextId
  BY <1>1, MadeFacts DEF CoreType, Begun, Ids, None
<1>8. CoreType'
  BY <1>1, <1>2, <1>3, <1>5, StartedFacts, SessionRecords DEF CoreType, Ids, Streams
<1>9. FreshInv'
  <2>1. FreshSessions'
    <3>1. nextId \in Int /\ Ids \subseteq Int
      BY <1>1 DEF Ids
    <3>2. \A s \in S : s < nextId
      BY MadeFacts
    <3>3. \A s \in Ids : s > nextId => s \notin S /\ sessions'[s] = sessions[s]
      BY <1>2, <3>1, <3>2
    <3>4. \A s \in Ids : s < nextId => sessions'[s].claude = sessions[s].claude
      BY <1>2, <1>4, <3>1
    <3> QED BY <1>1, <1>5, <3>1, <3>3, <3>4 DEF FreshInv, FreshSessions
  <2>2. FreshStreams'
    BY <1>1, <1>6, StartedFacts DEF FreshInv, FreshStreams, Ids, Streams
  <2>3. OwnLatest'
    <3>2. \A s \in Ids : s # nextId => sessions'[s].latest = sessions[s].latest
      BY <1>2, <1>4
    <3>3. \A s \in Ids : s # nextId /\ sessions[s].latest # None =>
              stream'[sessions[s].latest].owner = s
      BY <1>6, LatestFacts DEF FreshInv, OwnLatest
    <3> QED BY <1>1, <1>5, <1>6, <3>2, <3>3, StartedFacts DEF OwnLatest
  <2> QED BY <2>1, <2>2, <2>3 DEF FreshInv
<1>10. ASSUME NEW s \in {nextId} PROVE SessionOk(s)'
  <2>1. ASSUME NEW k \in Streams, stream'[k].owner = s PROVE k = nextStream
    BY <1>6, <1>7, <2>1
  <2> QED BY <1>1, <1>5, <1>6, <2>1, StartedFacts DEF SessionOk, HoldsQuery
<1>11. ASSUME NEW s \in S \ touched' PROVE SessionOk(s)'
  <2>1. SessionOk(s)
    OBVIOUS
  <2>2. \A k \in Streams : stream'[k].owner = s => stream'[k] = stream[k]
    BY <1>1, <1>4, <1>6, StartedFacts
  <2> QED BY <1>4, <2>1, <2>2 DEF SessionOk, HoldsQuery, Live
<1>12. \A s \in Ids \ (S \cup {nextId}) : sessions'[s] = sessions[s]
  BY <1>2
<1>13. \A k \in Streams : stream'[k] = stream[k] \/ stream'[k].owner \in S \cup {nextId}
  BY <1>1, <1>6, StartedFacts
<1>14. S \cup {nextId} \in SUBSET Ids
  BY <1>1
<1>15. \A s \in (S \cup {nextId}) \ touched' : SessionOk(s)'
  BY <1>10, <1>11
<1> HIDE DEF Core
<1> QED BY <1>8, <1>9, <1>12, <1>13, <1>14, <1>15, LocalStep

LEMMA StartNewCore ==
    ASSUME Core, NEW map, StartSession(sessions, map, nextId), UNCHANGED touched
    PROVE  Core'
<1>1. PICK S \in SUBSET Ids : S = {}
  OBVIOUS
<1>2. PICK ss : ss = sessions
  OBVIOUS
<1>3. ss = [ s \in Ids |-> IF s \in S THEN Historified(sessions[s]) ELSE sessions[s] ]
  BY <1>1, <1>2 DEF Core, CoreType
<1>4. PICK c \in ClaudeIds : c = nextId
  BY SessionAssumption DEF StartSession, Core, CoreType, ClaudeIds, Ids
<1>5. StartSession(ss, map, c)
  BY <1>2, <1>4
<1> QED BY <1>1, <1>3, <1>5, StartCore

\* A message to a controlled session: the query it starts is the only one.
LEMMA SendMessageCore ==
    ASSUME Core, NEW c, SendMessage(c)
    PROVE  Core'
<1> USE SessionAssumption
<1>1. UNCHANGED << nextId, touched >>
  BY DEF SendMessage, abortVars
<1>2. PICK s \in Ids :
        /\ sessions[s].tracked /\ ~sessions[s].isObserved
        /\ IF QueryEnded(s)
           THEN /\ Spawn(s)
                /\ sessions' = [ sessions EXCEPT ![s].history = FALSE,
                                   ![s].queryHandle = nextStream, ![s].latest = nextStream ]
           ELSE /\ sessions' = [ sessions EXCEPT ![s].history = FALSE ]
                /\ UNCHANGED << stream, nextStream >>
  BY DEF SendMessage, ResolveInternalSessionId, Tracked
<1>3. s < nextId
  BY <1>2, MadeFacts DEF Core
<1>4. ASSUME s \notin touched PROVE SessionOk(s)
  BY <1>4 DEF Core
<1>5. CASE ~QueryEnded(s)
  <2>1. sessions' = [ sessions EXCEPT ![s].history = FALSE ] /\ UNCHANGED << stream, nextStream >>
    BY <1>2, <1>5
  <2> DEFINE r == [ sessions[s] EXCEPT !.history = FALSE ]
  <2>2. /\ r \in SessionRecord /\ ~r.history
        /\ r.claude = sessions[s].claude /\ r.latest = sessions[s].latest
        /\ r.tracked = sessions[s].tracked /\ r.queryHandle = sessions[s].queryHandle
        /\ r.pendingPermissions = sessions[s].pendingPermissions
        /\ r.isObserved = sessions[s].isObserved /\ r.observer = sessions[s].observer
    BY DEF Core, CoreType, SessionRecord
  <2>3. sessions' = [ sessions EXCEPT ![s] = r ] /\ sessions'[s] = r
    BY <2>1 DEF Core, CoreType
  <2> HIDE DEF r
  <2>4. ASSUME s \notin touched PROVE SessionOk(s)'
    BY <1>1, <1>4, <2>1, <2>2, <2>3, <2>4 DEF SessionOk, HoldsQuery, Live
  <2> QED BY <1>1, <1>3, <2>1, <2>2, <2>3, <2>4, OneSessionStep DEF Core, CoreType
<1>6. CASE QueryEnded(s)
  <2> DEFINE r == [ sessions[s] EXCEPT !.history = FALSE, !.queryHandle = nextStream,
                                       !.latest = nextStream ]
  <2>1. /\ nextStream \in Streams /\ nextStream' = nextStream + 1
        /\ sessions' = [ sessions EXCEPT ![s] = r ]
    <3>1. nextStream <= MaxStreams /\ nextStream' = nextStream + 1
      BY <1>2, <1>6 DEF Spawn
    <3>2. sessions' = [ sessions EXCEPT ![s].history = FALSE,
                          ![s].queryHandle = nextStream, ![s].latest = nextStream ]
      BY <1>2, <1>6
    <3>3. nextStream \in Streams
      BY <3>1 DEF Core, CoreType, Streams
    <3> QED BY <3>1, <3>2, <3>3 DEF Core, CoreType
  <2>2. stream' = [ k \in Streams |-> IF k = nextStream THEN Started(s) ELSE stream[k] ]
    BY <1>2, <1>6 DEF Spawn, Core, CoreType, Started
  <2>3. CoreType'
    <3>1. r \in SessionRecord
      BY <2>1 DEF Core, CoreType, SessionRecord
    <3>2. sessions' \in [Ids -> SessionRecord]
      BY <2>1, <3>1 DEF Core, CoreType
    <3> QED BY <1>1, <2>1, <2>2, <3>2, StartedFacts DEF Core, CoreType, Streams
  <2>4. /\ sessions'[s].claude = sessions[s].claude
        /\ sessions'[s].latest = nextStream /\ sessions'[s].queryHandle = nextStream
        /\ sessions'[s].tracked
        /\ sessions'[s].pendingPermissions = sessions[s].pendingPermissions
        /\ ~sessions'[s].isObserved /\ sessions'[s].observer = sessions[s].observer
        /\ ~sessions'[s].history
        /\ \A t \in Ids \ {s} : sessions'[t] = sessions[t]
    BY <1>2, <2>1 DEF Core, CoreType, SessionRecord
  <2>5. /\ stream'[nextStream] = Started(s)
        /\ \A k \in Streams \ {nextStream} : stream'[k] = stream[k]
    BY <2>1, <2>2
  <2>6. FreshInv'
    <3>1. FreshSessions'
      BY <1>1, <1>3, <2>4 DEF Core, FreshInv, FreshSessions
    <3>2. FreshStreams'
      BY <1>1, <1>3, <2>1, <2>5, StartedFacts DEF Core, FreshInv, FreshStreams, Streams
    <3>4. \A t \in Ids : t # s /\ sessions[t].latest # None =>
              stream'[sessions[t].latest].owner = t
      BY <2>5, LatestFacts DEF Core, FreshInv, OwnLatest
    <3>5. OwnLatest'
      BY <2>4, <2>5, <3>4, StartedFacts DEF OwnLatest
    <3> QED BY <3>1, <3>2, <3>5 DEF FreshInv
  <2>7. ASSUME s \notin touched PROVE SessionOk(s)'
    <3>1. ASSUME NEW k \in Streams \ {nextStream}, stream'[k].owner = s
          PROVE  /\ ~Live(k)'
                 /\ stream'[k].call = "waiting" => k \in sessions'[s].pendingPermissions
      <4>1. stream'[k] = stream[k] /\ stream[k].owner = s
        BY <2>5, <3>1
      <4>2. ~Live(k)
        BY <1>2, <1>4, <1>6, <2>7, <4>1 DEF SessionOk, HoldsQuery, QueryEnded, None, Streams
      <4> QED BY <1>4, <2>4, <2>7, <4>1, <4>2 DEF Live, SessionOk
    <3> QED BY <1>2, <1>4, <2>1, <2>4, <2>5, <2>7, <3>1, StartedFacts DEF SessionOk, HoldsQuery
  <2>8. \A k \in Streams : stream'[k] = stream[k] \/ stream'[k].owner \in {s}
    BY <2>5, StartedFacts
  <2> QED BY <1>1, <2>3, <2>4, <2>6, <2>7, <2>8, LocalStep
<1> QED BY <1>5, <1>6

\* The streams of removed sessions: no promise of theirs waits.
LEMMA CleanedStreamsFacts ==
    ASSUME CoreType, FreshInv, NEW S \in SUBSET Ids
    PROVE  /\ CleanedStreams(S) \in [Streams -> StreamRecord]
           /\ \A k \in Streams :
                /\ CleanedStreams(S)[k].owner = stream[k].owner
                /\ CleanedStreams(S)[k].state = stream[k].state
                /\ stream[k].owner \in S => CleanedStreams(S)[k].call # "waiting"
                /\ stream[k].owner \notin S => CleanedStreams(S)[k] = stream[k]
<1>1. CleanedStreams(S) \in [Streams -> StreamRecord]
  BY DEF CleanedStreams, CoreType, StreamRecord
<1>2. ASSUME NEW k \in Streams
      PROVE  /\ CleanedStreams(S)[k].owner = stream[k].owner
             /\ CleanedStreams(S)[k].state = stream[k].state
             /\ stream[k].owner \in S => CleanedStreams(S)[k].call # "waiting"
  BY DEF CleanedStreams, CoreType, StreamRecord
<1>3. ASSUME NEW k \in Streams, stream[k].owner \notin S
      PROVE  CleanedStreams(S)[k] = stream[k]
  <2>1. \A s \in S : sessions[s].latest # k
    BY <1>3, SessionAssumption DEF FreshInv, OwnLatest, None, Streams
  <2> QED BY <1>3, <2>1 DEF CleanedStreams, CoreType, StreamRecord
<1> QED BY <1>1, <1>2, <1>3

\* Aborted queries: the ones the sessions S hold.
LEMMA AbortedFacts ==
    ASSUME CoreType, FreshInv, NEW S \in SUBSET Ids,
           NEW st \in [Streams -> StreamRecord],
           \A k \in Streams : st[k].owner = stream[k].owner
    PROVE  /\ Aborted(st, S) \in [Streams -> StreamRecord]
           /\ \A k \in Streams :
                /\ Aborted(st, S)[k].owner = st[k].owner
                /\ Aborted(st, S)[k].call = st[k].call
                /\ Aborted(st, S)[k].inputClosed = st[k].inputClosed
                /\ Aborted(st, S)[k].state \in {"live", "aborted"} <=> st[k].state \in {"live", "aborted"}
                /\ st[k].state = "aborted" => Aborted(st, S)[k].state = "aborted"
                /\ st[k].owner \notin S => Aborted(st, S)[k] = st[k]
                /\ (\E s \in S : sessions[s].latest = k) => Aborted(st, S)[k].state # "live"
<1>1. Aborted(st, S) \in [Streams -> StreamRecord]
  BY DEF Aborted, StreamRecord
<1>2. ASSUME NEW k \in Streams
      PROVE  /\ Aborted(st, S)[k].owner = st[k].owner
             /\ Aborted(st, S)[k].call = st[k].call
             /\ Aborted(st, S)[k].inputClosed = st[k].inputClosed
             /\ Aborted(st, S)[k].state \in {"live", "aborted"} <=> st[k].state \in {"live", "aborted"}
             /\ st[k].state = "aborted" => Aborted(st, S)[k].state = "aborted"
             /\ (\E s \in S : sessions[s].latest = k) => Aborted(st, S)[k].state # "live"
  BY DEF Aborted, StreamRecord
<1>3. ASSUME NEW k \in Streams, st[k].owner \notin S PROVE Aborted(st, S)[k] = st[k]
  <2>1. \A s \in S : sessions[s].latest # k
    BY <1>3, SessionAssumption DEF FreshInv, OwnLatest, None, Streams
  <2> QED BY <1>3, <2>1 DEF Aborted
<1> QED BY <1>1, <1>2, <1>3

LEMMA OneAbortedFacts ==
    ASSUME CoreType, FreshInv, NEW s \in Ids, NEW st \in [Streams -> StreamRecord],
           \A k \in Streams : st[k].owner = stream[k].owner
    PROVE  /\ Aborted(st, {s}) \in [Streams -> StreamRecord]
           /\ \A k \in Streams :
                /\ Aborted(st, {s})[k].owner = st[k].owner
                /\ Aborted(st, {s})[k].call = st[k].call
                /\ Aborted(st, {s})[k].inputClosed = st[k].inputClosed
                /\ Aborted(st, {s})[k].state \in {"live", "aborted"} <=> st[k].state \in {"live", "aborted"}
                /\ st[k].state = "aborted" => Aborted(st, {s})[k].state = "aborted"
                /\ st[k].owner # s => Aborted(st, {s})[k] = st[k]
                /\ sessions[s].latest = k => Aborted(st, {s})[k].state # "live"
<1>1. {s} \in SUBSET Ids
  OBVIOUS
<1> QED BY <1>1, AbortedFacts

\* The observers that observeSession evicts had no query.
LEMMA ObserveCore ==
    ASSUME Core, NEW c \in ClaudeIds, NEW p \in Processes, ObserveSession(c, p),
           UNCHANGED << nextStream, touched >>
    PROVE  Core'
<1> DEFINE S == { s \in Tracked : sessions[s].claude = c /\ sessions[s].isObserved }
<1>1. S \in SUBSET Ids /\ \A s \in S : sessions[s].tracked /\ sessions[s].isObserved
  BY DEF Tracked
<1>2. /\ nextId \in Ids /\ nextId' = nextId + 1
      /\ sessions' = [ s \in Ids |->
             IF s = nextId THEN Observer(c, p)
             ELSE IF s \in S THEN Deleted(Cleaned(sessions[s])) ELSE sessions[s] ]
      /\ stream' = CleanedStreams(S)
  BY SessionAssumption DEF ObserveSession, Core, CoreType, Ids
<1> HIDE DEF S
<1>3. /\ Observer(c, p) \in SessionRecord /\ Observer(c, p).claude = c
      /\ Observer(c, p).latest = None /\ Observer(c, p).tracked
      /\ Observer(c, p).isObserved /\ Observer(c, p).observer
  BY DEF Observer, NoSession, SessionRecord
<1>4. \A s \in S : s < nextId
  BY <1>1, MadeFacts DEF Core
<1>5. \A s \in S : /\ s # nextId
                   /\ sessions'[s].claude = sessions[s].claude
                   /\ sessions'[s].latest = sessions[s].latest
                   /\ ~sessions'[s].tracked /\ ~sessions'[s].observer
  <2>1. \A s \in S : s # nextId
    BY <1>4, <1>2, SessionAssumption DEF Ids
  <2>2. \A s \in S : sessions[s] \in SessionRecord
    BY <1>1 DEF Core, CoreType
  <2> QED BY <1>1, <1>2, <2>1, <2>2 DEF SessionRecord, Deleted, Cleaned
<1>6. /\ sessions'[nextId] = Observer(c, p)
      /\ \A s \in Ids \ (S \cup {nextId}) : sessions'[s] = sessions[s]
  BY <1>2
<1>7. /\ stream' \in [Streams -> StreamRecord]
      /\ \A k \in Streams :
           /\ stream'[k].owner = stream[k].owner /\ stream'[k].state = stream[k].state
           /\ stream[k].owner \in S => stream'[k].call # "waiting"
           /\ stream[k].owner \notin S => stream'[k] = stream[k]
  BY <1>1, <1>2, CleanedStreamsFacts DEF Core
<1>8. \A k \in Streams : stream[k].owner # nextId
  BY <1>2, MadeFacts, SessionAssumption DEF Core, CoreType, Begun, Ids, None
<1>9. CoreType'
  BY <1>2, <1>3, <1>7, SessionRecords, SessionAssumption DEF Core, CoreType, Ids
<1>10. FreshInv'
  <2>1. FreshSessions'
    <3>1. nextId \in Int /\ Ids \subseteq Int
      BY <1>2 DEF Ids
    <3>2. \A s \in Ids : s > nextId => s \notin S /\ sessions'[s] = sessions[s]
      <4>1. \A s \in Ids : s > nextId => s \notin S /\ s # nextId
        BY <1>4, <3>1
      <4> QED BY <4>1, <1>6
    <3>3. \A s \in Ids : s < nextId => sessions'[s].claude = sessions[s].claude
      BY <1>5, <1>6, <3>1
    <3> QED BY <1>2, <1>3, <1>6, <3>1, <3>2, <3>3 DEF Core, FreshInv, FreshSessions
  <2>2. FreshStreams'
    <3>1. \A k \in Streams : k < nextStream \/ stream'[k] = stream[k]
      BY <1>1, <1>7 DEF Core, FreshInv, FreshStreams, NoStreamYet, Ids, None
    <3> QED BY <1>2, <1>7, <3>1 DEF Core, FreshInv, FreshStreams, Ids
  <2>3. OwnLatest'
    <3>1. \A s \in Ids : sessions'[s].latest # None =>
              s # nextId /\ sessions'[s].latest = sessions[s].latest
      BY <1>3, <1>5, <1>6
    <3>2. \A s \in Ids : sessions[s].latest # None =>
              stream'[sessions[s].latest].owner = s
      BY <1>7, LatestFacts DEF Core, FreshInv, OwnLatest
    <3> QED BY <3>1, <3>2 DEF OwnLatest
  <2> QED BY <2>1, <2>2, <2>3 DEF FreshInv
<1>11. ASSUME NEW s \in S, s \notin touched PROVE SessionOk(s)'
  <2>1. SessionOk(s) /\ sessions[s].tracked /\ sessions[s].isObserved
    BY <1>1, <1>11 DEF Core
  <2>2. \A k \in Streams : stream[k].owner = s => ~Live(k)
    BY <2>1 DEF SessionOk, HoldsQuery
  <2> QED BY <1>5, <1>7, <2>2 DEF SessionOk, Live
<1>12. ASSUME NEW s \in {nextId} PROVE SessionOk(s)'
  BY <1>2, <1>3, <1>6, <1>7, <1>8 DEF SessionOk
<1>13. S \cup {nextId} \in SUBSET Ids
  BY <1>1, <1>2
<1>14. \A k \in Streams : stream'[k] = stream[k] \/ stream'[k].owner \in S \cup {nextId}
  BY <1>7
<1>15. \A s \in (S \cup {nextId}) \ touched' : SessionOk(s)'
  BY <1>11, <1>12
<1> QED BY <1>6, <1>9, <1>10, <1>13, <1>14, <1>15, LocalStep

\* A killed session's query is aborted before the session leaves the map.
LEMMA KillCore ==
    ASSUME Core, NEW c, KillSession(c)
    PROVE  Core'
<1>1. UNCHANGED << nextId, nextStream, touched >>
  BY DEF KillSession, abortVars
<1>2. PICK s \in Ids :
        /\ sessions[s].tracked
        /\ sessions' = [ sessions EXCEPT ![s] = Deleted(Cleaned(@)) ]
        /\ stream' = IF sessions[s].isObserved THEN CleanedStreams({s})
                     ELSE Aborted(CleanedStreams({s}), {s})
  BY DEF KillSession, ResolveInternalSessionId, Tracked
<1> DEFINE r == Deleted(Cleaned(sessions[s]))
<1>3. /\ r \in SessionRecord /\ ~r.tracked /\ ~r.observer
      /\ r.claude = sessions[s].claude /\ r.latest = sessions[s].latest
  <2>1. sessions[s] \in SessionRecord
    BY DEF Core, CoreType
  <2> QED BY <2>1 DEF SessionRecord, Deleted, Cleaned
<1>4. sessions' = [ sessions EXCEPT ![s] = r ] /\ sessions'[s] = r
  BY <1>2 DEF Core, CoreType
<1> HIDE DEF r
<1>5. /\ CleanedStreams({s}) \in [Streams -> StreamRecord]
      /\ \A k \in Streams :
           /\ CleanedStreams({s})[k].owner = stream[k].owner
           /\ CleanedStreams({s})[k].state = stream[k].state
           /\ stream[k].owner = s => CleanedStreams({s})[k].call # "waiting"
           /\ stream[k].owner # s => CleanedStreams({s})[k] = stream[k]
  BY CleanedStreamsFacts DEF Core
<1>6. /\ Aborted(CleanedStreams({s}), {s}) \in [Streams -> StreamRecord]
      /\ \A k \in Streams :
           LET a == Aborted(CleanedStreams({s}), {s})[k]
           IN  /\ a.owner = stream[k].owner
               /\ a.state \in {"live", "aborted"} => Live(k)
               /\ stream[k].owner = s => a.call # "waiting"
               /\ stream[k].owner # s => a = stream[k]
               /\ sessions[s].latest = k => a.state # "live"
  <2>1. CoreType /\ FreshInv
    BY DEF Core
  <2> DEFINE st == CleanedStreams({s})
  <2>2. st \in [Streams -> StreamRecord] /\ \A k \in Streams : st[k].owner = stream[k].owner
    BY <1>5
  <2>3. /\ Aborted(st, {s}) \in [Streams -> StreamRecord]
        /\ \A k \in Streams :
             /\ Aborted(st, {s})[k].owner = st[k].owner
             /\ Aborted(st, {s})[k].call = st[k].call
             /\ Aborted(st, {s})[k].state \in {"live", "aborted"} <=> st[k].state \in {"live", "aborted"}
             /\ st[k].owner # s => Aborted(st, {s})[k] = st[k]
             /\ sessions[s].latest = k => Aborted(st, {s})[k].state # "live"
    <3> HIDE DEF st
    <3> QED BY <2>1, <2>2, OneAbortedFacts
  <2> QED BY <1>5, <2>3 DEF Live
<1>7. /\ stream' \in [Streams -> StreamRecord]
      /\ \A k \in Streams :
           /\ stream'[k].owner = stream[k].owner
           /\ Live(k)' => Live(k)
           /\ stream[k].owner = s => stream'[k].call # "waiting"
           /\ stream[k].owner # s => stream'[k] = stream[k]
           /\ ~sessions[s].isObserved /\ sessions[s].latest = k => stream'[k].state # "live"
  BY <1>2, <1>5, <1>6 DEF Live
<1>8. ASSUME s \notin touched PROVE SessionOk(s)'
  <2>1. SessionOk(s)
    BY <1>8 DEF Core
  <2>2. ASSUME NEW k \in Streams, stream'[k].owner = s, Live(k)' PROVE HoldsQuery(s, k)'
    <3>1. Live(k) /\ stream[k].owner = s /\ HoldsQuery(s, k)
      BY <1>7, <2>1, <2>2 DEF SessionOk
    <3>2. stream'[k].state = "aborted"
      BY <1>2, <1>7, <2>2, <3>1 DEF HoldsQuery, Live
    <3> QED BY <1>3, <1>4, <3>1, <3>2 DEF HoldsQuery
  <2> QED BY <1>3, <1>4, <1>7, <2>2 DEF SessionOk
<1>9. s < nextId
  BY <1>2, MadeFacts DEF Core
<1> QED BY <1>1, <1>3, <1>4, <1>7, <1>8, <1>9, OneSessionStep

\* The abort controller aborted after a failed interrupt is the session's own.
LEMMA InterruptFailsCore ==
    ASSUME Core, NEW s \in Ids, InterruptFails(s)
    PROVE  Core'
<1>1. UNCHANGED << sessions, nextId, nextStream, touched >> /\ stream' = Aborted(stream, {s})
  BY DEF InterruptFails, abortVars
<1>2. /\ stream' \in [Streams -> StreamRecord]
      /\ \A k \in Streams :
           /\ stream'[k].owner = stream[k].owner /\ stream'[k].call = stream[k].call
           /\ stream'[k].inputClosed = stream[k].inputClosed
           /\ Live(k)' <=> Live(k)
           /\ stream[k].state = "aborted" => stream'[k].state = "aborted"
           /\ stream[k].owner # s => stream'[k] = stream[k]
  <2>1. CoreType /\ FreshInv /\ stream \in [Streams -> StreamRecord]
    BY DEF Core, CoreType
  <2> QED BY <1>1, <2>1, OneAbortedFacts DEF Live
<1>3. CoreType'
  BY <1>1, <1>2 DEF Core, CoreType
<1>4. FreshInv'
  <2>1. \A k \in Streams : k < nextStream \/ stream[k].owner # s
    BY MadeFacts DEF Core, Begun, Ids, None
  <2> QED BY <1>1, <1>2, <2>1, FreshKept DEF Core
<1>5. ASSUME NEW t \in Ids \ touched PROVE SessionOk(t)'
  <2>1. SessionOk(t)
    BY DEF Core
  <2> QED BY <1>1, <1>2, <2>1 DEF SessionOk, HoldsQuery
<1> QED BY <1>1, <1>3, <1>4, <1>5 DEF Core

\* An emergency abort touches every session there is.
LEMMA EmergencyAbortCore ==
    ASSUME Core, EmergencyAbort
    PROVE  Core'
<1>1. /\ UNCHANGED << nextId, nextStream >> /\ touched' = touched \cup Tracked
      /\ sessions' = [ s \in Ids |-> IF s \in Tracked
             THEN [ Cleaned(sessions[s]) EXCEPT !.history = TRUE ] ELSE sessions[s] ]
      /\ stream' = Aborted(CleanedStreams(Tracked), Tracked)
  BY DEF EmergencyAbort
<1>2. Tracked \in SUBSET Ids /\ \A s \in Tracked : s < nextId
  BY MadeFacts DEF Tracked, Core
<1>3. /\ sessions' \in [Ids -> SessionRecord]
      /\ \A s \in Tracked : /\ sessions'[s].claude = sessions[s].claude
                            /\ sessions'[s].latest = sessions[s].latest
      /\ \A s \in Ids \ Tracked : sessions'[s] = sessions[s]
  <2>1. \A s \in Ids : sessions[s] \in SessionRecord
    BY DEF Core, CoreType
  <2>2. \A s \in Ids :
          LET r == [ Cleaned(sessions[s]) EXCEPT !.history = TRUE ]
          IN  r \in SessionRecord /\ r.claude = sessions[s].claude /\ r.latest = sessions[s].latest
    BY <2>1 DEF SessionRecord, Cleaned
  <2> QED BY <1>1, <1>2, <2>1, <2>2
<1>4. /\ stream' \in [Streams -> StreamRecord]
      /\ \A k \in Streams : /\ stream'[k].owner = stream[k].owner
                            /\ stream'[k] = stream[k] \/ stream[k].owner \in Tracked
  <2> DEFINE st == CleanedStreams(Tracked)
  <2>1. /\ st \in [Streams -> StreamRecord]
        /\ \A k \in Streams : /\ st[k].owner = stream[k].owner
                              /\ st[k] = stream[k] \/ stream[k].owner \in Tracked
    BY <1>2, CleanedStreamsFacts DEF Core
  <2>2. stream' = Aborted(st, Tracked)
    BY <1>1
  <2>3. CoreType /\ FreshInv
    BY DEF Core
  <2> HIDE DEF st
  <2> QED BY <1>2, <2>1, <2>2, <2>3, AbortedFacts
<1>5. CoreType'
  BY <1>1, <1>2, <1>3, <1>4 DEF Core, CoreType
<1>6. touched \subseteq touched' /\ Tracked \ touched' = {}
  BY <1>1
<1> QED BY <1>1, <1>2, <1>3, <1>4, <1>5, <1>6, OldStep

\* A step of the calls only: none begins to wait.
LEMMA CallsCore ==
    ASSUME Core, CoreType', UNCHANGED << nextId, nextStream, touched >>,
           NEW k \in Streams, Begun(k), stream'[k].call # "waiting",
           \A j \in Streams : /\ stream'[j].owner = stream[j].owner
                              /\ stream'[j].state = stream[j].state
                              /\ stream'[j].inputClosed = stream[j].inputClosed
                              /\ j # k => stream'[j] = stream[j],
           \A s \in Ids : /\ sessions'[s] = sessions[s] \/ sessions[s].tracked
                          /\ sessions'[s].claude = sessions[s].claude
                          /\ sessions'[s].latest = sessions[s].latest
                          /\ sessions'[s].tracked = sessions[s].tracked
                          /\ sessions'[s].queryHandle = sessions[s].queryHandle
                          /\ sessions'[s].isObserved = sessions[s].isObserved
                          /\ sessions'[s].observer = sessions[s].observer
                          /\ sessions'[s].history = sessions[s].history
                          /\ sessions[s].pendingPermissions \ {k}
                               \subseteq sessions'[s].pendingPermissions
    PROVE  Core'
<1>1. FreshInv'
  <2>1. \A j \in Streams : j < nextStream \/ stream'[j] = stream[j]
    BY MadeFacts DEF Core
  <2>2. \A s \in Ids : s < nextId \/ sessions'[s] = sessions[s]
    BY MadeFacts DEF Core
  <2> QED BY <2>1, <2>2, FreshKept DEF Core
<1>2. ASSUME NEW t \in Ids \ touched PROVE SessionOk(t)'
  <2>1. SessionOk(t)
    BY DEF Core
  <2>2. ASSUME NEW j \in Streams, stream'[j].owner = t
        PROVE  /\ Live(j)' => HoldsQuery(t, j)'
               /\ stream'[j].call = "waiting" =>
                    sessions'[t].tracked /\ j \in sessions'[t].pendingPermissions
    BY <2>1, <2>2 DEF SessionOk, HoldsQuery, Live
  <2> QED BY <2>1, <2>2 DEF SessionOk
<1> QED BY <1>1, <1>2 DEF Core

LEMMA RespondPermissionCore ==
    ASSUME Core, NEW k \in Streams, RespondPermission(k)
    PROVE  Core'
<1>1. UNCHANGED << nextId, nextStream, touched >> /\ Begun(k)
  BY DEF RespondPermission, abortVars, Begun
<1>2. PICK s \in Ids :
        /\ sessions[s].tracked
        /\ sessions' = [ sessions EXCEPT ![s].pendingPermissions = @ \ {k} ]
  BY DEF RespondPermission, ResolveInternalSessionId, Tracked
<1>3. stream' = [ stream EXCEPT ![k].call = IF @ = "waiting" THEN "settled" ELSE @ ]
  BY DEF RespondPermission
<1>4. /\ stream' \in [Streams -> StreamRecord] /\ stream'[k].call # "waiting"
      /\ \A j \in Streams : /\ stream'[j].owner = stream[j].owner
                            /\ stream'[j].state = stream[j].state
                            /\ stream'[j].inputClosed = stream[j].inputClosed
                            /\ j # k => stream'[j] = stream[j]
  BY <1>3 DEF Core, CoreType, StreamRecord
<1>5. sessions' \in [Ids -> SessionRecord]
  BY <1>2 DEF Core, CoreType, SessionRecord
<1>6. \A t \in Ids : /\ sessions'[t] = sessions[t] \/ sessions[t].tracked
                     /\ sessions'[t].claude = sessions[t].claude
                     /\ sessions'[t].latest = sessions[t].latest
                     /\ sessions'[t].tracked = sessions[t].tracked
                     /\ sessions'[t].queryHandle = sessions[t].queryHandle
                     /\ sessions'[t].isObserved = sessions[t].isObserved
                     /\ sessions'[t].observer = sessions[t].observer
                     /\ sessions'[t].history = sessions[t].history
                     /\ sessions[t].pendingPermissions \ {k}
                          \subseteq sessions'[t].pendingPermissions
  BY <1>2 DEF Core, CoreType, SessionRecord
<1>7. CoreType'
  BY <1>1, <1>4, <1>5 DEF Core, CoreType
<1> QED BY <1>1, <1>4, <1>6, <1>7, CallsCore

LEMMA SignalAbortsCore ==
    ASSUME Core, NEW k \in Streams, SignalAborts(k)
    PROVE  Core'
<1>1. UNCHANGED << sessions, nextId, nextStream, touched >> /\ Begun(k)
  BY DEF SignalAborts, abortVars, Begun
<1>2. stream' = [ stream EXCEPT ![k].call = "settled" ]
  BY DEF SignalAborts
<1>3. /\ stream' \in [Streams -> StreamRecord] /\ stream'[k].call # "waiting"
      /\ \A j \in Streams : /\ stream'[j].owner = stream[j].owner
                            /\ stream'[j].state = stream[j].state
                            /\ stream'[j].inputClosed = stream[j].inputClosed
                            /\ j # k => stream'[j] = stream[j]
  BY <1>2 DEF Core, CoreType, StreamRecord
<1>4. CoreType'
  BY <1>1, <1>3 DEF Core, CoreType
<1> QED BY <1>1, <1>3, <1>4, CallsCore

LEMMA StreamYieldsCore ==
    ASSUME Core, NEW k \in Streams, StreamYields(k)
    PROVE  Core'
<1>1. UNCHANGED << nextId, stream, nextStream, touched >> /\ Begun(k)
  BY DEF StreamYields, abortVars, Begun
<1>2. PICK s \in Ids : s = stream[k].owner /\ s < nextId
  BY <1>1, MadeFacts DEF Core
<1> DEFINE r == WithHistory(sessions[s], FALSE)
<1>3. sessions[s] \in SessionRecord
  BY DEF Core, CoreType
<1>4. /\ r \in SessionRecord /\ r.tracked = sessions[s].tracked
      /\ r.claude = sessions[s].claude /\ r.latest = sessions[s].latest
      /\ r.queryHandle = sessions[s].queryHandle
      /\ r.pendingPermissions = sessions[s].pendingPermissions
      /\ r.isObserved = sessions[s].isObserved /\ r.observer = sessions[s].observer
      /\ sessions[s].tracked => ~r.history
  BY <1>3 DEF WithHistory, SessionRecord
<1>5. sessions' = [ sessions EXCEPT ![s] = r ] /\ sessions'[s] = r
  BY <1>2 DEF StreamYields, Core, CoreType
<1> HIDE DEF r
<1>6. ASSUME s \notin touched PROVE SessionOk(s)'
  <2>1. SessionOk(s)
    BY <1>6 DEF Core
  <2> QED BY <1>1, <1>4, <1>5, <2>1 DEF SessionOk, HoldsQuery, Live
<1> QED BY <1>1, <1>2, <1>4, <1>5, <1>6, OneSessionStep DEF Core, CoreType

\* A session whose query calls canUseTool is in the map, or its query was
\* aborted and calls nothing.
LEMMA CanUseToolCore ==
    ASSUME Core, NEW k \in Streams, CanUseTool(k)
    PROVE  Core'
<1>1. /\ UNCHANGED << nextId, nextStream, touched >> /\ Begun(k)
      /\ stream[k].state = "live" /\ stream' = [ stream EXCEPT ![k].call = "waiting" ]
  BY DEF CanUseTool, abortVars, Begun
<1>2. PICK s \in Ids : s = stream[k].owner /\ s < nextId
  BY <1>1, MadeFacts DEF Core
<1> DEFINE r == IF sessions[s].tracked
                THEN [ sessions[s] EXCEPT !.history = FALSE, !.pendingPermissions = @ \cup {k} ]
                ELSE sessions[s]
<1>3. sessions[s] \in SessionRecord
  BY DEF Core, CoreType
<1>4. /\ r \in SessionRecord /\ r.tracked = sessions[s].tracked
      /\ r.claude = sessions[s].claude /\ r.latest = sessions[s].latest
      /\ r.queryHandle = sessions[s].queryHandle
      /\ sessions[s].pendingPermissions \subseteq r.pendingPermissions
      /\ r.isObserved = sessions[s].isObserved /\ r.observer = sessions[s].observer
      /\ sessions[s].tracked => ~r.history /\ k \in r.pendingPermissions
  BY <1>3 DEF SessionRecord
<1>5. sessions' = [ sessions EXCEPT ![s] = r ] /\ sessions'[s] = r
  BY <1>2, <1>3 DEF CanUseTool, Core, CoreType
<1> HIDE DEF r
<1>6. /\ stream' \in [Streams -> StreamRecord]
      /\ \A j \in Streams : /\ stream'[j].owner = stream[j].owner
                            /\ stream'[j].state = stream[j].state
                            /\ stream'[j].inputClosed = stream[j].inputClosed
                            /\ j # k => stream'[j] = stream[j]
  BY <1>1 DEF Core, CoreType, StreamRecord
<1>7. ASSUME s \notin touched PROVE SessionOk(s)'
  <2>1. SessionOk(s)
    BY <1>7 DEF Core
  <2>2. sessions[s].tracked
    BY <1>1, <1>2, <2>1 DEF SessionOk, HoldsQuery, Live
  <2>3. ASSUME NEW j \in Streams, stream'[j].owner = s
        PROVE  /\ Live(j)' => HoldsQuery(s, j)'
               /\ stream'[j].call = "waiting" => j \in r.pendingPermissions
    BY <1>4, <1>5, <1>6, <2>1, <2>2, <2>3 DEF SessionOk, HoldsQuery, Live
  <2> QED BY <1>4, <1>5, <2>1, <2>2, <2>3 DEF SessionOk
<1> QED BY <1>1, <1>2, <1>4, <1>5, <1>6, <1>7, OneSessionStep

\* The query that ends is the one the session holds: what it clears is its own.
LEMMA QueryDoneCore ==
    ASSUME Core, NEW k \in Streams, Live(k), QueryDone(k), NEW h \in BOOLEAN,
           sessions' = [ sessions EXCEPT ![stream[k].owner] =
                           [ WithHistory(@, h) EXCEPT !.queryHandle = None ] ],
           UNCHANGED << nextId, nextStream, touched >>
    PROVE  Core'
<1>1. Begun(k)
  BY DEF Live, Begun
<1>2. PICK s \in Ids : s = stream[k].owner /\ s < nextId
  BY <1>1, MadeFacts DEF Core
<1> DEFINE r == [ WithHistory(sessions[s], h) EXCEPT !.queryHandle = None ]
<1>3. sessions[s] \in SessionRecord
  BY DEF Core, CoreType
<1>4. /\ r \in SessionRecord /\ r.tracked = sessions[s].tracked
      /\ r.claude = sessions[s].claude /\ r.latest = sessions[s].latest
      /\ r.pendingPermissions = sessions[s].pendingPermissions
      /\ r.isObserved = sessions[s].isObserved /\ r.observer = sessions[s].observer
  BY <1>3 DEF WithHistory, SessionRecord
<1>5. sessions' = [ sessions EXCEPT ![s] = r ] /\ sessions'[s] = r
  <2>1. sessions \in [Ids -> SessionRecord]
    BY DEF Core, CoreType
  <2>2. sessions' = [ sessions EXCEPT ![s] = r ]
    BY <1>2
  <2> HIDE DEF r
  <2> QED BY <2>1, <2>2
<1> HIDE DEF r
<1>6. stream' = [ j \in Streams |->
          [ stream[j] EXCEPT !.state = IF j = k THEN "ended" ELSE @,
                             !.inputClosed = @ \/ sessions[s].latest = j ] ]
  BY <1>2 DEF QueryDone
<1>7. /\ stream' \in [Streams -> StreamRecord]
      /\ \A j \in Streams : /\ stream'[j].owner = stream[j].owner
                            /\ stream'[j].call = stream[j].call
                            /\ Live(j)' => Live(j) /\ j # k
  <2>1. stream \in [Streams -> StreamRecord]
    BY DEF Core, CoreType
  <2> DEFINE put(j) == [ stream[j] EXCEPT !.state = IF j = k THEN "ended" ELSE @,
                                          !.inputClosed = @ \/ sessions[s].latest = j ]
  <2>2. ASSUME NEW j \in Streams
        PROVE  /\ put(j) \in StreamRecord
               /\ put(j).owner = stream[j].owner /\ put(j).call = stream[j].call
               /\ put(j).state = IF j = k THEN "ended" ELSE stream[j].state
    <3>1. stream[j] \in StreamRecord
      BY <2>1
    <3> QED BY <3>1 DEF StreamRecord
  <2>3. stream' = [ j \in Streams |-> put(j) ]
    BY <1>6
  <2> HIDE DEF put
  <2> QED BY <2>2, <2>3 DEF Live
<1>8. ASSUME NEW j \in Streams, stream[j].owner # s PROVE stream'[j] = stream[j]
  <2>1. sessions[s].latest # j /\ j # k
    BY <1>2, <1>8, SessionAssumption DEF Core, FreshInv, OwnLatest, None, Streams
  <2> QED BY <1>6, <2>1 DEF Core, CoreType, StreamRecord
<1>9. ASSUME s \notin touched PROVE SessionOk(s)'
  <2>1. SessionOk(s)
    BY <1>9 DEF Core
  <2>2. ASSUME NEW j \in Streams, stream'[j].owner = s PROVE ~Live(j)'
    <3>1. SUFFICES ASSUME Live(j)' PROVE FALSE
      OBVIOUS
    <3>2. Live(j) /\ j # k /\ stream[j].owner = s
      BY <1>7, <2>2, <3>1
    <3> QED BY <1>2, <2>1, <3>2 DEF SessionOk, HoldsQuery
  <2>3. ASSUME NEW j \in Streams, stream'[j].owner = s, stream'[j].call = "waiting"
        PROVE  r.tracked /\ j \in r.pendingPermissions
    BY <1>4, <1>7, <2>1, <2>3 DEF SessionOk
  <2>4. r.observer <=> (r.tracked /\ r.isObserved)
    BY <1>4, <2>1 DEF SessionOk
  <2> QED BY <1>5, <2>2, <2>3, <2>4 DEF SessionOk
<1>10. \A j \in Streams : /\ stream'[j].owner = stream[j].owner
                          /\ stream'[j] = stream[j] \/ stream[j].owner = s
  BY <1>7, <1>8
<1>11. s < nextId /\ UNCHANGED << nextId, nextStream, touched >>
  BY <1>2
<1> HIDE <1>2
<1> QED BY <1>4, <1>5, <1>7, <1>9, <1>10, <1>11, OneSessionStep

\* A session that is history has no query, so it can be observed again.
LEMMA RePromotedCore ==
    ASSUME Core, NEW s \in Tracked, NEW p \in Processes, sessions[s].history,
           sessions' = [ sessions EXCEPT ![s] = RePromoted(@, p) ],
           UNCHANGED << nextId, stream, nextStream, touched >>
    PROVE  Core'
<1>1. s \in Ids /\ sessions[s].tracked /\ s < nextId
  BY MadeFacts DEF Tracked, Core
<1> DEFINE r == RePromoted(sessions[s], p)
<1>2. /\ r \in SessionRecord /\ r.tracked /\ r.isObserved /\ r.observer
      /\ r.claude = sessions[s].claude /\ r.latest = sessions[s].latest
      /\ r.pendingPermissions = sessions[s].pendingPermissions
  BY <1>1 DEF RePromoted, SessionRecord, Core, CoreType
<1>3. sessions' = [ sessions EXCEPT ![s] = r ] /\ sessions'[s] = r
  BY <1>1 DEF Core, CoreType
<1> HIDE DEF r
<1>4. ASSUME s \notin touched PROVE SessionOk(s)'
  <2>1. SessionOk(s)
    BY <1>1, <1>4 DEF Core
  <2>2. \A k \in Streams : stream[k].owner = s => ~Live(k)
    BY <1>1, <2>1 DEF SessionOk, HoldsQuery
  <2> QED BY <1>2, <1>3, <2>1, <2>2 DEF SessionOk, Live
<1> QED BY <1>1, <1>2, <1>3, <1>4, OneSessionStep DEF Core, CoreType

(***************************************************************************)
(* The inductive invariant                                                 *)
(***************************************************************************)
LEMMA FrameCore ==
    ASSUME Core, UNCHANGED coreVars
    PROVE  Core'
<1>1. UNCHANGED << sessions, nextId, stream, nextStream, touched >>
  BY DEF coreVars
<1>2. CoreType' /\ FreshInv'
  BY <1>1 DEF Core, CoreType, FreshInv, FreshSessions, FreshStreams, OwnLatest
<1>3. ASSUME NEW s \in Ids \ touched PROVE SessionOk(s)'
  <2>1. SessionOk(s)
    BY DEF Core
  <2> QED BY <1>1, <2>1 DEF SessionOk, HoldsQuery, Live
<1> QED BY <1>1, <1>2, <1>3 DEF Core

\* The phone and the terminals name transcripts there are.
LEMMA KnownFacts ==
    ASSUME Core
    PROVE  KnownClaudeIds \subseteq ClaudeIds
<1>1. \A s \in 1 .. nextId - 1 : sessions[s].claude \in ClaudeIds
  BY SessionAssumption DEF Core, CoreType, FreshInv, FreshSessions, Ids
<1> QED BY <1>1 DEF KnownClaudeIds, ClaudeIds

LEMMA PhoneCore ==
    ASSUME IInv, Phone
    PROVE  Core'
<1>1. Core
  BY DEF IInv
<1>2. CASE NewSession
  BY <1>1, <1>2, StartNewCore DEF NewSession, abortVars
<1>3. CASE EmergencyAbort
  BY <1>1, <1>3, EmergencyAbortCore
<1>4. ASSUME NEW c \in KnownClaudeIds, ResumeSession(c) PROVE Core'
  <2> DEFINE S == { s \in FindByClaudeSessionId(c) : sessions[s].isObserved }
             ss == [ s \in Ids |-> IF s \in S THEN Historified(sessions[s]) ELSE sessions[s] ]
             map == Cached(sessionIdMap, S)
  <2>1. /\ UNCHANGED touched
        /\ \/ StartSession(ss, map, c)
           \/ sessions' = ss /\ UNCHANGED << nextId, stream, nextStream >>
    BY <1>4 DEF ResumeSession, abortVars
  <2>2. S \in SUBSET Ids /\ \A s \in S : sessions[s].tracked /\ sessions[s].isObserved
    BY DEF FindByClaudeSessionId, Tracked
  <2>3. c \in ClaudeIds
    BY <1>1, KnownFacts
  <2>4. ss = [ s \in Ids |-> IF s \in S THEN Historified(sessions[s]) ELSE sessions[s] ]
    OBVIOUS
  <2> HIDE DEF S, ss, map
  <2>5. CASE StartSession(ss, map, c)
    BY <1>1, <2>1, <2>2, <2>3, <2>4, <2>5, StartCore
  <2>6. CASE sessions' = ss /\ UNCHANGED << nextId, stream, nextStream >>
    BY <1>1, <2>1, <2>2, <2>4, <2>6, HistorifyCore
  <2> QED BY <2>1, <2>5, <2>6
<1>5. ASSUME NEW c \in KnownClaudeIds, SendMessage(c) PROVE Core'
  BY <1>1, <1>5, SendMessageCore
<1>6. ASSUME NEW c \in KnownClaudeIds, KillSession(c) PROVE Core'
  BY <1>1, <1>6, KillCore
<1>7. ASSUME NEW cmd, Await(cmd) PROVE Core'
  BY <1>1, <1>7, FrameCore DEF Await, abortVars, coreVars
<1>8. ASSUME NEW c \in KnownClaudeIds,
             SendUntracked(c) \/ InterruptSession(c) \/ RewindSession(c)
      PROVE  Core'
  BY <1>7, <1>8 DEF SendUntracked, InterruptSession, RewindSession
<1>9. ASSUME NEW k \in Streams, RespondPermission(k) PROVE Core'
  BY <1>1, <1>9, RespondPermissionCore
<1> QED BY <1>2, <1>3, <1>4, <1>5, <1>6, <1>8, <1>9 DEF Phone

LEMMA SdkCore ==
    ASSUME IInv, Sdk
    PROVE  Core'
<1>1. Core
  BY DEF IInv
<1>2. ASSUME NEW k \in Streams, StreamYields(k) \/ CanUseTool(k) \/ SignalAborts(k)
      PROVE  Core'
  BY <1>1, <1>2, StreamYieldsCore, CanUseToolCore, SignalAbortsCore
<1>3. ASSUME NEW k \in Streams, StreamEnds(k) PROVE Core'
  BY <1>1, <1>3, QueryDoneCore DEF StreamEnds, abortVars
<1>4. ASSUME NEW k \in Streams, StreamAborts(k) PROVE Core'
  <2>1. Live(k)
    BY <1>4 DEF StreamAborts, Live
  <2> QED BY <1>1, <1>4, <2>1, QueryDoneCore DEF StreamAborts, abortVars
<1>5. ASSUME NEW s \in Ids, Interrupted(s) \/ RewindEnds(s) PROVE Core'
  BY <1>1, <1>5, FrameCore DEF Interrupted, RewindEnds, abortVars, coreVars
<1>6. ASSUME NEW s \in Ids, InterruptFails(s) PROVE Core'
  BY <1>1, <1>6, InterruptFailsCore
<1>7. ASSUME NEW s \in Ids, RewindForks(s) PROVE Core'
  BY <1>1, <1>7, StartNewCore DEF RewindForks, abortVars
<1> QED BY <1>2, <1>3, <1>4, <1>5, <1>6, <1>7 DEF Sdk

LEMMA DiscoveryCore ==
    ASSUME IInv, Discovery
    PROVE  Core'
<1>1. Core
  BY DEF IInv
<1>2. CASE Tick
  <2> DEFINE S == { s \in Tracked : /\ sessions[s].isObserved
                                    /\ ~Listed(sessions[s].terminalPid) }
  <2>1. S \in SUBSET Ids /\ \A s \in S : sessions[s].tracked /\ sessions[s].isObserved
    BY DEF Tracked
  <2>2. /\ sessions' = [ s \in Ids |->
               IF s \in S THEN Historified(sessions[s]) ELSE sessions[s] ]
        /\ UNCHANGED << nextId, stream, nextStream, touched >>
    BY <1>2 DEF Tick, abortVars
  <2> HIDE DEF S
  <2> QED BY <1>1, <2>1, <2>2, HistorifyCore
<1>3. CASE DiscoverResolves
  BY <1>1, <1>3, FrameCore DEF DiscoverResolves, abortVars, coreVars
<1>4. ASSUME NEW p \in Processes, Adopt(p) PROVE Core'
  <2>1. scan[p] \in ClaudeIds /\ UNCHANGED << nextStream, touched >>
    BY <1>4 DEF IInv, EnvType, Adopt, abortVars
  <2>2. CASE /\ \E s \in FindByClaudeSessionId(scan[p]) :
                   /\ RePromotes(s, p)
                   /\ sessions' = [ sessions EXCEPT ![s] = RePromoted(@, p) ]
             /\ UNCHANGED << nextId, stream >>
    <3>1. PICK s \in Tracked :
            sessions[s].history /\ sessions' = [ sessions EXCEPT ![s] = RePromoted(@, p) ]
      BY <2>2 DEF FindByClaudeSessionId, RePromotes
    <3> QED BY <1>1, <2>1, <2>2, <3>1, RePromotedCore
  <2>3. CASE ObserveSession(scan[p], p)
    BY <1>1, <2>1, <2>3, ObserveCore
  <2>4. CASE UNCHANGED << sessions, sessionIdMap, nextId, stream >>
    BY <1>1, <2>1, <2>4, FrameCore DEF coreVars
  <2> QED BY <1>4, <2>2, <2>3, <2>4 DEF Adopt
<1> QED BY <1>2, <1>3, <1>4 DEF Discovery

LEMMA CoreStep ==
    ASSUME IInv, [Next]_vars
    PROVE  Core'
<1>1. Core
  BY DEF IInv
<1>2. CASE SendObserves
  <2>1. PICK cmd \in awaiting :
          cmd.command = "send_message" /\ ObserveSession(cmd.claude, cmd.pid)
    BY <1>2 DEF SendObserves
  <2>2. cmd \in Awaiting
    BY <2>1 DEF IInv, EnvType
  <2>3. cmd.claude \in ClaudeIds /\ cmd.pid \in Processes
    BY <2>1, <2>2 DEF Awaiting, Processes
  <2>4. UNCHANGED << nextStream, touched >>
    BY <1>2 DEF SendObserves, abortVars
  <2> QED BY <1>1, <2>1, <2>3, <2>4, ObserveCore
<1>3. CASE Machine
  BY <1>1, <1>3, FrameCore
     DEF Machine, TerminalStarts, TerminalExits, TogglesSuspended, daemonVars, abortVars, coreVars
<1>4. CASE UNCHANGED vars
  BY <1>1, <1>4, FrameCore DEF vars, coreVars
<1> QED BY <1>2, <1>3, <1>4, PhoneCore, SdkCore, DiscoveryCore DEF Next

LEMMA RunsFacts ==
    ASSUME IInv, NEW p \in Processes, Running(p)
    PROVE  Runs(p) \in ClaudeIds
<1>1. CASE p \in Streams
  <2>1. Live(p) /\ Begun(p)
    BY <1>1 DEF Running, Live, Begun
  <2>2. stream[p].owner \in Ids /\ stream[p].owner < nextId
    BY <1>1, <2>1, MadeFacts DEF IInv, Core
  <2> QED BY <1>1, <2>2 DEF Runs, IInv, Core, FreshInv, FreshSessions
<1>2. CASE p \notin Streams
  BY <1>2 DEF Running, Runs
<1> QED BY <1>1, <1>2

LEMMA EnvStep ==
    ASSUME IInv, [Next]_vars
    PROVE  EnvType'
<1>1. EnvType /\ Core
  BY DEF IInv
<1> DEFINE EnvKept == awaiting' \subseteq awaiting /\ UNCHANGED << scan, process >>
<1>2. ASSUME EnvKept PROVE EnvType'
  BY <1>1, <1>2 DEF EnvType
<1>3. ASSUME NEW cmd \in Awaiting, Await(cmd) PROVE EnvType'
  BY <1>1, <1>3 DEF EnvType, Await, ScanKept, scanVars, envVars
<1>4. CASE Phone
  <2>1. CASE NewSession \/ EmergencyAbort
    BY <1>2, <2>1 DEF NewSession, EmergencyAbort, ScanKept, scanVars, envVars
  <2>2. ASSUME NEW c \in KnownClaudeIds, ResumeSession(c) \/ SendMessage(c) \/ KillSession(c)
        PROVE  EnvType'
    BY <1>2, <2>2 DEF ResumeSession, SendMessage, KillSession, ScanKept, scanVars, envVars
  <2>3. ASSUME NEW c \in KnownClaudeIds, SendUntracked(c) PROVE EnvType'
    <3>1. c \in ClaudeIds
      BY <1>1, KnownFacts
    <3> QED BY <1>3, <2>3, <3>1 DEF SendUntracked, Awaiting
  <2>4. ASSUME NEW c \in KnownClaudeIds, InterruptSession(c) \/ RewindSession(c)
        PROVE  EnvType'
    BY <1>3, <2>4 DEF InterruptSession, RewindSession, Controllable,
                      ResolveInternalSessionId, Awaiting
  <2>5. ASSUME NEW k \in Streams, RespondPermission(k) PROVE EnvType'
    BY <1>2, <2>5 DEF RespondPermission, ScanKept, scanVars, envVars
  <2> QED BY <1>4, <2>1, <2>2, <2>3, <2>4, <2>5 DEF Phone
<1>5. CASE SendObserves
  BY <1>2, <1>5 DEF SendObserves, ScanKept, scanVars, envVars
<1>6. CASE Sdk
  BY <1>2, <1>6 DEF Sdk, StreamYields, CanUseTool, SignalAborts, StreamEnds, StreamAborts,
       Interrupted, InterruptFails, RewindForks, RewindEnds, Awaited, ScanKept, scanVars, envVars
<1>7. CASE Tick
  <2>1. /\ scan' = [ p \in Processes |-> IF Listed(p) THEN Runs(p) ELSE None ]
        /\ UNCHANGED << awaiting, process >>
    BY <1>7 DEF Tick, envVars
  <2>2. \A p \in Processes : Listed(p) => Runs(p) \in ClaudeIds
    BY RunsFacts DEF Listed
  <2> QED BY <1>1, <2>1, <2>2 DEF EnvType
<1>8. CASE DiscoverResolves
  BY <1>2, <1>8 DEF DiscoverResolves, envVars
<1>9. ASSUME NEW p \in Processes, Adopt(p) PROVE EnvType'
  BY <1>1, <1>9 DEF EnvType, Adopt, envVars
<1>10. CASE Machine
  <2>1. ASSUME NEW p \in Terminals, NEW c \in KnownClaudeIds, TerminalStarts(p, c)
        PROVE  EnvType'
    <3>1. c \in ClaudeIds
      BY <1>1, KnownFacts
    <3> QED BY <1>1, <2>1, <3>1
        DEF EnvType, TerminalStarts, ScanKept, scanVars, daemonVars
  <2>2. ASSUME NEW p \in Terminals, TerminalExits(p) \/ TogglesSuspended(p)
        PROVE  EnvType'
    BY <1>1, <2>2 DEF EnvType, TerminalExits, TogglesSuspended, ScanKept, scanVars, daemonVars
  <2> QED BY <1>10, <2>1, <2>2 DEF Machine
<1>11. CASE UNCHANGED vars
  BY <1>2, <1>11 DEF vars
<1> QED BY <1>4, <1>5, <1>6, <1>7, <1>8, <1>9, <1>10, <1>11 DEF Next, Discovery

\* IInv is inductive: every step of Next keeps it.
THEOREM Inductive == Spec => []IInv
<1>1. Init => IInv
  <2> SUFFICES ASSUME Init PROVE IInv
    OBVIOUS
  <2>1. EnvType
    BY DEF Init, EnvType, NothingRead
  <2> QED BY <2>1, InitCore DEF IInv
<1>2. IInv /\ [Next]_vars => IInv'
  BY CoreStep, EnvStep DEF IInv
<1> QED BY <1>1, <1>2, PTL DEF Spec

-----------------------------------------------------------------------------
(* What is left of the types: of the index of the sessions, and of what is  *)
(* bounded.                                                                 *)

RestType ==
    /\ sessionIdMap \in Seq(Ids)
    /\ IsFiniteSet(awaiting) /\ Cardinality(awaiting) <= MaxAwaiting
    /\ adopting \in BOOLEAN
    /\ suspended \subseteq Suspendable
    /\ aborts \in 0 .. MaxAborts

LEMMA PickedIds ==
    ASSUME NEW s \in Seq(Ids), NEW K \in SUBSET DOMAIN s
    PROVE  Picked(s, K) \in Seq(Ids)
<1>1. Facts!Picked(s, K) = Picked(s, K)
  BY DEF Facts!Picked, Facts!Ascending, Facts!Ranked, Facts!Cardinality, Facts!IsFiniteSet,
         Picked, Ascending, Ranked, Cardinality, IsFiniteSet
<1> QED BY <1>1, Facts!PickedProperties

\* What the resolvers cache and what the handlers take out is an index again.
LEMMA IndexKept ==
    ASSUME NEW map \in Seq(Ids)
    PROVE  /\ \A S : Cached(map, S) \in Seq(Ids)
           /\ \A s : Without(map, s) \in Seq(Ids)
           /\ \A s \in Ids : Append(map, s) \in Seq(Ids)
<1>1. ASSUME NEW S PROVE Cached(map, S) \in Seq(Ids)
  <2> DEFINE ids == [ s \in Ids |-> s ]
             K == { s \in S \cap Tracked : \A i \in DOMAIN map : map[i] # s }
  <2>1. ids \in Seq(Ids) /\ K \in SUBSET DOMAIN ids
    BY SessionAssumption DEF Ids, Tracked
  <2> HIDE DEF ids, K
  <2>2. Picked(ids, K) \in Seq(Ids)
    BY <2>1, PickedIds
  <2>3. Cached(map, S) = map \o Picked(ids, K)
    BY DEF Cached, ids, K
  <2> QED BY <2>2, <2>3
<1>2. ASSUME NEW s PROVE Without(map, s) \in Seq(Ids)
  <2> DEFINE K == { i \in DOMAIN map : map[i] # s }
  <2>1. K \in SUBSET DOMAIN map
    OBVIOUS
  <2> HIDE DEF K
  <2>2. Picked(map, K) \in Seq(Ids)
    BY <2>1, PickedIds
  <2> QED BY <2>2 DEF Without, K
<1> QED BY <1>1, <1>2

\* What a step does to the index.
IndexStep ==
    \/ sessionIdMap' = sessionIdMap
    \/ \E S : sessionIdMap' = Cached(sessionIdMap, S)
    \/ \E s : sessionIdMap' = Without(sessionIdMap, s)
    \/ nextId <= MaxIds /\ sessionIdMap' = Append(sessionIdMap, nextId)
    \/ nextId <= MaxIds /\ \E S : sessionIdMap' = Append(Cached(sessionIdMap, S), nextId)

LEMMA IndexTyped ==
    ASSUME sessionIdMap \in Seq(Ids), CoreType, IndexStep
    PROVE  sessionIdMap' \in Seq(Ids)
<1>1. nextId <= MaxIds => nextId \in Ids
  BY SessionAssumption DEF CoreType, Ids
<1>2. \A S : Cached(sessionIdMap, S) \in Seq(Ids)
  BY IndexKept
<1>3. \A s : Without(sessionIdMap, s) \in Seq(Ids)
  BY IndexKept
<1>4. ASSUME NEW map \in Seq(Ids), NEW s \in Ids PROVE Append(map, s) \in Seq(Ids)
  OBVIOUS
<1>5. CASE \E S : sessionIdMap' = Cached(sessionIdMap, S)
  BY <1>2, <1>5
<1>6. CASE \E s : sessionIdMap' = Without(sessionIdMap, s)
  BY <1>3, <1>6
<1>7. CASE nextId <= MaxIds /\ \E S : sessionIdMap' = Append(Cached(sessionIdMap, S), nextId)
  BY <1>1, <1>2, <1>4, <1>7
<1> QED BY <1>1, <1>5, <1>6, <1>7 DEF IndexStep

\* What a step does to the rest.
RestStep ==
    /\ \/ awaiting' \subseteq awaiting
       \/ /\ Cardinality(awaiting) < MaxAwaiting
          /\ \E cmd : awaiting' = awaiting \cup {cmd}
    /\ \/ adopting' = adopting
       \/ adopting' \in BOOLEAN
    /\ \/ suspended' = suspended
       \/ \E p \in Suspendable : suspended' \in { suspended \ {p}, suspended \cup {p} }
    /\ \/ aborts' = aborts
       \/ aborts < MaxAborts /\ aborts' = aborts + 1

LEMMA RestTyped ==
    ASSUME RestType, CoreType, IndexStep, RestStep
    PROVE  RestType'
<1>1. IsFiniteSet(awaiting') /\ Cardinality(awaiting') <= MaxAwaiting
  <2>1. Cardinality(awaiting) \in Nat
    BY FS_CardinalityType DEF RestType
  <2>2. CASE awaiting' \subseteq awaiting
    <3>1. IsFiniteSet(awaiting') /\ Cardinality(awaiting') <= Cardinality(awaiting)
      BY <2>2, FS_Subset DEF RestType
    <3>2. Cardinality(awaiting') \in Nat
      BY <3>1, FS_CardinalityType
    <3> QED BY <2>1, <3>1, <3>2, SessionAssumption DEF RestType
  <2>3. ASSUME Cardinality(awaiting) < MaxAwaiting,
               NEW cmd, awaiting' = awaiting \cup {cmd}
        PROVE  IsFiniteSet(awaiting') /\ Cardinality(awaiting') <= MaxAwaiting
    <3>1. /\ IsFiniteSet(awaiting')
          /\ Cardinality(awaiting') \in { Cardinality(awaiting), Cardinality(awaiting) + 1 }
      BY <2>3, FS_AddElement DEF RestType
    <3> QED BY <2>1, <2>3, <3>1, SessionAssumption
  <2> QED BY <2>2, <2>3 DEF RestStep
<1>2. sessionIdMap' \in Seq(Ids)
  BY IndexTyped DEF RestType
<1>3. adopting' \in BOOLEAN
  BY DEF RestType, RestStep
<1>4. suspended' \subseteq Suspendable
  BY DEF RestType, RestStep
<1>5. aborts' \in 0 .. MaxAborts
  BY SessionAssumption DEF RestType, RestStep
<1> QED BY <1>1, <1>2, <1>3, <1>4, <1>5 DEF RestType

LEMMA RestSteps ==
    ASSUME IInv, [Next]_vars
    PROVE  IndexStep /\ RestStep
<1> DEFINE Goal == IndexStep /\ RestStep
           Plain == ScanKept /\ UNCHANGED << awaiting, envVars, abortVars >>
<1> USE DEF ScanKept, scanVars, envVars, abortVars
<1>1. ASSUME Plain, IndexStep PROVE Goal
  BY <1>1 DEF RestStep
<1>2. ASSUME awaiting' \subseteq awaiting, IndexStep, ScanKept,
             UNCHANGED << envVars, abortVars >>
      PROVE  Goal
  BY <1>2 DEF RestStep
<1>3. ASSUME NEW cmd, Await(cmd) PROVE Goal
  BY <1>3 DEF Await, IndexStep, RestStep
<1>4. ASSUME NEW ss, NEW c, StartSession(ss, sessionIdMap, c) PROVE IndexStep
  BY <1>4 DEF StartSession, IndexStep
<1>5. ASSUME NEW c, NEW p, ObserveSession(c, p) PROVE IndexStep
  BY <1>5 DEF ObserveSession, IndexStep
<1>6. CASE Phone
  <2>1. CASE NewSession
    BY <1>1, <1>4, <2>1 DEF NewSession
  <2>2. CASE EmergencyAbort
    BY <2>2 DEF EmergencyAbort, IndexStep, RestStep
  <2>3. ASSUME NEW c \in KnownClaudeIds, ResumeSession(c) PROVE Goal
    <3>1. IndexStep
      BY <2>3 DEF ResumeSession, StartSession, IndexStep
    <3> QED BY <1>1, <2>3, <3>1 DEF ResumeSession
  <2>4. ASSUME NEW c \in KnownClaudeIds, SendMessage(c) PROVE Goal
    <3>1. IndexStep
      BY <2>4 DEF SendMessage, IndexStep
    <3> QED BY <1>1, <2>4, <3>1 DEF SendMessage
  <2>5. ASSUME NEW c \in KnownClaudeIds, SendUntracked(c) PROVE Goal
    BY <1>3, <2>5 DEF SendUntracked
  <2>6. ASSUME NEW c \in KnownClaudeIds, KillSession(c) PROVE Goal
    <3>1. IndexStep
      BY <2>6 DEF KillSession, IndexStep
    <3> QED BY <1>1, <2>6, <3>1 DEF KillSession
  <2>7. ASSUME NEW c \in KnownClaudeIds, InterruptSession(c) \/ RewindSession(c) PROVE Goal
    BY <1>3, <2>7 DEF InterruptSession, RewindSession
  <2>8. ASSUME NEW k \in Streams, RespondPermission(k) PROVE Goal
    <3>1. IndexStep
      BY <2>8 DEF RespondPermission, IndexStep
    <3> QED BY <1>1, <2>8, <3>1 DEF RespondPermission
  <2> QED BY <1>6, <2>1, <2>2, <2>3, <2>4, <2>5, <2>6, <2>7, <2>8 DEF Phone
<1>7. CASE SendObserves
  <2>1. IndexStep
    BY <1>5, <1>7 DEF SendObserves
  <2> QED BY <1>2, <1>7, <2>1 DEF SendObserves
<1>8. CASE Sdk
  <2>1. ASSUME NEW k \in Streams,
               StreamYields(k) \/ CanUseTool(k) \/ SignalAborts(k) \/ StreamEnds(k)
                 \/ StreamAborts(k)
        PROVE  Goal
    <3>1. IndexStep
      BY <2>1 DEF StreamYields, CanUseTool, SignalAborts, StreamEnds, StreamAborts, IndexStep
    <3>2. Plain
      BY <2>1 DEF StreamYields, CanUseTool, SignalAborts, StreamEnds, StreamAborts
    <3> QED BY <1>1, <3>1, <3>2
  <2>2. ASSUME NEW s \in Ids,
               Interrupted(s) \/ InterruptFails(s) \/ RewindForks(s) \/ RewindEnds(s)
        PROVE  Goal
    <3>1. IndexStep
      BY <1>4, <2>2 DEF Interrupted, InterruptFails, RewindForks, RewindEnds, IndexStep
    <3>2. /\ awaiting' \subseteq awaiting /\ ScanKept
          /\ UNCHANGED << envVars, abortVars >>
      BY <2>2 DEF Interrupted, InterruptFails, RewindForks, RewindEnds, Awaited
    <3> QED BY <1>2, <3>1, <3>2
  <2> QED BY <1>8, <2>1, <2>2 DEF Sdk
<1>9. CASE Discovery
  <2>1. CASE Tick \/ DiscoverResolves
    BY <2>1 DEF Tick, DiscoverResolves, IndexStep, RestStep
  <2>2. ASSUME NEW p \in Processes, Adopt(p) PROVE Goal
    <3>1. IndexStep
      <4>1. \/ \E S : sessionIdMap' = Cached(sessionIdMap, S)
            \/ ObserveSession(scan[p], p)
            \/ UNCHANGED sessionIdMap
        BY <2>2 DEF Adopt
      <4> QED BY <1>5, <4>1 DEF IndexStep
    <3>2. adopting' \in BOOLEAN /\ UNCHANGED << awaiting, envVars, abortVars >>
      BY <2>2 DEF Adopt
    <3> QED BY <3>1, <3>2 DEF RestStep
  <2> QED BY <1>9, <2>1, <2>2 DEF Discovery
<1>10. CASE Machine
  <2>1. ASSUME NEW p \in Terminals, NEW c,
               TerminalStarts(p, c) \/ TerminalExits(p) \/ TogglesSuspended(p)
        PROVE  Goal
    BY <2>1 DEF TerminalStarts, TerminalExits, TogglesSuspended, daemonVars,
                IndexStep, RestStep
  <2> QED BY <1>10, <2>1 DEF Machine
<1>11. CASE UNCHANGED vars
  BY <1>11 DEF vars, IndexStep, RestStep
<1> QED BY <1>6, <1>7, <1>8, <1>9, <1>10, <1>11 DEF Next

(***************************************************************************)
(* The theorems                                                            *)
(***************************************************************************)
\* A session has at most one query running, its own: the input a message is
\* pushed to, the handle and the abort controller are never those of a query
\* that was replaced (sendMessage, consumeQueryStream, resumeWithMessage).
THEOREM OneQueryHolds == Spec => []OneQuery
<1>1. IInv => OneQuery
  BY DEF IInv, Core, SessionOk, HoldsQuery, OneQuery
<1> QED BY <1>1, Inductive, PTL

\* killSession and the eviction of observeSession leave nothing running behind
\* a session that they take out of the map: no observer, and no query that was
\* not aborted.
THEOREM GoneIsStoppedHolds == Spec => []GoneIsStopped
<1>1. IInv => GoneIsStopped
  BY DEF IInv, Core, SessionOk, HoldsQuery, GoneIsStopped
<1> QED BY <1>1, Inductive, PTL

\* No canUseTool promise waits that respondPermission could not settle, in
\* whatever order answers, cancellations, kills and resumed queries come.
THEOREM WaitingIsAnswerableHolds == Spec => []WaitingIsAnswerable
<1>1. IInv => WaitingIsAnswerable
  <2> SUFFICES ASSUME IInv, NEW k \in Streams, stream[k].call = "waiting",
                      stream[k].owner \notin touched
               PROVE  LET s == stream[k].owner
                      IN  sessions[s].tracked /\ k \in sessions[s].pendingPermissions
    BY DEF WaitingIsAnswerable
  <2>1. stream[k].owner \in Ids
    BY MadeFacts DEF IInv, Core, Begun
  <2>2. SessionOk(stream[k].owner)
    BY <2>1 DEF IInv, Core
  <2> QED BY <2>2 DEF SessionOk
<1> QED BY <1>1, Inductive, PTL

\* The observers that run are those of the sessions observed: a resume, an
\* eviction, a kill, a lost terminal and a re-promotion each keep the two in step.
THEOREM ObserverIffObservedHolds == Spec => []ObserverIffObserved
<1>1. IInv => ObserverIffObserved
  BY DEF IInv, Core, SessionOk, ObserverIffObserved
<1> QED BY <1>1, Inductive, PTL

\* Every handler leaves the sessions, the index of their ids and what the
\* commands wait with well formed, and no more of them than the bounds.
THEOREM SessionTypeCorrect == Spec => []SessionTypeOK
<1>1. Init => RestType
  <2> SUFFICES ASSUME Init PROVE RestType
    OBVIOUS
  <2>1. IsFiniteSet(awaiting) /\ Cardinality(awaiting) <= MaxAwaiting
    <3>1. IsFiniteSet(awaiting) /\ Cardinality(awaiting) = 0
      BY FS_EmptySet DEF Init
    <3> QED BY <3>1, SessionAssumption
  <2>2. /\ sessionIdMap = << >> /\ adopting = FALSE
        /\ suspended = {} /\ aborts = 0
    BY DEF Init
  <2>3. sessionIdMap \in Seq(Ids)
    BY <2>2
  <2>4. adopting \in BOOLEAN /\ suspended \subseteq Suspendable
    BY <2>2
  <2>5. aborts \in 0 .. MaxAborts
    BY <2>2, SessionAssumption
  <2> QED BY <2>1, <2>3, <2>4, <2>5 DEF RestType
<1>2. IInv /\ RestType /\ [Next]_vars => RestType'
  BY RestSteps, RestTyped DEF IInv, Core
<1>3. IInv /\ RestType => SessionTypeOK
  BY DEF IInv, EnvType, Core, CoreType, RestType, SessionTypeOK, SessionRecord, StreamRecord
<1> QED BY <1>1, <1>2, <1>3, Inductive, PTL DEF Spec
=============================================================================
