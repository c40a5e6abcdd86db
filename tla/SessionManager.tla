---------------------------- MODULE SessionManager ----------------------------
(***************************************************************************)
(* The daemon's sessions: which of them it observes (tails the transcript  *)
(* of a Claude in a terminal), which it controls (runs an SDK query for),  *)
(* and which are history.                                                  *)
(*                                                                         *)
(*   src/src/sessions/session-manager.ts      the sessions and SDK streams *)
(*   src/src/commands/handlers/session-lifecycle.ts, send-message.ts,      *)
(*   responses.ts, acks.ts                    commands of the phone        *)
(*   src/src/index.ts, wiring/session-discovery-loop.ts                    *)
(*                                            liveness check, discovery    *)
(*                                                                         *)
(* A method runs to its end or to an await; an SDK stream, a discovery     *)
(* pass and a command that awaits go on whenever their promise settles.    *)
(* Two commands that change one transcript for another in a terminal       *)
(* (/clear, /resume) are not modelled here: a terminal's Claude keeps the  *)
(* transcript it was started with.                                         *)
(***************************************************************************)
EXTENDS Integers, Sequences, FiniteSets, Subsequences

CONSTANTS
    Transcripts,   \* Claude session ids that exist on disk from the start
    Terminals,     \* processes of Claude in a terminal; a pid is not reused
    MaxConcurrent, \* max_concurrent_sessions
    MaxIds,        \* bound: sessions the manager ever creates
    MaxStreams,    \* bound: SDK queries ever started
    MaxAwaiting,   \* bound: commands of the phone that await at one time
    MaxAborts,     \* bound: emergency aborts
    Suspendable,   \* the terminals in which Claude may be stopped (^Z)
    NotRunning, Exited  \* what a terminal runs before its Claude, and after it

\* sessionCounter: a larger id is a later entry of the sessions map.  The n-th
\* query is stream n, and its Claude is the process of that name, which ends
\* with the stream.  A Claude session id that createSession or a fork generates stands as the id of the
\* session it was generated for.
Ids       == 1 .. MaxIds
Streams   == 1 .. MaxStreams
None      == 0
ClaudeIds == Transcripts \cup Ids
Processes == Terminals \cup Streams

ASSUME SessionAssumption ==
    /\ MaxConcurrent \in Nat /\ MaxIds \in Nat /\ MaxStreams \in Nat
    /\ MaxAwaiting \in Nat /\ MaxAborts \in Nat /\ Suspendable \subseteq Terminals
    /\ Transcripts \cap Int = {} /\ Terminals \cap Int = {}
    /\ {NotRunning, Exited} \cap ClaudeIds = {} /\ NotRunning # Exited

VARIABLES
    sessions,     \* SessionState, by id
    nextId,       \* sessionCounter + 1
    stream,       \* the SDK queries, with their input and abort controllers
    nextStream,
    sessionIdMap, \* its keys, in the order of insertion; its values are claudeSessionIds
    awaiting,     \* commands of the phone that await the SDK or the disk
    scan,         \* a discovery pass: what it read of each process
    adopting,     \* its loop over the processes has begun; it does not yield
    process,      \* the transcript that the Claude in each terminal runs
    suspended,    \* the terminals in which it is stopped
    aborts,
    touched       \* sessions that were there at an emergency abort

envVars == << process, suspended >>
scanVars == << scan, adopting >>
abortVars == << aborts, touched >>
vars == << sessions, nextId, stream, nextStream, sessionIdMap, awaiting, scan, adopting,
           process, suspended, aborts, touched >>

\* A session before its creation.  `latest' is the stream whose input and abort
\* controllers it holds; history is status === HISTORY, the one status that
\* decides anything here; observer says whether its SessionObserver is running.
NoSession == [ tracked |-> FALSE, claude |-> None, isObserved |-> FALSE,
               observer |-> FALSE, terminalPid |-> None, history |-> FALSE,
               queryHandle |-> None, latest |-> None, pendingPermissions |-> {} ]

\* A stream is aborted once its abort controller is, until it ends; `call' is
\* the promise of its one canUseTool call (bound).
NoStreamYet == [ state |-> "none", owner |-> None, inputClosed |-> FALSE, call |-> "none" ]

\* What a command waits with.
Awaiting ==
    [ command : {"interrupt_session", "rewind_session"}, session : Ids ]
      \cup [ command : {"send_message"}, claude : ClaudeIds, pid : Terminals ]

SessionTypeOK ==
    /\ sessions \in [Ids -> [ tracked : BOOLEAN, claude : ClaudeIds \cup {None},
                              isObserved : BOOLEAN, observer : BOOLEAN,
                              terminalPid : Processes \cup {None}, history : BOOLEAN,
                              queryHandle : Streams \cup {None}, latest : Streams \cup {None},
                              pendingPermissions : SUBSET Streams ]]
    /\ nextId \in 1 .. MaxIds + 1 /\ nextStream \in 1 .. MaxStreams + 1
    /\ stream \in [Streams -> [ state : {"none", "live", "aborted", "ended"},
                                owner : Ids \cup {None}, inputClosed : BOOLEAN,
                                call : {"none", "waiting", "settled"} ]]
    /\ sessionIdMap \in Seq(Ids)
    /\ awaiting \subseteq Awaiting /\ Cardinality(awaiting) <= MaxAwaiting
    /\ scan \in [Processes -> ClaudeIds \cup {None}] /\ adopting \in BOOLEAN
    /\ process \in [Terminals -> ClaudeIds \cup {NotRunning, Exited}]
    /\ suspended \subseteq Suspendable
    /\ aborts \in 0 .. MaxAborts /\ touched \subseteq Ids

NothingRead == [p \in Processes |-> None]

Init ==
    /\ sessions = [s \in Ids |-> NoSession]
    /\ nextId = 1
    /\ stream = [k \in Streams |-> NoStreamYet]
    /\ nextStream = 1
    /\ sessionIdMap = << >>
    /\ awaiting = {}
    /\ scan = NothingRead /\ adopting = FALSE
    /\ process = [p \in Terminals |-> NotRunning]
    /\ suspended = {}
    /\ aborts = 0 /\ touched = {}

-----------------------------------------------------------------------------
(* Lookups. *)

Tracked == { s \in Ids : sessions[s].tracked }
Live(k) == stream[k].state \in {"live", "aborted"}
Running(p) == IF p \in Streams THEN Live(p) ELSE process[p] \in ClaudeIds
Listed(p)  == Running(p) /\ p \notin suspended
Runs(p)    == IF p \in Streams THEN sessions[stream[p].owner].claude ELSE process[p]
KnownClaudeIds == Transcripts \cup { sessions[s].claude : s \in 1 .. nextId - 1 }

\* findByClaudeSessionId: the first entry of the map, in a set, or the empty set.
FindByClaudeSessionId(c) ==
    { s \in Tracked : /\ sessions[s].claude = c
                      /\ \A t \in Tracked : sessions[t].claude = c => s <= t }

\* resolveInternalSessionId: the first key of sessionIdMap with this value.
ResolveInternalSessionId(c) ==
    { s \in Ids : \E i \in DOMAIN sessionIdMap :
        /\ sessionIdMap[i] = s /\ sessions[s].claude = c
        /\ \A j \in 1 .. i - 1 : sessions[sessionIdMap[j]].claude # c }

\* resolveExternalSessionId, which a listener calls for each session of S that
\* an event is about, caches the claudeSessionId of a session it finds.
Cached(map, S) ==
    map \o Picked([ s \in Ids |-> s ],
                  { s \in S \cap Tracked : \A i \in DOMAIN map : map[i] # s })
Without(map, s) == Picked(map, { i \in DOMAIN map : map[i] # s })

\* getControllerSessionCount
ControllerSessionCount(ss) ==
    Cardinality({ s \in Ids : ss[s].tracked /\ ~ss[s].isObserved /\ ~ss[s].history })

-----------------------------------------------------------------------------
(* What the methods do to a session and to the streams. *)

\* Mutant: the session drops its observer without stopping it.
HistorifiedUnstopped(r) == [ r EXCEPT !.isObserved = FALSE, !.terminalPid = None,
                                      !.history = TRUE ]

\* markObservedSessionHistory
Historified(r) == [ r EXCEPT !.isObserved = FALSE, !.observer = FALSE,
                             !.terminalPid = None, !.history = TRUE ]

\* A session that createSession or resumeSession makes; consumeQueryStream has
\* made it READY when they return.
Controller(c) ==
    [ NoSession EXCEPT !.tracked = TRUE, !.claude = c,
                       !.queryHandle = nextStream, !.latest = nextStream ]

\* Mutant: the arguments the wrong way round.
ObserverSwapped(c, p) ==
    [ NoSession EXCEPT !.tracked = TRUE, !.claude = p, !.isObserved = TRUE,
                       !.observer = TRUE, !.terminalPid = c ]

\* A session that observeSession makes.
Observer(c, p) ==
    [ NoSession EXCEPT !.tracked = TRUE, !.claude = c, !.isObserved = TRUE,
                       !.observer = TRUE, !.terminalPid = p ]

\* rePromoteHistoryToObserved, of a session it does not refuse.
RePromoted(r, p) == [ r EXCEPT !.isObserved = TRUE, !.observer = TRUE,
                               !.terminalPid = p, !.history = FALSE ]

\* Mutant: the resolvers are forgotten, not resolved.
CleanedUnresolved(S) ==
    [ k \in Streams |->
        [ stream[k] EXCEPT !.inputClosed = @ \/ \E s \in S : sessions[s].latest = k ] ]

\* cleanupSession: the session's part of it, and the part of the streams of S.
Cleaned(r) == [ r EXCEPT !.observer = FALSE, !.pendingPermissions = {} ]

\* ... after which it is deleted from the map: no one reads these fields again.
Deleted(r) == [ r EXCEPT !.tracked = FALSE, !.isObserved = FALSE,
                         !.terminalPid = None, !.history = FALSE ]

\* The status of a session is set by its stream also when it is deleted.
WithHistory(r, history) == IF r.tracked THEN [ r EXCEPT !.history = history ] ELSE r

CleanedStreams(S) ==
    [ k \in Streams |->
        [ stream[k] EXCEPT
            !.call = IF stream[k].owner \in S /\ @ = "waiting" THEN "settled" ELSE @,
            !.inputClosed = @ \/ \E s \in S : sessions[s].latest = k ] ]

\* Mutant: no abort of a query whose input the cleanup has just closed.
AbortedIfOpen(st, S) ==
    [ k \in Streams |->
        IF st[k].state = "live" /\ ~st[k].inputClosed /\ \E s \in S : sessions[s].latest = k
        THEN [ st[k] EXCEPT !.state = "aborted" ] ELSE st[k] ]

\* abortController.abort(), of a query that has not ended.
Aborted(st, S) ==
    [ k \in Streams |->
        IF st[k].state = "live" /\ \E s \in S : sessions[s].latest = k
        THEN [ st[k] EXCEPT !.state = "aborted" ] ELSE st[k] ]

\* A query of session s, started by queryFactory.
Spawn(s) ==
    /\ nextStream <= MaxStreams
    /\ stream' = [ stream EXCEPT ![nextStream] =
                     [ NoStreamYet EXCEPT !.state = "live", !.owner = s ] ]
    /\ nextStream' = nextStream + 1

\* createSession or resumeSession for transcript c, when the sessions are ss and
\* the keys of sessionIdMap are map.
StartSession(ss, map, c) ==
    /\ ControllerSessionCount(ss) < MaxConcurrent
    /\ nextId <= MaxIds
    /\ Spawn(nextId)
    /\ sessions' = [ ss EXCEPT ![nextId] = Controller(c) ]
    /\ sessionIdMap' = Append(map, nextId)
    /\ nextId' = nextId + 1

\* observeSession evicts an observed session of the same transcript, which
\* stays in sessionIdMap.
ObserveSession(c, p) ==
    LET stale == { s \in Tracked : sessions[s].claude = c /\ sessions[s].isObserved }
    IN  /\ nextId <= MaxIds
        /\ sessions' = [ s \in Ids |->
               IF s = nextId THEN Observer(c, p)
               ELSE IF s \in stale THEN Deleted(Cleaned(sessions[s]))
               ELSE sessions[s] ]
        /\ stream' = CleanedStreams(stale)
        /\ sessionIdMap' = Append(sessionIdMap, nextId)
        /\ nextId' = nextId + 1

\* Everything but the discovery loop: it leaves the scan alone, and waits for
\* the loop to end, which does not yield.
ScanKept == ~adopting /\ UNCHANGED scanVars

-----------------------------------------------------------------------------
(* Commands of the phone, which names sessions by their Claude session id. *)

\* new_session
NewSession ==
    /\ StartSession(sessions, sessionIdMap, nextId)
    /\ ScanKept /\ UNCHANGED << awaiting, envVars, abortVars >>

\* resume_session, for a transcript of the phone's list: an existing observer
\* is stopped first, also when the cap then refuses the session.
ResumeSession(c) ==
    LET observers == { s \in FindByClaudeSessionId(c) : sessions[s].isObserved }
        ss == [ s \in Ids |-> IF s \in observers THEN Historified(sessions[s]) ELSE sessions[s] ]
        map == Cached(sessionIdMap, observers)
    IN  /\ \/ StartSession(ss, map, c)
           \/ /\ ControllerSessionCount(ss) >= MaxConcurrent
              /\ sessions' = ss /\ sessionIdMap' = map
              /\ UNCHANGED << nextId, stream, nextStream >>
        /\ ScanKept /\ UNCHANGED << awaiting, envVars, abortVars >>

\* Mutant: an aborted query counts as ended before its stream has.
QueryEndedOrAborted(s) ==
    \/ sessions[s].queryHandle = None
    \/ stream[sessions[s].latest].state # "live"

\* sendMessage's test whether the query of a controlled session has ended.
QueryEnded(s) ==
    \/ sessions[s].queryHandle = None
    \/ stream[sessions[s].latest].inputClosed

\* send_message to a controlled session: pushed to its query, or to a new one
\* (resumeWithMessage), which the cap does not count.
SendMessage(c) ==
    /\ \E s \in ResolveInternalSessionId(c) :
         /\ s \in Tracked /\ ~sessions[s].isObserved
         /\ IF QueryEnded(s)
            THEN /\ Spawn(s)
                 /\ sessions' = [ sessions EXCEPT ![s].history = FALSE,
                                    ![s].queryHandle = nextStream, ![s].latest = nextStream ]
            ELSE /\ sessions' = [ sessions EXCEPT ![s].history = FALSE ]
                 /\ UNCHANGED << stream, nextStream >>
    /\ ScanKept /\ UNCHANGED << nextId, sessionIdMap, awaiting, envVars, abortVars >>

\* A command begins to await; what it does after is an action of its own.
Await(cmd) ==
    /\ Cardinality(awaiting) < MaxAwaiting
    /\ awaiting' = awaiting \cup {cmd}
    /\ ScanKept /\ UNCHANGED << sessions, nextId, stream, nextStream, sessionIdMap,
                                envVars, abortVars >>

\* send_message to a session that is not known but runs in a terminal: it is
\* observed after discoverSessions(), and the message goes to the terminal.
SendUntracked(c) ==
    /\ ResolveInternalSessionId(c) = {}
    /\ \E p \in Terminals \ suspended :
         process[p] = c /\ Await([ command |-> "send_message", claude |-> c, pid |-> p ])

SendObserves ==
    /\ \E cmd \in awaiting : /\ cmd.command = "send_message"
                             /\ ObserveSession(cmd.claude, cmd.pid)
                             /\ awaiting' = awaiting \ {cmd}
    /\ ScanKept /\ UNCHANGED << nextStream, envVars, abortVars >>

\* kill_session.  What becomes of an observed Claude is up to TerminalExits.
KillSession(c) ==
    /\ \E s \in ResolveInternalSessionId(c) \cap Tracked :
         LET cleaned == CleanedStreams({s})
         IN  /\ sessions' = [ sessions EXCEPT ![s] = Deleted(Cleaned(@)) ]
             /\ stream' = IF sessions[s].isObserved THEN cleaned ELSE Aborted(cleaned, {s})
             /\ sessionIdMap' = Without(sessionIdMap, s)
    /\ ScanKept /\ UNCHANGED << nextId, nextStream, awaiting, envVars, abortVars >>

\* interrupt_session and rewind_session, of a session that has a query.
Controllable(c) ==
    { s \in ResolveInternalSessionId(c) \cap Tracked :
        ~sessions[s].isObserved /\ sessions[s].queryHandle # None }

InterruptSession(c) ==
    \E s \in Controllable(c) : Await([ command |-> "interrupt_session", session |-> s ])
RewindSession(c) ==
    \E s \in Controllable(c) : Await([ command |-> "rewind_session", session |-> s ])

\* After the await of a command of session s.
Awaited(command, s) ==
    LET cmd == [ command |-> command, session |-> s ]
    IN  cmd \in awaiting /\ awaiting' = awaiting \ {cmd}

Interrupted(s) ==
    /\ Awaited("interrupt_session", s)
    /\ sessionIdMap' = Cached(sessionIdMap, {s})
    /\ ScanKept /\ UNCHANGED << sessions, nextId, stream, nextStream, envVars,
                                abortVars >>

\* interrupt() was rejected: the abort controller the session has by now.
InterruptFails(s) ==
    /\ Awaited("interrupt_session", s)
    /\ stream' = Aborted(stream, {s})
    /\ ScanKept /\ UNCHANGED << sessions, nextId, nextStream, sessionIdMap, envVars,
                                abortVars >>

\* rewindFiles() and forkSession() are done: the fork, a new transcript, is
\* resumed in a session of its own.
RewindForks(s) ==
    /\ Awaited("rewind_session", s)
    /\ StartSession(sessions, sessionIdMap, nextId)
    /\ ScanKept /\ UNCHANGED << envVars, abortVars >>

\* A dry run, a rewind the SDK refuses, a failed fork, or the cap.
RewindEnds(s) ==
    /\ Awaited("rewind_session", s)
    /\ ScanKept /\ UNCHANGED << sessions, nextId, stream, nextStream, sessionIdMap,
                                envVars, abortVars >>

\* emergency_abort: the sessions stay in the map.
EmergencyAbort ==
    /\ aborts < MaxAborts
    /\ aborts' = aborts + 1
    /\ touched' = touched \cup Tracked
    /\ sessions' = [ s \in Ids |-> IF s \in Tracked
                       THEN [ Cleaned(sessions[s]) EXCEPT !.history = TRUE ] ELSE sessions[s] ]
    /\ stream' = Aborted(CleanedStreams(Tracked), Tracked)
    /\ ScanKept /\ UNCHANGED << nextId, nextStream, sessionIdMap, awaiting, envVars >>

\* respondPermission, by permission_response or question_response.
RespondPermission(k) ==
    /\ stream[k].owner # None
    /\ \E s \in ResolveInternalSessionId(sessions[stream[k].owner].claude) \cap Tracked :
         /\ k \in sessions[s].pendingPermissions
         /\ sessions' = [ sessions EXCEPT ![s].pendingPermissions = @ \ {k} ]
    /\ stream' = [ stream EXCEPT ![k].call = IF @ = "waiting" THEN "settled" ELSE @ ]
    /\ ScanKept /\ UNCHANGED << nextId, nextStream, sessionIdMap, awaiting, envVars,
                                abortVars >>

-----------------------------------------------------------------------------
(* SDK streams (consumeQueryStream).  An aborted query yields nothing more   *)
(* but its end.                                                              *)

\* A message: the session is RUNNING or READY.
StreamYields(k) ==
    /\ stream[k].state = "live"
    /\ LET s == stream[k].owner
       IN  /\ sessions' = [ sessions EXCEPT ![s] = WithHistory(@, FALSE) ]
           /\ sessionIdMap' = Cached(sessionIdMap, {s})
    /\ ScanKept /\ UNCHANGED << nextId, stream, nextStream, awaiting, envVars,
                                abortVars >>

\* canUseTool; registerPermissionRequest does nothing for a removed session.
CanUseTool(k) ==
    /\ stream[k].state = "live" /\ stream[k].call = "none"
    /\ stream' = [ stream EXCEPT ![k].call = "waiting" ]
    /\ LET s == stream[k].owner
       IN  /\ sessions' = IF ~sessions[s].tracked THEN sessions
                          ELSE [ sessions EXCEPT ![s].history = FALSE,
                                                 ![s].pendingPermissions = @ \cup {k} ]
           /\ sessionIdMap' = Cached(sessionIdMap, {s})
    /\ ScanKept /\ UNCHANGED << nextId, nextStream, awaiting, envVars, abortVars >>

\* The SDK cancels a call: the listener of its signal leaves the entry.
SignalAborts(k) ==
    /\ stream[k].call = "waiting"
    /\ stream' = [ stream EXCEPT ![k].call = "settled" ]
    /\ ScanKept /\ UNCHANGED << sessions, nextId, nextStream, sessionIdMap, awaiting,
                                envVars, abortVars >>

\* The end of a stream clears the session's handle and closes the session's
\* input controller, whichever query they belong to.
QueryDone(k) ==
    LET s == stream[k].owner
    IN  stream' = [ j \in Streams |->
          [ stream[j] EXCEPT !.state = IF j = k THEN "ended" ELSE @,
                             !.inputClosed = @ \/ sessions[s].latest = j ] ]

\* The generator ends, or throws an error that is no AbortError.
StreamEnds(k) ==
    /\ Live(k) /\ QueryDone(k)
    /\ LET s == stream[k].owner
       IN  /\ sessions' = [ sessions EXCEPT ![s] =
                            [ WithHistory(@, FALSE) EXCEPT !.queryHandle = None ] ]
           /\ sessionIdMap' = Cached(sessionIdMap, {s})
    /\ ScanKept /\ UNCHANGED << nextId, nextStream, awaiting, envVars, abortVars >>

\* AbortError, with the session_ended listener.
StreamAborts(k) ==
    /\ stream[k].state = "aborted" /\ QueryDone(k)
    /\ LET s == stream[k].owner
       IN  /\ sessions' = [ sessions EXCEPT ![s] =
                            [ WithHistory(@, TRUE) EXCEPT !.queryHandle = None ] ]
           /\ sessionIdMap' = Without(sessionIdMap, s)
    /\ ScanKept /\ UNCHANGED << nextId, nextStream, awaiting, envVars, abortVars >>

-----------------------------------------------------------------------------
(* The discovery timer: checkObservedSessionPids, and a pass that reads the  *)
(* processes and awaits the transcripts (bound: one pass at a time).         *)

Tick ==
    /\ scan = NothingRead /\ ~adopting
    /\ LET gone == { s \in Tracked : /\ sessions[s].isObserved
                                     /\ ~Listed(sessions[s].terminalPid) }
       IN  /\ sessions' = [ s \in Ids |->
                              IF s \in gone THEN Historified(sessions[s]) ELSE sessions[s] ]
           /\ sessionIdMap' = Cached(sessionIdMap, gone)
    /\ scan' = [ p \in Processes |-> IF Listed(p) THEN Runs(p) ELSE None ]
    /\ UNCHANGED << nextId, stream, nextStream, awaiting, adopting, envVars, abortVars >>

DiscoverResolves ==
    /\ scan # NothingRead /\ ~adopting
    /\ adopting' = TRUE
    /\ UNCHANGED << sessions, nextId, stream, nextStream, sessionIdMap, awaiting, scan,
                    envVars, abortVars >>

\* Mutant: a session that is known is skipped, history or not.
NeverRePromotes(s, p) == FALSE

\* What the loop does to a session it knows by the transcript of process p.
RePromotes(s, p) == ~sessions[s].isObserved /\ sessions[s].history

\* One round of the loop: process p ran the transcript c when it was read.
Adopt(p) ==
    /\ adopting /\ scan[p] # None
    /\ scan' = [ scan EXCEPT ![p] = None ]
    /\ adopting' = (scan' # NothingRead)
    /\ LET c == scan[p]
       IN  \/ /\ \E s \in FindByClaudeSessionId(c) :
                   /\ RePromotes(s, p)
                   /\ sessions' = [ sessions EXCEPT ![s] = RePromoted(@, p) ]
                   /\ sessionIdMap' = Cached(sessionIdMap, {s})
              /\ UNCHANGED << nextId, stream >>
           \/ /\ FindByClaudeSessionId(c) = {}
              /\ ObserveSession(c, p)
           \/ /\ \/ \E s \in FindByClaudeSessionId(c) : ~RePromotes(s, p)
                 \/ nextId > MaxIds
              /\ UNCHANGED << sessions, sessionIdMap, nextId, stream >>
    /\ UNCHANGED << nextStream, awaiting, envVars, abortVars >>

-----------------------------------------------------------------------------
(* The machine: terminals are opened, suspended and closed. *)

daemonVars == << sessions, nextId, stream, nextStream, sessionIdMap, awaiting, abortVars >>

TerminalStarts(p, c) ==
    /\ process[p] = NotRunning
    /\ process' = [ process EXCEPT ![p] = c ]
    /\ ScanKept /\ UNCHANGED << daemonVars, suspended >>

TerminalExits(p) ==
    /\ process[p] \in ClaudeIds
    /\ process' = [ process EXCEPT ![p] = Exited ]
    /\ ScanKept /\ UNCHANGED << daemonVars, suspended >>

TogglesSuspended(p) ==
    /\ p \in Suspendable /\ process[p] \in ClaudeIds
    /\ suspended' = IF p \in suspended THEN suspended \ {p} ELSE suspended \cup {p}
    /\ ScanKept /\ UNCHANGED << daemonVars, process >>

Machine ==
    \E p \in Terminals : \/ \E c \in KnownClaudeIds : TerminalStarts(p, c)
                         \/ TerminalExits(p) \/ TogglesSuspended(p)

Phone ==
    \/ NewSession \/ EmergencyAbort
    \/ \E c \in KnownClaudeIds : \/ ResumeSession(c) \/ SendMessage(c) \/ SendUntracked(c)
                                 \/ KillSession(c) \/ InterruptSession(c) \/ RewindSession(c)
    \/ \E k \in Streams : RespondPermission(k)

Sdk ==
    \/ \E k \in Streams : \/ StreamYields(k) \/ CanUseTool(k) \/ SignalAborts(k)
                          \/ StreamEnds(k) \/ StreamAborts(k)
    \/ \E s \in Ids : Interrupted(s) \/ InterruptFails(s) \/ RewindForks(s) \/ RewindEnds(s)

Discovery == Tick \/ DiscoverResolves \/ \E p \in Processes : Adopt(p)

Next == Phone \/ SendObserves \/ Sdk \/ Discovery \/ Machine

Spec == Init /\ [][Next]_vars

\* The interval fires, and its promise settles.
FairSpec ==
    /\ Spec
    /\ WF_vars(Tick) /\ WF_vars(DiscoverResolves)
    /\ WF_vars(\E p \in Processes : Adopt(p))

-----------------------------------------------------------------------------
\* A session has at most one query running, and that is the one its handle,
\* its input and its abort controller belong to: a message is not pushed to a
\* query that has ended, the end of an earlier query does not touch a later
\* one, and a session that is observed or history has none.  Excepted is a
\* session that went through an emergency abort, which closes the input of a
\* query that has yet to end (see the README).
OneQuery ==
    \A s \in Ids \ touched : \A k \in Streams :
        stream[k].owner = s /\ Live(k) =>
            /\ sessions[s].queryHandle = k \/ ~sessions[s].tracked
            /\ sessions[s].latest = k
            /\ sessions[s].tracked => /\ ~stream[k].inputClosed
                                      /\ ~sessions[s].isObserved /\ ~sessions[s].history

\* killSession: "the session entry is removed from the map before signaling".
\* A session that is gone from the map has no query that was not aborted, and
\* its observer is stopped.
GoneIsStopped ==
    \A s \in Ids \ touched : ~sessions[s].tracked =>
        /\ ~sessions[s].observer
        /\ \A k \in Streams : stream[k].owner = s /\ Live(k) => stream[k].state = "aborted"

\* registerPermissionRequest has no timer: "controller-mode permissions block
\* the SDK query indefinitely".  So a canUseTool promise that waits must be one
\* the phone can answer: its session is in the map and has an entry for it.
WaitingIsAnswerable ==
    \A k \in Streams : stream[k].call = "waiting" =>
        LET s == stream[k].owner
        IN  s \in touched \/ (sessions[s].tracked /\ k \in sessions[s].pendingPermissions)

\* An observed session tails its transcript, and no other session does: none
\* that was resumed, evicted, killed or whose terminal ended.
ObserverIffObserved ==
    \A s \in Ids \ touched :
        sessions[s].observer <=> (sessions[s].tracked /\ sessions[s].isObserved)

\* session-discovery-loop.ts, on the invisible PID: a Claude that goes on
\* running in a terminal is seen by the daemon, whatever spurious checks, kills
\* and resumes came before: a session of its transcript is observed, or the
\* phone controls one.  Excepted are emergency aborts, which stop the observer
\* of a session that stays observed, and the bound MaxIds.
Seen(c) ==
    \/ nextId > MaxIds
    \/ \E s \in Tracked : /\ sessions[s].claude = c
                          /\ \/ sessions[s].observer
                             \/ ~sessions[s].isObserved /\ ~sessions[s].history
                             \/ s \in touched
TerminalSeen ==
    \A p \in Terminals, c \in ClaudeIds :
        <>[](process[p] = c /\ p \notin suspended) => []<>Seen(c)

\* session-lifecycle.ts: "stop and remove it to prevent duplicate message
\* emission when switching from observe to SDK control".  The code stops the
\* observer but leaves the session, which discovery observes again.
SwitchStopsObserver ==
    \A s, t \in Tracked : sessions[s].claude = sessions[t].claude =>
        ~(sessions[s].observer /\ ~sessions[t].isObserved /\ sessions[t].queryHandle # None)
=============================================================================
