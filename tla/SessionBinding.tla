---------------------------- MODULE SessionBinding ----------------------------
(***************************************************************************)
(* Which terminal a Claude session belongs to, when /clear gives a process *)
(* a new session, claude --resume gives a session a new process, hooks get *)
(* lost and the daemon is restarted.                                       *)
(*                                                                         *)
(*   src/src/wiring/session-discovery-loop.ts     the pass over processes  *)
(*   src/src/wiring/hook-handlers-lifecycle.ts    SessionEnd, SessionStart *)
(*   src/src/utils/session-map.ts, persistence/binding-journal.ts          *)
(*                                                files that survive       *)
(*   src/src/sessions/session-manager.ts          the records of sessions  *)
(*   src/src/commands/handlers/list-sessions.ts   what the phone is shown  *)
(*                                                                         *)
(* A process knows its own session; the daemon has to infer it from the    *)
(* file that Claude wrote when the process started (<pid>.json, which      *)
(* /clear leaves alone), from session-map.json, which a hook script writes *)
(* at every start, /clear and resume, and from the hooks that reach it.    *)
(***************************************************************************)
EXTENDS Integers, Sequences, FiniteSets, SequencesExt, Subsequences

CONSTANTS
    Pids,        \* processes of Claude in a terminal; a pid is not reused
    CwdOf,       \* the directory of each
    MaxSids,     \* bound: sessions Claude ever starts
    MaxMoves,    \* bound: starts, resumes and /clears, as soon as two processes ran
    MaxRestarts  \* bound: restarts of the daemon

Sids == 1 .. MaxSids
None == 0
NotRunning == -1
Exited == -2
Cwds == { CwdOf[p] : p \in Pids }

ASSUME BindingAssumption ==
    /\ MaxSids \in Nat /\ MaxMoves \in Nat /\ MaxRestarts \in Nat
    /\ Pids \cap Int = {} /\ DOMAIN CwdOf = Pids

VARIABLES
    runs,         \* the session each process runs
    ran,          \* the sessions each process has run
    pidJson,      \* sessionId in ~/.claude/sessions/<pid>.json
    nextSid,      \* the next session that Claude starts
    disk,         \* the transcripts, in the order of their last change
    hook,         \* SessionEnd and SessionStart hooks a process still has to send
    mapFile,      \* session-map.json, in the order of its timestamps
    journal,      \* binding-journal, without the events no lookup can reach any more
    sessions,     \* SessionManager.sessions, in the order of insertion: [claude, pid, last]
    replaced,     \* replacedSessionIds
    pendingClear, \* pendingClearInfo, by cwd: a pid
    tick,         \* the discovery pass: its step and what its loops still have to do
    restarts,
    astray        \* processes observed, for a message or in the middle of a
                  \* /clear, for a session they no longer run

outside == << runs, ran, pidJson, nextSid, hook >>
files   == << mapFile, journal >>
memory  == << sessions, replaced, pendingClear >>
vars == << outside, disk, files, memory, tick, restarts, astray >>

\* A record is observed if it has a terminalPid, and HISTORY if not; `last' is
\* its lastKnownPid.
Records == [ claude : Sids, pid : Pids \cup {None}, last : Pids \cup {None} ]
Hooks == [ event : {"session_end", "session_start"}, claude : Sids,
           source : {"clear", "startup", "resume"}, written : BOOLEAN ]
Events == [ event : {"observe", "historify", "clear", "pid-exited", "remove"},
            pid : Pids, claude : Sids ]
Entries == [ claude : Sids, pid : Pids ]

Closes(e) == e.event \in {"historify", "remove", "pid-exited"}

BindingTypeOK ==
    /\ runs \in [Pids -> Sids \cup {NotRunning, Exited}]
    /\ ran \in [Pids -> SUBSET Sids]
    /\ pidJson \in [Pids -> Sids \cup {None}]
    /\ nextSid \in 1 .. MaxSids + 1
    /\ disk \in Seq(Sids) /\ hook \in [Pids -> Seq(Hooks)]
    /\ mapFile \in Seq(Entries) /\ journal \in Seq(Events)
    /\ sessions \in Seq(Records) /\ replaced \subseteq Sids
    /\ pendingClear \in [Cwds -> Pids \cup {None}]
    /\ tick \in [ step : {"down", "idle", "adopt", "observe"}, boot : BOOLEAN,
                  adopt : SUBSET Sids, observe : SUBSET Pids ]
    /\ restarts \in 0 .. MaxRestarts /\ astray \subseteq Pids

Idle == [ step |-> "idle", boot |-> FALSE, adopt |-> {}, observe |-> {} ]
Down == [ step |-> "down", boot |-> FALSE, adopt |-> {}, observe |-> {} ]

Init ==
    /\ runs = [p \in Pids |-> NotRunning] /\ ran = [p \in Pids |-> {}]
    /\ pidJson = [p \in Pids |-> None] /\ nextSid = 1
    /\ disk = << >> /\ hook = [p \in Pids |-> << >>]
    /\ mapFile = << >> /\ journal = << >>
    /\ sessions = << >> /\ replaced = {} /\ pendingClear = [w \in Cwds |-> None]
    /\ tick = Idle /\ restarts = 0 /\ astray = {}

-----------------------------------------------------------------------------
(* The files. *)

Alive(p) == runs[p] \in Sids
OnDisk(c) == \E i \in DOMAIN disk : disk[i] = c
Newer(c, d) == \E i, j \in DOMAIN disk : disk[i] = c /\ disk[j] = d /\ i > j
Touched(c) == Append(Picked(disk, { i \in DOMAIN disk : disk[i] # c }), c)

\* The hook script: the entry of a session is replaced, those of dead processes go.
Written(c, p) ==
    Append(Picked(mapFile, { i \in DOMAIN mapFile : mapFile[i].claude # c /\ Alive(mapFile[i].pid) }),
           [claude |-> c, pid |-> p])

MapPid(c) == { mapFile[i].pid : i \in { j \in DOMAIN mapFile : mapFile[j].claude = c } }

\* getLatestSessionMapEntryForPid: the newest entry whose transcript exists.
LatestEntry(p) ==
    { mapFile[i].claude : i \in { j \in DOMAIN mapFile :
        /\ mapFile[j].pid = p /\ OnDisk(mapFile[j].claude)
        /\ \A k \in j + 1 .. Len(mapFile) :
               ~ (mapFile[k].pid = p /\ OnDisk(mapFile[k].claude)) } }

\* Mutant: the map is not asked.
SidOfFile(p) == pidJson[p]

\* What the pass and the list take for the session of a running process.
SidOf(p) == IF LatestEntry(p) = {} THEN pidJson[p] ELSE CHOOSE c \in LatestEntry(p) : TRUE

CleanSessionMap(dead) == Picked(mapFile, { i \in DOMAIN mapFile : mapFile[i].pid \notin dead })
RemoveEntries(cs) == Picked(mapFile, { i \in DOMAIN mapFile : mapFile[i].claude \notin cs })
GcSessionMap(map) ==
    Picked(map, { i \in DOMAIN map : Alive(map[i].pid) /\ OnDisk(map[i].claude) })

\* append.  A lookup reaches the last event of a pid, and the last observe and
\* the last closing event of a session; the model's log keeps no others.
Logged(events) ==
    LET log == journal \o events
        Final(i, Same(_)) == \A j \in i + 1 .. Len(log) : ~ Same(log[j])
    IN  Picked(log, { i \in DOMAIN log :
            \/ Final(i, LAMBDA e : e.pid = log[i].pid)
            \/ /\ log[i].event = "observe"
               /\ Final(i, LAMBDA e : e.claude = log[i].claude /\ e.event = "observe")
            \/ /\ Closes(log[i])
               /\ Final(i, LAMBDA e : e.claude = log[i].claude /\ Closes(e)) })

\* The three lookups in the journal; None is undefined.
LastObserve(Test(_)) ==
    LET found == { i \in DOMAIN journal : journal[i].event = "observe" /\ Test(journal[i]) }
    IN  IF found = {} THEN [pid |-> None, claude |-> None, at |-> 0]
        ELSE LET i == CHOOSE i \in found : \A j \in found : j <= i
             IN  [pid |-> journal[i].pid, claude |-> journal[i].claude, at |-> i]

LastObserveForSessionId(c) == LastObserve(LAMBDA e : e.claude = c)
LastObserveForJsonl(c) == LastObserve(LAMBDA e : e.claude = c).pid

Superseded(i) ==
    \E j \in i + 1 .. Len(journal) : journal[j].claude = journal[i].claude /\ Closes(journal[j])

LastObserveForPid(p) ==
    LET mine == { i \in DOMAIN journal : journal[i].pid = p }
    IN  IF mine = {} THEN None
        ELSE LET i == CHOOSE i \in mine : \A j \in mine : j <= i
             IN  CASE journal[i].event = "observe" ->
                          IF Superseded(i) THEN None ELSE journal[i].claude
                   [] journal[i].event = "clear" ->
                          LastObserveForSessionId(journal[i].claude).claude
                   [] OTHER -> None

-----------------------------------------------------------------------------
(* The session manager, as far as bindings go. *)

All == ToSet(sessions)
Tracked(c) == \E r \in All : r.claude = c

\* findByClaudeSessionId and findByTerminalPid: the first, in a set.
First(Test(_)) == { sessions[i] : i \in { j \in DOMAIN sessions :
    Test(sessions[j]) /\ \A k \in 1 .. j - 1 : ~ Test(sessions[k]) } }
Record(c) == CHOOSE r \in First(LAMBDA r : r.claude = c) : TRUE
ObservedOn(p) == First(LAMBDA r : r.pid = p)
Without(r) == Picked(sessions, { i \in DOMAIN sessions : sessions[i] # r })
Event(e, p, c) == [ event |-> e, pid |-> p, claude |-> c ]

\* observeSession, after it evicted an observed record of the same session.
Observe(S, c, p) ==
    Append(Picked(S, { i \in DOMAIN S : S[i].claude # c \/ S[i].pid = None }),
           [ claude |-> c, pid |-> p, last |-> None ])

\* Mutant: a record in HISTORY is made HISTORY again.
HistorifiedTwice(r) == << Event("historify", r.pid, r.claude), Event("remove", r.last, r.claude) >>

\* markObservedSessionHistory, then removeSession.
RemoveEvents(r) ==
    (IF r.pid = None THEN << >> ELSE << Event("historify", r.pid, r.claude) >>)
      \o << Event("remove", IF r.pid = None THEN r.last ELSE r.pid, r.claude) >>

\* The record r makes room for session c on process p.
Replace(r, c, p, before) ==
    /\ sessions' = Observe(Without(r), c, p)
    /\ journal' = Logged(before \o RemoveEvents(r) \o << Event("observe", p, c) >>)
    /\ replaced' = replaced \cup {r.claude}

StartObserving(c, p) ==
    /\ sessions' = Observe(sessions, c, p)
    /\ journal' = Logged(<< Event("observe", p, c) >>)

\* Mutant: the journal is not told.
RePromoteUnlogged(r, p) ==
    /\ sessions' = [ i \in DOMAIN sessions |-> IF sessions[i] = r THEN [ r EXCEPT !.pid = p ] ELSE sessions[i] ]
    /\ UNCHANGED journal

\* rePromoteHistoryToObserved of a record in HISTORY.
RePromote(r, p) ==
    /\ sessions' = [ i \in DOMAIN sessions |-> IF sessions[i] = r THEN [ r EXCEPT !.pid = p ] ELSE sessions[i] ]
    /\ journal' = Logged(<< Event("observe", p, r.claude) >>)

\* checkObservedSessionPids: the records of processes that have exited.
Dead == { r \in All : r.pid # None /\ ~ Alive(r.pid) }
Historified(R) ==
    [ i \in DOMAIN sessions |-> LET r == sessions[i] IN
        IF r \in R THEN [ r EXCEPT !.pid = None, !.last = r.pid ] ELSE r ]
ExitEvents(R) ==
    LET exited == Picked(sessions, { i \in DOMAIN sessions : sessions[i] \in R })
    IN  [ n \in 1 .. 2 * Len(exited) |->
            LET r == exited[(n + 1) \div 2]
            IN  Event(IF n % 2 = 1 THEN "historify" ELSE "pid-exited", r.pid, r.claude) ]

-----------------------------------------------------------------------------
(* Claude, in its terminals. *)

StartHook(c, source) == [ event |-> "session_start", claude |-> c, source |-> source, written |-> FALSE ]
EndHook(c) == [ event |-> "session_end", claude |-> c, source |-> "clear", written |-> FALSE ]

Begins(p, c) ==
    /\ \/ \A q \in Pids \ {p} : ran[q] = {}
       \/ MapThenSumSet(LAMBDA q : Cardinality(ran[q]), Pids) < MaxMoves
    /\ runs' = [runs EXCEPT ![p] = c] /\ ran' = [ran EXCEPT ![p] = @ \cup {c}]
    /\ UNCHANGED << disk, files, memory, tick, restarts, astray >>

\* claude
Starts(p) ==
    /\ runs[p] = NotRunning /\ nextSid <= MaxSids
    /\ Begins(p, nextSid)
    /\ pidJson' = [pidJson EXCEPT ![p] = nextSid]
    /\ nextSid' = nextSid + 1
    /\ hook' = [hook EXCEPT ![p] = << StartHook(nextSid, "startup") >>]

\* claude --resume, which does not ask whether another process runs the session
Resumes(p, c) ==
    /\ runs[p] = NotRunning /\ OnDisk(c)
    /\ Begins(p, c)
    /\ pidJson' = [pidJson EXCEPT ![p] = c]
    /\ hook' = [hook EXCEPT ![p] = << StartHook(c, "resume") >>]
    /\ UNCHANGED nextSid

\* /clear: <pid>.json keeps the process's first session.
Clears(p) ==
    /\ Alive(p) /\ hook[p] = << >> /\ nextSid <= MaxSids
    /\ Begins(p, nextSid)
    /\ nextSid' = nextSid + 1
    /\ hook' = [hook EXCEPT ![p] = << EndHook(runs[p]), StartHook(nextSid, "clear") >>]
    /\ UNCHANGED pidJson

Writes(p) ==
    /\ Alive(p)
    /\ disk' = Touched(runs[p]) /\ disk' # disk
    /\ UNCHANGED << outside, files, memory, tick, restarts, astray >>

Exits(p) ==
    /\ Alive(p)
    /\ runs' = [runs EXCEPT ![p] = Exited]
    /\ UNCHANGED << ran, pidJson, nextSid, hook, disk, files, memory, tick, restarts, astray >>

\* The script of a SessionStart hook, before it posts to the daemon, which makes
\* nothing of a startup.
ScriptRuns(p) ==
    /\ hook[p] # << >> /\ Head(hook[p]).event = "session_start" /\ ~ Head(hook[p]).written
    /\ mapFile' = Written(Head(hook[p]).claude, p)
    /\ hook' = [hook EXCEPT ![p] = IF @[1].source = "startup" THEN << >>
                                   ELSE [@ EXCEPT ![1].written = TRUE]]
    /\ UNCHANGED << runs, ran, pidJson, nextSid, disk, journal, memory, tick, restarts, astray >>

Sent(p) ==
    /\ hook[p] # << >>
    /\ Head(hook[p]).event = "session_start" => Head(hook[p]).written
    /\ hook' = [hook EXCEPT ![p] = Tail(@)]
    /\ UNCHANGED << runs, ran, pidJson, nextSid >>

\* The daemon is down.  (A post to a daemon that is up but busy is served late.)
HookLost(p) == tick.step = "down" /\ Sent(p) /\ UNCHANGED << disk, files, memory, tick, restarts, astray >>

-----------------------------------------------------------------------------
(* The daemon's hook handlers. *)

\* registerSessionEndHandler, reason clear
SessionEnd(p) ==
    /\ tick.step = "idle" /\ Sent(p) /\ Head(hook[p]).event = "session_end"
    /\ LET c == Head(hook[p]).claude
           r == Record(c)
       IN  IF ~ Tracked(c) THEN UNCHANGED << journal, memory >>
           ELSE /\ pendingClear' = IF r.pid = None THEN pendingClear
                                   ELSE [pendingClear EXCEPT ![CwdOf[p]] = r.pid]
                /\ sessions' = Without(r)
                /\ journal' = Logged(RemoveEvents(r))
                /\ replaced' = replaced \cup {c}
    /\ UNCHANGED << disk, mapFile, tick, restarts, astray >>

\* setTimeoutFn(() => pendingClearInfo.delete(cwd), 30_000)
PendingClearExpires(w) ==
    /\ tick.step = "idle" /\ pendingClear[w] # None
    /\ pendingClear' = [pendingClear EXCEPT ![w] = None]
    /\ UNCHANGED << outside, disk, files, sessions, replaced, tick, restarts, astray >>

\* The pid that the map has for session c, if a record is observed on it.
Predecessor(c) == UNION { ObservedOn(q) : q \in MapPid(c) }

\* Mutant: the record of the session before stays.
AfterClearBeside(c, w) ==
    /\ IF Predecessor(c) = {} THEN UNCHANGED << sessions, journal >>
       ELSE \E r \in Predecessor(c) : StartObserving(c, r.pid)
    /\ UNCHANGED << replaced, pendingClear >>

\* registerSessionStartHandler, source clear, of a session not yet tracked
AfterClear(c, w) ==
    IF pendingClear[w] # None
    THEN /\ StartObserving(c, pendingClear[w])
         /\ pendingClear' = [pendingClear EXCEPT ![w] = None]
         /\ UNCHANGED replaced
    ELSE /\ IF Predecessor(c) = {} THEN UNCHANGED << sessions, journal, replaced >>
            ELSE \E r \in Predecessor(c) : Replace(r, c, r.pid, << >>)
         /\ UNCHANGED pendingClear

\* registerSessionStartHandler, source resume, of a session in HISTORY
AfterResume(c) ==
    /\ IF Tracked(c) /\ Record(c).pid = None /\ MapPid(c) # {}
       THEN \E q \in MapPid(c) : RePromote(Record(c), q)
       ELSE UNCHANGED << sessions, journal >>
    /\ UNCHANGED << replaced, pendingClear >>

SessionStart(p) ==
    /\ tick.step = "idle" /\ Sent(p) /\ Head(hook[p]).event = "session_start"
    /\ LET h == Head(hook[p])
       IN  CASE h.source = "resume" -> AfterResume(h.claude)
             [] h.source = "clear" /\ ~ Tracked(h.claude) -> AfterClear(h.claude, CwdOf[p])
             [] OTHER -> UNCHANGED << journal, memory >>
    /\ UNCHANGED << disk, mapFile, tick, restarts, astray >>

-----------------------------------------------------------------------------
(* The discovery pass: one tick of the loop, between two of which hooks and *)
(* commands run; its loops do not yield.                                    *)

Running == { p \in Pids : Alive(p) }

\* checkObservedSessionPids, then discoverAndObserveSessions reads what runs.
TickBegins ==
    /\ tick.step = "idle"
    /\ sessions' = Historified(Dead)
    /\ journal' = Logged(ExitEvents(Dead))
    /\ mapFile' = CleanSessionMap({ r.pid : r \in Dead })
    /\ tick' = IF Running = {} THEN Idle
               ELSE [ Idle EXCEPT !.step = "adopt", !.observe = Running,
                                  !.adopt = { r.claude : r \in { s \in ToSet(sessions') : s.pid # None } } ]
    /\ UNCHANGED << outside, disk, replaced, pendingClear, restarts, astray >>

\* Mutant: any newer transcript that no running process began with.
AdoptableByTime(r) ==
    { d \in Sids :
        /\ Newer(d, r.claude) /\ ~ Tracked(d) /\ d \notin replaced
        /\ \A q \in Running : pidJson[q] = d => q = r.pid }

\* passesAdoptionGuard, and the filters before it; the pid files still name the
\* session that each process began with.
Adoptable(r) ==
    { d \in Sids :
        /\ Newer(d, r.claude) /\ ~ Tracked(d) /\ d \notin replaced
        /\ \A q \in Running : pidJson[q] = d => q = r.pid
        /\ MapPid(d) = {r.pid} }

\* The transcript of r has been quiet for ten seconds, and a newer one of its
\* process is adopted; discovered is sorted by the last change.  The records
\* for which this does not happen are passed over: Observes may come first.
Adopts(c) ==
    /\ tick.step = "adopt" /\ c \in tick.adopt
    /\ tick' = [tick EXCEPT !.adopt = @ \ {c}]
    /\ LET r == Record(c)
       IN  \E d \in Adoptable(r) :
             /\ \A e \in Adoptable(r) : ~ Newer(e, d)
             /\ Replace(r, d, r.pid, << Event("clear", r.pid, d) >>)
    /\ UNCHANGED << outside, disk, mapFile, pendingClear, restarts, astray >>

\* The recovery of a process whose session was replaced: the newest entry of
\* the map that is neither tracked nor replaced; the others are removed.
Eligible(p, gone) ==
    { c \in Sids : MapPid(c) = {p} /\ ~ Tracked(c) /\ c \notin gone }
Position(c) == CHOOSE i \in DOMAIN mapFile : mapFile[i].claude = c
Corrected(p, gone) ==
    { c \in Eligible(p, gone) : \A d \in Eligible(p, gone) : Position(d) <= Position(c) }
Stale(p, gone) == { c \in Sids : MapPid(c) = {p} } \ Corrected(p, gone)

Recovers(p, gone) ==
    \/ \E c \in Corrected(p, gone) : OnDisk(c) /\ StartObserving(c, p)
    \/ /\ \A c \in Corrected(p, gone) : ~ OnDisk(c)
       /\ UNCHANGED << sessions, journal >>

\* The rescue through the journal, of a record whose lastKnownPid still runs.
Rescuable(p) == { r \in First(LAMBDA s : s.pid = None /\ s.last = p) : r.claude = LastObserveForPid(p) }

Replaced(p) == IF SidOf(p) = pidJson[p] THEN replaced ELSE replaced \cup {pidJson[p]}
NothingToDo == UNCHANGED << sessions, journal >>

\* The session is tracked: its record is observed, or promoted from HISTORY.
ObservesKnown(p) ==
    /\ Tracked(SidOf(p))
    /\ LET r == Record(SidOf(p))
       IN  IF r.pid = None /\ OnDisk(r.claude) THEN RePromote(r, p) ELSE NothingToDo
    /\ replaced' = Replaced(p) /\ UNCHANGED mapFile

\* The process is observed for another session.
ObservesChanged(p) ==
    /\ ~ Tracked(SidOf(p)) /\ ObservedOn(p) # {}
    /\ IF SidOf(p) \notin Replaced(p) /\ OnDisk(SidOf(p))
       THEN \E r \in ObservedOn(p) :
              /\ sessions' = Observe(Without(r), SidOf(p), p)
              /\ journal' = Logged(RemoveEvents(r) \o << Event("observe", p, SidOf(p)) >>)
              /\ replaced' = Replaced(p) \cup {r.claude}
       ELSE NothingToDo /\ replaced' = Replaced(p)
    /\ UNCHANGED mapFile

\* The process is not observed, and its session was replaced.
ObservesReplaced(p) ==
    /\ ~ Tracked(SidOf(p)) /\ ObservedOn(p) = {} /\ SidOf(p) \in Replaced(p)
    /\ Recovers(p, Replaced(p))
    /\ mapFile' = RemoveEntries(Stale(p, Replaced(p)))
    /\ replaced' = Replaced(p)

\* Neither is known.  (passesStandalonePidNewerPick lets no other transcript
\* than the process's own through, so none is picked in its place.)
ObservesNew(p) ==
    /\ ~ Tracked(SidOf(p)) /\ ObservedOn(p) = {} /\ SidOf(p) \notin Replaced(p)
    /\ IF OnDisk(SidOf(p)) THEN StartObserving(SidOf(p), p)
       ELSE IF Rescuable(p) # {} THEN \E r \in Rescuable(p) : RePromote(r, p)
       ELSE NothingToDo
    /\ replaced' = Replaced(p) /\ UNCHANGED mapFile

Observes(p) ==
    /\ tick.step # "idle" /\ p \in tick.observe
    /\ tick' = IF tick.observe = {p} /\ ~ tick.boot THEN Idle
               ELSE [tick EXCEPT !.step = "observe", !.observe = @ \ {p}]
    /\ ObservesKnown(p) \/ ObservesChanged(p) \/ ObservesReplaced(p) \/ ObservesNew(p)
    /\ astray' = IF pendingClear[CwdOf[p]] = p
                    /\ \E r \in ToSet(sessions') \ All : r.pid = p /\ r.claude # runs[p]
                 THEN astray \cup {p} ELSE astray
    /\ UNCHANGED << outside, disk, pendingClear, restarts >>

\* The first pass of a daemon is followed by gcSessionMap.
BootEnds ==
    /\ tick.boot /\ tick.observe = {}
    /\ mapFile' = GcSessionMap(mapFile) /\ tick' = Idle
    /\ UNCHANGED << outside, disk, journal, memory, restarts, astray >>

-----------------------------------------------------------------------------
(* A message of the phone to a session that is not tracked; a restart. *)

SendMessage(c, p) ==
    /\ tick.step = "idle"
    /\ ~ Tracked(c) /\ Alive(p) /\ pidJson[p] = c /\ OnDisk(c)
    /\ StartObserving(c, p)
    /\ astray' = IF runs[p] = c THEN astray ELSE astray \cup {p}
    /\ UNCHANGED << outside, disk, mapFile, replaced, pendingClear, tick, restarts >>

Crashes ==
    /\ restarts < MaxRestarts /\ tick.step # "down"
    /\ restarts' = restarts + 1
    /\ sessions' = << >> /\ replaced' = {} /\ pendingClear' = [w \in Cwds |-> None]
    /\ tick' = Down
    /\ UNCHANGED << outside, disk, files, astray >>

\* start: the first pass checks no pids, since it knows of none.
Boots ==
    /\ tick.step = "down"
    /\ tick' = [ Idle EXCEPT !.step = "observe", !.boot = TRUE, !.observe = Running ]
    /\ UNCHANGED << outside, disk, files, memory, restarts, astray >>

-----------------------------------------------------------------------------
Process(p) ==
    \/ Starts(p) \/ (\E c \in Sids : Resumes(p, c)) \/ Clears(p)
    \/ Writes(p) \/ Exits(p) \/ ScriptRuns(p) \/ HookLost(p)

Step ==
    \/ TickBegins \/ BootEnds \/ Boots
    \/ \E c \in Sids : Adopts(c)
    \/ \E p \in Pids : Observes(p)

\* A pass runs to its end before a process or a hook is heard of again.
Quiet == tick.step \in {"idle", "down"}

Next ==
    \/ Step
    \/ Quiet /\ \E p \in Pids : Process(p) \/ SessionEnd(p) \/ SessionStart(p)
    \/ \E w \in Cwds : PendingClearExpires(w)
    \/ \E c \in Sids, p \in Pids : SendMessage(c, p)
    \/ Crashes

Spec == Init /\ [][Next]_vars

-----------------------------------------------------------------------------
(* list-sessions.ts: what the phone is shown. *)

Row(c, p) == [ session |-> c, pid |-> p ]

TrackedRows == { Row(r.claude, r.pid) : r \in All }

\* A row whose transcript another process was the last to be observed on is
\* taken for a ghost.
Phantom(c, p) == OnDisk(c) /\ LastObserveForJsonl(c) \notin {None, p}

AliveRows ==
    { Row(SidOf(p), p) : p \in { q \in Running :
        /\ ObservedOn(q) = {} /\ ~ Tracked(SidOf(q)) /\ ~ Phantom(SidOf(q), q) } }

HistoryRows ==
    { Row(c, None) : c \in { d \in Sids : /\ OnDisk(d) /\ d \notin replaced
        /\ \A r \in TrackedRows \cup AliveRows : r.session # d } }

\* buildMergedSessionView
View == TrackedRows \cup AliveRows \cup HistoryRows

-----------------------------------------------------------------------------
(* Properties. *)

\* A terminal on its own: no other has run a session of it or is in its
\* directory.  The others are mistaken for each other, by pendingClearInfo, by
\* <pid>.json and through a record that nobody updated.
Alone(p) == \A q \in Pids \ {p} : CwdOf[q] # CwdOf[p] /\ ran[p] \cap ran[q] = {}

\* A session has one record, and a terminal on its own is observed for one
\* session: over hooks, passes, messages and restarts, none of which knows of
\* the others.  The exceptions go astray: a message to a session that /clear
\* replaced, which is observed again on the terminal that cleared it, and a
\* pass between the SessionEnd and the SessionStart of a /clear that finds an
\* earlier session of the terminal in the map.
OneBinding ==
    /\ \A i, j \in DOMAIN sessions : sessions[i].claude = sessions[j].claude => i = j
    /\ \A r, s \in All :
           (r.pid = s.pid /\ r.pid \in Pids \ astray /\ Alone(r.pid)) => r = s

\* A row of the list that names a terminal on its own shows a session that ran
\* in it: lost hooks, an old <pid>.json and a restart carry none to it from
\* elsewhere, and from it none elsewhere.
RowsAreTrue ==
    \A row \in View : row.pid # None =>
        IF Alone(row.pid) THEN row.session \in ran[row.pid]
        ELSE \E q \in Pids : ~ Alone(q) /\ row.session \in ran[q]

\* The journal tells of every record what the manager holds: the last observe
\* of an observed session names its process and was not superseded; so the
\* journal has no record to rescue, whatever was lost before.
JournalAgrees ==
    /\ \A r \in All : r.pid # None =>
         LET last == LastObserveForSessionId(r.claude)
         IN  last.pid = r.pid /\ ~ Superseded(last.at)
    /\ \A p \in Pids : Rescuable(p) = {}

\* A terminal on its own is owed its row when the map names the session it
\* runs, the transcript is there and nothing replaced the session before: a
\* pass that does not yet find the transcript of a new session may go back to
\* an earlier one, and the new one counts as replaced from then on.
Owed(p) ==
    /\ Alive(p) /\ Alone(p)
    /\ LatestEntry(p) = {runs[p]} /\ runs[p] \notin replaced

\* One pass is enough: whichever hooks were lost and whatever was forgotten in
\* a restart, at the end of a pass each process that is owed its row is shown
\* with the session it really runs.
PassShowsRunning ==
    [][ (tick.step \notin {"idle", "down"} /\ tick' = Idle) =>
          \A p \in Pids : Owed(p)' => (Row(runs[p], p) \in View)' ]_vars
=============================================================================
