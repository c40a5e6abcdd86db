---------------------------- MODULE TranscriptSync ----------------------------
(***************************************************************************)
(* One session in a terminal, from its transcript to the phone: Claude and *)
(* its subagents write rows, the observers emit what they notice, a sync   *)
(* or an older page parses the files, and every row the phone is sent has  *)
(* a number.  The daemon may crash or be restarted at any time, the phone  *)
(* may be away, and a reply may be lost.                                   *)
(*                                                                         *)
(* Claude and the phone are external.  The phone holds what it was sent,   *)
(* sends as its cursor what the last sync it received told it, and asks    *)
(* for older rows with the last next_offset.                               *)
(***************************************************************************)
EXTENDS SessionHistory, SubagentObserver, SessionObserver

CONSTANTS
    \* What may happen, as records [rows, files, halves, cursor, crashes,
    \* restarts, requests, absences]: the rows of the transcript and of the
    \* subagents' files, the rows that can be seen half written, the cursor the
    \* phone sends ("ms" or "seq"), and bounds: how often the daemon crashes and
    \* is restarted, and how often the phone asks and goes away.
    Scripts

ASSUME ScriptAssumption ==
    \A s \in Scripts :
        /\ s.rows \in Seq(TranscriptRow) /\ s.files \in Seq(Seq(TranscriptRow))
        /\ \A a \in DOMAIN s.files : OneRowPerCall(s.files[a])
        /\ {s.crashes, s.restarts, s.requests, s.absences} \subseteq Nat

ASSUME TurnAssumption == \A s \in Scripts : WholeTurns(s.rows)

VARIABLES
    script,      \* one of Scripts
    size,        \* half rows of the transcript that are on disk
    sizes,       \* rows of each subagent's file that are on disk
    archive,     \* each subagent's archive
    up,          \* does the daemon run?
    obs,         \* the SessionObserver
    agents,      \* what its SubagentObserver keeps of each subagent
    alloc,       \* the session's allocator
    saved,       \* its .seqmap.json
    cache,       \* historyCache: the parsed rows and the files' version
    phone,       \* [on, ms, seq, older, has]
    told,        \* the numbers sent: [key, seq]
    lost,        \* numbers that a crash forgot
    openTools,   \* calls that the phone shows as running, of this observer
    chips,       \* turn metrics sent live, for turns observed as a whole
    hooked,      \* subagents whose SubagentStart and SubagentStop came
    outran,      \* subagents archived before their end, or before they were found
    crashes, restarts, requests, absences

fileVars  == << size, sizes >>
seenVars  == << told, openTools, chips >>
boundVars == << crashes, restarts, requests, absences >>
vars == << script, size, sizes, archive, up, obs, agents, alloc, saved, cache, phone,
           told, lost, openTools, chips, hooked, outran, crashes, restarts, requests,
           absences >>

Agents == DOMAIN script.files
Written == SubSeq(script.rows, 1, size \div 2)
Files == [ a \in Agents |-> SubSeq(script.files[a], 1, sizes[a]) ]

\* The mtime that the cache is compared with changes with each of these.
Version == << size, sizes, archive >>
NoCache == [version |-> << >>, rows |-> << >>]

Init ==
    /\ script \in Scripts
    /\ size = 0 /\ sizes = [ a \in Agents |-> 0 ]
    /\ archive = [ a \in Agents |-> NoArchive ]
    /\ up = TRUE
    /\ obs = StartObserver(0)
    /\ agents = [ a \in Agents |-> NoAgent ]
    /\ alloc = EmptyAllocator /\ saved = EmptyAllocator
    /\ cache = NoCache
    /\ phone = [on |-> TRUE, ms |-> Undefined, seq |-> Undefined, older |-> Undefined, has |-> {}]
    /\ told = {} /\ lost = {} /\ openTools = {} /\ chips = {}
    /\ hooked = {} /\ outran = {}
    /\ crashes = 0 /\ restarts = 0 /\ requests = 0 /\ absences = 0

-----------------------------------------------------------------------------
(***************************************************************************)
(* Claude Code (external)                                                  *)
(***************************************************************************)

\* The next row; one of script.halves can be seen half written.
WriteRow ==
    LET row == size \div 2 + 1
    IN /\ row <= Len(script.rows)
       /\ size' = IF size % 2 = 0 /\ row \notin script.halves THEN size + 2 ELSE size + 1
       /\ UNCHANGED << script, sizes, archive, up, obs, agents, alloc, saved, cache, phone,
                       seenVars, lost, hooked, outran, boundVars >>

\* Subagent a belongs to the a-th Task call.
Spawned(a) ==
    a <= Len(FlattenSeq([ i \in DOMAIN Written |-> BlocksOf(Written[i], {"task"}) ]))

WriteAgentRow(a) ==
    /\ Spawned(a) /\ sizes[a] < Len(script.files[a])
    /\ sizes' = [sizes EXCEPT ![a] = @ + 1]
    /\ UNCHANGED << script, size, archive, up, obs, agents, alloc, saved, cache, phone,
                    seenVars, lost, hooked, outran, boundVars >>

-----------------------------------------------------------------------------
(***************************************************************************)
(* Live output: wireObserverEvents, sendFlattenedSessionOutput, sendToPhone *)
(***************************************************************************)

\* sendToPhone numbers an event by its uuid and block, if it has one.
NumberEvent(acc, e) ==
    LET keyed == e.key[1] # "none"
        after == IF keyed THEN GetOrAssign(acc.alloc, e.key) ELSE AllocAnonymous(acc.alloc)
        seq   == IF keyed THEN after.entries[e.key] ELSE acc.alloc.nextSeq
    IN [alloc |-> after, told |-> acc.told \cup {[key |-> e.key, seq |-> seq]}]

\* Was the turn of row i observed from its first row on?
ObservedTurn(i) ==
    LET first == TurnStart(script.rows, i) IN first > 0 /\ 2 * first - 1 > obs.start

\* What the phone gets of it, if it is there.
Numbered(sent) == alloc' = sent.alloc /\ told' = sent.told
Shown(events) ==
    LET ofKind(kind) == { e.n : e \in { x \in events : x.kind = kind } }
    IN /\ phone' = IF phone.on THEN [phone EXCEPT !.has = @ \cup { e.id : e \in events }]
                   ELSE phone
       /\ openTools' = (openTools \cup ofKind("tool")) \ ofKind("result")
       /\ chips' = chips \cup { [id |-> e.id, chip |-> e.chip] :
                    e \in { x \in events : x.chip # << >> /\ ObservedTurn(x.id[2]) } }
SendLive(out) ==
    /\ Numbered(FoldLeft(NumberEvent, [alloc |-> alloc, told |-> told], out))
    /\ Shown({ out[k] : k \in DOMAIN out })

\* The watchFile callback.
Observed(read) == obs' = read.obs /\ SendLive(read.out)
ObserverPoll ==
    /\ up /\ obs.active /\ obs.offset < size
    /\ Observed(ReadNewEntries(obs, script.rows, size))
    /\ UNCHANGED << script, fileVars, archive, up, agents, saved, cache, lost, hooked,
                    outran, boundVars >>

\* checkDoneTimeouts: a subagent that said nothing in this poll either, for
\* DONE_TIMEOUT_MS, is done.
AfterTimeout(read, a, silent) ==
    IF /\ silent /\ read.out = << >> /\ agents[a].known /\ agents[a].offset = sizes[a]
       /\ ~read.agent.doneEmitted /\ read.agent.status # "done"
    THEN [agent |-> Done(read.agent), out |-> StatusOnly(a, Done(read.agent))]
    ELSE read

\* A subagent as the poll leaves it: found, read up to the end of its file,
\* and perhaps done.
Polled(a, silent) ==
    LET found == IF agents[a].known \/ sizes[a] = 0 THEN agents[a] ELSE NewAgent(archive[a])
    IN AfterTimeout(ReadAgent(found, a, script.files[a], sizes[a]), a, silent)

\* writeArchive, for those that are done now and were not.
Archived(after, a) ==
    IF after.doneEmitted /\ agents[a].known /\ ~agents[a].doneEmitted
    THEN ArchiveOf(after.tools) ELSE archive[a]

\* Those whose archive holds less than their file will, or that are archived
\* although the observer does not know them.
Outran(new) ==
    outran \cup { a \in Agents : archive[a] = NoArchive /\ new[a] # NoArchive
                                   /\ (sizes[a] < Len(script.files[a]) \/ ~agents[a].known) }

\* The SubagentObserver's interval: scanForNewAgents, readAllAgents,
\* checkDoneTimeouts.
AgentsPolled(after) ==
    /\ \E a \in Agents : after[a].agent # agents[a]
    /\ agents' = [ a \in Agents |-> after[a].agent ]
    /\ archive' = [ a \in Agents |-> Archived(after[a].agent, a) ]
    /\ SendLive(FlattenSeq([ a \in Agents |-> after[a].out ]))
AgentPoll(silent) ==
    /\ up /\ obs.active
    /\ AgentsPolled([ a \in Agents |-> Polled(a, a \in silent) ])
    /\ outran' = Outran(archive')
    /\ UNCHANGED << script, fileVars, up, obs, saved, cache, lost, hooked, boundVars >>

\* The SubagentStart hook: markAgentStart.
SubagentStart(a) ==
    /\ up /\ Spawned(a) /\ << "start", a >> \notin hooked
    /\ hooked' = hooked \cup {<< "start", a >>}
    /\ ~agents[a].known
    /\ agents' = [agents EXCEPT ![a] = [NoAgent EXCEPT !.known = TRUE]]
    /\ SendLive(StatusOnly(a, agents'[a]))
    /\ UNCHANGED << script, fileVars, archive, up, obs, saved, cache, lost, outran, boundVars >>

\* The SubagentStop hook: markAgentDone, after what the file holds.
MarkedDone(a, read) ==
    /\ agents' = [agents EXCEPT ![a] = Done(read.agent)]
    /\ archive' = [archive EXCEPT ![a] = ArchiveOf(read.agent.tools)]
    /\ SendLive(read.out \o StatusOnly(a, Done(read.agent)))
SubagentStop(a) ==
    /\ up /\ sizes[a] > 0 /\ << "stop", a >> \notin hooked
    /\ hooked' = hooked \cup {<< "stop", a >>}
    /\ agents[a].known /\ ~agents[a].doneEmitted
    /\ MarkedDone(a, ReadAgent(agents[a], a, script.files[a], sizes[a]))
    /\ outran' = Outran(archive')
    /\ UNCHANGED << script, fileVars, up, obs, saved, cache, lost, boundVars >>

-----------------------------------------------------------------------------
(***************************************************************************)
(* The daemon's life                                                       *)
(***************************************************************************)

\* The allocator's 250 ms timer.  When no crash can follow any more, what is
\* saved is not read before stop() saves it again.
Flush ==
    /\ up /\ saved # alloc /\ crashes < script.crashes
    /\ saved' = alloc
    /\ UNCHANGED << script, fileVars, archive, up, obs, agents, alloc, cache, phone, seenVars,
                    lost, hooked, outran, boundVars >>

Ends ==
    /\ up' = FALSE
    /\ obs' = NoObserver /\ agents' = [ a \in Agents |-> NoAgent ]
    /\ cache' = NoCache /\ openTools' = {}
    /\ UNCHANGED << script, fileVars, archive, phone, told, chips, hooked, outran, requests,
                    absences >>

\* Mutant: the end of the daemon does not save the allocators.
StopUnsaved ==
    /\ up /\ restarts < script.restarts
    /\ restarts' = restarts + 1
    /\ alloc' = EmptyAllocator /\ Ends
    /\ UNCHANGED << saved, lost, crashes >>

\* stop() saves the allocators; a crash forgets what was given since.
Stop ==
    /\ up /\ restarts < script.restarts
    /\ restarts' = restarts + 1
    /\ saved' = alloc /\ alloc' = EmptyAllocator /\ Ends
    /\ UNCHANGED << lost, crashes >>

Crash ==
    /\ up /\ crashes < script.crashes
    /\ crashes' = crashes + 1
    /\ lost' = lost \cup (saved.nextSeq .. alloc.nextSeq - 1)
    /\ alloc' = EmptyAllocator /\ Ends
    /\ UNCHANGED << saved, restarts >>

\* The daemon starts and discovery observes the session: the observers skip
\* what there is.  A file that is not there yet will be read from its start.
Start(quiet) ==
    LET found(a) == IF sizes[a] = 0 THEN NoAgent
                    ELSE InitialAgent(script.files[a], sizes[a], archive[a], quiet)
    IN /\ ~up
       /\ up' = TRUE
       /\ alloc' = saved
       /\ obs' = StartObserver(size)
       /\ agents' = [ a \in Agents |-> found(a) ]
       /\ archive' = [ a \in Agents |-> IF found(a).doneEmitted /\ archive[a] = NoArchive
                                        THEN ArchiveOf(found(a).tools) ELSE archive[a] ]
       /\ outran' = outran \cup { a \in Agents : archive[a] # archive'[a]
                                                   /\ sizes[a] < Len(script.files[a]) }
       /\ UNCHANGED << script, fileVars, saved, cache, phone, seenVars, lost, hooked, boundVars >>

-----------------------------------------------------------------------------
(***************************************************************************)
(* Requests of the phone                                                   *)
(***************************************************************************)

\* getSubagentHistory archives an agent whose last reply ended its turn.
ArchivedByParse ==
    [ a \in Agents |-> IF archive[a] = NoArchive /\ EndedWithEndTurn(script.files[a], sizes[a])
                       THEN ArchiveOf(ToolsIn(script.files[a], sizes[a])) ELSE archive[a] ]

\* getSessionHistory: the cached parse, or a new one, with what it leaves.
Parsed == IF cache.version = Version THEN [alloc |-> alloc, rows |-> cache.rows]
          ELSE ParseHistory(alloc, Written, Files)

ParseAs(parsed) ==
    /\ alloc' = parsed.alloc
    /\ cache' = [version |-> Version, rows |-> parsed.rows]
    /\ archive' = IF cache.version = Version THEN archive ELSE ArchivedByParse
    /\ outran' = Outran(archive')
    /\ UNCHANGED << script, fileVars, up, obs, agents, saved, lost, openTools, chips, hooked,
                    crashes, restarts, absences >>
Parse == ParseAs(Parsed)

Requests == /\ up /\ phone.on /\ requests < script.requests /\ size >= 2
            /\ requests' = requests + 1

ToldBy(page) ==
    told \cup { [key |-> page.messages[k].key, seq |-> page.messages[k].seq] :
                  k \in DOMAIN page.messages }
PhoneCursor ==
    IF script.cursor = "ms" THEN [ms |-> phone.ms, seq |-> phone.seq]
    ELSE [ms |-> Undefined, seq |-> phone.seq]

Reached(new, old) == IF new = Undefined THEN old ELSE new

\* sync_request: session_history and then sync_complete, which carries the
\* tails; the phone keeps both or, if the connection breaks, none.
Synced(page, arrives) ==
    /\ told' = ToldBy(page)
    /\ phone' = IF arrives
                THEN [phone EXCEPT !.has = @ \cup IdsOf(page.messages),
                                   !.ms = Reached(page.tailMs, @),
                                   !.seq = Reached(page.tailSeq, @),
                                   !.older = Reached(page.nextOffset, @)]
                ELSE [phone EXCEPT !.on = FALSE]
Sync(arrives) ==
    /\ Requests /\ Parse
    /\ Synced(SendSessionHistory(cache'.rows, PhoneCursor, 0, Undefined), arrives)

\* get_history { offset }: the next older page.
Older(page) ==
    /\ told' = ToldBy(page)
    /\ phone' = [phone EXCEPT !.has = @ \cup IdsOf(page.messages), !.older = page.nextOffset]
GetHistory ==
    /\ phone.older # Undefined /\ Requests /\ Parse
    /\ Older(SendSessionHistory(cache'.rows, NoCursor, phone.older, Undefined))

\* verify_history: a phone that is told of a divergence starts over.
Held(visible) == Picked(visible, { k \in DOMAIN visible : visible[k].id \in phone.has })
Diverges(rows, held) ==
    LET head == IF held = << >> THEN 0 ELSE held[1].seq
    IN VerifyReason(rows, Len(held), PhoneCursor, head) # "none"
Verify ==
    /\ phone.seq # Undefined /\ Requests /\ Parse
    /\ phone' = IF Diverges(cache'.rows, Held(Visible(cache'.rows)))
                THEN [phone EXCEPT !.ms = Undefined, !.seq = Undefined, !.older = Undefined]
                ELSE phone
    /\ told' = told

\* The phone goes, and what is sent live does not reach it, or comes back.
PhoneToggles ==
    /\ phone.on => absences < script.absences
    /\ absences' = IF phone.on THEN absences + 1 ELSE absences
    /\ phone' = [phone EXCEPT !.on = ~@]
    /\ UNCHANGED << script, fileVars, archive, up, obs, agents, alloc, saved, cache, seenVars,
                    lost, hooked, outran, crashes, restarts, requests >>

Next ==
    \/ WriteRow
    \/ \E a \in Agents : WriteAgentRow(a) \/ SubagentStart(a) \/ SubagentStop(a)
    \/ ObserverPoll
    \/ \E silent \in SUBSET Agents : AgentPoll(silent)
    \/ Flush \/ Stop \/ Crash
    \/ \E quiet \in BOOLEAN : Start(quiet)
    \/ \E arrives \in BOOLEAN : Sync(arrives)
    \/ GetHistory \/ Verify \/ PhoneToggles

Spec == Init /\ [][Next]_vars

-----------------------------------------------------------------------------
(***************************************************************************)
(* Properties                                                              *)
(***************************************************************************)

AllocatorOK(al) == al.nextSeq \in Nat \ {0} /\ Injective(al)

\* Types; an allocator and its file number every key once and keep the next
\* number above, and the file is never ahead of the memory while the daemon
\* runs.
SyncTypeOK ==
    /\ script \in Scripts
    /\ size \in 0 .. 2 * Len(script.rows)
    /\ \A a \in Agents : sizes[a] \in 0 .. Len(script.files[a])
    /\ obs.offset \in 0 .. size /\ obs.start \in 0 .. obs.offset
    /\ obs.status \in {"running", "ready"} /\ obs.turnTools \in Nat
    /\ {up, obs.active, obs.justInterrupted, phone.on} \subseteq BOOLEAN
    /\ \A a \in Agents : /\ agents[a].offset \in 0 .. sizes[a]
                         /\ agents[a].status \in {"running", "idle", "done"}
                         /\ agents[a].tools \in Nat
    /\ AllocatorOK(alloc) /\ AllocatorOK(saved)
    /\ up => saved.nextSeq <= alloc.nextSeq /\ Known(saved) \subseteq Known(alloc)
    /\ phone.has \subseteq Ids /\ {phone.ms, phone.seq, phone.older} \subseteq Nat

\* Whatever is sent live, in a sync or on a page, before a restart or after,
\* a row with a key has one number and a number names one row; only numbers
\* that a crash forgot, before they were saved, are given again.
NumbersAgree ==
    \A x, y \in told :
        \/ x.seq \in lost \/ y.seq \in lost
        \/ /\ x.key = y.key /\ x.key[1] # "none" => x.seq = y.seq
           /\ x.seq = y.seq => x.key = y.key

\* The parse as it would be now, and how many parents are newer than row k.
RowsNow == ParseHistory(alloc, Written, Files).rows
BehindCursor(row) ==
    IF script.cursor = "ms" THEN row.tsMs <= phone.ms ELSE row.seq <= phone.seq

\* What a sync told the phone to be delivered it holds, or can reach with the
\* offset it was given for older rows: no row of the transcript is ever
\* behind the cursor and lost.  Until a crash: then numbers are given anew, and
\* rows of one millisecond, which are ordered by them, may change places.
NothingBehindCursor ==
    LET parents == Parents(RowsNow)
        reachable(k) == phone.older # Undefined /\ Len(parents) - k >= phone.older
    IN (up /\ lost = {}) =>
         \A k \in DOMAIN parents :
            BehindCursor(parents[k]) => parents[k].id \in phone.has \/ reachable(k)

\* The pages of the history as it is now hold every row exactly once, whatever
\* their size: a phone that scrolls back through them misses nothing, and a
\* subagent's row comes with the parent it was written after.
PagesCoverOnce == up => CoverOnce(RowsNow)

\* When the observer has read a transcript whose last turn is over, by its end
\* or by an interrupt (and the row that Claude may write after it), the session
\* is ready and no call that it showed is left running on the phone.  Of the
\* row after an interrupt this holds if it saw the interrupt too.
Saw(i) == obs.start < 2 * i - 1 /\ i \in DOMAIN Written
Cut(i) == Saw(i) /\ Written[i].type = "user" /\ IsInterrupt(Written[i])
TurnOver ==
    LET i == Len(Written)
    IN /\ Saw(i)
       /\ \/ Written[i].end
          \/ Cut(i)
          \/ Cut(i - 1) /\ Written[i].type = "assistant"
TurnOverIsShown ==
    (up /\ obs.offset = size /\ TurnOver) => obs.status = "ready" /\ openTools = {}

\* The metrics under the last answer of a turn are the same live and in the
\* history, if the observer saw the whole turn.
ChipsAgree ==
    LET history == ParentHistory(Written)
    IN \A c \in chips : \A k \in DOMAIN history :
          history[k].id = c.id => history[k].chip = c.chip

\* When the observer has read a subagent's file, it counts as many tool calls
\* as the file holds, however the subagent was found: by its hook, by the poll,
\* by the first scan of a later daemon with an archive or without.  Except
\* those archived before their end, or by a parse that outran the poll.
AgentCounts ==
    \A a \in Agents \ outran :
        agents[a].known /\ agents[a].offset = sizes[a]
            => agents[a].tools = ToolsIn(script.files[a], sizes[a])
===============================================================================
