----------------------------- MODULE CodexBridge -----------------------------
(***************************************************************************)
(* One Codex session of the daemon: src/src/observers/codex-observer.ts    *)
(* tails its rollout, src/src/wiring/hook-handlers-codex.ts hears its      *)
(* hooks, src/src/wiring/codex-event-bridge.ts turns both into what the    *)
(* phone is told, and src/src/commands/handlers/send-message.ts types the  *)
(* phone's messages into its terminal.                                     *)
(*                                                                         *)
(* Codex is external: it fires the hook of an event before it writes the   *)
(* event's row, and waits for the hook.  A row stands for all rows that    *)
(* the observer treats alike.  The daemon has one event loop, so a hook, a *)
(* poll of the rollout, a pass and a command are one step each.            *)
(***************************************************************************)
EXTENDS Naturals, Sequences, SequencesExt

CONSTANTS
    Texts,        \* messages, typed at the terminal or sent from the phone
    MaxTurns,     \* bound: turns
    MaxUnread,    \* bound: rows the observer has not read
    MaxSends,     \* bound: messages of the phone
    MaxStarts     \* bound: times the daemon and Codex are started, together

ASSUME CodexAssumption ==
    MaxTurns \in Nat /\ MaxUnread \in Nat /\ MaxSends \in Nat /\ MaxStarts \in Nat

VARIABLES
    codex,      \* the Codex process
    hooked,     \* are Codex's hooks installed?
    prompt,     \* the prompt of the turn: its text and who typed it
    turn,       \* turns begun
    rollout,    \* its file: is it there, does its last row end a turn, and the
                \* rows behind the observer's offset
    terminal,   \* what the daemon typed and Codex has not taken up
    daemon,     \* down, warming (initialDiscoveryDone is not set yet), or up
    tailing,    \* is the session's CodexObserver active?
    status,     \* the entry of codexObservers: its status, or none
    target,     \* does codexTerminalTargets have a terminal for the session?
    stopRecord, \* CodexStopHookDeduper: the turn of the record, or 0
    injected,   \* codexInjectedMessages: in-flight injections of a text
    phone,      \* what the phone was told: status, completions, user messages
    sends, starts,
    past        \* for the properties, which turns were noticed to end, were hushed
                \* (ended in the warm-up, or used up another turn's record) or have a
                \* lapsed record; which texts strayed (were injected, and their echo
                \* is not read); how many messages typed at the terminal were read;
                \* and is the phone's status early: from the warm-up, of a session
                \* that was not known, or from an earlier daemon?

codexVars  == << codex, hooked, prompt, turn, rollout, terminal >>
entryVars  == << status, stopRecord, injected, phone, past >>
daemonVars == << daemon, tailing, target, sends, starts >>
vars == << codexVars, entryVars, daemonVars >>

Turns == 1 .. MaxTurns
Statuses == {"none", "ready", "running", "history", "error"}
\* What the daemon's parsers make of a row.
LifecycleKinds == {"completed", "aborted", "failed"}
ItemKinds == {"user", "message", "interrupt"}
Kinds == LifecycleKinds \cup ItemKinds \cup {"header", "exec_end"}
Prompts == [text : Texts, from : {"terminal", "phone"}]
NoPrompt == [text |-> "none", from |-> "none"]
Rows == [kind : Kinds, turn : 0 .. MaxTurns, prompt : Prompts \cup {NoPrompt}]

CodexTypeOK ==
    /\ codex \in {"gone", "idle", "prompted", "working", "stopping"}
    /\ hooked \in BOOLEAN /\ target \in BOOLEAN
    /\ prompt \in Prompts \cup {NoPrompt} /\ turn \in 0 .. MaxTurns
    /\ rollout.exists \in BOOLEAN /\ rollout.ended \in BOOLEAN /\ rollout.unread \in Seq(Rows)
    /\ terminal \in Seq(Texts)
    /\ daemon \in {"down", "warming", "up"}
    /\ status \in Statuses /\ phone.status \in Statuses
    /\ stopRecord \in 0 .. MaxTurns
    /\ injected \in [Texts -> 0 .. MaxSends]
    /\ phone.completions \in [Turns -> 0 .. 2]
    /\ phone.messages \in [Texts -> 0 .. MaxTurns]
    /\ tailing \in BOOLEAN /\ (tailing => status # "none" /\ rollout.exists)
    /\ rollout.unread # << >> => tailing
    /\ daemon = "down" => status = "none"

Nobody == [t \in Texts |-> 0]

Init ==
    /\ codex = "gone" /\ hooked \in BOOLEAN /\ prompt = NoPrompt /\ turn = 0
    /\ rollout = [exists |-> FALSE, ended |-> TRUE, unread |-> << >>]
    /\ terminal = << >>
    /\ daemon = "down" /\ tailing = FALSE
    /\ status = "none" /\ target = FALSE
    /\ stopRecord = 0 /\ injected = Nobody
    /\ phone = [status |-> "none", completions |-> [t \in Turns |-> 0], messages |-> Nobody]
    /\ sends = 0 /\ starts = 0
    /\ past = [noticed |-> {}, hushed |-> {}, lapsed |-> {}, strayed |-> {}, typed |-> Nobody, early |-> FALSE]

-----------------------------------------------------------------------------
(***************************************************************************)
(* The handlers, as functions on what they change.                         *)
(***************************************************************************)
View == [status |-> status, stop |-> stopRecord, injected |-> injected,
         phone |-> phone, past |-> past]

BecomesView(v) ==
    /\ status' = v.status /\ stopRecord' = v.stop /\ injected' = v.injected
    /\ phone' = v.phone /\ past' = v.past

Done == daemon = "up"
Live == codex # "gone" /\ rollout.exists

\* A session_status event; nothing is sent before the initial discovery.
Told(v, s) == IF Done THEN [v EXCEPT !.phone.status = s, !.past.early = FALSE] ELSE v

\* Mutant: the entry changes and the phone is not told.
StatusChangeUnsent(v, s) == [v EXCEPT !.status = s]

StatusChange(v, s) ==
    IF v.status = s THEN v ELSE Told([v EXCEPT !.status = s], s)

\* sendCodexCompletion: the event carries READY.
SendCodexCompletion(v, t) ==
    IF Done THEN [v EXCEPT !.phone.completions[t] = @ + 1, !.phone.status = "ready",
                           !.past.early = FALSE]
    ELSE [v EXCEPT !.past.hushed = @ \cup {t}]

\* codexStopHookDeduper.consume(): one record for the whole session, so it
\* may be that of another turn.
Consume(v, t) ==
    IF v.stop = t THEN [v EXCEPT !.stop = 0]
    ELSE [v EXCEPT !.stop = 0, !.past.hushed = @ \cup {t}, !.past.lapsed = @ \cup {v.stop}]

\* Mutant: the deduper is not asked.
CompletedTwice(v, t) == SendCodexCompletion([v EXCEPT !.status = "ready",
                                                      !.past.noticed = @ \cup {t}], t)

\* 'completed' of the observer.
Completed(v, t) ==
    LET ready == [v EXCEPT !.status = "ready", !.past.noticed = @ \cup {t}] IN
    IF Done /\ v.stop # 0 THEN Consume(ready, t) ELSE SendCodexCompletion(ready, t)

\* Mutant: an injection hides every later message with its text.
UserMessageUncounted(v, p) ==
    LET read == [v EXCEPT !.past.typed[p.text] = @ + (IF p.from = "terminal" THEN 1 ELSE 0)] IN
    IF v.injected[p.text] > 0 THEN read
    ELSE [read EXCEPT !.phone.messages[p.text] = @ + 1]

\* sendFlattenedSessionOutput: the echo of an injected message is hidden.
UserMessage(v, p) ==
    LET read == [v EXCEPT !.past.typed[p.text] = @ + (IF p.from = "terminal" THEN 1 ELSE 0)] IN
    IF v.injected[p.text] > 0 THEN [read EXCEPT !.injected[p.text] = @ - 1]
    ELSE [read EXCEPT !.phone.messages[p.text] = @ + 1]

\* 'error' of the observer.
Failed(v) == Told([v EXCEPT !.status = "error"], "error")

\* processEntry.
ProcessEntry(v, row) ==
    CASE row.kind = "header"    -> v
      [] row.kind = "completed" -> Completed(StatusChange(v, "ready"), row.turn)
      [] row.kind = "aborted"   -> StatusChange(v, "ready")
      [] row.kind = "failed"    -> Failed(v)
      [] row.kind = "message"   -> StatusChange(v, "running")
      [] row.kind = "user"      -> UserMessage(StatusChange(v, "running"), row.prompt)
      [] row.kind \in {"interrupt", "exec_end"} ->
             StatusChange(StatusChange(v, "running"), "ready")

-----------------------------------------------------------------------------
(***************************************************************************)
(* Codex                                                                   *)
(***************************************************************************)
Row(kind) == [kind |-> kind, turn |-> turn, prompt |-> NoPrompt]
Write(rows) ==
    /\ Len(rollout.unread) + Len(rows) <= MaxUnread
    /\ rollout' = [exists |-> TRUE, ended |-> Last(rows).kind \in {"header"} \cup LifecycleKinds,
                   unread |-> IF tailing THEN rollout.unread \o rows ELSE << >>]

\* Mutant: an observer is made for a session that is not known.
RecordCodexHookActivityUnknown ==
    target' = TRUE /\ tailing' = TRUE

\* recordCodexHookActivity: the terminal is noted, and an observer is made if
\* the session is known, which it is once its rollout exists; start() skips
\* what is there.
RecordCodexHookActivity ==
    /\ target' = TRUE
    /\ tailing' = (tailing \/ (status = "none" /\ rollout.exists))

Tracked == status # "none" \/ rollout.exists

Heard == hooked /\ daemon # "down"
NotHeard == ~Heard /\ UNCHANGED << entryVars, tailing, target >>

\* codex_session_start; the phone takes a session that started for ready.
SessionStartHook ==
    /\ Heard
    /\ RecordCodexHookActivity
    /\ BecomesView([View EXCEPT !.status = IF Tracked THEN "ready" ELSE @,
                                !.phone.status = IF Done THEN "ready" ELSE @,
                                !.past.early = ~Done /\ @])

\* codex_user_prompt_submit; its status is sent whether the session is
\* tracked or not, and before the initial discovery, too.
PromptSubmitHook ==
    /\ Heard
    /\ RecordCodexHookActivity
    /\ BecomesView([View EXCEPT !.status = IF Tracked THEN "running" ELSE @,
                                !.phone.status = "running",
                                !.past.early = ~Done \/ ~Tracked])

\* codex_stop.  The record of an earlier turn is overwritten.
StopHook ==
    /\ Heard
    /\ RecordCodexHookActivity
    /\ BecomesView(SendCodexCompletion(
           [View EXCEPT !.status = IF Tracked THEN "ready" ELSE @,
                        !.stop = turn,
                        !.past.lapsed = @ \cup ({stopRecord} \ {0}),
                        !.past.noticed = @ \cup {turn}], turn))

\* Codex is started or resumed.  It may write its rollout's first line now or
\* with the first prompt.
Launch ==
    /\ codex = "gone" /\ starts < MaxStarts
    /\ starts' = starts + 1
    /\ codex' = "idle"
    /\ SessionStartHook \/ NotHeard
    /\ UNCHANGED rollout \/ (~rollout.exists /\ Write(<< Row("header") >>))
    /\ UNCHANGED << hooked, prompt, turn, terminal, daemon, sends >>

\* A prompt is submitted: typed by the user, or what the daemon typed.
Submit ==
    /\ codex = "idle" /\ turn < MaxTurns
    /\ turn' = turn + 1
    /\ codex' = "prompted"
    /\ \/ /\ \E t \in Texts : prompt' = [text |-> t, from |-> "terminal"]
          /\ UNCHANGED terminal
       \/ /\ terminal # << >>
          /\ prompt' = [text |-> Head(terminal), from |-> "phone"]
          /\ terminal' = Tail(terminal)
    /\ PromptSubmitHook \/ NotHeard
    /\ UNCHANGED << hooked, rollout, daemon, sends, starts >>

\* An injected text whose echo the observer will not read.
Strayed(t) == [past EXCEPT !.strayed = @ \cup {t}]

\* The text typed by the daemon answers a dialog, or a dead terminal gets it.
\* (A text that stays in the terminal of a process that exits is lost.)
Swallow ==
    /\ terminal # << >>
    /\ terminal' = Tail(terminal)
    /\ past' = Strayed(Head(terminal))
    /\ UNCHANGED << codex, hooked, prompt, turn, rollout, status, stopRecord,
                    injected, phone, daemonVars >>

WritePrompt ==
    /\ codex = "prompted"
    /\ codex' = "working"
    /\ Write(<< [Row("user") EXCEPT !.prompt = prompt] >>)
    /\ prompt' = NoPrompt
    /\ past' = IF prompt.from = "phone" /\ ~tailing THEN Strayed(prompt.text) ELSE past
    /\ UNCHANGED << hooked, turn, terminal, status, stopRecord, injected, phone,
                    daemonVars >>

Work ==
    /\ codex = "working"
    /\ \E kind \in {"message", "exec_end"} : Write(<< Row(kind) >>)
    /\ UNCHANGED << codex, hooked, prompt, turn, terminal, entryVars, daemonVars >>

\* The stop hook comes before the row that says so.
Stop ==
    /\ codex = "working"
    /\ codex' = "stopping"
    /\ StopHook \/ NotHeard
    /\ UNCHANGED << hooked, prompt, turn, rollout, terminal, daemon, sends, starts >>

\* The turn is over; no hook tells of one that was aborted or has failed.
EndTurn ==
    /\ \/ codex = "stopping" /\ Write(<< Row("completed") >>)
       \/ codex = "working" /\ Write(<< Row("failed") >>)
       \/ codex = "working" /\ Write(<< Row("interrupt"), Row("aborted") >>)
    /\ codex' = "idle"
    /\ UNCHANGED << hooked, prompt, turn, terminal, entryVars, daemonVars >>

Exit ==
    /\ codex # "gone"
    /\ codex' = "gone" /\ prompt' = NoPrompt
    /\ past' = IF codex = "prompted" /\ prompt.from = "phone"
               THEN Strayed(prompt.text) ELSE past
    /\ UNCHANGED << hooked, turn, rollout, terminal, status, stopRecord,
                    injected, phone, daemonVars >>

-----------------------------------------------------------------------------
(***************************************************************************)
(* The daemon                                                              *)
(***************************************************************************)
Start ==
    /\ daemon = "down" /\ starts < MaxStarts
    /\ starts' = starts + 1 /\ daemon' = "warming"
    /\ UNCHANGED << codexVars, entryVars, tailing, target, sends >>

\* readNewEntries: all new lines in one go.
ReadNewEntries ==
    /\ rollout.unread # << >>
    /\ BecomesView(FoldLeft(ProcessEntry, View, rollout.unread))
    /\ rollout' = [rollout EXCEPT !.unread = << >>]
    /\ UNCHANGED << codex, hooked, prompt, turn, terminal, daemonVars >>

\* readNewEntries cannot read the file: an 'error'; it is read by the next poll.
ReadFails ==
    /\ tailing
    /\ BecomesView(Failed(View))
    /\ UNCHANGED << codexVars, daemonVars >>

\* CODEX_STOP_DEDUPE_MS pass.
StopRecordExpires ==
    /\ stopRecord # 0
    /\ stopRecord' = 0
    /\ past' = [past EXCEPT !.lapsed = @ \cup {stopRecord}]
    /\ UNCHANGED << codexVars, status, injected, phone, daemonVars >>

\* discoverAndObserveCodexSessions; the first pass ends the warm-up.
NextStatus(s) == IF ~Live THEN "history" ELSE IF s = "running" THEN s ELSE "ready"

Discover ==
    /\ daemon # "down"
    /\ daemon' = "up"
    /\ \/ /\ ~rollout.exists
          /\ UNCHANGED << entryVars, tailing >>
       \/ /\ rollout.exists /\ status # "none"
          /\ BecomesView(StatusChange(View, NextStatus(status)))
          /\ UNCHANGED tailing
       \/ /\ rollout.exists /\ status = "none"
          /\ BecomesView([View EXCEPT !.status = NextStatus("none")])
          /\ tailing' = TRUE
    /\ UNCHANGED << codexVars, target, sends, starts >>

\* resolveCodexTerminalTarget: a cached terminal is not asked whether it lives.
HasTerminal == target \/ Live

\* list_sessions: collectCodexSessions.
ListSessions ==
    /\ daemon # "down" /\ rollout.exists
    /\ BecomesView([View EXCEPT !.phone.status = NextStatus(status), !.past.early = ~Done])
    /\ target' = HasTerminal
    /\ UNCHANGED << codexVars, daemon, tailing, sends, starts >>

\* send_message: refused without a terminal and while the entry is RUNNING.
SendCodexMessage(t) ==
    /\ daemon # "down" /\ sends < MaxSends
    /\ HasTerminal
    /\ status # "running"
    /\ sends' = sends + 1 /\ target' = TRUE
    /\ \/ /\ terminal' = Append(terminal, t)
          /\ injected' = [injected EXCEPT ![t] = @ + 1]
       \/ UNCHANGED << terminal, injected >>       \* typing fails: the count is taken back
    /\ UNCHANGED << codex, hooked, prompt, turn, rollout, status, stopRecord,
                    phone, past, daemon, tailing, starts >>

\* Texts on their way from a terminal to the observer.
InFlight == {t \in Texts :
    \/ injected[t] > 0 \/ t = prompt.text
    \/ \E i \in DOMAIN terminal : terminal[i] = t
    \/ \E i \in DOMAIN rollout.unread : rollout.unread[i].prompt.text = t}

\* kill_session: the observer is stopped, its entry stays.
KillSession ==
    /\ status # "none"
    /\ tailing' = FALSE /\ rollout' = [rollout EXCEPT !.unread = << >>]
    /\ BecomesView([View EXCEPT !.status = "history", !.phone.status = "history",
                                !.past.early = FALSE, !.past.strayed = @ \cup InFlight])
    /\ UNCHANGED << codex, hooked, prompt, turn, terminal, daemon, target, sends,
                    starts >>

\* The daemon dies or is stopped.
Crash ==
    /\ daemon # "down"
    /\ daemon' = "down"
    /\ tailing' = FALSE /\ rollout' = [rollout EXCEPT !.unread = << >>]
    /\ status' = "none" /\ target' = FALSE /\ stopRecord' = 0 /\ injected' = Nobody
    /\ past' = [past EXCEPT !.lapsed = @ \cup ({stopRecord} \ {0}),
                            !.strayed = @ \cup InFlight,
                            !.early = TRUE]
    /\ UNCHANGED << codex, hooked, prompt, turn, terminal, phone, sends, starts >>

-----------------------------------------------------------------------------
Next ==
    \/ Launch \/ Submit \/ Swallow \/ WritePrompt \/ Work \/ Stop \/ EndTurn \/ Exit
    \/ Start \/ ReadNewEntries \/ ReadFails \/ StopRecordExpires \/ Discover \/ ListSessions
    \/ \E t \in Texts : SendCodexMessage(t)
    \/ KillSession \/ Crash

Spec == Init /\ [][Next]_vars

-----------------------------------------------------------------------------
\* codex-handler.ts:168: the deduper is "used to suppress the rollout
\* observer's `completed` event when the stop hook has already triggered the
\* completion notification": a turn that was noticed to end, by its hook or by
\* its row, is announced, and once.  Twice only if its record was gone when the
\* row was read; not at all only if it ended before the initial discovery was
\* done, or its row used up the record of another turn.
TurnsAnnounced ==
    \A t \in past.noticed :
        phone.completions[t] \in (IF t \in past.hushed THEN 0 ELSE 1)
                              .. (IF t \in past.lapsed THEN 2 ELSE 1)

\* Nothing is going on: the last turn is over and its rows are read.
Quiet == /\ daemon = "up" /\ codex = "idle"
         /\ tailing /\ rollout.unread = << >> /\ rollout.ended

\* After a turn, however it ended and in whatever order its hooks, rows, passes
\* and commands came, the session is not left RUNNING, which would refuse every
\* message; nor does the phone show it so, unless it was told too early.
StatusSettles ==
    Quiet => status # "running" /\ (phone.status # "running" \/ past.early)

\* codex-handler.ts:45-48: of the user messages in the rollout the phone sees
\* those typed at the terminal, each once, and no echo of its own, even if the
\* texts are the same; a text that strayed is left out.
EchoesHidden ==
    Quiet /\ terminal = << >> => \A t \in Texts \ past.strayed :
        phone.messages[t] = past.typed[t]
=============================================================================
