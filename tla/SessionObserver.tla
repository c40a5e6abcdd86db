---------------------------- MODULE SessionObserver ----------------------------
(***************************************************************************)
(* src/src/observers/session-observer.ts: the observer that tails the      *)
(* transcript of a session in a terminal, as a record and the operators    *)
(* that change it.                                                         *)
(*                                                                         *)
(* A file is measured in half rows, for Claude's write may be noticed in   *)
(* the middle of a row: the first half waits in the observer's buffer, and *)
(* an observer that starts there gets a rest that is no JSON.              *)
(***************************************************************************)
EXTENDS TranscriptRows, SequencesExt

\* What the observer emits as 'output': the row it shows, the key of its
\* number, its kind, the tool call it is about, and the turn's metrics.
Event(id, key, kind, n, chip) ==
    [id |-> id, key |-> key, kind |-> kind, n |-> n, chip |-> chip]

\* The observer before start(), and after stop().
NoObserver ==
    [active |-> FALSE, start |-> 0, offset |-> 0, textLen |-> 0, thinkLen |-> 0,
     emitted |-> {}, pending |-> {}, justInterrupted |-> FALSE, turnTools |-> 0,
     status |-> "ready"]

\* start(): it skips what the file holds.
StartObserver(size) ==
    [NoObserver EXCEPT !.active = TRUE, !.start = size, !.offset = size]

-----------------------------------------------------------------------------

\* Mutant: the calls that wait for a result are forgotten, not closed.
InterruptedSilently(obs, i) ==
    [obs |-> [obs EXCEPT !.justInterrupted = TRUE, !.pending = {}, !.status = "ready"],
     out |-> << Event(<< 0, i, 0 >>, HashKey("system_interrupt", i, 0), "system", 0, << >>) >>]

\* processEntry, type 'user': an interrupt marker closes the calls without a
\* result, which the phone would show as running.
Interrupted(obs, i) ==
    LET closes(t) == Event(<< 0, i, t >>, HashKey("tool_result_interrupt", i, t), "result", t, << >>)
        marker    == Event(<< 0, i, 0 >>, HashKey("system_interrupt", i, 0), "system", 0, << >>)
    IN [obs |-> [obs EXCEPT !.justInterrupted = TRUE, !.pending = {}, !.status = "ready"],
        out |-> [ k \in 1 .. Cardinality(obs.pending) |->
                    closes(Ascending(obs.pending)[k]) ] \o << marker >>]

\* One block of a user row: a text, a slash command and its output, or the
\* result of a call.
UserBlock(acc, i, block) ==
    LET shown == block.kind \in TextKinds \ {"caveat", "internal"}
        kind  == IF IsLocalCommand(block.kind) THEN "command" ELSE "user"
    IN CASE shown -> [acc EXCEPT !.out =
                        Append(@, Event(<< 0, i, 0 >>, RowKey(0, i), kind, 0, << >>))]
         [] block.kind = "result" ->
              [obs |-> [acc.obs EXCEPT !.pending = @ \ {block.n}],
               out |-> Append(acc.out, Event(<< 0, i, block.n >>, RowKey(0, i), "result",
                                             block.n, << >>))]
         [] OTHER -> acc

\* A user row is a new turn, unless it only holds results; a slash command is
\* none, and its output ends it.
UserStatus(obs, row) ==
    LET kind == IF row.blocks = << >> THEN "none" ELSE row.blocks[1].kind
    IN CASE ~IsLocalCommand(kind) -> "running"
         [] kind = "stdout"       -> "ready"
         [] OTHER                 -> obs.status

\* Mutant: every user row starts the count of the turn's tool calls.
NewTurnAnyUser(obs, row) ==
    [obs EXCEPT !.textLen = 0, !.thinkLen = 0, !.emitted = {}, !.turnTools = 0]

NewTurn(obs, row) ==
    [obs EXCEPT !.textLen = 0, !.thinkLen = 0, !.emitted = {},
                !.turnTools = IF OnlyResults(row) THEN @ ELSE 0]

UserEntry(obs, i, row) ==
    LET fresh == NewTurn(obs, row)
        begun == [fresh EXCEPT !.status = UserStatus(fresh, row)]
    IN IF IsInterrupt(row) THEN Interrupted(fresh, i)
       ELSE FoldLeft(LAMBDA acc, block : UserBlock(acc, i, block),
                     [obs |-> begun, out |-> << >>], row.blocks)

-----------------------------------------------------------------------------

\* A text is emitted, whole, if it is longer than the last one of the turn;
\* the last text of a turn is emitted in any case, with the metrics.
TextBlock(acc, i, b, block, chip) ==
    LET isNew == block.n > acc.obs.textLen
        event == Event(<< 0, i, b >>, BlockKey(0, i, b), "assistant", 0, chip)
    IN IF block.kind = "interrupt" THEN [acc EXCEPT !.obs.textLen = block.n]
       ELSE IF ~isNew /\ chip = << >> THEN acc
       ELSE [obs |-> [acc.obs EXCEPT !.textLen = IF isNew THEN block.n ELSE @],
             out |-> Append(acc.out, event)]

ThinkingBlock(acc, i, b, block) ==
    IF block.n <= acc.obs.thinkLen THEN acc
    ELSE [obs |-> [acc.obs EXCEPT !.thinkLen = block.n],
          out |-> Append(acc.out, Event(<< 0, i, b >>, BlockKey(0, i, b), "thinking", 0, << >>))]

ToolBlock(acc, i, b, block) ==
    IF block.n \in acc.obs.emitted THEN acc
    ELSE [obs |-> [acc.obs EXCEPT !.emitted = @ \cup {block.n}, !.pending = @ \cup {block.n}],
          out |-> Append(acc.out, Event(<< 0, i, b >>, BlockKey(0, i, b), "tool", block.n, << >>))]

AssistantBlock(acc, i, b, block, chip) ==
    CASE block.kind = "thinking"     -> ThinkingBlock(acc, i, b, block)
      [] block.kind \in ToolKinds    -> ToolBlock(acc, i, b, block)
      [] OTHER                       -> TextBlock(acc, i, b, block, chip)

\* The first assistant row after an interrupt is the rest of the turn that
\* was cut short: it does not count as activity.
AssistantEntry(obs, i, row) ==
    LET active == [obs EXCEPT !.status = IF obs.justInterrupted THEN @ ELSE "running",
                              !.justInterrupted = FALSE,
                              !.turnTools = @ + Len(ToolBlocks(row))]
        texts  == { b \in DOMAIN row.blocks : row.blocks[b].kind \in {"text", "interrupt"} }
        chipOf(b) == IF row.end /\ b \in texts /\ \A c \in texts : c <= b
                     THEN << active.turnTools >> ELSE << >>
        done   == FoldLeft(LAMBDA acc, b : AssistantBlock(acc, i, b, row.blocks[b], chipOf(b)),
                           [obs |-> active, out |-> << >>], [ b \in DOMAIN row.blocks |-> b ])
    IN [done EXCEPT !.obs.status = IF row.end THEN "ready" ELSE @]

\* A message queued in the terminal; it has no uuid.
EnqueueEntry(obs, i, row) ==
    [obs |-> obs,
     out |-> IF row.blocks[1].kind = "internal" THEN << >>
             ELSE << Event(<< 0, i, 0 >>, HashKey("queue_enqueue", i, 0), "user", 0, << >>) >>]

\* processEntry
ProcessEntry(obs, i, row) ==
    CASE row.type = "user"      -> UserEntry(obs, i, row)
      [] row.type = "assistant" -> AssistantEntry(obs, i, row)
      [] row.type = "enqueue"   -> EnqueueEntry(obs, i, row)
      [] row.type = "boundary"  ->
           [obs |-> obs,
            out |-> << Event(<< 0, i, 0 >>, RowKey(0, i), "compact", 0, << >>) >>]
      [] row.type = "localout"  ->
           [obs |-> [obs EXCEPT !.status = "ready"],
            out |-> << Event(<< 0, i, 0 >>, RowKey(0, i), "command", 0, << >>) >>]

-----------------------------------------------------------------------------

\* The rows that an observer which started at `start' and has read up to
\* `from' gets as JSON from the bytes up to `to'.
RowsBetween(start, from, to) ==
    Ascending({ r \in 1 .. to \div 2 : 2 * r > from /\ 2 * r - 1 # start })

\* readNewEntries: the new bytes, row by row.
ReadNewEntries(obs, rows, size) ==
    LET new == RowsBetween(obs.start, obs.offset, size)
        step(acc, r) ==
            LET next == ProcessEntry(acc.obs, r, rows[r])
            IN [obs |-> next.obs, out |-> acc.out \o next.out]
    IN IF ~obs.active \/ size <= obs.offset THEN [obs |-> obs, out |-> << >>]
       ELSE FoldLeft(step, [obs |-> [obs EXCEPT !.offset = size], out |-> << >>], new)
===============================================================================
