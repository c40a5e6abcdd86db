--------------------------- MODULE SubagentObserver ---------------------------
(***************************************************************************)
(* src/src/observers/subagent-observer.ts: what a session's observer keeps *)
(* of one subagent, as a record and the operators that change it.  The     *)
(* archive beside the agent's file is "none" or the tool count it holds;   *)
(* it says `done', and outlives the daemon.                                *)
(***************************************************************************)
EXTENDS TranscriptRows, SequencesExt

NoArchive == << >>
ArchiveOf(tools) == << tools >>

\* An agent that is not in activeAgents.
NoAgent == [known |-> FALSE, offset |-> 0, textLen |-> 0, thinkLen |-> 0, emitted |-> {},
            tools |-> 0, status |-> "running", doneEmitted |-> FALSE]

\* Subagent events carry the status of the agent: n is 1 if it is done.
AgentEvent(a, i, b, key, agent) ==
    [id |-> << a, i, b >>, key |-> key, kind |-> "subagent",
     n |-> IF agent.status = "done" THEN 1 ELSE 0, chip |-> << >>]

\* emitStatusOnly: no uuid.
StatusOnly(a, agent) == << AgentEvent(a, 0, 0, << "none", a, 0, 0 >>, agent) >>

\* The tool calls of the first n rows of a file.
ToolIds(rows, n) ==
    UNION { CallsOf(rows[i]) : i \in { j \in 1 .. n : rows[j].type = "assistant" } }
ToolsIn(rows, n) == Cardinality(ToolIds(rows, n))

EndedWithEndTurn(rows, n) ==
    LET replies == { i \in 1 .. n : rows[i].type = "assistant" }
    IN replies # {} /\ rows[CHOOSE i \in replies : \A j \in replies : j <= i].end

-----------------------------------------------------------------------------

UserBlockOfAgent(acc, a, i, block) ==
    IF block.kind \notin {"result", "cancelled"} THEN acc
    ELSE [acc EXCEPT !.out = Append(@, AgentEvent(a, i, block.n, RowKey(a, i), acc.agent))]

AgentBlock(acc, a, i, b, block) ==
    LET agent == acc.agent
        counted == CASE block.kind = "thinking" ->
                          [agent EXCEPT !.thinkLen = IF block.n > @ THEN block.n ELSE @]
                     [] block.kind \in ToolKinds ->
                          [agent EXCEPT !.emitted = @ \cup {block.n},
                                        !.tools = IF block.n \in agent.emitted THEN @ ELSE @ + 1]
                     [] OTHER -> [agent EXCEPT !.textLen = IF block.n > @ THEN block.n ELSE @]
        skipped == CASE block.kind = "thinking"  -> block.n <= agent.thinkLen
                     [] block.kind \in ToolKinds -> block.n \in agent.emitted
                     [] OTHER                    -> block.n <= agent.textLen
    IN [agent |-> counted,
        out |-> IF skipped THEN acc.out
                ELSE Append(acc.out, AgentEvent(a, i, b, BlockKey(a, i, b), counted))]

\* processEntry: a user row means that it runs, the end of a turn that it is
\* idle, whatever was announced before.
ProcessAgentEntry(acc, a, i, row) ==
    LET agent == acc.agent
        running == [agent EXCEPT !.status = "running", !.textLen = 0, !.thinkLen = 0,
                                 !.emitted = {}]
        replied == [agent EXCEPT !.status = IF row.end THEN "idle" ELSE @]
    IN IF row.type = "user"
       THEN FoldLeft(LAMBDA x, block : UserBlockOfAgent(x, a, i, block),
                     [agent |-> running, out |-> acc.out], row.blocks)
       ELSE IF row.type = "assistant"
       THEN FoldLeft(LAMBDA x, b : AgentBlock(x, a, i, b, row.blocks[b]),
                     [agent |-> replied, out |-> acc.out], [ b \in DOMAIN row.blocks |-> b ])
       ELSE acc

\* readNewEntries, up to row n of the agent's file.
ReadAgent(agent, a, rows, n) ==
    FoldLeft(LAMBDA acc, k : ProcessAgentEntry(acc, a, agent.offset + k, rows[agent.offset + k]),
             [agent |-> [agent EXCEPT !.offset = n], out |-> << >>],
             [ k \in 1 .. n - agent.offset |-> k ])

-----------------------------------------------------------------------------

\* What scanForNewAgents makes of an archive.
FromArchive(agent, archive) ==
    [agent EXCEPT !.status = "done", !.doneEmitted = TRUE, !.tools = archive[1]]

\* Mutant: the initial scan counts from nothing.
InitialAgentUncounted(rows, n, archive, quiet) ==
    LET found == [NoAgent EXCEPT !.known = TRUE, !.offset = n]
    IN IF archive # NoArchive THEN FromArchive(found, archive) ELSE found

\* scanForNewAgents(true): the file is skipped, but counted; an agent whose
\* turn ended long ago is done.
InitialAgent(rows, n, archive, quiet) ==
    LET found    == [NoAgent EXCEPT !.known = TRUE, !.offset = n]
        replayed == [found EXCEPT !.tools = ToolsIn(rows, n)]
    IN IF archive # NoArchive THEN FromArchive(found, archive)
       ELSE IF quiet /\ EndedWithEndTurn(rows, n)
       THEN [replayed EXCEPT !.status = "done", !.doneEmitted = TRUE]
       ELSE replayed

\* scanForNewAgents(false): a file that has appeared since is read in full.
NewAgent(archive) ==
    LET found == [NoAgent EXCEPT !.known = TRUE]
    IN IF archive # NoArchive THEN FromArchive(found, archive) ELSE found

\* The agent is done, announced and archived.
Done(agent) == [agent EXCEPT !.status = "done", !.doneEmitted = TRUE]
===============================================================================
