---------------------------- MODULE TranscriptRows ----------------------------
(***************************************************************************)
(* The rows of a Claude transcript, as far as the daemon tells them apart  *)
(* (written by Claude Code, external), and the classification of their     *)
(* text by src/src/utils/interrupt-messages.ts, local-command-parse.ts and *)
(* isInternalMessage.                                                      *)
(*                                                                         *)
(* A row is [type, ts, blocks, end]: its type, its timestamp, its content  *)
(* blocks and whether its stop_reason is end_turn.  A block is             *)
(* [kind, n]: n is the length of a text or of thinking, and the id of a    *)
(* tool call or of the call a result belongs to.                           *)
(*                                                                         *)
(* File 0 is the session's transcript, file a the one of subagent a; row i *)
(* of a file has a uuid, which is named by the file and i.                 *)
(***************************************************************************)
EXTENDS Naturals, Sequences, Subsequences

RowTypes == {"user", "assistant", "enqueue", "boundary", "localout"}

\* The texts of a user row: plain, an interrupt marker, a slash command, its
\* output, its caveat (dropped), the summary of a /compact, or a message
\* between Claude's own parts.
TextKinds == {"text", "interrupt", "command", "stdout", "caveat", "summary", "internal"}
ToolKinds == {"tool", "task"}  \* a Task call starts a subagent
BlockKinds == TextKinds \cup ToolKinds \cup {"thinking", "result", "cancelled"}

Block == [kind : BlockKinds, n : Nat]
TranscriptRow == [type : RowTypes, ts : Nat, blocks : Seq(Block), end : BOOLEAN]

\* A cancelled call's result carries CANCEL_MESSAGE.
IsInterrupt(row) ==
    \E b \in DOMAIN row.blocks : row.blocks[b].kind \in {"interrupt", "cancelled"}
IsLocalCommand(kind) == kind \in {"command", "stdout", "caveat"}
OnlyResults(row) ==
    \A b \in DOMAIN row.blocks : row.blocks[b].kind \in {"result", "cancelled"}

BlocksOf(row, kinds) == Picked(row.blocks, { b \in DOMAIN row.blocks : row.blocks[b].kind \in kinds })
TextBlocks(row) == BlocksOf(row, TextKinds)
ToolBlocks(row) == BlocksOf(row, ToolKinds)

\* The tool calls of a row.  Claude writes a call in one row.
CallsOf(row) ==
    { row.blocks[b].n : b \in { c \in DOMAIN row.blocks : row.blocks[c].kind \in ToolKinds } }
OneRowPerCall(rows) ==
    \A i, j \in DOMAIN rows : i # j => CallsOf(rows[i]) \cap CallsOf(rows[j]) = {}

\* A call is answered by its result or by an interrupt.
Answers(row, call) ==
    /\ row.type = "user"
    /\ \/ IsInterrupt(row)
       \/ \E b \in DOMAIN row.blocks : row.blocks[b].kind = "result" /\ row.blocks[b].n = call
Unanswered(rows, n) ==
    UNION { { c \in CallsOf(rows[i]) : \A k \in i + 1 .. n : ~Answers(rows[k], c) } :
              i \in { j \in 1 .. n : rows[j].type = "assistant" } }

\* Claude ends its turn, or says the last of one that was interrupted, with no
\* call unanswered; its replies are of text, thinking and calls.
ReplyKinds == {"text", "interrupt", "thinking"} \cup ToolKinds
LastOfTurn(rows, i) ==
    /\ rows[i].type = "assistant"
    /\ rows[i].end \/ (i > 1 /\ rows[i - 1].type = "user" /\ IsInterrupt(rows[i - 1]))
WholeTurns(rows) ==
    \A i \in DOMAIN rows :
        /\ rows[i].end => rows[i].type = "assistant"
        /\ rows[i].type = "assistant" =>
             \A b \in DOMAIN rows[i].blocks : rows[i].blocks[b].kind \in ReplyKinds
        /\ LastOfTurn(rows, i) => Unanswered(rows, i) = {}

\* The stable ids of what a row gives rise to: the row's uuid, the uuid and a
\* block index, or a hash (stableEventId) of the row's time and a purpose.
RowKey(file, i)      == << "row", file, i, 0 >>
BlockKey(file, i, b) == << "block", file, i, b >>
HashKey(what, i, n)  == << what, 0, i, n >>
===============================================================================
