------------------------ MODULE PreToolUseCorrelator ------------------------
(***************************************************************************)
(* src/src/hooks/pre-tool-use-correlator.ts                                *)
(*                                                                         *)
(* Claude Code fires a PreToolUse hook, which carries a tool_use_id, and   *)
(* then, if the tool needs approval, a PermissionRequest hook, which in    *)
(* older versions carries none.  The correlator keeps, for each            *)
(* session:toolName key, the queue of PreToolUse ids that no               *)
(* PermissionRequest has claimed yet.  A queue is a sequence of tool calls *)
(* in arrival order; InputOf gives the tool input stored with an entry.    *)
(*                                                                         *)
(* The TTL is abstracted: entries are in order of age, so pruning drops a  *)
(* prefix, and how long a prefix is up to the clock.                       *)
(***************************************************************************)
EXTENDS Naturals, Sequences

CONSTANTS
    Tools,      \* tool calls, each standing for one tool_use_id
    InputOf,    \* the tool input of a call (JSON text compared for equality)
    QueueCap    \* MAX_PRE_TOOL_USE_QUEUE_SIZE

ASSUME QueueCapAssumption == QueueCap \in Nat \ {0}

\* What prune(key) may leave of a queue, depending on the clock.
Fresh(q) == { SubSeq(q, n, Len(q)) : n \in 1 .. Len(q) + 1 }

\* Both are applied to a queue that prune() has just returned.
Enqueue(q, t) ==
    LET longer == Append(q, t)
    IN  IF Len(longer) > QueueCap THEN Tail(longer) ELSE longer

\* splice(i, 1)
DropAt(q, i) == SubSeq(q, 1, i - 1) \o SubSeq(q, i + 1, Len(q))

\* The entry that shift(key, input) takes: the first with an equal input, else
\* the head.  None if the queue is empty, otherwise exactly one.
ShiftIndex(q, t) ==
    LET equal == { i \in DOMAIN q : InputOf[q[i]] = InputOf[t] }
    IN  { i \in DOMAIN q : IF equal = {} THEN i = 1
                           ELSE i \in equal /\ \A j \in equal : i <= j }

\* The entry that remove(key, id) takes: the first of exactly that id, if any.
RemoveIndex(q, t) ==
    LET own == { i \in DOMAIN q : q[i] = t }
    IN  { i \in own : \A j \in own : i <= j }
=============================================================================
