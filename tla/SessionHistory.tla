---------------------------- MODULE SessionHistory ----------------------------
(***************************************************************************)
(* The history of a Claude session as the phone gets it: the parse of the  *)
(* transcript and of its subagents' files, the numbers and cursor times of *)
(* the rows, the pages, and the check of what the phone holds              *)
(* (src/src/discovery/jsonl-parser.ts, subagent-history.ts,                *)
(* session-discovery.ts, src/src/wiring/session-output-serializer.ts and   *)
(* src/src/commands/handlers/acks.ts).                                     *)
(*                                                                         *)
(* The phone has announced every capability and shows tool calls, so that  *)
(* the serializer filters nothing; the transcript is below the 20 MB read. *)
(***************************************************************************)
EXTENDS TranscriptRows, SeqAllocator, SequencesExt

CONSTANTS
    TailLimit,   \* DEFAULT_SESSION_HISTORY_LIMIT
    MaxLimit     \* MAX_SESSION_HISTORY_LIMIT

ASSUME LimitAssumption ==
    TailLimit \in Nat \ {0} /\ MaxLimit \in Nat \ {0} /\ TailLimit <= MaxLimit

\* An undefined cursor, offset, time or number; all that are defined are above.
Undefined == 0

-----------------------------------------------------------------------------
(***************************************************************************)
(* Parsing.  A history row has an identity (file, row, block), the key its *)
(* number is kept under, if any, its role and time, the subagent it        *)
(* belongs to (0 for none) and, at the end of a turn, the turn's metrics.  *)
(***************************************************************************)

Ids == Nat \X Nat \X Nat
HistoryRow(id, key, role, ts) ==
    [id |-> id, key |-> key, role |-> role, ts |-> ts, chip |-> << >>]

UserRole(kind) ==
    CASE kind = "command" -> "local_command_invoke"
      [] kind = "stdout"  -> "local_command_output"
      [] kind = "summary" -> "compact_summary"
      [] OTHER            -> "user"

\* The texts of a user row are joined: what the first is decides.
UserHistory(i, row) ==
    LET texts == TextBlocks(row)
        role  == IF IsInterrupt(row) THEN "system" ELSE UserRole(texts[1].kind)
    IN IF ~IsInterrupt(row)
          /\ (texts = << >> \/ texts[1].kind \in {"caveat", "internal"})
       THEN << >>
       ELSE << HistoryRow(<< 0, i, 0 >>, RowKey(0, i), role, row.ts) >>

BlockHistory(i, b, row) ==
    LET kind == row.blocks[b].kind
        role == IF kind \in ToolKinds THEN kind ELSE "assistant"
    IN IF kind \in {"interrupt", "thinking", "result", "cancelled"} THEN << >>
       ELSE << HistoryRow(<< 0, i, b >>, BlockKey(0, i, b), role, row.ts) >>

\* The row that began the turn of row i: the last one of a real user.
TurnStart(rows, i) ==
    LET starts == { j \in 1 .. i : rows[j].type = "user" /\ ~OnlyResults(rows[j]) }
    IN IF starts = {} THEN 0 ELSE CHOOSE j \in starts : \A k \in starts : k <= j

\* turnToolUseCount at row i; turnTokenSum is summed over the same rows.
TurnTools(rows, i) ==
    LET first == TurnStart(rows, i)
    IN Len(FlattenSeq([ k \in 1 .. i - first |->
            IF rows[first + k].type = "assistant" THEN ToolBlocks(rows[first + k]) ELSE << >> ]))

\* The last text of a turn carries the metrics; an interrupt found in an
\* assistant row follows it, one millisecond later.
WithMetrics(parsed, tools) ==
    LET isText(k) == parsed[k].role = "assistant"
    IN [ k \in DOMAIN parsed |->
           IF isText(k) /\ \A j \in DOMAIN parsed : isText(j) => j <= k
           THEN [parsed[k] EXCEPT !.chip = << tools >>] ELSE parsed[k] ]

AssistantHistory(rows, i) ==
    LET row == rows[i]
        parsed == FlattenSeq([ b \in DOMAIN row.blocks |-> BlockHistory(i, b, row) ])
    IN (IF row.end THEN WithMetrics(parsed, TurnTools(rows, i)) ELSE parsed) \o
       (IF IsInterrupt(row)
        THEN << HistoryRow(<< 0, i, Len(row.blocks) + 1 >>, << "interrupt", 0, i, 0 >>,
                           "system", row.ts + 1) >>
        ELSE << >>)

EntryHistory(rows, i) ==
    LET row == rows[i]
    IN CASE row.type = "user"      -> UserHistory(i, row)
         [] row.type = "assistant" -> AssistantHistory(rows, i)
         [] row.type = "boundary"  ->
              << HistoryRow(<< 0, i, 0 >>, RowKey(0, i), "compact_boundary", row.ts) >>
         [] row.type = "localout"  ->
              << HistoryRow(<< 0, i, 0 >>, RowKey(0, i), "local_command_output", row.ts) >>
         [] OTHER -> << >>

ParentHistory(rows) == FlattenSeq([ i \in DOMAIN rows |-> EntryHistory(rows, i) ])

\* A subagent's assistant row gives a row for its texts, joined, and one for
\* each tool call.  None of them has a uuid.
AgentEntryHistory(a, i, row) ==
    LET rowAt(b) == HistoryRow(<< a, i, b >>, << "none", a, i, b >>, "subagent", row.ts)
        textAt == { b \in DOMAIN row.blocks : row.blocks[b].kind \in TextKinds }
        texts  == IF textAt = {} THEN << >>
                  ELSE << rowAt(CHOOSE b \in textAt : \A c \in textAt : b <= c) >>
        tools  == FlattenSeq([ b \in DOMAIN row.blocks |->
                    IF row.blocks[b].kind \in ToolKinds THEN << rowAt(b) >> ELSE << >> ])
    IN IF row.type = "assistant" THEN texts \o tools ELSE << >>

\* A stable sort by the numbers of the rows.
SortedBy(s, numbers) ==
    LET order == Order(numbers) IN [ k \in DOMAIN s |-> s[order[k]] ]
ByTime(s) == SortedBy(s, [ k \in DOMAIN s |-> s[k].ts ])

\* getSubagentHistory: every file, then by time.
SubagentHistory(files) ==
    ByTime(FlattenSeq([ a \in DOMAIN files |->
               FlattenSeq([ i \in DOMAIN files[a] |-> AgentEntryHistory(a, i, files[a][i]) ]) ]))

\* The time the rows of agent a are shown at: the Nth agent, by its first
\* row, belongs to the Nth Task call; one that is not paired keeps its own.
RowsOf(subs, a) == { k \in DOMAIN subs : subs[k].id[1] = a }
AnchorOf(tasks, subs, a, own) ==
    LET first(b) == CHOOSE k \in RowsOf(subs, b) : \A j \in RowsOf(subs, b) : k <= j
        rank == Cardinality({ k \in DOMAIN subs : k = first(subs[k].id[1]) /\ k <= first(a) })
    IN IF rank <= Len(tasks) THEN tasks[rank].ts ELSE own

Anchored(parents, subs) ==
    LET tasks == ByTime(Picked(parents, { k \in DOMAIN parents : parents[k].role = "task" }))
    IN [ k \in DOMAIN subs |->
            [subs[k] EXCEPT !.ts = AnchorOf(tasks, subs, subs[k].id[1], subs[k].ts)] ]

Merged(parents, subs) ==
    IF subs = << >> THEN parents
    ELSE ByTime(parents \o Anchored(parents, subs))

\* All rows in the order in which they are numbered.
Chronological(rows, files) == Merged(ParentHistory(rows), SubagentHistory(files))

IsParent(r) == r.role # "subagent"
Parents(rows) == Picked(rows, { k \in DOMAIN rows : IsParent(rows[k]) })

-----------------------------------------------------------------------------
(***************************************************************************)
(* Numbers and cursor times                                                *)
(***************************************************************************)

WithNumber(row, seq) == [id |-> row.id, key |-> row.key, role |-> row.role, ts |-> row.ts,
                         chip |-> row.chip, seq |-> seq, tsMs |-> Undefined]

\* Numbers are given in chronological order to what has none yet; a row
\* without a key gets a new one at every parse.
Number(acc, row) ==
    LET keyed == row.key[1] # "none"
        after == IF keyed THEN GetOrAssign(acc.alloc, row.key)
                 ELSE AllocAnonymous(acc.alloc)
        seq   == IF keyed THEN after.entries[row.key] ELSE acc.alloc.nextSeq
    IN [alloc |-> after, rows |-> Append(acc.rows, WithNumber(row, seq))]

\* A row without a timestamp comes right after the one before it.
SourceTime(acc, row) ==
    LET ms == IF row.ts # Undefined THEN row.ts ELSE acc.prev + 1
    IN [prev |-> ms, rows |-> Append(acc.rows, [row EXCEPT !.tsMs = ms])]

\* The times are made strictly increasing.
CursorTime(acc, row) ==
    LET ms == IF row.tsMs > acc.prev THEN row.tsMs ELSE acc.prev + 1
    IN [prev |-> ms, rows |-> Append(acc.rows, [row EXCEPT !.tsMs = ms])]

\* The parse of what is on disk, with the allocator as it was: the rows in the
\* order of their cursor times, and the allocator afterwards.
Timed(numbered) ==
    LET start == [prev |-> 0, rows |-> << >>]
        inOrder == SortedBy(numbered, [ k \in DOMAIN numbered |-> numbered[k].seq ])
        timed == FoldLeft(SourceTime, start, inOrder).rows
    IN FoldLeft(CursorTime, start, SortedBy(timed, [ k \in DOMAIN timed |-> timed[k].tsMs ])).rows

WithTimes(numbered) == [alloc |-> numbered.alloc, rows |-> Timed(numbered.rows)]
ParseHistory(alloc, rows, files) ==
    WithTimes(FoldLeft(Number, [alloc |-> alloc, rows |-> << >>], Chronological(rows, files)))

-----------------------------------------------------------------------------
(***************************************************************************)
(* Pages                                                                   *)
(***************************************************************************)

\* The cursor of a request: a time, a number, or none.  A time wins.
NoCursor == [ms |-> Undefined, seq |-> Undefined]

After(rows, cursor) ==
    IF cursor.ms # Undefined THEN Picked(rows, { k \in DOMAIN rows : rows[k].tsMs > cursor.ms })
    ELSE IF cursor.seq # Undefined
    THEN Picked(rows, { k \in DOMAIN rows : rows[k].seq > cursor.seq })
    ELSE rows

\* Mutant: a panel after the last parent of a page is left to the next one.
InWindowStrictly(r, parents, from, to) ==
    r.tsMs >= parents[from].tsMs /\ r.tsMs <= parents[to].tsMs

\* The rows of a page of the parents from .. to: those, and the subagents'
\* rows up to the next parent.
InWindow(r, parents, from, to) ==
    /\ r.tsMs >= parents[from].tsMs
    /\ \/ r.tsMs <= parents[to].tsMs
       \/ ~IsParent(r) /\ (to < Len(parents) => r.tsMs < parents[to + 1].tsMs)

NonNegative(n, sub) == IF n > sub THEN n - sub ELSE 0

\* Mutant: a page asked for by a cursor sends no cursor for what is older.
NextOffsetNone(rows, parents, cursor, offset, from, to) ==
    IF cursor = NoCursor /\ from > 1 THEN offset + (to - from + 1) ELSE Undefined

\* next_offset: how many of the newest parents the phone has after this page;
\* undefined if there is none older, or if nothing was sent.
NextOffset(rows, parents, cursor, offset, from, to) ==
    LET older   == Len(Parents(rows)) - Len(parents) + (from - 1)
        emitted == Len(parents) - (from - 1)
    IN IF cursor = NoCursor
       THEN IF from > 1 THEN offset + (to - from + 1) ELSE Undefined
       ELSE IF emitted > 0 /\ older > 0 THEN emitted ELSE Undefined

Highest(n, row) == IF row.seq > n THEN row.seq ELSE n

\* The parents from .. to of the filtered rows, and what goes with them.
PageOf(rows, filtered, parents, cursor, offset, from, to) ==
    [messages   |-> IF from > to THEN << >>
                    ELSE Picked(filtered, { k \in DOMAIN filtered :
                                            InWindow(filtered[k], parents, from, to) }),
     totalCount |-> Len(filtered),
     hasMore    |-> from > 1,
     nextOffset |-> NextOffset(rows, parents, cursor, offset, from, to),
     tailSeq    |-> FoldLeft(Highest, 0, rows),
     tailMs     |-> IF filtered = << >> THEN Undefined ELSE filtered[Len(filtered)].tsMs]

\* The newest `limit' parents below `offset'.
PageBelow(rows, filtered, parents, cursor, offset, limit) ==
    LET to == NonNegative(Len(parents), offset)
    IN PageOf(rows, filtered, parents, cursor, offset, NonNegative(to, limit) + 1, to)

\* getSessionHistory, after the parse: a page of the rows after the cursor.
Page(rows, cursor, offset, limit) ==
    LET filtered == After(rows, cursor)
    IN PageBelow(rows, filtered, Parents(filtered), cursor, offset, limit)

\* sendSessionHistory: the page size, when the caller gives none or too much.
PageLimit(limit, cursor) ==
    LET raw == IF limit # Undefined THEN limit
               ELSE IF cursor = NoCursor THEN TailLimit ELSE MaxLimit
    IN IF raw > MaxLimit THEN MaxLimit ELSE raw

SendSessionHistory(rows, cursor, offset, limit) ==
    Page(rows, cursor, offset, PageLimit(limit, cursor))

\* handleVerifyHistory: what is wrong with a phone that holds `count' rows up
\* to the cursor `tail', the first of them numbered `head'.
PhoneRoles == {"user", "assistant", "tool", "task", "subagent"}
Visible(rows) ==
    LET all == Page(rows, NoCursor, 0, Len(rows) + 1).messages
    IN Picked(all, { k \in DOMAIN all : all[k].role \in PhoneRoles })

ReasonOf(expected, visible, count, tail, head) ==
       IF tail.ms # Undefined /\ expected.tailMs # Undefined /\ tail.ms < expected.tailMs
       THEN "tail_ms_mismatch"
       ELSE IF tail.ms = Undefined /\ tail.seq # Undefined /\ tail.seq # expected.tailSeq
       THEN "tail_seq_mismatch"
       ELSE IF count # Len(visible) /\ ~(visible # << >> /\ head > visible[1].seq)
       THEN "count_mismatch"
       ELSE "none"

VerifyReason(rows, count, tail, head) ==
    ReasonOf(Page(rows, NoCursor, 0, Len(rows) + 1), Visible(rows), count, tail, head)

-----------------------------------------------------------------------------
(***************************************************************************)
(* What the pages promise                                                  *)
(***************************************************************************)

IdsOf(messages) == { messages[k].id : k \in DOMAIN messages }

\* The pages of any size, each at the offset the one before it gave, hold every
\* row exactly once, the subagents' rows too, from the first parent on.
PageAt(rows, n, limit) == Page(rows, NoCursor, n * limit, limit)
Covers(rows, pages) ==
    \A k \in DOMAIN rows :
        (\E j \in 1 .. k : IsParent(rows[j])) =>
            Cardinality({ n \in DOMAIN pages : rows[k].id \in IdsOf(pages[n].messages) }) = 1
Continues(pages, limit) ==
    \A n \in DOMAIN pages :
        pages[n].nextOffset = IF n + 1 \in DOMAIN pages THEN (n + 1) * limit ELSE Undefined
PagesOK(rows, pages, limit) == Covers(rows, pages) /\ Continues(pages, limit)
CoverOnce(rows) ==
    LET total == Len(Parents(rows))
    IN \A limit \in 1 .. MaxLimit :
         PagesOK(rows, [ n \in 0 .. NonNegative(total, 1) \div limit |-> PageAt(rows, n, limit) ],
                 limit)
===============================================================================
