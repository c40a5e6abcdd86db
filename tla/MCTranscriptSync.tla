--------------------------- MODULE MCTranscriptSync ---------------------------
(***************************************************************************)
(* TLC: the scripts that may be written.                                   *)
(***************************************************************************)
EXTENDS TranscriptSync

B(kind, n) == [kind |-> kind, n |-> n]
Row(type, ts, blocks, end) == [type |-> type, ts |-> ts, blocks |-> blocks, end |-> end]
User(ts)         == Row("user", ts, << B("text", 1) >>, FALSE)
Reply(ts, n, end) == Row("assistant", ts, << B("text", n) >>, end)
Call(ts, kind, id) == Row("assistant", ts, << B(kind, id) >>, FALSE)
Result(ts, id)   == Row("user", ts, << B("result", id) >>, FALSE)

\* A turn with a call that is interrupted, then the wrap-up row that
\* Claude writes; with thinking, and one row that can be seen half written.
Interruption ==
    [rows |-> << User(10),
                 Row("assistant", 20, << B("thinking", 3), B("text", 2), B("tool", 1) >>, FALSE),
                 Row("user", 30, << B("cancelled", 1) >>, FALSE),
                 Reply(31, 1, FALSE) >>,
     files |-> << >>, halves |-> {2}, cursor |-> "ms",
     crashes |-> 0, restarts |-> 1, requests |-> 1, absences |-> 1]

\* A whole turn whose call has a result, in rows of the same millisecond, and
\* the next message.
WholeTurn ==
    [rows |-> << User(10), Call(20, "tool", 1), Result(20, 1), Reply(20, 2, TRUE), User(50) >>,
     files |-> << >>, halves |-> {}, cursor |-> "ms",
     crashes |-> 1, restarts |-> 0, requests |-> 2, absences |-> 0]

\* A message queued in the terminal, a compaction, and a slash command's
\* output; with a cursor of numbers.
Commands ==
    [rows |-> << Row("enqueue", 5, << B("text", 1) >>, FALSE),
                 Row("boundary", 10, << >>, FALSE),
                 Row("user", 10, << B("summary", 3) >>, FALSE),
                 Row("localout", 12, << B("stdout", 1) >>, FALSE),
                 Row("assistant", 30, << B("text", 1), B("interrupt", 1) >>, FALSE) >>,
     files |-> << >>, halves |-> {}, cursor |-> "seq",
     crashes |-> 0, restarts |-> 1, requests |-> 2, absences |-> 0]

\* A subagent, which calls a tool and ends its turn.
Subagents ==
    [rows |-> << User(10), Call(100, "task", 1) >>,
     files |-> << << Row("user", 110, << B("text", 1) >>, FALSE),
                     Row("assistant", 120, << B("text", 1), B("tool", 7) >>, FALSE),
                     Row("user", 130, << B("result", 7) >>, FALSE),
                     Row("assistant", 140, << B("text", 2) >>, TRUE) >> >>,
     halves |-> {}, cursor |-> "ms",
     crashes |-> 0, restarts |-> 1, requests |-> 1, absences |-> 0]

MCScripts == {Interruption, WholeTurn, Commands, Subagents}
===============================================================================
