------------------------- MODULE SessionHistoryProofs -------------------------
(***************************************************************************)
(* Proofs about SeqAllocator and SessionHistory, for any transcript, any   *)
(* files of subagents and any page limits: what an allocator keeps, what a *)
(* transcript is parsed to, and that the pages of the parse hold every row *)
(* exactly once.                                                           *)
(***************************************************************************)
EXTENDS SessionHistory, SequenceTheorems, FiniteSetTheorems, TLAPS

-----------------------------------------------------------------------------
(***************************************************************************)
(* The allocator                                                           *)
(***************************************************************************)

Allocator(al) ==
    /\ al = [nextSeq |-> al.nextSeq, entries |-> al.entries]
    /\ al.nextSeq \in Nat \ {0}
    /\ al.entries = [k \in Known(al) |-> al.entries[k]]
    /\ Injective(al)

\* A new allocator has numbered nothing.
LEMMA EmptyIsAllocator == Allocator(EmptyAllocator)
BY DEF Allocator, EmptyAllocator, Injective, Known

\* What a new key gets, and what the others keep.
LEMMA NewKey ==
  ASSUME NEW al, Allocator(al), NEW key, key \notin Known(al)
  PROVE  LET new == GetOrAssign(al, key) IN
         /\ Known(new) = Known(al) \cup {key}
         /\ new.nextSeq = al.nextSeq + 1
         /\ new.entries[key] = al.nextSeq
         /\ \A k \in Known(al) : new.entries[k] = al.entries[k]
         /\ new = [nextSeq |-> new.nextSeq, entries |-> new.entries]
         /\ new.entries = [k \in Known(new) |-> new.entries[k]]
BY DEF GetOrAssign, Known, Allocator

\* getOrAssign gives a row the number it had, or one that no row ever had; so
\* numbers stay one to one, the next one stays above all, and none is changed.
THEOREM NumbersAreKept ==
  ASSUME NEW al, Allocator(al), NEW key
  PROVE  LET new == GetOrAssign(al, key) IN
         /\ Allocator(new)
         /\ key \in Known(new) /\ new.nextSeq >= al.nextSeq
         /\ \A k \in Known(al) : k \in Known(new) /\ new.entries[k] = al.entries[k]
<1>1. CASE key \in Known(al)
  BY <1>1 DEF GetOrAssign, Allocator
<1>2. CASE key \notin Known(al)
  <2> DEFINE new == GetOrAssign(al, key)
  <2>1. /\ Known(new) = Known(al) \cup {key}
        /\ new.nextSeq = al.nextSeq + 1
        /\ new.entries[key] = al.nextSeq
        /\ \A k \in Known(al) : new.entries[k] = al.entries[k]
        /\ new = [nextSeq |-> new.nextSeq, entries |-> new.entries]
        /\ new.entries = [k \in Known(new) |-> new.entries[k]]
    BY <1>2, NewKey
  <2> HIDE DEF new
  <2>2. /\ al.nextSeq \in Nat \ {0}
        /\ \A k \in Known(al) : al.entries[k] \in 1 .. al.nextSeq - 1
        /\ \A j, k \in Known(al) : al.entries[j] = al.entries[k] => j = k
    BY DEF Allocator, Injective
  <2>3. \A k \in Known(new) : new.entries[k] \in 1 .. new.nextSeq - 1
    BY <2>1, <2>2
  <2>4. \A j, k \in Known(new) : new.entries[j] = new.entries[k] => j = k
    <3> SUFFICES ASSUME NEW j \in Known(new), NEW k \in Known(new),
                        new.entries[j] = new.entries[k]
                 PROVE  j = k
      OBVIOUS
    <3>1. CASE j \in Known(al) /\ k \in Known(al)
      BY <2>1, <2>2, <3>1
    <3>2. CASE j = key /\ k \in Known(al)
      BY <2>1, <2>2, <3>2
    <3>3. CASE j \in Known(al) /\ k = key
      BY <2>1, <2>2, <3>3
    <3>4. CASE j = key /\ k = key
      BY <3>4
    <3> QED
      BY <2>1, <3>1, <3>2, <3>3, <3>4
  <2>5. Allocator(new) /\ key \in Known(new) /\ new.nextSeq >= al.nextSeq
    BY <2>1, <2>2, <2>3, <2>4 DEF Allocator, Injective
  <2> QED
    BY <2>1, <2>5 DEF new
<1> QED
  BY <1>1, <1>2

\* A row without a key takes a number that no row ever had, and keeps the rest.
THEOREM AnonymousIsFresh ==
  ASSUME NEW al, Allocator(al)
  PROVE  /\ Allocator(AllocAnonymous(al))
         /\ \A k \in Known(al) : /\ AllocAnonymous(al).entries[k] = al.entries[k]
                                 /\ al.entries[k] # al.nextSeq
<1> DEFINE new == AllocAnonymous(al)
<1>1. /\ new.nextSeq = al.nextSeq + 1 /\ new.entries = al.entries
      /\ new = [nextSeq |-> new.nextSeq, entries |-> new.entries]
  BY DEF AllocAnonymous, Allocator
<1>2. /\ al.nextSeq \in Nat \ {0}
      /\ al.entries = [k \in Known(al) |-> al.entries[k]]
      /\ \A k \in Known(al) : al.entries[k] \in 1 .. al.nextSeq - 1
      /\ \A j, k \in Known(al) : al.entries[j] = al.entries[k] => j = k
  BY DEF Allocator, Injective
<1> HIDE DEF new
<1>3. Known(new) = Known(al)
  BY <1>1 DEF Known
<1>4. Allocator(new)
  BY <1>1, <1>2, <1>3 DEF Allocator, Injective
<1> QED
  BY <1>1, <1>2, <1>4 DEF new

-----------------------------------------------------------------------------

\* Facts of sequences that need no fold.
AnyStep(p, v, e) == v
Facts == INSTANCE SequenceFacts WITH Op <- AnyStep

KeyKinds == {"row", "block", "none", "interrupt", "system_interrupt", "tool_result_interrupt",
             "queue_enqueue"}
Roles == {"user", "assistant", "system", "tool", "task", "subagent", "local_command_invoke",
          "local_command_output", "compact_summary", "compact_boundary"}
Key == KeyKinds \X Nat \X Nat \X Nat
HistoryRows == [id : Ids, key : Key, role : Roles, ts : Nat, chip : Seq(Nat)]
NumberedRows == [id : Ids, key : Key, role : Roles, ts : Nat, chip : Seq(Nat),
                 seq : Nat, tsMs : Nat]

-----------------------------------------------------------------------------
(***************************************************************************)
(* Sequences                                                               *)
(***************************************************************************)

LEMMA PickedTyped ==
  ASSUME NEW S, NEW s \in Seq(S), NEW K \in SUBSET DOMAIN s
  PROVE  Picked(s, K) \in Seq(S)
<1>1. Facts!Picked(s, K) = Picked(s, K)
  BY DEF Facts!Picked, Facts!Ascending, Facts!Ranked, Facts!Cardinality, Facts!IsFiniteSet,
         Picked, Ascending, Ranked, Cardinality, IsFiniteSet
<1> QED
  BY <1>1, Facts!PickedProperties

\* The elements that are picked, and their order.
LEMMA PickedElementsAt ==
  ASSUME NEW S, NEW s \in Seq(S), NEW K \in SUBSET DOMAIN s
  PROVE  \E f \in [DOMAIN Picked(s, K) -> K] :
           /\ \A n \in DOMAIN Picked(s, K) : Picked(s, K)[n] = s[f[n]]
           /\ \A i \in K : \E n \in DOMAIN Picked(s, K) : f[n] = i
           /\ \A m, n \in DOMAIN Picked(s, K) : m < n => f[m] < f[n]
<1>1. Facts!Picked(s, K) = Picked(s, K)
  BY DEF Facts!Picked, Facts!Ascending, Facts!Ranked, Facts!Cardinality, Facts!IsFiniteSet,
         Picked, Ascending, Ranked, Cardinality, IsFiniteSet
<1> DEFINE t == Facts!Picked(s, K)
<1>2. \E f \in [DOMAIN t -> K] :
        /\ \A n \in DOMAIN t : t[n] = s[f[n]]
        /\ \A i \in K : \E n \in DOMAIN t : f[n] = i
        /\ \A m, n \in DOMAIN t : m < n => f[m] < f[n]
  BY Facts!PickedProperties
<1>3. t = Picked(s, K)
  BY <1>1
<1> HIDE DEF t
<1> QED
  BY <1>2, <1>3, Zenon

LEMMA AscendingTyped ==
  ASSUME NEW K \in SUBSET Nat, IsFiniteSet(K)
  PROVE  Cardinality(K) \in Nat /\ Ascending(K) \in [1 .. Cardinality(K) -> K]
<1>1. /\ Facts!Ascending(K) = Ascending(K) /\ Facts!Cardinality(K) = Cardinality(K)
      /\ Facts!IsFiniteSet(K)
  BY DEF Facts!Ascending, Facts!Ranked, Facts!Cardinality, Facts!IsFiniteSet,
         Ascending, Ranked, Cardinality, IsFiniteSet
<1> QED
  BY <1>1, Facts!AscendingProperties

LEMMA AscendingOnto ==
  ASSUME NEW K \in SUBSET Nat, IsFiniteSet(K)
  PROVE  /\ Cardinality(K) \in Nat /\ Ascending(K) \in [1 .. Cardinality(K) -> K]
         /\ \A i \in K : \E n \in 1 .. Cardinality(K) : Ascending(K)[n] = i
<1>1. /\ Facts!Ascending(K) = Ascending(K) /\ Facts!Cardinality(K) = Cardinality(K)
      /\ Facts!IsFiniteSet(K)
  BY DEF Facts!Ascending, Facts!Ranked, Facts!Cardinality, Facts!IsFiniteSet,
         Ascending, Ranked, Cardinality, IsFiniteSet
<1> QED
  BY <1>1, Facts!AscendingProperties

LEMMA AscendingFrom ==
  ASSUME NEW f \in Nat, NEW n \in Nat
  PROVE  /\ DOMAIN Ascending(f + 1 .. f + n) = 1 .. n
         /\ \A k \in 1 .. n : Ascending(f + 1 .. f + n)[k] = f + k
<1> DEFINE K == f + 1 .. f + n
<1>1. /\ DOMAIN Facts!Ascending(K) = 1 .. n
      /\ \A k \in 1 .. n : Facts!Ascending(K)[k] = f + k
  BY Facts!AscendingInterval
<1> HIDE DEF K
<1>2. Facts!Ascending(K) = Ascending(K)
  BY DEF Facts!Ascending, Facts!Ranked, Facts!Cardinality, Facts!IsFiniteSet,
         Ascending, Ranked, Cardinality, IsFiniteSet
<1> QED
  BY <1>1, <1>2 DEF K

LEMMA SortedTyped ==
  ASSUME NEW S, NEW s \in Seq(S), NEW numbers \in [DOMAIN s -> Nat]
  PROVE  SortedBy(s, numbers) \in Seq(S)
<1> DEFINE n == Len(s)
<1>1. n \in Nat /\ DOMAIN s = 1 .. n /\ \A k \in 1 .. n : s[k] \in S
  OBVIOUS
<1>2. Facts!Order(numbers) = Order(numbers)
  BY DEF Facts!Order, Facts!Ranked, Facts!Cardinality, Facts!IsFiniteSet,
         Order, Ranked, Cardinality, IsFiniteSet
<1> HIDE DEF n
<1>3. numbers \in [1 .. n -> Nat]
  BY <1>1
<1> DEFINE order == Order(numbers)
<1>4. order \in [1 .. n -> 1 .. n]
  <2>1. n \in Nat
    BY <1>1
  <2>2. Facts!Order(numbers) \in [1 .. n -> 1 .. n]
    BY <1>3, <2>1, Facts!OrderProperties
  <2> QED
    BY <1>2, <2>2
<1>5. SortedBy(s, numbers) = [ k \in 1 .. n |-> s[order[k]] ]
  BY <1>1 DEF SortedBy
<1> HIDE DEF order
<1>6. ASSUME NEW k \in 1 .. n PROVE s[order[k]] \in S
  BY <1>1, <1>4
<1>7. [ k \in 1 .. n |-> s[order[k]] ] \in [1 .. n -> S]
  BY <1>6
<1> QED
  BY <1>1, <1>5, <1>7

LEMMA FlattenedTyped ==
  ASSUME NEW S, NEW seqs \in Seq(Seq(S))
  PROVE  FlattenSeq(seqs) \in Seq(S)
<1>1. Facts!FlattenSeq(seqs) = FlattenSeq(seqs)
  BY DEF Facts!FlattenSeq, FlattenSeq
<1> QED
  BY <1>1, Facts!FlattenTyped

LEMMA GreatestOf ==
  ASSUME NEW n \in Nat, NEW s \in SUBSET (1 .. n), s # {}
  PROVE  \E j \in s : \A k \in s : k <= j
BY Facts!MaxOf

-----------------------------------------------------------------------------
(***************************************************************************)
(* What a transcript is parsed to                                          *)
(***************************************************************************)

LEMMA Keys ==
  ASSUME NEW file \in Nat, NEW i \in Nat, NEW b \in Nat
  PROVE  RowKey(file, i) \in Key /\ BlockKey(file, i, b) \in Key /\ << file, i, b >> \in Ids
BY DEF RowKey, BlockKey, Key, KeyKinds, Ids

LEMMA OtherKeys ==
  ASSUME NEW what \in KeyKinds, NEW file \in Nat, NEW i \in Nat, NEW b \in Nat
  PROVE  HashKey(what, i, b) \in Key /\ << what, file, i, b >> \in Key
BY DEF HashKey, Key

LEMMA RowOfHistory ==
  ASSUME NEW id \in Ids, NEW key \in Key, NEW role \in Roles, NEW ts \in Nat
  PROVE  HistoryRow(id, key, role, ts) \in HistoryRows
BY DEF HistoryRow, HistoryRows

LEMMA BlocksTyped ==
  ASSUME NEW row \in TranscriptRow, NEW kinds
  PROVE  BlocksOf(row, kinds) \in Seq(Block)
<1>1. row.blocks \in Seq(Block)
  BY DEF TranscriptRow
<1> QED
  BY <1>1, PickedTyped DEF BlocksOf

LEMMA UserHistoryTyped ==
  ASSUME NEW i \in Nat, NEW row \in TranscriptRow
  PROVE  UserHistory(i, row) \in Seq(HistoryRows)
<1> DEFINE role == IF IsInterrupt(row) THEN "system" ELSE UserRole(TextBlocks(row)[1].kind)
<1>1. role \in Roles
  BY DEF UserRole, Roles
<1>2. row.ts \in Nat
  BY DEF TranscriptRow
<1>3. RowKey(0, i) \in Key /\ << 0, i, 0 >> \in Ids
  BY Keys
<1> HIDE DEF role
<1>4. HistoryRow(<< 0, i, 0 >>, RowKey(0, i), role, row.ts) \in HistoryRows
  BY <1>1, <1>2, <1>3, RowOfHistory
<1> QED
  BY <1>4 DEF UserHistory, role

LEMMA BlockHistoryTyped ==
  ASSUME NEW i \in Nat, NEW row \in TranscriptRow, NEW b \in DOMAIN row.blocks
  PROVE  BlockHistory(i, b, row) \in Seq(HistoryRows)
<1> DEFINE kind == row.blocks[b].kind
           role == IF kind \in ToolKinds THEN kind ELSE "assistant"
<1>1. row.blocks \in Seq(Block) /\ row.ts \in Nat
  BY DEF TranscriptRow
<1>2. b \in Nat
  BY <1>1
<1>3. role \in Roles
  BY DEF ToolKinds, Roles
<1>4. BlockKey(0, i, b) \in Key /\ << 0, i, b >> \in Ids
  BY <1>2, Keys
<1> HIDE DEF role
<1>5. HistoryRow(<< 0, i, b >>, BlockKey(0, i, b), role, row.ts) \in HistoryRows
  BY <1>1, <1>3, <1>4, RowOfHistory
<1> QED
  BY <1>5 DEF BlockHistory, role

LEMMA TurnStartIs ==
  ASSUME NEW rows \in Seq(TranscriptRow), NEW i \in Nat
  PROVE  TurnStart(rows, i) \in 0 .. i
<1> DEFINE starts == { j \in 1 .. i : rows[j].type = "user" /\ ~OnlyResults(rows[j]) }
<1>1. starts \in SUBSET (1 .. i)
  OBVIOUS
<1>2. TurnStart(rows, i) = IF starts = {} THEN 0 ELSE CHOOSE j \in starts : \A k \in starts : k <= j
  BY DEF TurnStart
<1> HIDE DEF starts
<1>3. starts # {} => \E j \in starts : \A k \in starts : k <= j
  BY <1>1, GreatestOf
<1>4. TurnStart(rows, i) = 0 \/ TurnStart(rows, i) \in starts
  BY <1>2, <1>3
<1>5. \A j \in starts : j \in 0 .. i
  BY <1>1
<1> QED
  BY <1>4, <1>5

LEMMA TurnToolsTyped ==
  ASSUME NEW rows \in Seq(TranscriptRow), NEW i \in DOMAIN rows
  PROVE  TurnTools(rows, i) \in Nat
<1> DEFINE first == TurnStart(rows, i)
           calls == [ k \in 1 .. i - first |->
                        IF rows[first + k].type = "assistant" THEN ToolBlocks(rows[first + k])
                        ELSE << >> ]
<1>1. i \in Nat /\ i <= Len(rows)
  OBVIOUS
<1>2. first \in 0 .. i
  BY <1>1, TurnStartIs
<1> HIDE DEF first
<1>3. i - first \in Nat /\ \A k \in 1 .. i - first : first + k \in DOMAIN rows
  BY <1>1, <1>2
<1>4. \A k \in 1 .. i - first : calls[k] \in Seq(Block)
  <2> SUFFICES ASSUME NEW k \in 1 .. i - first PROVE calls[k] \in Seq(Block)
    OBVIOUS
  <2>1. rows[first + k] \in TranscriptRow
    BY <1>3
  <2>2. ToolBlocks(rows[first + k]) \in Seq(Block)
    BY <2>1, BlocksTyped DEF ToolBlocks
  <2> QED
    BY <2>2
<1>5. calls \in Seq(Seq(Block))
  <2> DEFINE n == i - first
  <2>1. n \in Nat /\ calls = [ k \in 1 .. n |-> calls[k] ] /\ \A k \in 1 .. n : calls[k] \in Seq(Block)
    BY <1>3, <1>4
  <2> HIDE DEF n, calls
  <2> QED
    BY <2>1
<1>6. TurnTools(rows, i) = Len(FlattenSeq(calls))
  BY DEF TurnTools, first
<1> HIDE DEF calls
<1>7. FlattenSeq(calls) \in Seq(Block)
  BY <1>5, FlattenedTyped
<1> QED
  BY <1>6, <1>7
LEMMA MetricsTyped ==
  ASSUME NEW parsed \in Seq(HistoryRows), NEW tools \in Nat
  PROVE  WithMetrics(parsed, tools) \in Seq(HistoryRows)
<1> DEFINE n == Len(parsed)
           t == WithMetrics(parsed, tools)
<1>1. n \in Nat /\ DOMAIN parsed = 1 .. n /\ \A k \in 1 .. n : parsed[k] \in HistoryRows
  OBVIOUS
<1>2. \A k \in 1 .. n : [parsed[k] EXCEPT !.chip = << tools >>] \in HistoryRows
  <2> SUFFICES ASSUME NEW k \in 1 .. n PROVE [parsed[k] EXCEPT !.chip = << tools >>] \in HistoryRows
    OBVIOUS
  <2>1. parsed[k] \in HistoryRows
    BY <1>1
  <2>2. << tools >> \in Seq(Nat)
    OBVIOUS
  <2> QED
    BY <2>1, <2>2 DEF HistoryRows
<1> HIDE DEF n
<1>3. DOMAIN t = 1 .. n /\ t = [ k \in 1 .. n |-> t[k] ]
  BY <1>1 DEF WithMetrics
<1>4. \A k \in 1 .. n : t[k] \in HistoryRows
  BY <1>1, <1>2 DEF WithMetrics
<1> HIDE DEF t
<1>5. t \in Seq(HistoryRows)
  BY <1>1, <1>3, <1>4
<1> QED
  BY <1>5 DEF t

LEMMA AssistantHistoryTyped ==
  ASSUME NEW rows \in Seq(TranscriptRow), NEW i \in DOMAIN rows
  PROVE  AssistantHistory(rows, i) \in Seq(HistoryRows)
<1> DEFINE row == rows[i]
           n == Len(row.blocks)
           each == [ b \in DOMAIN row.blocks |-> BlockHistory(i, b, row) ]
           parsed == FlattenSeq(each)
           marker == HistoryRow(<< 0, i, n + 1 >>, << "interrupt", 0, i, 0 >>, "system", row.ts + 1)
<1>1. i \in Nat /\ row \in TranscriptRow
  OBVIOUS
<1> HIDE DEF row
<1>2. row.blocks \in Seq(Block) /\ row.ts \in Nat
  BY <1>1 DEF TranscriptRow
<1>3. n \in Nat /\ DOMAIN row.blocks = 1 .. n
  BY <1>2
<1>4. \A b \in DOMAIN row.blocks : BlockHistory(i, b, row) \in Seq(HistoryRows)
  BY <1>1, BlockHistoryTyped
<1>5. each \in Seq(Seq(HistoryRows))
  <2>1. each = [ b \in 1 .. n |-> BlockHistory(i, b, row) ]
    BY <1>3
  <2>2. \A b \in 1 .. n : BlockHistory(i, b, row) \in Seq(HistoryRows)
    BY <1>3, <1>4
  <2> HIDE DEF n, each
  <2> QED
    BY <1>3, <2>1, <2>2
<1> HIDE DEF each, n
<1>6. parsed \in Seq(HistoryRows)
  BY <1>5, FlattenedTyped
<1>7. TurnTools(rows, i) \in Nat
  BY TurnToolsTyped
<1> HIDE DEF parsed
<1>8. WithMetrics(parsed, TurnTools(rows, i)) \in Seq(HistoryRows)
  BY <1>6, <1>7, MetricsTyped
<1>9. marker \in HistoryRows
  <2>1. << 0, i, n + 1 >> \in Ids
    BY <1>1, <1>3, Keys
  <2>2. << "interrupt", 0, i, 0 >> \in Key
    BY <1>1, OtherKeys DEF KeyKinds
  <2>3. "system" \in Roles /\ row.ts + 1 \in Nat
    BY <1>2 DEF Roles
  <2> QED
    BY <2>1, <2>2, <2>3, RowOfHistory
<1> HIDE DEF marker
<1>10. AssistantHistory(rows, i) =
         (IF row.end THEN WithMetrics(parsed, TurnTools(rows, i)) ELSE parsed) \o
         (IF IsInterrupt(row) THEN << marker >> ELSE << >>)
  BY DEF AssistantHistory, row, parsed, each, marker, n
<1> QED
  BY <1>6, <1>8, <1>9, <1>10

LEMMA EntryHistoryTyped ==
  ASSUME NEW rows \in Seq(TranscriptRow), NEW i \in DOMAIN rows
  PROVE  EntryHistory(rows, i) \in Seq(HistoryRows)
<1> DEFINE row == rows[i]
           one(role) == HistoryRow(<< 0, i, 0 >>, RowKey(0, i), role, row.ts)
<1>1. i \in Nat /\ row \in TranscriptRow
  OBVIOUS
<1>8. row.ts \in Nat
  BY <1>1 DEF TranscriptRow
<1>2. UserHistory(i, row) \in Seq(HistoryRows)
  BY <1>1, UserHistoryTyped
<1>3. AssistantHistory(rows, i) \in Seq(HistoryRows)
  BY AssistantHistoryTyped
<1>4. << 0, i, 0 >> \in Ids /\ RowKey(0, i) \in Key
  BY <1>1, Keys
<1>5. "compact_boundary" \in Roles /\ "local_command_output" \in Roles
  BY DEF Roles
<1>6. one("compact_boundary") \in HistoryRows
  BY <1>4, <1>5, <1>8, RowOfHistory
<1>7. one("local_command_output") \in HistoryRows
  BY <1>4, <1>5, <1>8, RowOfHistory
<1> HIDE DEF row
<1> QED
  BY <1>2, <1>3, <1>6, <1>7 DEF EntryHistory, row

LEMMA ParentHistoryTyped ==
  ASSUME NEW rows \in Seq(TranscriptRow)
  PROVE  ParentHistory(rows) \in Seq(HistoryRows)
<1> DEFINE n == Len(rows)
           each == [ i \in DOMAIN rows |-> EntryHistory(rows, i) ]
<1>1. n \in Nat /\ DOMAIN rows = 1 .. n
  OBVIOUS
<1>2. \A i \in DOMAIN rows : EntryHistory(rows, i) \in Seq(HistoryRows)
  BY EntryHistoryTyped
<1> HIDE DEF n
<1>3. each \in Seq(Seq(HistoryRows))
  BY <1>1, <1>2
<1> HIDE DEF each
<1>4. FlattenSeq(each) \in Seq(HistoryRows)
  BY <1>3, FlattenedTyped
<1> QED
  BY <1>4 DEF ParentHistory, each

LEMMA AgentEntryTyped ==
  ASSUME NEW a \in Nat, NEW i \in Nat, NEW row \in TranscriptRow
  PROVE  AgentEntryHistory(a, i, row) \in Seq(HistoryRows)
<1> DEFINE n == Len(row.blocks)
           rowAt(b) == HistoryRow(<< a, i, b >>, << "none", a, i, b >>, "subagent", row.ts)
           textAt == { b \in DOMAIN row.blocks : row.blocks[b].kind \in TextKinds }
           first == CHOOSE b \in textAt : \A c \in textAt : b <= c
           texts == IF textAt = {} THEN << >> ELSE << rowAt(first) >>
           each == [ b \in DOMAIN row.blocks |->
                       IF row.blocks[b].kind \in ToolKinds THEN << rowAt(b) >> ELSE << >> ]
<1>1. row.blocks \in Seq(Block) /\ row.ts \in Nat
  BY DEF TranscriptRow
<1>2. n \in Nat /\ DOMAIN row.blocks = 1 .. n
  BY <1>1
<1>3. \A b \in Nat : rowAt(b) \in HistoryRows
  <2> SUFFICES ASSUME NEW b \in Nat PROVE rowAt(b) \in HistoryRows
    OBVIOUS
  <2>1. << a, i, b >> \in Ids
    BY Keys
  <2>2. << "none", a, i, b >> \in Key
    BY OtherKeys DEF KeyKinds
  <2>3. "subagent" \in Roles
    BY DEF Roles
  <2> QED
    BY <1>1, <2>1, <2>2, <2>3, RowOfHistory
<1>4. AgentEntryHistory(a, i, row) =
        IF row.type = "assistant" THEN texts \o FlattenSeq(each) ELSE << >>
  BY DEF AgentEntryHistory
<1> HIDE DEF n, rowAt
<1>5. texts \in Seq(HistoryRows)
  <2>1. textAt \in SUBSET (1 .. n)
    BY <1>2
  <2> HIDE DEF textAt
  <2>2. textAt # {} => \E b \in textAt : \A c \in textAt : b <= c
    BY <1>2, <2>1, Facts!LeastOf
  <2>3. textAt # {} => first \in textAt
    BY <2>2
  <2> HIDE DEF first
  <2>4. \A b \in textAt : b \in Nat
    BY <1>2, <2>1
  <2>5. textAt # {} => first \in Nat
    BY <2>3, <2>4
  <2> QED
    BY <1>3, <2>5
<1>6. each \in Seq(Seq(HistoryRows))
  <2>1. \A b \in 1 .. n : each[b] \in Seq(HistoryRows)
    BY <1>2, <1>3
  <2>2. each = [ b \in 1 .. n |-> each[b] ]
    BY <1>2
  <2> HIDE DEF each
  <2> QED
    BY <1>2, <2>1, <2>2
<1> HIDE DEF each, texts
<1>7. FlattenSeq(each) \in Seq(HistoryRows)
  BY <1>6, FlattenedTyped
<1> QED
  BY <1>4, <1>5, <1>7
\* The history in order of time: numbers to sort by.
LEMMA ByTimeTyped ==
  ASSUME NEW s \in Seq(HistoryRows)
  PROVE  ByTime(s) \in Seq(HistoryRows)
<1>1. [ k \in DOMAIN s |-> s[k].ts ] \in [DOMAIN s -> Nat]
  <2>1. \A k \in DOMAIN s : s[k] \in HistoryRows
    OBVIOUS
  <2> QED
    BY <2>1 DEF HistoryRows
<1> QED
  BY <1>1, SortedTyped DEF ByTime

LEMMA SubagentHistoryTyped ==
  ASSUME NEW files \in Seq(Seq(TranscriptRow))
  PROVE  SubagentHistory(files) \in Seq(HistoryRows)
<1> DEFINE n == Len(files)
           file(a) == [ i \in DOMAIN files[a] |-> AgentEntryHistory(a, i, files[a][i]) ]
           each == [ a \in DOMAIN files |-> FlattenSeq(file(a)) ]
<1>1. n \in Nat /\ DOMAIN files = 1 .. n
  OBVIOUS
<1>2. ASSUME NEW a \in DOMAIN files PROVE FlattenSeq(file(a)) \in Seq(HistoryRows)
  <2> DEFINE m == Len(files[a])
  <2>1. files[a] \in Seq(TranscriptRow) /\ a \in Nat
    OBVIOUS
  <2>2. m \in Nat /\ DOMAIN files[a] = 1 .. m
    BY <2>1
  <2>3. \A i \in 1 .. m : AgentEntryHistory(a, i, files[a][i]) \in Seq(HistoryRows)
    <3> SUFFICES ASSUME NEW i \in 1 .. m
                 PROVE  AgentEntryHistory(a, i, files[a][i]) \in Seq(HistoryRows)
      OBVIOUS
    <3>1. i \in Nat /\ files[a][i] \in TranscriptRow
      BY <2>1, <2>2
    <3> QED
      BY <2>1, <3>1, AgentEntryTyped
  <2> HIDE DEF m
  <2>4. file(a) \in Seq(Seq(HistoryRows))
    BY <2>2, <2>3
  <2> HIDE DEF file
  <2> QED
    BY <2>4, FlattenedTyped
<1> HIDE DEF n, file
<1>3. each \in Seq(Seq(HistoryRows))
  BY <1>1, <1>2
<1>4. SubagentHistory(files) = ByTime(FlattenSeq(each))
  BY DEF SubagentHistory, file
<1> HIDE DEF each
<1>5. FlattenSeq(each) \in Seq(HistoryRows)
  BY <1>3, FlattenedTyped
<1> QED
  BY <1>4, <1>5, ByTimeTyped

\* An agent that has a row has a rank, from 1 on.
LEMMA AnchorTyped ==
  ASSUME NEW tasks \in Seq(HistoryRows), NEW subs \in Seq(HistoryRows), NEW k0 \in DOMAIN subs
  PROVE  AnchorOf(tasks, subs, subs[k0].id[1], subs[k0].ts) \in Nat
<1> DEFINE a == subs[k0].id[1]
           own == subs[k0].ts
           first(b) == CHOOSE k \in RowsOf(subs, b) : \A j \in RowsOf(subs, b) : k <= j
           before == { k \in DOMAIN subs : k = first(subs[k].id[1]) /\ k <= first(a) }
           n == Len(subs)
<1>1. n \in Nat /\ DOMAIN subs = 1 .. n
  OBVIOUS
<1>2. RowsOf(subs, a) \in SUBSET (1 .. n) /\ RowsOf(subs, a) # {}
  BY <1>1 DEF RowsOf
<1>3. \E k \in RowsOf(subs, a) : \A j \in RowsOf(subs, a) : k <= j
  BY <1>1, <1>2, Facts!LeastOf
<1>4. first(a) \in RowsOf(subs, a)
  BY <1>3
<1>5. first(a) \in DOMAIN subs /\ subs[first(a)].id[1] = a
  BY <1>4 DEF RowsOf
<1>6. own \in Nat
  <2>1. subs[k0] \in HistoryRows
    OBVIOUS
  <2> QED
    BY <2>1 DEF HistoryRows
<1>7. AnchorOf(tasks, subs, a, own) =
        IF Cardinality(before) <= Len(tasks) THEN tasks[Cardinality(before)].ts ELSE own
  BY DEF AnchorOf
<1> HIDE DEF a, own, first
<1>8. first(a) \in before
  <2>1. first(a) \in Nat
    BY <1>1, <1>5
  <2> QED
    BY <1>5, <2>1
<1>9. before \in SUBSET (1 .. n) /\ IsFiniteSet(1 .. n)
  BY <1>1, FS_Interval
<1> HIDE DEF before, n
<1>10. Cardinality(before) \in Nat /\ Cardinality(before) # 0
  BY <1>8, <1>9, FS_Subset, FS_CardinalityType, FS_EmptySet
<1>11. Cardinality(before) <= Len(tasks) => tasks[Cardinality(before)].ts \in Nat
  <2> SUFFICES ASSUME Cardinality(before) <= Len(tasks)
               PROVE  tasks[Cardinality(before)].ts \in Nat
    OBVIOUS
  <2>1. tasks[Cardinality(before)] \in HistoryRows
    BY <1>10
  <2> QED
    BY <2>1 DEF HistoryRows
<1>12. AnchorOf(tasks, subs, a, own) \in Nat
  BY <1>6, <1>7, <1>11
<1> QED
  BY <1>12 DEF a, own

LEMMA AnchoredTyped ==
  ASSUME NEW parents \in Seq(HistoryRows), NEW subs \in Seq(HistoryRows)
  PROVE  Anchored(parents, subs) \in Seq(HistoryRows)
<1> DEFINE tasks == ByTime(Picked(parents, { k \in DOMAIN parents : parents[k].role = "task" }))
           n == Len(subs)
           t == Anchored(parents, subs)
<1>1. Picked(parents, { k \in DOMAIN parents : parents[k].role = "task" }) \in Seq(HistoryRows)
  BY PickedTyped
<1>2. tasks \in Seq(HistoryRows)
  BY <1>1, ByTimeTyped
<1> HIDE DEF tasks
<1>3. n \in Nat /\ DOMAIN subs = 1 .. n /\ \A k \in 1 .. n : subs[k] \in HistoryRows
  OBVIOUS
<1> HIDE DEF n
<1>4. \A k \in 1 .. n : AnchorOf(tasks, subs, subs[k].id[1], subs[k].ts) \in Nat
  BY <1>2, <1>3, AnchorTyped
<1> DEFINE row(k) == [subs[k] EXCEPT !.ts = AnchorOf(tasks, subs, subs[k].id[1], subs[k].ts)]
<1>5. ASSUME NEW k \in 1 .. n PROVE row(k) \in HistoryRows
  <2> DEFINE r == subs[k]
             ts == AnchorOf(tasks, subs, subs[k].id[1], subs[k].ts)
  <2>1. r \in HistoryRows /\ ts \in Nat
    BY <1>3, <1>4
  <2> HIDE DEF r, ts
  <2>2. [r EXCEPT !.ts = ts] \in HistoryRows
    BY <2>1 DEF HistoryRows
  <2> QED
    BY <2>2 DEF r, ts
<1>6. t = [ k \in 1 .. n |-> row(k) ]
  BY <1>3 DEF Anchored, tasks
<1> HIDE DEF t, row
<1>7. t \in Seq(HistoryRows)
  BY <1>3, <1>5, <1>6
<1> QED
  BY <1>7 DEF t

LEMMA ChronologicalTyped ==
  ASSUME NEW rows \in Seq(TranscriptRow), NEW files \in Seq(Seq(TranscriptRow))
  PROVE  Chronological(rows, files) \in Seq(HistoryRows)
<1> DEFINE parents == ParentHistory(rows)
           subs == SubagentHistory(files)
<1>1. parents \in Seq(HistoryRows) /\ subs \in Seq(HistoryRows)
  BY ParentHistoryTyped, SubagentHistoryTyped
<1> HIDE DEF parents, subs
<1>2. Anchored(parents, subs) \in Seq(HistoryRows)
  BY <1>1, AnchoredTyped
<1>3. parents \o Anchored(parents, subs) \in Seq(HistoryRows)
  BY <1>1, <1>2
<1>4. ByTime(parents \o Anchored(parents, subs)) \in Seq(HistoryRows)
  BY <1>3, ByTimeTyped
<1>5. Chronological(rows, files) = Merged(parents, subs)
  BY DEF Chronological, parents, subs
<1> QED
  BY <1>1, <1>4, <1>5 DEF Merged
-----------------------------------------------------------------------------
(***************************************************************************)
(* Numbers.  A reference is a key with the number it was shown under.  The *)
(* allocator backs it, if the key has that number or, for a row without a  *)
(* uuid, if no key has it.                                                 *)
(***************************************************************************)

Allocators ==
    { al \in [nextSeq : Nat \ {0}, entries : UNION { [D -> Nat] : D \in SUBSET Key }] :
        Injective(al) }

\* A later state of the allocator: numbers are added from the next one on.
Grows(old, new) ==
    /\ old.nextSeq <= new.nextSeq
    /\ \A k \in Known(old) : k \in Known(new) /\ new.entries[k] = old.entries[k]
    /\ \A k \in Known(new) \ Known(old) : new.entries[k] >= old.nextSeq

References == [key : Key, seq : Nat]
Keyed(key) == key[1] # "none"
Backed(al, x) ==
    /\ x.seq \in 1 .. al.nextSeq - 1
    /\ IF Keyed(x.key) THEN x.key \in Known(al) /\ al.entries[x.key] = x.seq
       ELSE \A k \in Known(al) : al.entries[k] # x.seq
Agree(al, refs) ==
    /\ \A x \in refs : Backed(al, x)
    /\ \A x, y \in refs : x.seq = y.seq => x.key = y.key

LEMMA AllocatorIs ==
  ASSUME NEW al \in Allocators
  PROVE  /\ Allocator(al) /\ Known(al) \subseteq Key
         /\ al.nextSeq \in Nat \ {0} /\ \A k \in Known(al) : al.entries[k] \in 1 .. al.nextSeq - 1
<1>1. PICK D \in SUBSET Key : al.entries \in [D -> Nat]
  BY DEF Allocators
<1>2. Known(al) = D /\ al.entries = [k \in Known(al) |-> al.entries[k]]
  BY <1>1 DEF Known
<1>3. al = [nextSeq |-> al.nextSeq, entries |-> al.entries] /\ al.nextSeq \in Nat \ {0} /\ Injective(al)
  BY DEF Allocators
<1> QED
  BY <1>2, <1>3 DEF Allocator, Injective

LEMMA AllocatorTyped ==
  ASSUME NEW al, Allocator(al), Known(al) \subseteq Key
  PROVE  al \in Allocators
<1>1. al.nextSeq \in Nat \ {0} /\ \A k \in Known(al) : al.entries[k] \in Nat
  BY DEF Allocator, Injective
<1>2. al.entries \in [Known(al) -> Nat]
  BY <1>1 DEF Allocator
<1>3. al.entries \in UNION { [D -> Nat] : D \in SUBSET Key }
  BY <1>2
<1> QED
  BY <1>1, <1>3 DEF Allocators, Allocator

LEMMA EmptyTyped == EmptyAllocator \in Allocators
<1>1. Known(EmptyAllocator) = {}
  BY DEF EmptyAllocator, Known
<1> QED
  BY <1>1, EmptyIsAllocator, AllocatorTyped

LEMMA GrowsOn ==
  ASSUME NEW a \in Allocators, NEW b \in Allocators, NEW c \in Allocators, Grows(a, b), Grows(b, c)
  PROVE  Grows(a, c)
<1>1. a.nextSeq \in Nat /\ b.nextSeq \in Nat /\ c.nextSeq \in Nat
  BY AllocatorIs
<1>2. \A k \in Known(c) : c.entries[k] \in Nat
  BY AllocatorIs
<1>3. a.nextSeq <= b.nextSeq /\ b.nextSeq <= c.nextSeq
  BY DEF Grows
<1>4. a.nextSeq <= c.nextSeq
  BY <1>1, <1>3
<1>5. \A k \in Known(a) : k \in Known(c) /\ c.entries[k] = a.entries[k]
  BY DEF Grows
<1>6. ASSUME NEW k \in Known(c) \ Known(a) PROVE c.entries[k] >= a.nextSeq
  <2>1. CASE k \in Known(b)
    <3>1. c.entries[k] = b.entries[k] /\ b.entries[k] >= a.nextSeq
      BY <1>6, <2>1 DEF Grows
    <3> QED
      BY <3>1
  <2>2. CASE k \notin Known(b)
    <3>1. c.entries[k] >= b.nextSeq
      BY <1>6, <2>2 DEF Grows
    <3> QED
      BY <1>1, <1>2, <1>3, <3>1
  <2> QED
    BY <2>1, <2>2
<1> QED
  BY <1>4, <1>5, <1>6 DEF Grows

\* What was backed stays so.
LEMMA StillBacked ==
  ASSUME NEW old \in Allocators, NEW new \in Allocators, Grows(old, new),
         NEW x \in References, Backed(old, x)
  PROVE  Backed(new, x)
<1>1. /\ old.nextSeq \in Nat /\ new.nextSeq \in Nat /\ x.seq \in Nat
      /\ \A k \in Known(new) : new.entries[k] \in Nat
  BY AllocatorIs DEF References
<1>2. old.nextSeq <= new.nextSeq /\ x.seq \in 1 .. old.nextSeq - 1
  BY DEF Grows, Backed
<1>3. x.seq \in 1 .. new.nextSeq - 1
  BY <1>1, <1>2
<1>4. Keyed(x.key) => x.key \in Known(new) /\ new.entries[x.key] = x.seq
  BY DEF Backed, Grows
<1>5. ASSUME ~Keyed(x.key), NEW k \in Known(new) PROVE new.entries[k] # x.seq
  <2>1. CASE k \in Known(old)
    BY <1>5, <2>1 DEF Backed, Grows
  <2>2. CASE k \notin Known(old)
    <3>1. new.entries[k] >= old.nextSeq
      BY <2>2 DEF Grows
    <3> QED
      BY <1>1, <1>2, <3>1
  <2> QED
    BY <2>1, <2>2
<1> QED
  BY <1>3, <1>4, <1>5 DEF Backed

LEMMA StillAgree ==
  ASSUME NEW old \in Allocators, NEW new \in Allocators, Grows(old, new),
         NEW refs \in SUBSET References, Agree(old, refs)
  PROVE  Agree(new, refs)
<1>1. \A x \in refs : Backed(new, x)
  BY StillBacked DEF Agree
<1> QED
  BY <1>1 DEF Agree

LEMMA FewerAgree ==
  ASSUME NEW al, NEW refs, NEW fewer \in SUBSET refs, Agree(al, refs)
  PROVE  Agree(al, fewer)
BY DEF Agree

\* How a row and a live event get their number.
Given(al, key) == IF Keyed(key) THEN GetOrAssign(al, key) ELSE AllocAnonymous(al)
GivenSeq(al, key) == IF Keyed(key) THEN Given(al, key).entries[key] ELSE al.nextSeq

LEMMA GivenGrows ==
  ASSUME NEW al \in Allocators, NEW key \in Key
  PROVE  /\ Given(al, key) \in Allocators /\ Grows(al, Given(al, key))
         /\ GivenSeq(al, key) \in Nat
         /\ Backed(Given(al, key), [key |-> key, seq |-> GivenSeq(al, key)])
         /\ ~Keyed(key) => GivenSeq(al, key) = al.nextSeq
<1> DEFINE new == Given(al, key)
           seq == GivenSeq(al, key)
           x == [key |-> key, seq |-> seq]
<1>1. /\ Allocator(al) /\ Known(al) \subseteq Key /\ al.nextSeq \in Nat \ {0}
      /\ \A k \in Known(al) : al.entries[k] \in 1 .. al.nextSeq - 1
  BY AllocatorIs
<1>2. CASE Keyed(key)
  <2>1. new = GetOrAssign(al, key) /\ seq = new.entries[key]
    BY <1>2 DEF Given, GivenSeq
  <2>2. /\ Allocator(new) /\ key \in Known(new) /\ new.nextSeq >= al.nextSeq
        /\ \A k \in Known(al) : k \in Known(new) /\ new.entries[k] = al.entries[k]
    BY <1>1, <2>1, NumbersAreKept
  <2>3. Known(new) = Known(al) \cup {key} /\ (key \notin Known(al) => new.entries[key] = al.nextSeq)
    <3>1. CASE key \in Known(al)
      BY <2>1, <3>1 DEF GetOrAssign
    <3>2. CASE key \notin Known(al)
      BY <1>1, <2>1, <3>2, NewKey
    <3> QED
      BY <3>1, <3>2
  <2> HIDE DEF new
  <2>4. new \in Allocators
    BY <1>1, <2>2, <2>3, AllocatorTyped
  <2>5. Grows(al, new)
    BY <1>1, <2>2, <2>3 DEF Grows
  <2>6. seq \in 1 .. new.nextSeq - 1
    BY <2>1, <2>2, <2>4, AllocatorIs
  <2> HIDE DEF seq
  <2>7. Backed(new, x)
    BY <1>2, <2>1, <2>2, <2>6 DEF Backed
  <2> QED
    BY <1>2, <2>4, <2>5, <2>6, <2>7 DEF new, seq
<1>3. CASE ~Keyed(key)
  <2>1. new = AllocAnonymous(al) /\ seq = al.nextSeq
    BY <1>3 DEF Given, GivenSeq
  <2>2. Allocator(new) /\ \A k \in Known(al) : al.entries[k] # al.nextSeq
    BY <1>1, <2>1, AnonymousIsFresh
  <2>3. new.nextSeq = al.nextSeq + 1 /\ new.entries = al.entries
    BY <1>1, <2>1 DEF AllocAnonymous, Allocator
  <2> HIDE DEF new, seq
  <2>4. Known(new) = Known(al)
    BY <2>3 DEF Known
  <2>5. new \in Allocators
    BY <1>1, <2>2, <2>4, AllocatorTyped
  <2>6. Grows(al, new)
    BY <1>1, <2>3, <2>4 DEF Grows
  <2>7. seq \in 1 .. new.nextSeq - 1
    BY <1>1, <2>1, <2>3
  <2>8. Backed(new, x)
    BY <1>3, <2>1, <2>2, <2>3, <2>4, <2>7 DEF Backed
  <2> QED
    BY <2>1, <2>5, <2>6, <2>7, <2>8 DEF new, seq
<1> QED
  BY <1>2, <1>3

\* A number that is given agrees with all that were.
LEMMA GivenAgrees ==
  ASSUME NEW al \in Allocators, NEW key \in Key, NEW refs \in SUBSET References, Agree(al, refs)
  PROVE  Agree(Given(al, key), refs \cup {[key |-> key, seq |-> GivenSeq(al, key)]})
<1> DEFINE new == Given(al, key)
           seq == GivenSeq(al, key)
           x == [key |-> key, seq |-> seq]
<1>1. /\ new \in Allocators /\ Grows(al, new) /\ seq \in Nat /\ Backed(new, x)
      /\ ~Keyed(key) => seq = al.nextSeq
  BY GivenGrows
<1>2. al.nextSeq \in Nat /\ new \in Allocators
  BY <1>1, AllocatorIs
<1> HIDE DEF new, seq
<1>3. Agree(new, refs)
  BY <1>1, StillAgree
<1>4. ASSUME NEW y \in refs, y.seq = x.seq PROVE y.key = x.key
  <2>1. Backed(new, y) /\ Backed(al, y) /\ y \in References
    BY <1>3 DEF Agree
  <2>2. x.key = key /\ x.seq = seq
    OBVIOUS
  <2>3. CASE Keyed(key) /\ Keyed(y.key)
    <3>1. /\ key \in Known(new) /\ y.key \in Known(new)
          /\ new.entries[key] = seq /\ new.entries[y.key] = seq
      BY <1>1, <1>4, <2>1, <2>2, <2>3 DEF Backed
    <3>2. Injective(new)
      BY <1>1 DEF Allocators
    <3> QED
      BY <2>2, <3>1, <3>2 DEF Injective
  <2>4. CASE Keyed(key) /\ ~Keyed(y.key)
    BY <1>1, <1>4, <2>1, <2>2, <2>4 DEF Backed
  <2>5. CASE ~Keyed(key)
    <3>1. y.seq \in 1 .. al.nextSeq - 1 /\ y.seq = al.nextSeq
      BY <1>1, <1>4, <2>1, <2>2, <2>5 DEF Backed
    <3> QED
      BY <1>2, <3>1
  <2> QED
    BY <2>3, <2>4, <2>5
<1> HIDE DEF x
<1>5. Agree(new, refs \cup {x})
  BY <1>1, <1>3, <1>4 DEF Agree
<1> QED
  BY <1>5 DEF new, seq, x
-----------------------------------------------------------------------------
(***************************************************************************)
(* The parse                                                               *)
(***************************************************************************)

RefOf(row) == [key |-> row.key, seq |-> row.seq]
Refs(rows) == { RefOf(rows[k]) : k \in DOMAIN rows }

NumberOf(p, acc, row) == Number(acc, row)
Numbering == INSTANCE SequenceFacts WITH Op <- NumberOf
SourceTimeOf(p, acc, row) == SourceTime(acc, row)
SourceTiming == INSTANCE SequenceFacts WITH Op <- SourceTimeOf
CursorTimeOf(p, acc, row) == CursorTime(acc, row)
CursorTiming == INSTANCE SequenceFacts WITH Op <- CursorTimeOf

LEMMA AppendedRefs ==
  ASSUME NEW rows \in Seq(NumberedRows), NEW row \in NumberedRows
  PROVE  /\ Append(rows, row) \in Seq(NumberedRows)
         /\ Refs(Append(rows, row)) = Refs(rows) \cup {RefOf(row)}
<1> DEFINE n == Len(rows)
           t == Append(rows, row)
<1>1. /\ n \in Nat /\ DOMAIN rows = 1 .. n /\ DOMAIN t = 1 .. n + 1
      /\ t[n + 1] = row /\ \A k \in 1 .. n : t[k] = rows[k]
  OBVIOUS
<1>2. t \in Seq(NumberedRows)
  OBVIOUS
<1> HIDE DEF n, t
<1>3. \A k \in 1 .. n + 1 : k = n + 1 \/ k \in 1 .. n
  BY <1>1
<1>4. Refs(t) \subseteq Refs(rows) \cup {RefOf(row)}
  BY <1>1, <1>3 DEF Refs
<1>5. Refs(rows) \subseteq Refs(t)
  BY <1>1 DEF Refs
<1>6. n + 1 \in DOMAIN t
  BY <1>1
<1>7. RefOf(row) \in Refs(t)
  BY <1>1, <1>6 DEF Refs
<1> QED
  BY <1>2, <1>4, <1>5, <1>7 DEF t

LEMMA RefsTyped ==
  ASSUME NEW rows \in Seq(NumberedRows)
  PROVE  Refs(rows) \subseteq References
<1>1. \A k \in DOMAIN rows : rows[k] \in NumberedRows
  OBVIOUS
<1>2. \A k \in DOMAIN rows : RefOf(rows[k]) \in References
  BY <1>1 DEF NumberedRows, RefOf, References
<1> QED
  BY <1>2 DEF Refs

\* The accumulators of the parse, after some rows.
NumberedSoFar(al, refs) ==
    { acc \in [alloc : Allocators, rows : Seq(NumberedRows)] :
        Grows(al, acc.alloc) /\ Agree(acc.alloc, refs \cup Refs(acc.rows)) }

LEMMA NumberKeeps ==
  ASSUME NEW al \in Allocators, NEW refs \in SUBSET References,
         NEW acc \in NumberedSoFar(al, refs), NEW row \in HistoryRows
  PROVE  Number(acc, row) \in NumberedSoFar(al, refs)
<1> DEFINE new == Given(acc.alloc, row.key)
           seq == GivenSeq(acc.alloc, row.key)
           next == WithNumber(row, seq)
<1>1. /\ acc.alloc \in Allocators /\ acc.rows \in Seq(NumberedRows) /\ Grows(al, acc.alloc)
      /\ Agree(acc.alloc, refs \cup Refs(acc.rows)) /\ row.key \in Key
  BY DEF NumberedSoFar, HistoryRows
<1>2. new \in Allocators /\ Grows(acc.alloc, new) /\ seq \in Nat
  BY <1>1, GivenGrows
<1>3. Refs(acc.rows) \subseteq References
  BY <1>1, RefsTyped
<1>4. refs \cup Refs(acc.rows) \in SUBSET References
  BY <1>3
<1>5. Agree(new, (refs \cup Refs(acc.rows)) \cup {[key |-> row.key, seq |-> seq]})
  BY <1>1, <1>4, GivenAgrees
<1>6. Number(acc, row) = [alloc |-> new, rows |-> Append(acc.rows, next)]
  BY DEF Number, Given, GivenSeq, Keyed
<1> HIDE DEF new, seq
<1>7. Grows(al, new)
  BY <1>1, <1>2, GrowsOn
<1>8. next \in NumberedRows /\ RefOf(next) = [key |-> row.key, seq |-> seq]
  BY <1>2 DEF WithNumber, NumberedRows, HistoryRows, RefOf, Undefined
<1> HIDE DEF next
<1>9. /\ Append(acc.rows, next) \in Seq(NumberedRows)
      /\ Refs(Append(acc.rows, next)) = Refs(acc.rows) \cup {RefOf(next)}
  BY <1>1, <1>8, AppendedRefs
<1>10. refs \cup Refs(Append(acc.rows, next))
         = (refs \cup Refs(acc.rows)) \cup {[key |-> row.key, seq |-> seq]}
  BY <1>8, <1>9
<1>11. Agree(new, refs \cup Refs(Append(acc.rows, next)))
  BY <1>5, <1>10
<1> DEFINE acc2 == [alloc |-> new, rows |-> Append(acc.rows, next)]
<1>12. acc2 \in [alloc : Allocators, rows : Seq(NumberedRows)]
  BY <1>2, <1>9
<1>13. acc2.alloc = new /\ acc2.rows = Append(acc.rows, next)
  OBVIOUS
<1> HIDE DEF acc2
<1>14. acc2 \in NumberedSoFar(al, refs)
  BY <1>7, <1>11, <1>12, <1>13 DEF NumberedSoFar
<1> QED
  BY <1>6, <1>14 DEF acc2

\* Rows whose references are among some given ones.
RowsAmong(refs) == { row \in NumberedRows : RefOf(row) \in refs }
TimedSoFar(refs) == [prev : Nat, rows : Seq(RowsAmong(refs))]

LEMMA SourceTimeKeeps ==
  ASSUME NEW refs, NEW acc \in TimedSoFar(refs), NEW row \in RowsAmong(refs)
  PROVE  SourceTime(acc, row) \in TimedSoFar(refs)
<1> DEFINE ms == IF row.ts # Undefined THEN row.ts ELSE acc.prev + 1
<1>1. acc.prev \in Nat /\ acc.rows \in Seq(RowsAmong(refs)) /\ row \in NumberedRows /\ RefOf(row) \in refs
  BY DEF TimedSoFar, RowsAmong
<1>2. ms \in Nat
  BY <1>1 DEF NumberedRows
<1>3. SourceTime(acc, row) = [prev |-> ms, rows |-> Append(acc.rows, [row EXCEPT !.tsMs = ms])]
  BY DEF SourceTime
<1> HIDE DEF ms
<1>4. [row EXCEPT !.tsMs = ms] \in NumberedRows
  BY <1>1, <1>2 DEF NumberedRows
<1>5. RefOf([row EXCEPT !.tsMs = ms]) = RefOf(row)
  BY <1>1 DEF NumberedRows, RefOf
<1>6. [row EXCEPT !.tsMs = ms] \in RowsAmong(refs)
  BY <1>1, <1>4, <1>5 DEF RowsAmong
<1>7. Append(acc.rows, [row EXCEPT !.tsMs = ms]) \in Seq(RowsAmong(refs))
  BY <1>1, <1>6
<1> QED
  BY <1>2, <1>3, <1>7 DEF TimedSoFar

LEMMA CursorTimeKeeps ==
  ASSUME NEW refs, NEW acc \in TimedSoFar(refs), NEW row \in RowsAmong(refs)
  PROVE  CursorTime(acc, row) \in TimedSoFar(refs)
<1> DEFINE ms == IF row.tsMs > acc.prev THEN row.tsMs ELSE acc.prev + 1
<1>1. acc.prev \in Nat /\ acc.rows \in Seq(RowsAmong(refs)) /\ row \in NumberedRows /\ RefOf(row) \in refs
  BY DEF TimedSoFar, RowsAmong
<1>2. ms \in Nat
  BY <1>1 DEF NumberedRows
<1>3. CursorTime(acc, row) = [prev |-> ms, rows |-> Append(acc.rows, [row EXCEPT !.tsMs = ms])]
  BY DEF CursorTime
<1> HIDE DEF ms
<1>4. [row EXCEPT !.tsMs = ms] \in NumberedRows
  BY <1>1, <1>2 DEF NumberedRows
<1>5. RefOf([row EXCEPT !.tsMs = ms]) = RefOf(row)
  BY <1>1 DEF NumberedRows, RefOf
<1>6. [row EXCEPT !.tsMs = ms] \in RowsAmong(refs)
  BY <1>1, <1>4, <1>5 DEF RowsAmong
<1>7. Append(acc.rows, [row EXCEPT !.tsMs = ms]) \in Seq(RowsAmong(refs))
  BY <1>1, <1>6
<1> QED
  BY <1>2, <1>3, <1>7 DEF TimedSoFar

\* The times of the rows change, and their order; their numbers do not.
LEMMA TimedRows ==
  ASSUME NEW numbered \in Seq(NumberedRows)
  PROVE  Timed(numbered) \in Seq(RowsAmong(Refs(numbered)))
<1> DEFINE R == RowsAmong(Refs(numbered))
           start == [prev |-> 0, rows |-> << >>]
           bySeq == [ k \in DOMAIN numbered |-> numbered[k].seq ]
           inOrder == SortedBy(numbered, bySeq)
           sourced == SourceTiming!Fold(0, start, inOrder)
           byMs == [ k \in DOMAIN sourced.rows |-> sourced.rows[k].tsMs ]
           sorted == SortedBy(sourced.rows, byMs)
           cursored == CursorTiming!Fold(0, start, sorted)
<1>1. FoldLeft(SourceTime, start, inOrder) = sourced
  BY DEF SourceTimeOf, SourceTiming!Fold, SourceTiming!FoldLeft, SourceTiming!MapThenFoldSet,
         SourceTiming!Max, FoldLeft, MapThenFoldSet, Max
<1>2. FoldLeft(CursorTime, start, sorted) = cursored
  BY DEF CursorTimeOf, CursorTiming!Fold, CursorTiming!FoldLeft, CursorTiming!MapThenFoldSet,
         CursorTiming!Max, FoldLeft, MapThenFoldSet, Max
<1>3. Timed(numbered) = cursored.rows
  BY <1>1, <1>2 DEF Timed
<1>4. \A k \in DOMAIN numbered : numbered[k] \in R /\ numbered[k].seq \in Nat
  <2>1. \A k \in DOMAIN numbered : numbered[k] \in NumberedRows
    OBVIOUS
  <2> QED
    BY <2>1 DEF NumberedRows, RowsAmong, Refs
<1> HIDE DEF R, inOrder, sourced, sorted, cursored, start
<1>5. numbered \in Seq(R) /\ bySeq \in [DOMAIN numbered -> Nat]
  BY <1>4
<1>6. inOrder \in Seq(R)
  BY <1>5, SortedTyped DEF inOrder
<1>7. start \in TimedSoFar(Refs(numbered))
  BY DEF start, TimedSoFar
<1>8. sourced \in TimedSoFar(Refs(numbered))
  <2>1. \A acc \in TimedSoFar(Refs(numbered)), row \in R :
            SourceTimeOf(0, acc, row) \in TimedSoFar(Refs(numbered))
    BY SourceTimeKeeps DEF SourceTimeOf, R
  <2> QED
    BY <1>6, <1>7, <2>1, SourceTiming!FoldKeeps DEF sourced
<1>9. sourced.rows \in Seq(R)
  BY <1>8 DEF TimedSoFar, R
<1>10. byMs \in [DOMAIN sourced.rows -> Nat]
  <2>1. \A k \in DOMAIN sourced.rows : sourced.rows[k] \in R
    BY <1>9
  <2> QED
    BY <2>1 DEF R, RowsAmong, NumberedRows
<1>11. sorted \in Seq(R)
  BY <1>9, <1>10, SortedTyped DEF sorted
<1>12. cursored \in TimedSoFar(Refs(numbered))
  <2>1. \A acc \in TimedSoFar(Refs(numbered)), row \in R :
            CursorTimeOf(0, acc, row) \in TimedSoFar(Refs(numbered))
    BY CursorTimeKeeps DEF CursorTimeOf, R
  <2> QED
    BY <1>7, <1>11, <2>1, CursorTiming!FoldKeeps DEF cursored
<1> QED
  BY <1>3, <1>12 DEF TimedSoFar
\* A parse numbers every row, in agreement with what was told before.
LEMMA ParseAgrees ==
  ASSUME NEW al \in Allocators, NEW refs \in SUBSET References, Agree(al, refs),
         NEW rows \in Seq(TranscriptRow), NEW files \in Seq(Seq(TranscriptRow))
  PROVE  LET parsed == ParseHistory(al, rows, files)
         IN /\ parsed.alloc \in Allocators /\ Grows(al, parsed.alloc)
            /\ parsed.rows \in Seq(NumberedRows)
            /\ Agree(parsed.alloc, refs \cup Refs(parsed.rows))
<1> DEFINE all == Chronological(rows, files)
           start == [alloc |-> al, rows |-> << >>]
           numbered == Numbering!Fold(0, start, all)
           timed == Timed(numbered.rows)
<1>1. FoldLeft(Number, start, all) = numbered
  BY DEF NumberOf, Numbering!Fold, Numbering!FoldLeft, Numbering!MapThenFoldSet, Numbering!Max,
         FoldLeft, MapThenFoldSet, Max
<1>2. ParseHistory(al, rows, files) = [alloc |-> numbered.alloc, rows |-> timed]
  BY <1>1 DEF ParseHistory, WithTimes
<1>3. all \in Seq(HistoryRows)
  BY ChronologicalTyped
<1> HIDE DEF all, start, numbered
<1>4. start \in NumberedSoFar(al, refs)
  <2>1. Grows(al, al)
    BY AllocatorIs DEF Grows
  <2>2. Refs(<< >>) = {}
    BY DEF Refs
  <2>3. start \in [alloc : Allocators, rows : Seq(NumberedRows)]
    BY DEF start
  <2>4. start.alloc = al /\ start.rows = << >>
    BY DEF start
  <2>5. Agree(start.alloc, refs \cup Refs(start.rows))
    <3>1. refs \cup {} = refs
      OBVIOUS
    <3> QED
      BY <2>2, <2>4, <3>1
  <2> QED
    BY <2>1, <2>3, <2>4, <2>5 DEF NumberedSoFar
<1>5. numbered \in NumberedSoFar(al, refs)
  <2>1. \A acc \in NumberedSoFar(al, refs), row \in HistoryRows :
            NumberOf(0, acc, row) \in NumberedSoFar(al, refs)
    BY NumberKeeps DEF NumberOf
  <2> QED
    BY <1>3, <1>4, <2>1, Numbering!FoldKeeps DEF numbered
<1>6. /\ numbered.alloc \in Allocators /\ numbered.rows \in Seq(NumberedRows)
      /\ Grows(al, numbered.alloc) /\ Agree(numbered.alloc, refs \cup Refs(numbered.rows))
  BY <1>5 DEF NumberedSoFar
<1>7. timed \in Seq(RowsAmong(Refs(numbered.rows)))
  BY <1>6, TimedRows
<1> HIDE DEF timed
<1>8. timed \in Seq(NumberedRows) /\ Refs(timed) \subseteq Refs(numbered.rows)
  <2>1. \A k \in DOMAIN timed : timed[k] \in RowsAmong(Refs(numbered.rows))
    BY <1>7
  <2>2. \A k \in DOMAIN timed : timed[k] \in NumberedRows /\ RefOf(timed[k]) \in Refs(numbered.rows)
    BY <2>1 DEF RowsAmong
  <2>3. Refs(timed) \subseteq Refs(numbered.rows)
    BY <2>2 DEF Refs
  <2> QED
    BY <1>7, <2>2, <2>3
<1>9. Agree(numbered.alloc, refs \cup Refs(timed))
  <2>1. (refs \cup Refs(timed)) \in SUBSET (refs \cup Refs(numbered.rows))
    BY <1>8
  <2> QED
    BY <1>6, <2>1, FewerAgree
<1> QED
  BY <1>2, <1>6, <1>8, <1>9

-----------------------------------------------------------------------------
(***************************************************************************)
(* Pages                                                                   *)
(***************************************************************************)

HighestOf(p, n, row) == Highest(n, row)
Topping == INSTANCE SequenceFacts WITH Op <- HighestOf

\* Rows that are picked from the rows of a parse have numbers of the parse.
LEMMA PickedRows ==
  ASSUME NEW refs, NEW rows \in Seq(RowsAmong(refs)), NEW K \in SUBSET DOMAIN rows
  PROVE  Picked(rows, K) \in Seq(RowsAmong(refs))
BY PickedTyped

LEMMA SelfAmong ==
  ASSUME NEW rows \in Seq(NumberedRows)
  PROVE  rows \in Seq(RowsAmong(Refs(rows)))
<1>1. \A k \in DOMAIN rows : rows[k] \in NumberedRows
  OBVIOUS
<1>2. \A k \in DOMAIN rows : rows[k] \in RowsAmong(Refs(rows))
  BY <1>1 DEF RowsAmong, Refs
<1> QED
  BY <1>2

Cursors == [ms : Nat, seq : Nat]
Pages(refs) ==
    [messages : Seq(RowsAmong(refs)), totalCount : Nat, hasMore : BOOLEAN,
     nextOffset : Nat, tailSeq : Nat, tailMs : Nat]

LEMMA HighestTyped ==
  ASSUME NEW rows \in Seq(NumberedRows)
  PROVE  FoldLeft(Highest, 0, rows) \in Nat
<1>1. FoldLeft(Highest, 0, rows) = Topping!Fold(0, 0, rows)
  BY DEF HighestOf, Topping!Fold, Topping!FoldLeft, Topping!MapThenFoldSet, Topping!Max,
         FoldLeft, MapThenFoldSet, Max
<1>2. \A n \in Nat, row \in NumberedRows : HighestOf(0, n, row) \in Nat
  BY DEF HighestOf, Highest, NumberedRows
<1>3. Topping!Fold(0, 0, rows) \in Nat
  BY <1>2, Topping!FoldKeeps
<1> QED
  BY <1>1, <1>3

LEMMA PageTyped ==
  ASSUME NEW rows \in Seq(NumberedRows), NEW cursor \in Cursors, NEW offset \in Nat, NEW limit \in Nat
  PROVE  Page(rows, cursor, offset, limit) \in Pages(Refs(rows))
<1> DEFINE R == RowsAmong(Refs(rows))
           filtered == After(rows, cursor)
           parents == Parents(filtered)
           to == NonNegative(Len(parents), offset)
           from == NonNegative(to, limit) + 1
           page == PageOf(rows, filtered, parents, cursor, offset, from, to)
<1>1. rows \in Seq(R)
  BY SelfAmong
<1> HIDE DEF R
<1>2. filtered \in Seq(R)
  BY <1>1, PickedTyped DEF After
<1> HIDE DEF filtered
<1>3. parents \in Seq(R)
  BY <1>2, PickedTyped DEF Parents
<1>4. Page(rows, cursor, offset, limit) = page
  BY DEF Page, PageBelow, filtered
<1> HIDE DEF parents
<1>5. Len(parents) \in Nat /\ Len(filtered) \in Nat
  BY <1>2, <1>3
<1>6. to \in Nat /\ from \in Nat \ {0} /\ from <= to + 1
  BY <1>5 DEF NonNegative
<1> HIDE DEF to, from
<1>7. (IF from > to THEN << >>
       ELSE Picked(filtered, { k \in DOMAIN filtered : InWindow(filtered[k], parents, from, to) }))
      \in Seq(R)
  BY <1>2, PickedTyped
<1>8. NextOffset(rows, parents, cursor, offset, from, to) \in Nat
  <2>1. Undefined \in Nat
    BY DEF Undefined
  <2>2. offset + (to - from + 1) \in Nat
    BY <1>6
  <2>3. Len(parents) - (from - 1) > 0 => Len(parents) - (from - 1) \in Nat
    BY <1>5, <1>6
  <2> QED
    BY <2>1, <2>2, <2>3 DEF NextOffset
<1>9. FoldLeft(Highest, 0, rows) \in Nat
  BY HighestTyped
<1>10. (IF filtered = << >> THEN Undefined ELSE filtered[Len(filtered)].tsMs) \in Nat
  <2>1. CASE filtered = << >>
    BY <2>1 DEF Undefined
  <2>2. CASE filtered # << >>
    <3>1. Len(filtered) \in DOMAIN filtered
      BY <1>2, <2>2
    <3>2. filtered[Len(filtered)] \in R
      BY <1>2, <3>1
    <3> QED
      BY <2>2, <3>2 DEF R, RowsAmong, NumberedRows
  <2> QED
    BY <2>1, <2>2
<1>11. (from > 1) \in BOOLEAN
  OBVIOUS
<1>12. page \in Pages(Refs(rows))
  BY <1>5, <1>7, <1>8, <1>9, <1>10, <1>11 DEF PageOf, Pages, R
<1> QED
  BY <1>4, <1>12

-----------------------------------------------------------------------------
(***************************************************************************)
(* What the pages promise: of rows that have distinct ids and increasing   *)
(* times, a page holds those whose last parent, at or before them, it was  *)
(* cut for.                                                                *)
(***************************************************************************)

DistinctIds(s) == \A j, k \in DOMAIN s : s[j].id = s[k].id => j = k
TimesRise(s) == \A j, k \in DOMAIN s : j < k => s[j].tsMs < s[k].tsMs

\* f gives the positions of the parents.
ParentsAt(rows, f) ==
    LET parents == Parents(rows)
    IN /\ f \in [1 .. Len(parents) -> DOMAIN rows]
       /\ \A m \in 1 .. Len(parents) : parents[m] = rows[f[m]] /\ IsParent(rows[f[m]])
       /\ \A k \in DOMAIN rows : IsParent(rows[k]) => \E m \in 1 .. Len(parents) : f[m] = k
       /\ \A m, n \in 1 .. Len(parents) : m < n => f[m] < f[n]

\* The m-th parent is the last one at row k or before it.
LastAt(rows, f, k, m) ==
    LET total == Len(Parents(rows))
    IN m \in 1 .. total /\ f[m] <= k /\ \A l \in 1 .. total : f[l] <= k => l <= m

LEMMA ParentsHavePlaces ==
  ASSUME NEW rows \in Seq(NumberedRows)
  PROVE  Len(Parents(rows)) \in Nat /\ \E f : ParentsAt(rows, f)
<1> DEFINE K == { k \in DOMAIN rows : IsParent(rows[k]) }
           parents == Parents(rows)
<1>1. parents = Picked(rows, K)
  BY DEF Parents
<1>2. parents \in Seq(NumberedRows) /\ Len(parents) \in Nat /\ DOMAIN parents = 1 .. Len(parents)
  <2>1. parents \in Seq(NumberedRows)
    BY <1>1, PickedTyped
  <2> HIDE DEF parents
  <2> QED
    BY <2>1
<1>3. \E f \in [DOMAIN parents -> K] :
        /\ \A n \in DOMAIN parents : parents[n] = rows[f[n]]
        /\ \A i \in K : \E n \in DOMAIN parents : f[n] = i
        /\ \A m, n \in DOMAIN parents : m < n => f[m] < f[n]
  <2> DEFINE t == Picked(rows, K)
  <2>1. \E f \in [DOMAIN t -> K] :
          /\ \A n \in DOMAIN t : t[n] = rows[f[n]]
          /\ \A i \in K : \E n \in DOMAIN t : f[n] = i
          /\ \A m, n \in DOMAIN t : m < n => f[m] < f[n]
    BY PickedElementsAt
  <2> HIDE DEF t, K, parents
  <2>2. parents = t
    BY <1>1 DEF t
  <2> QED
    BY <2>1, <2>2, Zenon
<1> HIDE DEF parents
<1>4. PICK f \in [1 .. Len(parents) -> K] :
        /\ \A n \in 1 .. Len(parents) : parents[n] = rows[f[n]]
        /\ \A i \in K : \E n \in 1 .. Len(parents) : f[n] = i
        /\ \A m, n \in 1 .. Len(parents) : m < n => f[m] < f[n]
  BY <1>2, <1>3
<1>5. f \in [1 .. Len(parents) -> DOMAIN rows]
  OBVIOUS
<1>6. \A m \in 1 .. Len(parents) : IsParent(rows[f[m]])
  BY <1>4
<1>7. ParentsAt(rows, f)
  BY <1>4, <1>5, <1>6 DEF ParentsAt, parents
<1> QED
  BY <1>2, <1>7 DEF parents

LEMMA LastParent ==
  ASSUME NEW rows \in Seq(NumberedRows), NEW f, ParentsAt(rows, f), Len(Parents(rows)) \in Nat,
         NEW k \in DOMAIN rows, NEW j \in 1 .. k, IsParent(rows[j])
  PROVE  \E m : LastAt(rows, f, k, m)
<1> DEFINE total == Len(Parents(rows))
           seen == { l \in 1 .. total : f[l] <= k }
<1>1. j \in DOMAIN rows /\ j <= k
  OBVIOUS
<1>2. PICK l \in 1 .. total : f[l] = j
  BY <1>1 DEF ParentsAt
<1>3. seen # {} /\ seen \in SUBSET (1 .. total)
  BY <1>1, <1>2
<1>4. \E m \in seen : \A l1 \in seen : l1 <= m
  <2> HIDE DEF seen
  <2> QED
    BY <1>3, GreatestOf
<1> QED
  BY <1>4 DEF LastAt

\* InWindow goes by times; of rows whose times rise, it goes by places.
LEMMA WindowIs ==
  ASSUME NEW rows \in Seq(NumberedRows), TimesRise(rows), NEW f, ParentsAt(rows, f),
         Len(Parents(rows)) \in Nat, NEW k \in DOMAIN rows, NEW m, LastAt(rows, f, k, m),
         NEW from \in 1 .. Len(Parents(rows)), NEW to \in 1 .. Len(Parents(rows))
  PROVE  InWindow(rows[k], Parents(rows), from, to) <=> from <= m /\ m <= to
<1> DEFINE parents == Parents(rows)
           total == Len(parents)
<1>1. /\ \A l \in 1 .. total : f[l] \in DOMAIN rows /\ parents[l] = rows[f[l]]
      /\ \A l, n \in 1 .. total : l < n => f[l] < f[n]
      /\ IsParent(rows[k]) => \E l \in 1 .. total : f[l] = k
  BY DEF ParentsAt
<1>2. m \in 1 .. total /\ f[m] <= k /\ \A l \in 1 .. total : f[l] <= k => l <= m
  BY DEF LastAt
<1>3. DOMAIN rows \subseteq Nat /\ \A j \in DOMAIN rows : rows[j].tsMs \in Nat
  <2>1. /\ \A j \in DOMAIN rows : rows[j] \in NumberedRows
        /\ DOMAIN rows \subseteq Nat
    OBVIOUS
  <2>2. \A j \in DOMAIN rows : rows[j].tsMs \in Nat
    BY <2>1 DEF NumberedRows
  <2> QED
    BY <2>1, <2>2
<1>4. \A i, j \in DOMAIN rows : rows[i].tsMs <= rows[j].tsMs <=> i <= j
  <2> SUFFICES ASSUME NEW i \in DOMAIN rows, NEW j \in DOMAIN rows
               PROVE  rows[i].tsMs <= rows[j].tsMs <=> i <= j
    OBVIOUS
  <2>1. CASE i < j
    BY <1>3, <2>1 DEF TimesRise
  <2>2. CASE i = j
    BY <1>3, <2>2
  <2>3. CASE j < i
    BY <1>3, <2>3 DEF TimesRise
  <2> QED
    BY <1>3, <2>1, <2>2, <2>3
<1> HIDE DEF total
<1>5. InWindow(rows[k], parents, from, to) <=>
        /\ f[from] <= k
        /\ k <= f[to] \/ (~IsParent(rows[k]) /\ (to < total => k < f[to + 1]))
  <2>1. f[from] \in DOMAIN rows /\ f[to] \in DOMAIN rows
    BY <1>1 DEF total
  <2>2. /\ rows[k].tsMs >= parents[from].tsMs <=> f[from] <= k
        /\ rows[k].tsMs <= parents[to].tsMs <=> k <= f[to]
    BY <1>1, <1>3, <1>4, <2>1 DEF total
  <2>3. to < total => (rows[k].tsMs < parents[to + 1].tsMs <=> k < f[to + 1])
    <3> SUFFICES ASSUME to < total
                 PROVE  rows[k].tsMs < parents[to + 1].tsMs <=> k < f[to + 1]
      OBVIOUS
    <3>1. to + 1 \in 1 .. total
      BY DEF total
    <3>2. f[to + 1] \in DOMAIN rows /\ parents[to + 1] = rows[f[to + 1]]
      BY <1>1, <3>1
    <3> QED
      BY <1>3, <1>4, <3>2
  <2> QED
    BY <2>2, <2>3 DEF InWindow, total
<1>6. f[from] <= k <=> from <= m
  <2>1. f[from] \in Nat /\ f[m] \in Nat /\ k \in Nat /\ m \in Nat /\ from \in Nat
    BY <1>1, <1>2, <1>3 DEF total
  <2>2. from < m => f[from] < f[m]
    BY <1>1, <1>2 DEF total
  <2> QED
    BY <1>2, <2>1, <2>2 DEF total
<1>7. k <= f[to] \/ (~IsParent(rows[k]) /\ (to < total => k < f[to + 1])) <=> m <= to
  <2>1. f[to] \in Nat /\ f[m] \in Nat /\ k \in Nat /\ m \in Nat /\ to \in Nat /\ total \in Nat
    BY <1>1, <1>2, <1>3 DEF total
  <2>2. CASE m < to
    <3>1. m + 1 \in 1 .. total /\ m + 1 <= to
      BY <1>2, <2>1, <2>2 DEF total
    <3>2. f[m + 1] \in Nat /\ ~(f[m + 1] <= k)
      BY <1>1, <1>2, <1>3, <2>1, <3>1
    <3>3. f[m + 1] <= f[to]
      BY <1>1, <2>1, <3>1, <3>2 DEF total
    <3> QED
      BY <2>1, <2>2, <3>2, <3>3
  <2>3. CASE m = to
    <3>1. IsParent(rows[k]) => k = f[m]
      <4> SUFFICES ASSUME IsParent(rows[k]) PROVE k = f[m]
        OBVIOUS
      <4>1. PICK l \in 1 .. total : f[l] = k
        BY <1>1
      <4>2. l <= m
        BY <1>2, <2>1, <4>1
      <4>3. ~(l < m)
        <5> SUFFICES ASSUME l < m PROVE FALSE
          OBVIOUS
        <5>1. f[l] < f[m]
          BY <1>1, <1>2
        <5> QED
          BY <1>2, <2>1, <4>1, <5>1
      <4> QED
        BY <2>1, <4>1, <4>2, <4>3
    <3>2. to < total => k < f[to + 1]
      <4> SUFFICES ASSUME to < total PROVE k < f[to + 1]
        OBVIOUS
      <4>1. to + 1 \in 1 .. total
        BY <2>1
      <4>2. f[to + 1] \in Nat /\ ~(to + 1 <= m)
        BY <1>1, <1>3, <2>1, <2>3, <4>1
      <4> QED
        BY <1>2, <2>1, <4>1, <4>2
    <3> QED
      BY <2>1, <2>3, <3>1, <3>2
  <2>4. CASE m > to
    <3>1. f[to] < f[m]
      BY <1>1, <1>2, <2>1, <2>4 DEF total
    <3>2. ~(k <= f[to])
      BY <1>2, <2>1, <3>1
    <3>3. to < total /\ to + 1 \in 1 .. total
      BY <1>2, <2>1, <2>4
    <3>4. f[to + 1] \in Nat /\ f[to + 1] <= f[m]
      BY <1>1, <1>2, <1>3, <2>1, <2>4, <3>3
    <3>5. ~(k < f[to + 1])
      BY <1>2, <2>1, <3>4
    <3> QED
      BY <2>1, <2>4, <3>2, <3>3, <3>5
  <2> QED
    BY <2>1, <2>2, <2>3, <2>4
<1> QED
  BY <1>5, <1>6, <1>7

\* The page of a place that is counted from the end.
LEMMA PageNumber ==
  ASSUME NEW a \in Nat, NEW l \in Nat \ {0}
  PROVE  /\ a \div l \in Nat
         /\ \A n \in Nat : (n * l \in Nat /\ (n + 1) * l = n * l + l)
         /\ \A n \in Nat : n * l <= a <=> n <= a \div l
<1> DEFINE q == a \div l
<1>1. q \in Nat /\ q * l \in Nat /\ q * l <= a /\ a < q * l + l
  BY SMT
<1> HIDE DEF q
<1>2. \A n \in Nat : n * l \in Nat /\ (n + 1) * l = n * l + l
  BY SMT
<1>3. ASSUME NEW n \in Nat, n <= q PROVE n * l <= a
  <2>1. q - n \in Nat /\ (q - n) * l >= 0 /\ (q - n) * l = q * l - n * l
    BY <1>1, <1>3, SMT
  <2> QED
    BY <1>1, <1>2, <2>1
<1>4. ASSUME NEW n \in Nat, ~(n <= q) PROVE ~(n * l <= a)
  <2>1. n - (q + 1) \in Nat /\ (n - (q + 1)) * l >= 0
    BY <1>1, <1>4, SMT
  <2>2. (n - (q + 1)) * l = n * l - (q * l + l)
    BY <1>1, SMT
  <2> QED
    BY <1>1, <1>2, <2>1, <2>2
<1> QED
  BY <1>1, <1>2, <1>3, <1>4 DEF q

\* What is on a page, in terms of the parents, of which there are `total'.
LastOn(total, n, limit) == NonNegative(total, n * limit)
FirstOn(total, n, limit) == NonNegative(LastOn(total, n, limit), limit) + 1

LEMMA PageIs ==
  ASSUME NEW rows, NEW n, NEW limit
  PROVE  LET total == Len(Parents(rows))
             from  == FirstOn(total, n, limit)
             to    == LastOn(total, n, limit)
         IN /\ PageAt(rows, n, limit).messages =
                 IF from > to THEN << >>
                 ELSE Picked(rows, { k \in DOMAIN rows : InWindow(rows[k], Parents(rows), from, to) })
            /\ PageAt(rows, n, limit).nextOffset =
                 IF from > 1 THEN n * limit + (to - from + 1) ELSE Undefined
<1>1. After(rows, NoCursor) = rows
  BY DEF After, NoCursor, Undefined
<1>2. PageAt(rows, n, limit) =
        PageOf(rows, rows, Parents(rows), NoCursor, n * limit,
               FirstOn(Len(Parents(rows)), n, limit), LastOn(Len(Parents(rows)), n, limit))
  BY <1>1 DEF PageAt, Page, PageBelow, FirstOn, LastOn
<1> QED
  BY <1>2 DEF PageOf, NextOffset

\* The bounds of page n, if it is one of the pages.
LEMMA PageBounds ==
  ASSUME NEW total \in Nat, NEW limit \in Nat \ {0},
         NEW n \in 0 .. NonNegative(total, 1) \div limit
  PROVE  LET from == FirstOn(total, n, limit)
             to   == LastOn(total, n, limit)
         IN /\ n \in Nat /\ n * limit \in Nat
            /\ total = 0 => from = 1 /\ to = 0 /\ n = 0
            /\ total # 0 => from \in 1 .. total /\ to \in 1 .. total /\ to = total - n * limit
            /\ n + 1 \in 0 .. NonNegative(total, 1) \div limit <=> from > 1
            /\ from > 1 => to - from + 1 = limit
            /\ \A m \in 1 .. total : (from <= m /\ m <= to <=> n = (total - m) \div limit)
<1> DEFINE last == NonNegative(total, 1)
           from == FirstOn(total, n, limit)
           to == LastOn(total, n, limit)
           p == n * limit
<1>1. last \in Nat /\ last = IF total > 1 THEN total - 1 ELSE 0
  BY DEF NonNegative
<1> HIDE DEF last
<1>2. last \div limit \in Nat
  BY <1>1, PageNumber
<1>3. n \in Nat /\ n + 1 \in Nat
  BY <1>2 DEF last
<1>4. p \in Nat /\ (n + 1) * limit = p + limit
  BY <1>3, PageNumber
<1>5. p <= last
  BY <1>1, <1>2, <1>3, PageNumber DEF last
<1>6. n + 1 \in 0 .. last \div limit <=> p + limit <= last
  BY <1>1, <1>2, <1>3, <1>4, PageNumber
<1>7. to = (IF total > p THEN total - p ELSE 0) /\ from = (IF to > limit THEN to - limit ELSE 0) + 1
  BY DEF FirstOn, LastOn, NonNegative
<1>8. ASSUME NEW m \in 1 .. total
      PROVE  n = (total - m) \div limit <=> p <= total - m /\ ~(p + limit <= total - m)
  <2>1. total - m \in Nat
    OBVIOUS
  <2>2. /\ (total - m) \div limit \in Nat
        /\ p <= total - m <=> n <= (total - m) \div limit
        /\ p + limit <= total - m <=> n + 1 <= (total - m) \div limit
    BY <1>3, <1>4, <2>1, PageNumber
  <2> HIDE DEF p
  <2> QED
    BY <1>3, <2>2
<1>9. total = 0 => n = 0
  <2> SUFFICES ASSUME total = 0 PROVE n = 0
    OBVIOUS
  <2>1. last = 0
    BY <1>1
  <2>2. n <= 0 \div limit
    BY <2>1 DEF last
  <2>3. 1 * limit <= 0 <=> 1 <= 0 \div limit
    BY PageNumber
  <2>4. 0 \div limit \in Nat
    BY PageNumber
  <2>5. ~(1 <= 0 \div limit)
    BY <2>3
  <2> QED
    BY <1>3, <2>2, <2>4, <2>5
<1> HIDE DEF p, from, to
<1>10. total = 0 => from = 1 /\ to = 0
  BY <1>4, <1>7
<1>11. total # 0 => from \in 1 .. total /\ to \in 1 .. total /\ to = total - p
  BY <1>1, <1>4, <1>5, <1>7
<1>12. p + limit <= last <=> from > 1
  BY <1>1, <1>4, <1>5, <1>7
<1>13. from > 1 => to - from + 1 = limit
  BY <1>1, <1>4, <1>7
<1>14. ASSUME NEW m \in 1 .. total
       PROVE  from <= m /\ m <= to <=> p <= total - m /\ ~(p + limit <= total - m)
  BY <1>1, <1>4, <1>5, <1>7
<1> QED
  BY <1>3, <1>4, <1>6, <1>8, <1>9, <1>10, <1>11, <1>12, <1>13, <1>14 DEF from, to, p, last

\* The ids of rows that are picked.
LEMMA PickedIds ==
  ASSUME NEW rows \in Seq(NumberedRows), DistinctIds(rows), NEW K \in SUBSET DOMAIN rows,
         NEW k \in DOMAIN rows
  PROVE  rows[k].id \in IdsOf(Picked(rows, K)) <=> k \in K
<1> DEFINE t == Picked(rows, K)
<1>1. PICK f \in [DOMAIN t -> K] : /\ \A n \in DOMAIN t : t[n] = rows[f[n]]
                                   /\ \A i \in K : \E n \in DOMAIN t : f[n] = i
  BY PickedElementsAt
<1> HIDE DEF t
<1>2. IdsOf(t) = { t[n].id : n \in DOMAIN t }
  BY DEF IdsOf
<1>3. ASSUME rows[k].id \in IdsOf(t) PROVE k \in K
  <2>1. PICK n \in DOMAIN t : rows[k].id = t[n].id
    BY <1>2, <1>3
  <2>2. f[n] \in K /\ f[n] \in DOMAIN rows /\ rows[k].id = rows[f[n]].id
    BY <1>1, <2>1
  <2> QED
    BY <2>2 DEF DistinctIds
<1>4. ASSUME k \in K PROVE rows[k].id \in IdsOf(t)
  <2>1. PICK n \in DOMAIN t : f[n] = k
    BY <1>1, <1>4
  <2> QED
    BY <1>1, <1>2, <2>1
<1> QED
  BY <1>3, <1>4 DEF t

\* The pages of such rows.
LEMMA PagesHold ==
  ASSUME NEW rows \in Seq(NumberedRows), TimesRise(rows), DistinctIds(rows), NEW limit \in Nat \ {0}
  PROVE  LET total == Len(Parents(rows))
         IN PagesOK(rows, [ n \in 0 .. NonNegative(total, 1) \div limit |-> PageAt(rows, n, limit) ],
                    limit)
<1> DEFINE parents == Parents(rows)
           total == Len(parents)
           N == NonNegative(total, 1) \div limit
           pages == [ n \in 0 .. N |-> PageAt(rows, n, limit) ]
           from(n) == FirstOn(total, n, limit)
           to(n) == LastOn(total, n, limit)
<1>1. total \in Nat
  BY ParentsHavePlaces
<1>2. PICK f : ParentsAt(rows, f)
  BY ParentsHavePlaces
<1>3. N \in Nat
  <2>1. NonNegative(total, 1) \in Nat
    BY <1>1 DEF NonNegative
  <2> QED
    BY <2>1, PageNumber
<1>4. ASSUME NEW n \in 0 .. N
      PROVE  /\ pages[n].messages =
                  IF from(n) > to(n) THEN << >>
                  ELSE Picked(rows, { k \in DOMAIN rows :
                                      InWindow(rows[k], parents, from(n), to(n)) })
             /\ pages[n].nextOffset =
                  IF from(n) > 1 THEN n * limit + (to(n) - from(n) + 1) ELSE Undefined
  <2>1. pages[n] = PageAt(rows, n, limit)
    OBVIOUS
  <2> QED
    BY <2>1, PageIs
<1>5. ASSUME NEW n \in 0 .. N
      PROVE  /\ n \in Nat /\ n * limit \in Nat
             /\ total # 0 => from(n) \in 1 .. total /\ to(n) \in 1 .. total
             /\ n + 1 \in 0 .. N <=> from(n) > 1
             /\ from(n) > 1 => to(n) - from(n) + 1 = limit
             /\ \A m \in 1 .. total : (from(n) <= m /\ m <= to(n) <=> n = (total - m) \div limit)
  <2>1. n \in 0 .. NonNegative(total, 1) \div limit
    OBVIOUS
  <2> HIDE DEF total, N, from, to
  <2>2. /\ n \in Nat /\ n * limit \in Nat
        /\ total # 0 => /\ FirstOn(total, n, limit) \in 1 .. total
                        /\ LastOn(total, n, limit) \in 1 .. total
        /\ n + 1 \in 0 .. NonNegative(total, 1) \div limit <=> FirstOn(total, n, limit) > 1
        /\ FirstOn(total, n, limit) > 1 =>
              LastOn(total, n, limit) - FirstOn(total, n, limit) + 1 = limit
    BY <1>1, <2>1, PageBounds
  <2>3. \A m \in 1 .. total :
            (FirstOn(total, n, limit) <= m /\ m <= LastOn(total, n, limit)
               <=> n = (total - m) \div limit)
    BY <1>1, <2>1, PageBounds
  <2> QED
    BY <2>2, <2>3 DEF from, to, N
<1>6. DOMAIN pages = 0 .. N
  OBVIOUS
<1> HIDE DEF pages, from, to, N
<1>7. Continues(pages, limit)
  <2> SUFFICES ASSUME NEW n \in 0 .. N
               PROVE  pages[n].nextOffset =
                        IF n + 1 \in 0 .. N THEN (n + 1) * limit ELSE Undefined
    BY <1>6 DEF Continues
  <2>1. CASE from(n) > 1
    <3>1. pages[n].nextOffset = n * limit + limit /\ n + 1 \in 0 .. N
      BY <1>4, <1>5, <2>1
    <3>2. (n + 1) * limit = n * limit + limit
      BY <1>5, PageNumber
    <3> QED
      BY <3>1, <3>2
  <2>2. CASE ~(from(n) > 1)
    BY <1>4, <1>5, <2>2
  <2> QED
    BY <2>1, <2>2
<1>8. ASSUME NEW k \in DOMAIN rows, NEW j \in 1 .. k, IsParent(rows[j])
      PROVE  Cardinality({ n \in DOMAIN pages : rows[k].id \in IdsOf(pages[n].messages) }) = 1
  <2>1. PICK m : LastAt(rows, f, k, m)
    BY <1>1, <1>2, <1>8, LastParent
  <2>2. m \in 1 .. total
    BY <2>1 DEF LastAt
  <2>3. total # 0
    BY <1>1, <2>2
  <2>4. ASSUME NEW n \in 0 .. N
        PROVE  rows[k].id \in IdsOf(pages[n].messages) <=> n = (total - m) \div limit
    <3>1. from(n) \in 1 .. total /\ to(n) \in 1 .. total
      BY <1>5, <2>3
    <3> DEFINE W == { i \in DOMAIN rows : InWindow(rows[i], parents, from(n), to(n)) }
    <3>2. CASE from(n) > to(n)
      <4>1. pages[n].messages = << >>
        BY <1>4, <3>2
      <4>2. rows[k].id \notin IdsOf(pages[n].messages)
        BY <4>1 DEF IdsOf
      <4>3. ~(from(n) <= m /\ m <= to(n))
        BY <1>1, <2>2, <3>1, <3>2
      <4> QED
        BY <1>5, <2>2, <4>2, <4>3
    <3>3. CASE ~(from(n) > to(n))
      <4>1. pages[n].messages = Picked(rows, W)
        BY <1>4, <3>3
      <4>2. W \in SUBSET DOMAIN rows
        OBVIOUS
      <4> HIDE DEF W
      <4>3. rows[k].id \in IdsOf(pages[n].messages) <=> k \in W
        BY <4>1, <4>2, PickedIds
      <4>4. k \in W <=> from(n) <= m /\ m <= to(n)
        BY <1>1, <1>2, <2>1, <3>1, WindowIs DEF W
      <4> QED
        BY <1>5, <2>2, <4>3, <4>4
    <3> QED
      BY <3>2, <3>3
  <2> DEFINE n0 == (total - m) \div limit
  <2>5. n0 \in 0 .. N
    <3>1. total - m \in Nat /\ total - m <= NonNegative(total, 1) /\ NonNegative(total, 1) \in Nat
      BY <1>1, <2>2 DEF NonNegative
    <3>2. n0 \in Nat /\ n0 * limit \in Nat /\ n0 * limit <= total - m
      BY <3>1, PageNumber
    <3> HIDE DEF n0
    <3>3. n0 * limit <= NonNegative(total, 1)
      BY <1>1, <3>1, <3>2
    <3>4. n0 <= N
      BY <3>1, <3>2, <3>3, PageNumber DEF N
    <3> QED
      BY <1>3, <3>2, <3>4
  <2> HIDE DEF n0
  <2>6. { n \in DOMAIN pages : rows[k].id \in IdsOf(pages[n].messages) } = {n0}
    BY <1>6, <2>4, <2>5 DEF n0
  <2> QED
    BY <2>6, FS_Singleton
<1>9. Covers(rows, pages)
  BY <1>8 DEF Covers
<1> QED
  BY <1>7, <1>9 DEF PagesOK, pages, N

-----------------------------------------------------------------------------
(***************************************************************************)
(* The rows of a parse                                                     *)
(***************************************************************************)

\* The first k of s and t have the same ids.
Carried(s, t, k) == Len(s) = k /\ \A j \in 1 .. k : s[j].id = t[j].id

LEMMA CarriedOn ==
  ASSUME NEW S, NEW t, NEW i \in Nat \ {0}, NEW s \in Seq(S), Carried(s, t, i - 1),
         NEW row \in S, row.id = t[i].id
  PROVE  Append(s, row) \in Seq(S) /\ Carried(Append(s, row), t, i)
<1> DEFINE u == Append(s, row)
<1>1. /\ u \in Seq(S) /\ Len(u) = i /\ u[i] = row
      /\ \A j \in 1 .. i - 1 : u[j] = s[j]
  BY DEF Carried
<1> HIDE DEF u
<1>2. ASSUME NEW j \in 1 .. i PROVE u[j].id = t[j].id
  <2>1. j = i \/ j \in 1 .. i - 1
    OBVIOUS
  <2> QED
    BY <1>1, <2>1 DEF Carried
<1>3. u \in Seq(S) /\ Carried(u, t, i)
  BY <1>1, <1>2 DEF Carried
<1> QED
  BY <1>3 DEF u

\* So that those of all of t are distinct if t's are.
LEMMA CarriedDistinct ==
  ASSUME NEW S, NEW T, NEW s \in Seq(S), NEW t \in Seq(T), Carried(s, t, Len(t)), DistinctIds(t)
  PROVE  DistinctIds(s)
<1>1. DOMAIN s = 1 .. Len(t) /\ DOMAIN t = 1 .. Len(t)
  BY DEF Carried
<1> QED
  BY <1>1 DEF Carried, DistinctIds

LEMMA SortedDistinct ==
  ASSUME NEW S, NEW s \in Seq(S), NEW numbers \in [DOMAIN s -> Nat], DistinctIds(s)
  PROVE  DistinctIds(SortedBy(s, numbers))
<1> DEFINE n == Len(s)
           order == Order(numbers)
<1>1. n \in Nat /\ DOMAIN s = 1 .. n
  OBVIOUS
<1>2. Facts!Order(numbers) = Order(numbers)
  BY DEF Facts!Order, Facts!Ranked, Facts!Cardinality, Facts!IsFiniteSet,
         Order, Ranked, Cardinality, IsFiniteSet
<1> HIDE DEF n
<1>3. numbers \in [1 .. n -> Nat] /\ n \in Nat
  BY <1>1
<1> DEFINE o == Facts!Order(numbers)
<1>4. /\ o \in [1 .. n -> 1 .. n]
      /\ \A k, l \in 1 .. n : k < l =>
           \/ numbers[o[k]] < numbers[o[l]]
           \/ numbers[o[k]] = numbers[o[l]] /\ o[k] < o[l]
  BY <1>3, Facts!OrderProperties
<1>5. o = order
  BY <1>2
<1> HIDE DEF o, order
<1>6. ASSUME NEW k \in 1 .. n, NEW l \in 1 .. n, k < l PROVE o[k] # o[l]
  <2>1. numbers[o[k]] \in Nat /\ o[k] \in 1 .. n
    BY <1>3, <1>4
  <2> QED
    BY <1>4, <1>6, <2>1
<1>7. SortedBy(s, numbers) = [ k \in 1 .. n |-> s[order[k]] ]
  BY <1>1 DEF SortedBy, order
<1>8. ASSUME NEW k \in 1 .. n, NEW l \in 1 .. n, s[o[k]].id = s[o[l]].id PROVE k = l
  <2>1. o[k] = o[l]
    BY <1>1, <1>4, <1>8 DEF DistinctIds
  <2>2. k < l \/ l < k \/ k = l
    BY <1>1
  <2> QED
    BY <1>6, <2>1, <2>2
<1> QED
  BY <1>5, <1>7, <1>8 DEF DistinctIds

LEMMA NumberedIds ==
  ASSUME NEW al \in Allocators, NEW all \in Seq(HistoryRows)
  PROVE  LET numbered == Numbering!Fold(0, [alloc |-> al, rows |-> << >>], all)
         IN numbered.rows \in Seq(NumberedRows) /\ Carried(numbered.rows, all, Len(all))
<1> DEFINE n == Len(all)
           start == [alloc |-> al, rows |-> << >>]
           So(k) == { acc \in NumberedSoFar(al, {}) : Carried(acc.rows, all, k) }
           V == [ k \in 0 .. n |-> So(k) ]
<1>1. n \in Nat /\ DOMAIN all = 1 .. n
  OBVIOUS
<1>2. start \in V[0]
  <2>1. Grows(al, al) /\ Agree(al, {})
    BY AllocatorIs DEF Grows, Agree
  <2>2. Refs(<< >>) = {}
    BY DEF Refs
  <2>3. start \in [alloc : Allocators, rows : Seq(NumberedRows)] /\ start.alloc = al /\ start.rows = << >>
    OBVIOUS
  <2>4. {} \cup Refs(start.rows) = {}
    BY <2>2, <2>3
  <2> HIDE DEF start
  <2>5. start \in NumberedSoFar(al, {})
    BY <2>1, <2>3, <2>4 DEF NumberedSoFar
  <2>6. Carried(start.rows, all, 0)
    BY <2>3 DEF Carried
  <2> QED
    BY <1>1, <2>5, <2>6
<1>3. ASSUME NEW i \in 1 .. n, NEW acc \in V[i - 1] PROVE NumberOf(0, acc, all[i]) \in V[i]
  <2>1. i - 1 \in 0 .. n /\ i \in 0 .. n /\ i \in Nat \ {0}
    BY <1>1
  <2>2. acc \in NumberedSoFar(al, {}) /\ Carried(acc.rows, all, i - 1)
    BY <2>1
  <2> DEFINE seq == IF all[i].key[1] # "none"
                    THEN GetOrAssign(acc.alloc, all[i].key).entries[all[i].key]
                    ELSE acc.alloc.nextSeq
             row == WithNumber(all[i], seq)
  <2>3. Number(acc, all[i]).rows = Append(acc.rows, row)
    BY DEF Number
  <2>4. row.id = all[i].id
    BY DEF WithNumber
  <2>5. Number(acc, all[i]) \in NumberedSoFar(al, {})
    <3>1. all[i] \in HistoryRows
      BY <1>1
    <3>2. {} \in SUBSET References
      OBVIOUS
    <3> HIDE DEF row, seq
    <3> QED
      BY <2>2, <3>1, <3>2, NumberKeeps
  <2> HIDE DEF row
  <2>6. Append(acc.rows, row) \in Seq(NumberedRows)
    BY <2>3, <2>5 DEF NumberedSoFar
  <2>7. Carried(Append(acc.rows, row), all, i)
    <3>1. acc.rows \in Seq({ acc.rows[k] : k \in DOMAIN acc.rows } \cup {row})
      <4>1. acc.rows \in Seq(NumberedRows)
        BY <2>2 DEF NumberedSoFar
      <4> QED
        BY <4>1
    <3> QED
      BY <2>1, <2>2, <2>4, <3>1, CarriedOn
  <2>8. Number(acc, all[i]) \in So(i)
    BY <2>3, <2>5, <2>7
  <2> QED
    BY <2>1, <2>8 DEF NumberOf
<1>4. Numbering!Fold(0, start, all) \in V[n]
  <2> HIDE DEF V, n, start
  <2> QED
    BY <1>1, <1>2, <1>3, Numbering!FoldThrough
<1>5. n \in 0 .. n
  BY <1>1
<1>6. Numbering!Fold(0, start, all) \in So(n)
  <2> HIDE DEF start, n
  <2> QED
    BY <1>4, <1>5
<1> HIDE DEF start
<1> QED
  BY <1>6 DEF NumberedSoFar, start

\* The rows so far when the first k have been given a time.
Sourced(s, k) ==
    { acc \in [prev : Nat, rows : Seq(NumberedRows)] : Carried(acc.rows, s, k) }
Cursored(s, k) ==
    { acc \in Sourced(s, k) :
        TimesRise(acc.rows) /\ \A j \in DOMAIN acc.rows : acc.rows[j].tsMs <= acc.prev }

LEMMA SourcedIds ==
  ASSUME NEW s \in Seq(NumberedRows)
  PROVE  LET sourced == SourceTiming!Fold(0, [prev |-> 0, rows |-> << >>], s)
         IN sourced.rows \in Seq(NumberedRows) /\ Carried(sourced.rows, s, Len(s))
<1> DEFINE n == Len(s)
           start == [prev |-> 0, rows |-> << >>]
           V == [ k \in 0 .. n |-> Sourced(s, k) ]
<1>1. n \in Nat /\ DOMAIN s = 1 .. n
  OBVIOUS
<1>2. start \in V[0]
  <2>1. start \in [prev : Nat, rows : Seq(NumberedRows)] /\ Carried(start.rows, s, 0)
    BY DEF Carried
  <2> HIDE DEF start
  <2> QED
    BY <1>1, <2>1 DEF Sourced
<1>3. ASSUME NEW i \in 1 .. n, NEW acc \in V[i - 1] PROVE SourceTimeOf(0, acc, s[i]) \in V[i]
  <2>1. i - 1 \in 0 .. n /\ i \in 0 .. n /\ i \in Nat \ {0}
    BY <1>1
  <2>2. acc \in [prev : Nat, rows : Seq(NumberedRows)] /\ Carried(acc.rows, s, i - 1)
    BY <2>1 DEF Sourced
  <2> DEFINE ms == IF s[i].ts # Undefined THEN s[i].ts ELSE acc.prev + 1
             row == [s[i] EXCEPT !.tsMs = ms]
             next == [prev |-> ms, rows |-> Append(acc.rows, row)]
  <2>3. SourceTime(acc, s[i]) = next
    BY DEF SourceTime
  <2>4. s[i] \in NumberedRows
    BY <1>1
  <2>5. ms \in Nat
    <3>1. s[i].ts \in Nat
      BY <2>4 DEF NumberedRows
    <3>2. acc.prev \in Nat /\ acc.prev + 1 \in Nat
      BY <2>2
    <3> QED
      BY <3>1, <3>2
  <2> HIDE DEF ms
  <2>6. row \in NumberedRows /\ row.id = s[i].id
    BY <2>4, <2>5 DEF NumberedRows
  <2> HIDE DEF row
  <2>7. Append(acc.rows, row) \in Seq(NumberedRows) /\ Carried(Append(acc.rows, row), s, i)
    BY <2>1, <2>2, <2>6, CarriedOn
  <2>8. next \in Sourced(s, i)
    BY <2>5, <2>7 DEF Sourced
  <2> QED
    BY <2>1, <2>3, <2>8 DEF SourceTimeOf
<1>4. SourceTiming!Fold(0, start, s) \in V[n]
  <2> HIDE DEF V, n, start
  <2> QED
    BY <1>1, <1>2, <1>3, SourceTiming!FoldThrough
<1>5. SourceTiming!Fold(0, start, s) \in Sourced(s, n)
  <2>1. n \in 0 .. n
    BY <1>1
  <2> HIDE DEF start, n
  <2> QED
    BY <1>4, <2>1
<1> HIDE DEF start
<1> QED
  BY <1>5 DEF Sourced, start

LEMMA RisesOn ==
  ASSUME NEW rows \in Seq(NumberedRows), TimesRise(rows), NEW row \in NumberedRows,
         \A j \in DOMAIN rows : rows[j].tsMs < row.tsMs
  PROVE  /\ TimesRise(Append(rows, row))
         /\ \A j \in DOMAIN Append(rows, row) : Append(rows, row)[j].tsMs <= row.tsMs
<1> DEFINE n == Len(rows)
           t == Append(rows, row)
<1>1. /\ n \in Nat /\ DOMAIN rows = 1 .. n /\ DOMAIN t = 1 .. n + 1
      /\ t[n + 1] = row /\ \A k \in 1 .. n : t[k] = rows[k] /\ rows[k] \in NumberedRows
  OBVIOUS
<1>2. row.tsMs \in Nat /\ \A k \in 1 .. n : rows[k].tsMs \in Nat
  BY <1>1 DEF NumberedRows
<1> HIDE DEF n, t
<1>3. \A k \in 1 .. n + 1 : k = n + 1 \/ k \in 1 .. n
  BY <1>1
<1>4. ASSUME NEW j \in 1 .. n + 1, NEW k \in 1 .. n + 1, j < k PROVE t[j].tsMs < t[k].tsMs
  <2>1. j \in 1 .. n
    BY <1>1, <1>4
  <2> QED
    BY <1>1, <1>3, <2>1, <1>4 DEF TimesRise
<1>5. ASSUME NEW j \in 1 .. n + 1 PROVE t[j].tsMs <= row.tsMs
  <2>1. CASE j = n + 1
    BY <1>1, <1>2, <2>1
  <2>2. CASE j \in 1 .. n
    <3>1. t[j] = rows[j] /\ rows[j].tsMs < row.tsMs /\ rows[j].tsMs \in Nat
      BY <1>1, <1>2, <2>2
    <3> QED
      BY <1>2, <3>1
  <2> QED
    BY <1>3, <2>1, <2>2
<1> QED
  BY <1>1, <1>4, <1>5 DEF TimesRise, t

LEMMA CursoredRise ==
  ASSUME NEW s \in Seq(NumberedRows)
  PROVE  LET cursored == CursorTiming!Fold(0, [prev |-> 0, rows |-> << >>], s)
         IN /\ cursored.rows \in Seq(NumberedRows) /\ Carried(cursored.rows, s, Len(s))
            /\ TimesRise(cursored.rows)
<1> DEFINE n == Len(s)
           start == [prev |-> 0, rows |-> << >>]
           V == [ k \in 0 .. n |-> Cursored(s, k) ]
<1>1. n \in Nat /\ DOMAIN s = 1 .. n
  OBVIOUS
<1>2. start \in V[0]
  <2>1. /\ start \in [prev : Nat, rows : Seq(NumberedRows)] /\ Carried(start.rows, s, 0)
        /\ start.rows = << >> /\ DOMAIN start.rows = {}
    BY DEF Carried
  <2> HIDE DEF start
  <2>2. TimesRise(start.rows)
    BY <2>1 DEF TimesRise
  <2> QED
    BY <1>1, <2>1, <2>2 DEF Sourced, Cursored
<1>3. ASSUME NEW i \in 1 .. n, NEW acc \in V[i - 1] PROVE CursorTimeOf(0, acc, s[i]) \in V[i]
  <2>1. i - 1 \in 0 .. n /\ i \in 0 .. n /\ i \in Nat \ {0}
    BY <1>1
  <2>2. /\ acc.prev \in Nat /\ acc.rows \in Seq(NumberedRows) /\ Carried(acc.rows, s, i - 1)
        /\ TimesRise(acc.rows) /\ \A j \in DOMAIN acc.rows : acc.rows[j].tsMs <= acc.prev
    BY <2>1 DEF Sourced, Cursored
  <2> DEFINE ms == IF s[i].tsMs > acc.prev THEN s[i].tsMs ELSE acc.prev + 1
             row == [s[i] EXCEPT !.tsMs = ms]
             next == [prev |-> ms, rows |-> Append(acc.rows, row)]
  <2>3. CursorTime(acc, s[i]) = next
    BY DEF CursorTime
  <2>4. s[i] \in NumberedRows
    BY <1>1
  <2>5. ms \in Nat /\ ms > acc.prev
    <3>1. s[i].tsMs \in Nat
      BY <2>4 DEF NumberedRows
    <3>2. CASE s[i].tsMs > acc.prev
      BY <3>1, <3>2
    <3>3. CASE ~(s[i].tsMs > acc.prev)
      BY <2>2, <3>3
    <3> QED
      BY <3>2, <3>3
  <2> HIDE DEF ms
  <2>6. row \in NumberedRows /\ row.id = s[i].id /\ row.tsMs = ms
    BY <2>4, <2>5 DEF NumberedRows
  <2> HIDE DEF row
  <2>7. Append(acc.rows, row) \in Seq(NumberedRows) /\ Carried(Append(acc.rows, row), s, i)
    BY <2>1, <2>2, <2>6, CarriedOn
  <2>8. \A j \in DOMAIN acc.rows : acc.rows[j].tsMs < row.tsMs
    <3>1. \A j \in DOMAIN acc.rows : acc.rows[j].tsMs \in Nat
      <4>1. \A j \in DOMAIN acc.rows : acc.rows[j] \in NumberedRows
        BY <2>2
      <4> QED
        BY <4>1 DEF NumberedRows
    <3> QED
      BY <2>2, <2>5, <2>6, <3>1
  <2>9. /\ TimesRise(Append(acc.rows, row))
        /\ \A j \in DOMAIN Append(acc.rows, row) : Append(acc.rows, row)[j].tsMs <= ms
    BY <2>2, <2>6, <2>8, RisesOn
  <2>10. next \in Cursored(s, i)
    <3>1. next \in [prev : Nat, rows : Seq(NumberedRows)] /\ next.rows = Append(acc.rows, row) /\ next.prev = ms
      BY <2>5, <2>7
    <3> HIDE DEF next
    <3> QED
      BY <2>7, <2>9, <3>1 DEF Sourced, Cursored
  <2> QED
    BY <2>1, <2>3, <2>10 DEF CursorTimeOf
<1>4. CursorTiming!Fold(0, start, s) \in V[n]
  <2> HIDE DEF V, n, start
  <2> QED
    BY <1>1, <1>2, <1>3, CursorTiming!FoldThrough
<1>5. CursorTiming!Fold(0, start, s) \in Cursored(s, n)
  <2>1. n \in 0 .. n
    BY <1>1
  <2> HIDE DEF start, n
  <2> QED
    BY <1>4, <2>1
<1> HIDE DEF start
<1> QED
  BY <1>5 DEF Sourced, Cursored, start

\* Whatever their times were, in the end they rise; no row is shown twice.
LEMMA TimedRise ==
  ASSUME NEW numbered \in Seq(NumberedRows), DistinctIds(numbered)
  PROVE  /\ Timed(numbered) \in Seq(NumberedRows)
         /\ TimesRise(Timed(numbered)) /\ DistinctIds(Timed(numbered))
<1> DEFINE start == [prev |-> 0, rows |-> << >>]
           bySeq == [ k \in DOMAIN numbered |-> numbered[k].seq ]
           inOrder == SortedBy(numbered, bySeq)
           sourced == SourceTiming!Fold(0, start, inOrder)
           byMs == [ k \in DOMAIN sourced.rows |-> sourced.rows[k].tsMs ]
           sorted == SortedBy(sourced.rows, byMs)
           cursored == CursorTiming!Fold(0, start, sorted)
<1>1. FoldLeft(SourceTime, start, inOrder) = sourced
  BY DEF SourceTimeOf, SourceTiming!Fold, SourceTiming!FoldLeft, SourceTiming!MapThenFoldSet,
         SourceTiming!Max, FoldLeft, MapThenFoldSet, Max
<1>2. FoldLeft(CursorTime, start, sorted) = cursored
  BY DEF CursorTimeOf, CursorTiming!Fold, CursorTiming!FoldLeft, CursorTiming!MapThenFoldSet,
         CursorTiming!Max, FoldLeft, MapThenFoldSet, Max
<1>3. Timed(numbered) = cursored.rows
  BY <1>1, <1>2 DEF Timed
<1>4. bySeq \in [DOMAIN numbered -> Nat]
  <2>1. \A k \in DOMAIN numbered : numbered[k] \in NumberedRows
    OBVIOUS
  <2> QED
    BY <2>1 DEF NumberedRows
<1> HIDE DEF bySeq
<1>5. inOrder \in Seq(NumberedRows) /\ DistinctIds(inOrder)
  BY <1>4, SortedTyped, SortedDistinct
<1> HIDE DEF inOrder
<1>6. sourced.rows \in Seq(NumberedRows) /\ Carried(sourced.rows, inOrder, Len(inOrder))
  BY <1>5, SourcedIds
<1> HIDE DEF sourced
<1>7. DistinctIds(sourced.rows)
  BY <1>5, <1>6, CarriedDistinct
<1>8. byMs \in [DOMAIN sourced.rows -> Nat]
  <2>1. \A k \in DOMAIN sourced.rows : sourced.rows[k] \in NumberedRows
    BY <1>6
  <2> QED
    BY <2>1 DEF NumberedRows
<1> HIDE DEF byMs
<1>9. sorted \in Seq(NumberedRows) /\ DistinctIds(sorted)
  BY <1>6, <1>7, <1>8, SortedTyped, SortedDistinct
<1> HIDE DEF sorted
<1>10. /\ cursored.rows \in Seq(NumberedRows) /\ Carried(cursored.rows, sorted, Len(sorted))
       /\ TimesRise(cursored.rows)
  BY <1>9, CursoredRise
<1> HIDE DEF cursored
<1>11. DistinctIds(cursored.rows)
  BY <1>9, <1>10, CarriedDistinct
<1> QED
  BY <1>3, <1>10, <1>11

\* The rows of sequences one after the other: nothing else, and nothing twice.
LEMMA FlattenedRows ==
  ASSUME NEW S, NEW seqs \in Seq(Seq(S))
  PROVE  /\ \A k \in DOMAIN FlattenSeq(seqs) :
               \E i \in DOMAIN seqs : \E j \in DOMAIN seqs[i] : FlattenSeq(seqs)[k] = seqs[i][j]
         /\ /\ \A i \in DOMAIN seqs : DistinctIds(seqs[i])
            /\ \A i, l \in DOMAIN seqs : i # l =>
                 \A j \in DOMAIN seqs[i], m \in DOMAIN seqs[l] : seqs[i][j].id # seqs[l][m].id
            => DistinctIds(FlattenSeq(seqs))
<1> DEFINE n == Len(seqs)
           t == FlattenSeq(seqs)
<1>1. Facts!FlattenSeq(seqs) = FlattenSeq(seqs)
  BY DEF Facts!FlattenSeq, FlattenSeq
<1>2. \E f, g : Facts!Indexed(Facts!FlattenSeq(seqs), seqs, n, f, g)
  BY Facts!FlattenIndexed
<1>3. PICK f, g : Facts!Indexed(t, seqs, n, f, g)
  BY <1>1, <1>2
<1>4. t \in Seq(S)
  BY FlattenedTyped
<1>5. n \in Nat /\ DOMAIN seqs = 1 .. n /\ \A i \in 1 .. n : seqs[i] \in Seq(S)
  OBVIOUS
<1> HIDE DEF t, n
<1>6. DOMAIN t = 1 .. Len(t) /\ Len(t) \in Nat /\ \A i \in 1 .. n : DOMAIN seqs[i] = 1 .. Len(seqs[i])
  BY <1>4, <1>5
<1>7. \A k \in DOMAIN t : f[k] \in DOMAIN seqs /\ g[k] \in DOMAIN seqs[f[k]] /\ t[k] = seqs[f[k]][g[k]]
  BY <1>3, <1>5, <1>6 DEF Facts!Indexed
<1>8. \A k, l \in DOMAIN t : k < l => f[k] < f[l] \/ (f[k] = f[l] /\ g[k] < g[l])
  BY <1>3, <1>6 DEF Facts!Indexed
<1>9. ASSUME \A i \in DOMAIN seqs : DistinctIds(seqs[i]),
             \A i, l \in DOMAIN seqs : i # l =>
               \A j \in DOMAIN seqs[i], m \in DOMAIN seqs[l] : seqs[i][j].id # seqs[l][m].id,
             NEW k \in DOMAIN t, NEW l \in DOMAIN t, k < l
      PROVE  t[k].id # t[l].id
  <2>1. CASE f[k] = f[l]
    <3>1. g[k] \in Nat /\ g[l] \in Nat /\ g[k] \in DOMAIN seqs[f[k]] /\ g[l] \in DOMAIN seqs[f[k]]
      <4>1. f[k] \in 1 .. n /\ g[k] \in DOMAIN seqs[f[k]]
        BY <1>5, <1>7
      <4>2. f[k] \in DOMAIN seqs /\ g[l] \in DOMAIN seqs[f[k]]
        BY <1>7, <2>1
      <4>3. DOMAIN seqs[f[k]] = 1 .. Len(seqs[f[k]])
        BY <1>6, <4>1
      <4> QED
        BY <4>1, <4>2, <4>3
    <3>2. g[k] # g[l]
      <4>1. f[k] \in Nat
        BY <1>5, <1>7
      <4>2. g[k] < g[l]
        BY <1>8, <1>9, <2>1, <4>1
      <4> QED
        BY <3>1, <4>2
    <3>3. DistinctIds(seqs[f[k]])
      BY <1>7, <1>9
    <3>4. seqs[f[k]][g[k]].id # seqs[f[k]][g[l]].id
      BY <3>1, <3>2, <3>3 DEF DistinctIds
    <3> QED
      BY <1>7, <2>1, <3>4
  <2>2. CASE f[k] # f[l]
    <3> DEFINE fk == f[k]
               fl == f[l]
               gk == g[k]
               gl == g[l]
    <3>1. /\ fk \in DOMAIN seqs /\ fl \in DOMAIN seqs /\ fk # fl
          /\ gk \in DOMAIN seqs[fk] /\ gl \in DOMAIN seqs[fl]
          /\ t[k] = seqs[fk][gk] /\ t[l] = seqs[fl][gl]
      BY <1>7, <2>2
    <3> HIDE DEF fk, fl, gk, gl
    <3>2. seqs[fk][gk].id # seqs[fl][gl].id
      BY <1>9, <3>1
    <3> QED
      BY <3>1, <3>2
  <2> QED
    BY <2>1, <2>2
<1>10. ASSUME \A i \in DOMAIN seqs : DistinctIds(seqs[i]),
              \A i, l \in DOMAIN seqs : i # l =>
                \A j \in DOMAIN seqs[i], m \in DOMAIN seqs[l] : seqs[i][j].id # seqs[l][m].id
       PROVE  DistinctIds(t)
  <2> SUFFICES ASSUME NEW k \in DOMAIN t, NEW l \in DOMAIN t, t[k].id = t[l].id PROVE k = l
    BY DEF DistinctIds
  <2>1. ~(k < l) /\ ~(l < k)
    BY <1>9, <1>10
  <2> QED
    BY <1>6, <2>1
<1> QED
  BY <1>7, <1>10 DEF t

\* The rows of s are of row i of file a, or of a row of file a.
OfRow(s, a, i) == \A k \in DOMAIN s : s[k].id[1] = a /\ s[k].id[2] = i
OfFile(s, a) == \A k \in DOMAIN s : s[k].id[1] = a

\* Those of one block, and those of all the blocks of a row.
OfBlock(s, a, i, b) == DistinctIds(s) /\ OfRow(s, a, i) /\ \A k \in DOMAIN s : s[k].id[3] = b
OfBlocks(s, each, a, i) ==
    /\ DistinctIds(s) /\ OfRow(s, a, i)
    /\ \A k \in DOMAIN s : \E b \in DOMAIN each : s[k].id[3] = b /\ each[b] # << >>

LEMMA NoneOrOne ==
  ASSUME NEW a, NEW i, NEW b, NEW s, NEW row, row.id = << a, i, b >>, s = << >> \/ s = << row >>
  PROVE  OfBlock(s, a, i, b)
<1>1. << a, i, b >>[1] = a /\ << a, i, b >>[2] = i /\ << a, i, b >>[3] = b
  OBVIOUS
<1>2. CASE s = << >>
  BY <1>2 DEF DistinctIds, OfRow, OfBlock
<1>3. CASE s = << row >>
  <2>1. DOMAIN s = {1} /\ s[1] = row
    BY <1>3
  <2> QED
    BY <1>1, <2>1 DEF DistinctIds, OfRow, OfBlock
<1> QED
  BY <1>2, <1>3

LEMMA IdOfHistory ==
  ASSUME NEW id, NEW key, NEW role, NEW ts
  PROVE  HistoryRow(id, key, role, ts).id = id
BY DEF HistoryRow

\* The rows of the blocks of a row, one at most of each.
LEMMA BlocksDistinct ==
  ASSUME NEW a, NEW i, NEW each \in Seq(Seq(HistoryRows)),
         \A b \in DOMAIN each : OfBlock(each[b], a, i, b)
  PROVE  OfBlocks(FlattenSeq(each), each, a, i)
<1> DEFINE n == Len(each)
<1>1. n \in Nat /\ DOMAIN each = 1 .. n
  OBVIOUS
<1> HIDE DEF n
<1>7. \A b \in 1 .. n : /\ DistinctIds(each[b]) /\ OfRow(each[b], a, i)
                        /\ \A k \in DOMAIN each[b] : each[b][k].id[3] = b
  BY <1>1 DEF OfBlock
<1>2. \A k \in DOMAIN FlattenSeq(each) :
        \E b \in 1 .. n : \E j \in DOMAIN each[b] : FlattenSeq(each)[k] = each[b][j]
  BY <1>1, FlattenedRows
<1>3. \A b, c \in 1 .. n : b # c =>
        \A j \in DOMAIN each[b], m \in DOMAIN each[c] : each[b][j].id # each[c][m].id
  <2> SUFFICES ASSUME NEW b \in 1 .. n, NEW c \in 1 .. n, b # c,
                      NEW j \in DOMAIN each[b], NEW m \in DOMAIN each[c]
               PROVE  each[b][j].id # each[c][m].id
    OBVIOUS
  <2>1. each[b][j].id[3] = b /\ each[c][m].id[3] = c
    BY <1>7
  <2> QED
    BY <2>1
<1>4. DistinctIds(FlattenSeq(each))
  <2>1. \A b \in DOMAIN each : DistinctIds(each[b])
    BY <1>1, <1>7
  <2>2. \A b, c \in DOMAIN each : b # c =>
          \A j \in DOMAIN each[b], m \in DOMAIN each[c] : each[b][j].id # each[c][m].id
    BY <1>1, <1>3
  <2> QED
    BY ONLY <2>1, <2>2, each \in Seq(Seq(HistoryRows)), FlattenedRows
<1>5. OfRow(FlattenSeq(each), a, i)
  BY <1>2, <1>7 DEF OfRow
<1>6. \A k \in DOMAIN FlattenSeq(each) :
        \E b \in 1 .. n : FlattenSeq(each)[k].id[3] = b /\ each[b] # << >>
  <2> SUFFICES ASSUME NEW k \in DOMAIN FlattenSeq(each)
               PROVE  \E b \in 1 .. n : FlattenSeq(each)[k].id[3] = b /\ each[b] # << >>
    OBVIOUS
  <2>1. PICK b \in 1 .. n : \E j \in DOMAIN each[b] : FlattenSeq(each)[k] = each[b][j]
    BY <1>2
  <2>2. PICK j \in DOMAIN each[b] : FlattenSeq(each)[k] = each[b][j]
    BY <2>1
  <2>3. each[b][j].id[3] = b
    BY <1>7
  <2>4. each[b] # << >>
    <3>1. j \notin DOMAIN << >>
      OBVIOUS
    <3> QED
      BY <3>1
  <2> QED
    BY <2>2, <2>3, <2>4
<1> QED
  BY <1>1, <1>4, <1>5, <1>6 DEF OfBlocks

\* A row more, of a block that none of the rest is of.
LEMMA OneMoreDistinct ==
  ASSUME NEW s \in Seq(HistoryRows), NEW t \in Seq(HistoryRows), NEW a, NEW i,
         DistinctIds(s), DistinctIds(t), OfRow(s, a, i), OfRow(t, a, i),
         \A j \in DOMAIN s, k \in DOMAIN t : s[j].id # t[k].id
  PROVE  DistinctIds(s \o t) /\ OfRow(s \o t, a, i)
<1> DEFINE m == Len(s)
           n == Len(t)
           u == s \o t
<1>1. /\ m \in Nat /\ n \in Nat /\ DOMAIN s = 1 .. m /\ DOMAIN t = 1 .. n /\ DOMAIN u = 1 .. m + n
      /\ \A k \in 1 .. m : u[k] = s[k]
      /\ \A k \in m + 1 .. m + n : u[k] = t[k - m]
  OBVIOUS
<1> HIDE DEF m, n, u
<1>2. \A k \in DOMAIN u : \/ k \in 1 .. m /\ u[k] = s[k]
                          \/ k \in m + 1 .. m + n /\ k - m \in 1 .. n /\ u[k] = t[k - m]
  BY <1>1
<1>3. OfRow(u, a, i)
  BY <1>1, <1>2 DEF OfRow
<1>4. ASSUME NEW j \in DOMAIN u, NEW k \in DOMAIN u, u[j].id = u[k].id PROVE j = k
  <2>1. CASE j \in 1 .. m /\ k \in 1 .. m
    BY <1>1, <1>4, <2>1 DEF DistinctIds
  <2>2. CASE j \in m + 1 .. m + n /\ k \in m + 1 .. m + n
    <3>1. j - m \in 1 .. n /\ k - m \in 1 .. n /\ u[j] = t[j - m] /\ u[k] = t[k - m]
      BY <1>1, <2>2
    <3>2. j - m = k - m
      BY <1>1, <1>4, <3>1 DEF DistinctIds
    <3> QED
      BY <1>1, <2>2, <3>2
  <2> QED
    BY <1>1, <1>2, <1>4, <2>1, <2>2
<1> QED
  BY <1>3, <1>4 DEF DistinctIds, u

LEMMA MetricsIds ==
  ASSUME NEW parsed \in Seq(HistoryRows), NEW tools \in Nat
  PROVE  /\ WithMetrics(parsed, tools) \in Seq(HistoryRows)
         /\ Len(WithMetrics(parsed, tools)) = Len(parsed)
         /\ \A k \in DOMAIN parsed : WithMetrics(parsed, tools)[k].id = parsed[k].id
<1> DEFINE t == WithMetrics(parsed, tools)
<1>1. t \in Seq(HistoryRows)
  BY MetricsTyped
<1>2. DOMAIN t = DOMAIN parsed
  BY DEF WithMetrics
<1>3. \A k \in DOMAIN parsed : t[k].id = parsed[k].id
  <2> SUFFICES ASSUME NEW k \in DOMAIN parsed PROVE t[k].id = parsed[k].id
    OBVIOUS
  <2>1. t[k] = parsed[k] \/ t[k] = [parsed[k] EXCEPT !.chip = << tools >>]
    BY DEF WithMetrics
  <2>2. parsed[k] \in HistoryRows
    OBVIOUS
  <2> QED
    BY <2>1, <2>2 DEF HistoryRows
<1> HIDE DEF t
<1>4. Len(t) = Len(parsed)
  BY <1>1, <1>2
<1> QED
  BY <1>1, <1>3, <1>4 DEF t

LEMMA AssistantDistinct ==
  ASSUME NEW rows \in Seq(TranscriptRow), NEW i \in DOMAIN rows
  PROVE  DistinctIds(AssistantHistory(rows, i)) /\ OfRow(AssistantHistory(rows, i), 0, i)
<1> DEFINE row == rows[i]
           n == Len(row.blocks)
           each == [ b \in DOMAIN row.blocks |-> BlockHistory(i, b, row) ]
           parsed == FlattenSeq(each)
           shown == IF row.end THEN WithMetrics(parsed, TurnTools(rows, i)) ELSE parsed
           marker == HistoryRow(<< 0, i, n + 1 >>, << "interrupt", 0, i, 0 >>, "system", row.ts + 1)
           rest == IF IsInterrupt(row) THEN << marker >> ELSE << >>
<1>1. i \in Nat /\ row \in TranscriptRow
  OBVIOUS
<1>2. TurnTools(rows, i) \in Nat
  BY TurnToolsTyped
<1>3. AssistantHistory(rows, i) = shown \o rest
  BY DEF AssistantHistory
<1> HIDE DEF row
<1>4. n \in Nat /\ DOMAIN row.blocks = 1 .. n
  <2>1. row.blocks \in Seq(Block)
    BY <1>1 DEF TranscriptRow
  <2> QED
    BY <2>1
<1>5. ASSUME NEW b \in 1 .. n
      PROVE  /\ BlockHistory(i, b, row) \in Seq(HistoryRows)
             /\ OfBlock(BlockHistory(i, b, row), 0, i, b)
  <2>1. BlockHistory(i, b, row) \in Seq(HistoryRows)
    BY <1>1, <1>4, BlockHistoryTyped
  <2>2. PICK one : /\ one.id = << 0, i, b >>
                   /\ BlockHistory(i, b, row) = << >> \/ BlockHistory(i, b, row) = << one >>
    BY IdOfHistory DEF BlockHistory
  <2> QED
    BY <2>1, <2>2, NoneOrOne
<1>6. /\ each \in Seq(Seq(HistoryRows)) /\ Len(each) = n
      /\ \A b \in 1 .. n : each[b] = BlockHistory(i, b, row)
  <2>1. each = [ b \in 1 .. n |-> BlockHistory(i, b, row) ]
    BY <1>4
  <2> HIDE DEF n, each
  <2> QED
    BY <1>4, <1>5, <2>1
<1> HIDE DEF n, each
<1>7. /\ DistinctIds(parsed) /\ OfRow(parsed, 0, i)
      /\ \A k \in DOMAIN parsed : parsed[k].id[3] \in 1 .. n
  <2>1. DOMAIN each = 1 .. n /\ \A b \in DOMAIN each : OfBlock(each[b], 0, i, b)
    BY <1>4, <1>5, <1>6
  <2>2. OfBlocks(FlattenSeq(each), each, 0, i)
    BY <1>6, <2>1, BlocksDistinct
  <2> QED
    BY <2>1, <2>2 DEF OfBlocks
<1>8. parsed \in Seq(HistoryRows)
  BY <1>6, FlattenedTyped
<1> HIDE DEF parsed
<1>9. /\ shown \in Seq(HistoryRows) /\ DistinctIds(shown) /\ OfRow(shown, 0, i)
      /\ \A k \in DOMAIN shown : shown[k].id[3] \in 1 .. n
  <2>1. /\ shown \in Seq(HistoryRows) /\ Len(shown) = Len(parsed)
        /\ \A k \in DOMAIN parsed : shown[k].id = parsed[k].id
    BY <1>2, <1>8, MetricsIds
  <2> HIDE DEF shown
  <2>2. DOMAIN shown = DOMAIN parsed
    BY <1>8, <2>1
  <2> QED
    BY <1>7, <2>1, <2>2 DEF DistinctIds, OfRow
<1> HIDE DEF shown
<1>10. /\ rest \in Seq(HistoryRows) /\ DistinctIds(rest) /\ OfRow(rest, 0, i)
       /\ \A k \in DOMAIN rest : rest[k].id[3] = n + 1
  <2>1. marker.id = << 0, i, n + 1 >>
    BY IdOfHistory
  <2>2. marker \in HistoryRows
    <3>1. << 0, i, n + 1 >> \in Ids
      BY <1>1, <1>4, Keys
    <3>2. << "interrupt", 0, i, 0 >> \in Key
      BY <1>1, OtherKeys DEF KeyKinds
    <3>3. "system" \in Roles /\ row.ts + 1 \in Nat
      BY <1>1 DEF Roles, TranscriptRow
    <3> QED
      BY <3>1, <3>2, <3>3, RowOfHistory
  <2> HIDE DEF marker
  <2>3. rest \in Seq(HistoryRows) /\ (rest = << >> \/ rest = << marker >>)
    BY <2>2
  <2> HIDE DEF rest
  <2>4. OfBlock(rest, 0, i, n + 1)
    BY <2>1, <2>3, NoneOrOne
  <2> QED
    BY <2>3, <2>4 DEF OfBlock
<1> HIDE DEF rest
<1>11. \A j \in DOMAIN shown, k \in DOMAIN rest : shown[j].id # rest[k].id
  <2> SUFFICES ASSUME NEW j \in DOMAIN shown, NEW k \in DOMAIN rest PROVE shown[j].id[3] # rest[k].id[3]
    OBVIOUS
  <2>1. shown[j].id[3] \in 1 .. n /\ rest[k].id[3] = n + 1
    BY <1>9, <1>10
  <2> QED
    BY <1>4, <2>1
<1> QED
  BY <1>3, <1>9, <1>10, <1>11, OneMoreDistinct

LEMMA EntryDistinct ==
  ASSUME NEW rows \in Seq(TranscriptRow), NEW i \in DOMAIN rows
  PROVE  DistinctIds(EntryHistory(rows, i)) /\ OfRow(EntryHistory(rows, i), 0, i)
<1>1. CASE rows[i].type = "assistant"
  <2>1. EntryHistory(rows, i) = AssistantHistory(rows, i)
    BY <1>1 DEF EntryHistory
  <2> QED
    BY <2>1, AssistantDistinct
<1>2. CASE rows[i].type # "assistant"
  <2>1. PICK one : /\ one.id = << 0, i, 0 >>
                   /\ EntryHistory(rows, i) = << >> \/ EntryHistory(rows, i) = << one >>
    <3> HIDE DEF HistoryRow
    <3>1. UserHistory(i, rows[i]) = << >> \/
          \E role : UserHistory(i, rows[i]) =
                      << HistoryRow(<< 0, i, 0 >>, RowKey(0, i), role, rows[i].ts) >>
      BY DEF UserHistory
    <3>2. \/ EntryHistory(rows, i) = << >>
          \/ \E role : EntryHistory(rows, i) =
                         << HistoryRow(<< 0, i, 0 >>, RowKey(0, i), role, rows[i].ts) >>
      BY <1>2, <3>1 DEF EntryHistory
    <3> QED
      <4>1. CASE EntryHistory(rows, i) = << >>
        <5>1. [id |-> << 0, i, 0 >>].id = << 0, i, 0 >>
          OBVIOUS
        <5> QED
          BY <4>1, <5>1
      <4>2. CASE EntryHistory(rows, i) # << >>
        <5>1. PICK role : EntryHistory(rows, i) =
                            << HistoryRow(<< 0, i, 0 >>, RowKey(0, i), role, rows[i].ts) >>
          BY <3>2, <4>2
        <5> DEFINE shown == HistoryRow(<< 0, i, 0 >>, RowKey(0, i), role, rows[i].ts)
        <5>2. shown.id = << 0, i, 0 >>
          BY IdOfHistory
        <5> HIDE DEF shown
        <5>3. EntryHistory(rows, i) = << shown >>
          BY <5>1 DEF shown
        <5> QED
          BY <5>2, <5>3
      <4> QED
        BY <4>1, <4>2
  <2>2. OfBlock(EntryHistory(rows, i), 0, i, 0)
    BY <2>1, NoneOrOne
  <2> QED
    BY <2>2 DEF OfBlock
<1> QED
  BY <1>1, <1>2

LEMMA ParentsDistinct ==
  ASSUME NEW rows \in Seq(TranscriptRow)
  PROVE  DistinctIds(ParentHistory(rows)) /\ OfFile(ParentHistory(rows), 0)
<1> DEFINE n == Len(rows)
           each == [ i \in DOMAIN rows |-> EntryHistory(rows, i) ]
<1>1. n \in Nat /\ DOMAIN rows = 1 .. n
  OBVIOUS
<1>2. ASSUME NEW i \in DOMAIN rows
      PROVE  /\ EntryHistory(rows, i) \in Seq(HistoryRows)
             /\ DistinctIds(EntryHistory(rows, i)) /\ OfRow(EntryHistory(rows, i), 0, i)
  BY EntryHistoryTyped, EntryDistinct
<1> HIDE DEF n
<1>3. each \in Seq(Seq(HistoryRows))
  BY <1>1, <1>2
<1>4. DOMAIN each = DOMAIN rows
  OBVIOUS
<1>5. \A i \in DOMAIN each : DistinctIds(each[i]) /\ OfRow(each[i], 0, i)
  BY <1>2
<1> HIDE DEF each
<1>6. \A i, l \in DOMAIN each : i # l =>
        \A j \in DOMAIN each[i], m \in DOMAIN each[l] : each[i][j].id # each[l][m].id
  BY <1>5 DEF OfRow
<1>7. DistinctIds(FlattenSeq(each))
  BY <1>3, <1>5, <1>6, FlattenedRows
<1>8. OfFile(FlattenSeq(each), 0)
  <2>1. \A k \in DOMAIN FlattenSeq(each) :
          \E i \in DOMAIN each : \E j \in DOMAIN each[i] : FlattenSeq(each)[k] = each[i][j]
    BY <1>3, FlattenedRows
  <2> QED
    BY <1>5, <2>1 DEF OfFile, OfRow
<1> QED
  BY <1>7, <1>8 DEF ParentHistory, each

LEMMA AgentEntryDistinct ==
  ASSUME NEW a \in Nat, NEW i \in Nat, NEW row \in TranscriptRow
  PROVE  DistinctIds(AgentEntryHistory(a, i, row)) /\ OfRow(AgentEntryHistory(a, i, row), a, i)
<1> DEFINE n == Len(row.blocks)
           rowAt(b) == HistoryRow(<< a, i, b >>, << "none", a, i, b >>, "subagent", row.ts)
           textAt == { b \in DOMAIN row.blocks : row.blocks[b].kind \in TextKinds }
           first == CHOOSE b \in textAt : \A c \in textAt : b <= c
           texts == IF textAt = {} THEN << >> ELSE << rowAt(first) >>
           each == [ b \in DOMAIN row.blocks |->
                       IF row.blocks[b].kind \in ToolKinds THEN << rowAt(b) >> ELSE << >> ]
<1>1. row.blocks \in Seq(Block) /\ row.ts \in Nat
  BY DEF TranscriptRow
<1>2. n \in Nat /\ DOMAIN row.blocks = 1 .. n
  BY <1>1
<1>3. ASSUME NEW b \in Nat PROVE rowAt(b) \in HistoryRows /\ rowAt(b).id = << a, i, b >>
  <2>1. << a, i, b >> \in Ids
    BY Keys
  <2>2. << "none", a, i, b >> \in Key
    BY OtherKeys DEF KeyKinds
  <2>3. "subagent" \in Roles
    BY DEF Roles
  <2> QED
    BY <1>1, <2>1, <2>2, <2>3, RowOfHistory, IdOfHistory
<1>4. AgentEntryHistory(a, i, row) =
        IF row.type = "assistant" THEN texts \o FlattenSeq(each) ELSE << >>
  BY DEF AgentEntryHistory
<1> HIDE DEF n, rowAt
<1>5. textAt \in SUBSET (1 .. n)
  BY <1>2
<1>6. textAt # {} => first \in textAt
  <2> HIDE DEF textAt
  <2>1. textAt # {} => \E b \in textAt : \A c \in textAt : b <= c
    BY <1>2, <1>5, Facts!LeastOf
  <2> QED
    BY <2>1
<1>7. textAt # {} => row.blocks[first].kind \in TextKinds
  <2> HIDE DEF first
  <2> QED
    BY <1>6
<1> HIDE DEF textAt, first
<1>8. /\ texts \in Seq(HistoryRows) /\ DistinctIds(texts) /\ OfRow(texts, a, i)
      /\ \A k \in DOMAIN texts : /\ texts[k].id[3] \in 1 .. n
                                 /\ row.blocks[texts[k].id[3]].kind \in TextKinds
  <2>1. CASE textAt = {}
    <3>1. texts = << >>
      BY <2>1
    <3> HIDE DEF texts
    <3> QED
      BY <3>1 DEF DistinctIds, OfRow
  <2>2. CASE textAt # {}
    <3> DEFINE one == rowAt(first)
    <3>1. texts = << one >> /\ first \in 1 .. n /\ first \in Nat
      <4>1. texts = << one >>
        BY <2>2
      <4>2. first \in 1 .. n
        BY <1>5, <1>6, <2>2
      <4> QED
        BY <1>2, <4>1, <4>2
    <3> HIDE DEF texts
    <3>2. one \in HistoryRows /\ one.id = << a, i, first >>
      BY <1>3, <3>1
    <3> HIDE DEF one
    <3>5. OfBlock(texts, a, i, first)
      BY <3>1, <3>2, NoneOrOne
    <3>3. DistinctIds(texts) /\ OfRow(texts, a, i) /\ \A k \in DOMAIN texts : texts[k].id[3] = first
      BY <3>5 DEF OfBlock
    <3>4. texts \in Seq(HistoryRows)
      BY <3>1, <3>2
    <3> QED
      BY <1>7, <2>2, <3>1, <3>3, <3>4
  <2> QED
    BY <2>1, <2>2
<1> HIDE DEF texts
<1>9. ASSUME NEW b \in 1 .. n
      PROVE  /\ each[b] \in Seq(HistoryRows) /\ OfBlock(each[b], a, i, b)
             /\ each[b] # << >> => row.blocks[b].kind \in ToolKinds
  <2>1. b \in Nat /\ b \in DOMAIN row.blocks
    BY <1>2
  <2> DEFINE one == rowAt(b)
  <2>2. one \in HistoryRows /\ one.id = << a, i, b >>
    BY <1>3, <2>1
  <2>3. each[b] = IF row.blocks[b].kind \in ToolKinds THEN << one >> ELSE << >>
    BY <2>1
  <2> HIDE DEF each, one
  <2>4. each[b] \in Seq(HistoryRows) /\ (each[b] = << >> \/ each[b] = << one >>)
    BY <2>2, <2>3
  <2>5. OfBlock(each[b], a, i, b)
    BY <2>2, <2>4, NoneOrOne
  <2> QED
    BY <2>3, <2>4, <2>5
<1>10. each \in Seq(Seq(HistoryRows)) /\ Len(each) = n
  <2>1. each = [ b \in 1 .. n |-> each[b] ]
    BY <1>2
  <2> HIDE DEF each
  <2> QED
    BY <1>2, <1>9, <2>1
<1> HIDE DEF each
<1> DEFINE tools == FlattenSeq(each)
<1>11. /\ DistinctIds(tools) /\ OfRow(tools, a, i)
       /\ \A k \in DOMAIN tools : \E b \in 1 .. n : tools[k].id[3] = b /\ each[b] # << >>
  <2>1. DOMAIN each = 1 .. n /\ \A b \in DOMAIN each : OfBlock(each[b], a, i, b)
    BY <1>2, <1>9, <1>10
  <2>2. OfBlocks(FlattenSeq(each), each, a, i)
    BY <1>10, <2>1, BlocksDistinct
  <2> QED
    BY <2>1, <2>2 DEF OfBlocks
<1>12. tools \in Seq(HistoryRows)
  BY <1>10, FlattenedTyped
<1> HIDE DEF tools
<1>13. \A k \in DOMAIN tools : row.blocks[tools[k].id[3]].kind \in ToolKinds
  BY <1>9, <1>11
<1>14. \A j \in DOMAIN texts, k \in DOMAIN tools : texts[j].id # tools[k].id
  <2>1. TextKinds \cap ToolKinds = {}
    BY DEF TextKinds, ToolKinds
  <2> QED
    BY <1>8, <1>13, <2>1
<1>15. DistinctIds(texts \o tools) /\ OfRow(texts \o tools, a, i)
  BY <1>8, <1>11, <1>12, <1>14, OneMoreDistinct
<1>16. DistinctIds(<< >>) /\ OfRow(<< >>, a, i)
  BY DEF DistinctIds, OfRow
<1> QED
  BY <1>4, <1>15, <1>16 DEF tools

LEMMA AgentDistinct ==
  ASSUME NEW a \in Nat, NEW file \in Seq(TranscriptRow)
  PROVE  LET s == FlattenSeq([ i \in DOMAIN file |-> AgentEntryHistory(a, i, file[i]) ])
         IN s \in Seq(HistoryRows) /\ DistinctIds(s) /\ OfFile(s, a)
<1> DEFINE n == Len(file)
           each == [ i \in DOMAIN file |-> AgentEntryHistory(a, i, file[i]) ]
<1>1. n \in Nat /\ DOMAIN file = 1 .. n /\ \A i \in 1 .. n : file[i] \in TranscriptRow
  OBVIOUS
<1> HIDE DEF n
<1>2. ASSUME NEW i \in DOMAIN file
      PROVE  /\ AgentEntryHistory(a, i, file[i]) \in Seq(HistoryRows)
             /\ DistinctIds(AgentEntryHistory(a, i, file[i])) /\ OfRow(AgentEntryHistory(a, i, file[i]), a, i)
  <2> DEFINE row == file[i]
  <2>1. i \in Nat /\ row \in TranscriptRow
    BY <1>1
  <2> HIDE DEF row
  <2>2. /\ AgentEntryHistory(a, i, row) \in Seq(HistoryRows)
        /\ DistinctIds(AgentEntryHistory(a, i, row)) /\ OfRow(AgentEntryHistory(a, i, row), a, i)
    BY <2>1, AgentEntryTyped, AgentEntryDistinct
  <2> QED
    BY <2>2 DEF row
<1>3. each \in Seq(Seq(HistoryRows))
  BY <1>1, <1>2
<1>4. DOMAIN each = DOMAIN file
  OBVIOUS
<1>5. \A i \in DOMAIN each : DistinctIds(each[i]) /\ OfRow(each[i], a, i)
  BY <1>2
<1> HIDE DEF each
<1>6. \A i, l \in DOMAIN each : i # l =>
        \A j \in DOMAIN each[i], m \in DOMAIN each[l] : each[i][j].id # each[l][m].id
  BY <1>5 DEF OfRow
<1>7. DistinctIds(FlattenSeq(each))
  BY <1>3, <1>5, <1>6, FlattenedRows
<1>8. OfFile(FlattenSeq(each), a)
  <2>1. \A k \in DOMAIN FlattenSeq(each) :
          \E i \in DOMAIN each : \E j \in DOMAIN each[i] : FlattenSeq(each)[k] = each[i][j]
    BY <1>3, FlattenedRows
  <2> QED
    BY <1>5, <2>1 DEF OfFile, OfRow
<1>9. FlattenSeq(each) \in Seq(HistoryRows)
  BY <1>3, FlattenedTyped
<1> QED
  BY <1>7, <1>8, <1>9 DEF each

LEMMA ByTimeRows ==
  ASSUME NEW s \in Seq(HistoryRows)
  PROVE  /\ DistinctIds(s) => DistinctIds(ByTime(s))
         /\ \A k \in DOMAIN ByTime(s) : \E j \in DOMAIN s : ByTime(s)[k] = s[j]
<1> DEFINE numbers == [ k \in DOMAIN s |-> s[k].ts ]
<1>1. numbers \in [DOMAIN s -> Nat]
  <2>1. \A k \in DOMAIN s : s[k] \in HistoryRows
    OBVIOUS
  <2> QED
    BY <2>1 DEF HistoryRows
<1>2. ByTime(s) = SortedBy(s, numbers)
  BY DEF ByTime
<1> HIDE DEF numbers
<1>3. DistinctIds(s) => DistinctIds(SortedBy(s, numbers))
  BY <1>1, SortedDistinct
<1> DEFINE Q == { s[j] : j \in DOMAIN s }
<1>4. s \in Seq(Q)
  OBVIOUS
<1> HIDE DEF Q
<1>5. SortedBy(s, numbers) \in Seq(Q)
  BY <1>1, <1>4, SortedTyped
<1>6. \A k \in DOMAIN SortedBy(s, numbers) : SortedBy(s, numbers)[k] \in Q
  BY <1>5
<1> QED
  BY <1>2, <1>3, <1>6 DEF Q

LEMMA SubagentsDistinct ==
  ASSUME NEW files \in Seq(Seq(TranscriptRow))
  PROVE  /\ DistinctIds(SubagentHistory(files))
         /\ \A k \in DOMAIN SubagentHistory(files) : SubagentHistory(files)[k].id[1] # 0
<1> DEFINE n == Len(files)
           file(a) == FlattenSeq([ i \in DOMAIN files[a] |-> AgentEntryHistory(a, i, files[a][i]) ])
           each == [ a \in DOMAIN files |-> file(a) ]
<1>1. n \in Nat /\ DOMAIN files = 1 .. n /\ \A a \in 1 .. n : files[a] \in Seq(TranscriptRow)
  OBVIOUS
<1> HIDE DEF n
<1>2. ASSUME NEW a \in DOMAIN files
      PROVE  file(a) \in Seq(HistoryRows) /\ DistinctIds(file(a)) /\ OfFile(file(a), a)
  <2>1. a \in Nat /\ files[a] \in Seq(TranscriptRow)
    BY <1>1
  <2> QED
    BY <2>1, AgentDistinct
<1>3. SubagentHistory(files) = ByTime(FlattenSeq(each))
  BY DEF SubagentHistory
<1> HIDE DEF file
<1>4. /\ each \in Seq(Seq(HistoryRows)) /\ DOMAIN each = 1 .. n
      /\ \A a \in 1 .. n : DistinctIds(each[a]) /\ OfFile(each[a], a)
  <2>1. each = [ a \in 1 .. n |-> file(a) ]
    BY <1>1
  <2>2. \A a \in 1 .. n : file(a) \in Seq(HistoryRows) /\ DistinctIds(file(a)) /\ OfFile(file(a), a)
    BY <1>1, <1>2
  <2> HIDE DEF each
  <2>3. DOMAIN each = 1 .. n /\ \A a \in 1 .. n : each[a] = file(a)
    BY <2>1
  <2>4. each \in Seq(Seq(HistoryRows))
    BY <1>1, <2>1, <2>2
  <2> QED
    BY <2>2, <2>3, <2>4
<1> HIDE DEF each
<1>5. \A a, c \in DOMAIN each : a # c =>
        \A j \in DOMAIN each[a], m \in DOMAIN each[c] : each[a][j].id # each[c][m].id
  BY <1>4 DEF OfFile
<1> DEFINE all == FlattenSeq(each)
<1>6. DistinctIds(all)
  BY <1>4, <1>5, FlattenedRows
<1>7. \A k \in DOMAIN all : \E a \in DOMAIN each : \E j \in DOMAIN each[a] : all[k] = each[a][j]
  BY <1>4, FlattenedRows
<1>8. all \in Seq(HistoryRows)
  BY <1>4, FlattenedTyped
<1> HIDE DEF all
<1>9. \A k \in DOMAIN all : all[k].id[1] \in 1 .. n
  BY <1>4, <1>7 DEF OfFile
<1>10. \A k \in DOMAIN all : all[k].id[1] # 0
  <2>1. 0 \notin 1 .. n
    BY <1>1
  <2> QED
    BY <1>9, <2>1
<1>11. /\ DistinctIds(ByTime(all))
       /\ \A k \in DOMAIN ByTime(all) : \E j \in DOMAIN all : ByTime(all)[k] = all[j]
  BY <1>6, <1>8, ByTimeRows
<1>12. \A k \in DOMAIN ByTime(all) : ByTime(all)[k].id[1] # 0
  BY <1>10, <1>11
<1> QED
  BY <1>3, <1>11, <1>12 DEF all

LEMMA AnchoredIds ==
  ASSUME NEW parents \in Seq(HistoryRows), NEW subs \in Seq(HistoryRows)
  PROVE  /\ DOMAIN Anchored(parents, subs) = DOMAIN subs
         /\ \A k \in DOMAIN subs : Anchored(parents, subs)[k].id = subs[k].id
<1>1. \A k \in DOMAIN subs : subs[k] \in HistoryRows
  OBVIOUS
<1>2. DOMAIN Anchored(parents, subs) = DOMAIN subs
  BY DEF Anchored
<1>3. \A k \in DOMAIN subs : \E ts : Anchored(parents, subs)[k] = [subs[k] EXCEPT !.ts = ts]
  BY DEF Anchored
<1>4. \A k \in DOMAIN subs : Anchored(parents, subs)[k].id = subs[k].id
  BY <1>1, <1>3 DEF HistoryRows
<1> QED
  BY <1>2, <1>4

\* Each row is there once.
LEMMA ChronologicalDistinct ==
  ASSUME NEW rows \in Seq(TranscriptRow), NEW files \in Seq(Seq(TranscriptRow))
  PROVE  DistinctIds(Chronological(rows, files))
<1> DEFINE parents == ParentHistory(rows)
           subs == SubagentHistory(files)
           moved == Anchored(parents, subs)
           m == Len(parents)
           n == Len(subs)
           u == parents \o moved
<1>1. /\ parents \in Seq(HistoryRows) /\ DistinctIds(parents)
      /\ \A k \in DOMAIN parents : parents[k].id[1] = 0
  BY ParentHistoryTyped, ParentsDistinct DEF OfFile
<1>2. /\ subs \in Seq(HistoryRows) /\ DistinctIds(subs)
      /\ \A k \in DOMAIN subs : subs[k].id[1] # 0
  BY SubagentHistoryTyped, SubagentsDistinct
<1>3. Chronological(rows, files) = IF subs = << >> THEN parents ELSE ByTime(u)
  BY DEF Chronological, Merged
<1> HIDE DEF parents, subs
<1>4. /\ moved \in Seq(HistoryRows) /\ DOMAIN moved = DOMAIN subs
      /\ \A k \in DOMAIN subs : moved[k].id = subs[k].id
  BY <1>1, <1>2, AnchoredTyped, AnchoredIds
<1> HIDE DEF moved
<1>5. DistinctIds(moved) /\ \A k \in DOMAIN moved : moved[k].id[1] # 0
  BY <1>2, <1>4 DEF DistinctIds
<1>6. /\ m \in Nat /\ n \in Nat /\ DOMAIN parents = 1 .. m /\ DOMAIN moved = 1 .. n
      /\ Len(moved) = n
  BY <1>1, <1>2, <1>4
<1>7. /\ DOMAIN u = 1 .. m + n
      /\ \A k \in 1 .. m : u[k] = parents[k]
      /\ \A k \in m + 1 .. m + n : u[k] = moved[k - m]
  <2>1. Len(parents) = m /\ Len(moved) = n /\ parents \in Seq(HistoryRows) /\ moved \in Seq(HistoryRows)
    BY <1>1, <1>4, <1>6
  <2> HIDE DEF m, n
  <2>2. Len(u) = m + n /\ u \in Seq(HistoryRows)
    BY <2>1
  <2>3. DOMAIN u = 1 .. m + n
    BY <2>2
  <2>4. \A k \in 1 .. m : u[k] = parents[k]
    BY <1>6, <2>1
  <2>5. \A k \in m + 1 .. m + n : u[k] = moved[k - m]
    BY <1>6, <2>1
  <2> QED
    BY <2>3, <2>4, <2>5
<1>8. u \in Seq(HistoryRows)
  BY <1>1, <1>4
<1> HIDE DEF u, m, n
<1>9. \A k \in DOMAIN u : \/ k \in 1 .. m /\ u[k] = parents[k]
                          \/ k \in m + 1 .. m + n /\ k - m \in 1 .. n /\ u[k] = moved[k - m]
  BY <1>6, <1>7
<1>10. ASSUME NEW j \in DOMAIN u, NEW k \in DOMAIN u, u[j].id = u[k].id PROVE j = k
  <2>1. CASE j \in 1 .. m /\ k \in 1 .. m
    BY <1>1, <1>6, <1>7, <1>10, <2>1 DEF DistinctIds
  <2>2. CASE j \in m + 1 .. m + n /\ k \in m + 1 .. m + n
    <3>1. j - m \in 1 .. n /\ k - m \in 1 .. n /\ u[j] = moved[j - m] /\ u[k] = moved[k - m]
      BY <1>6, <1>7, <2>2
    <3>2. j - m = k - m
      BY <1>5, <1>6, <1>10, <3>1 DEF DistinctIds
    <3> QED
      BY <1>6, <2>2, <3>2
  <2>3. CASE j \in 1 .. m /\ k \in m + 1 .. m + n
    <3>1. u[j].id[1] = 0 /\ u[k].id[1] # 0
      BY <1>1, <1>5, <1>6, <1>7, <1>9, <2>3
    <3> QED
      BY <1>10, <3>1
  <2>4. CASE k \in 1 .. m /\ j \in m + 1 .. m + n
    <3>1. u[k].id[1] = 0 /\ u[j].id[1] # 0
      BY <1>1, <1>5, <1>6, <1>7, <1>9, <2>4
    <3> QED
      BY <1>10, <3>1
  <2> QED
    BY <1>9, <2>1, <2>2, <2>3, <2>4
<1>11. DistinctIds(u)
  BY <1>10 DEF DistinctIds
<1>12. DistinctIds(ByTime(u))
  BY <1>8, <1>11, ByTimeRows
<1> QED
  BY <1>1, <1>3, <1>12

\* What a parse gives: rows with rising times, no row twice.
LEMMA ParsedRowsRise ==
  ASSUME NEW al \in Allocators, NEW rows \in Seq(TranscriptRow), NEW files \in Seq(Seq(TranscriptRow))
  PROVE  /\ ParseHistory(al, rows, files).rows \in Seq(NumberedRows)
         /\ TimesRise(ParseHistory(al, rows, files).rows)
         /\ DistinctIds(ParseHistory(al, rows, files).rows)
<1> DEFINE all == Chronological(rows, files)
           start == [alloc |-> al, rows |-> << >>]
           numbered == Numbering!Fold(0, start, all)
<1>1. FoldLeft(Number, start, all) = numbered
  BY DEF NumberOf, Numbering!Fold, Numbering!FoldLeft, Numbering!MapThenFoldSet, Numbering!Max,
         FoldLeft, MapThenFoldSet, Max
<1>2. ParseHistory(al, rows, files).rows = Timed(numbered.rows)
  BY <1>1 DEF ParseHistory, WithTimes
<1>3. all \in Seq(HistoryRows) /\ DistinctIds(all)
  BY ChronologicalTyped, ChronologicalDistinct
<1> HIDE DEF all
<1>4. numbered.rows \in Seq(NumberedRows) /\ Carried(numbered.rows, all, Len(all))
  BY <1>3, NumberedIds
<1> HIDE DEF numbered
<1>5. DistinctIds(numbered.rows)
  BY <1>3, <1>4, CarriedDistinct
<1> QED
  BY <1>2, <1>4, <1>5, TimedRise

\* The pages of a parse, of any size, hold every row of it exactly once, in one
\* chain of offsets (getSessionHistory).
THEOREM ParseCoversOnce ==
  ASSUME NEW al \in Allocators, NEW rows \in Seq(TranscriptRow), NEW files \in Seq(Seq(TranscriptRow))
  PROVE  CoverOnce(ParseHistory(al, rows, files).rows)
<1> DEFINE parsed == ParseHistory(al, rows, files).rows
<1>1. parsed \in Seq(NumberedRows) /\ TimesRise(parsed) /\ DistinctIds(parsed)
  BY ParsedRowsRise
<1> HIDE DEF parsed
<1>2. \A limit \in 1 .. MaxLimit : limit \in Nat \ {0}
  BY LimitAssumption
<1>3. ASSUME NEW limit \in 1 .. MaxLimit
      PROVE  PagesOK(parsed, [ n \in 0 .. NonNegative(Len(Parents(parsed)), 1) \div limit |->
                                 PageAt(parsed, n, limit) ], limit)
  BY <1>1, <1>2, PagesHold
<1>4. CoverOnce(parsed)
  BY <1>3 DEF CoverOnce
<1> QED
  BY <1>4 DEF parsed

-----------------------------------------------------------------------------
(***************************************************************************)
(* The metrics of a turn.  What they count grows row by row, is the same   *)
(* in a part of the transcript, and is shown under the last text.          *)
(***************************************************************************)

BeginsTurn(row) == row.type = "user" /\ ~OnlyResults(row)
CallsShown(row) == IF row.type = "assistant" THEN ToolBlocks(row) ELSE << >>
TurnBlocks(rows, first, i) == [ k \in 1 .. i - first |-> CallsShown(rows[first + k]) ]

\* The last text of a row that ends its turn.
LastText(row, b) ==
    /\ row.type = "assistant" /\ row.end
    /\ b \in DOMAIN row.blocks /\ row.blocks[b].kind = "text"
    /\ \A d \in DOMAIN row.blocks : row.blocks[d].kind \in {"text", "interrupt"} => d <= b

LEMMA TurnStartStep ==
  ASSUME NEW rows \in Seq(TranscriptRow), NEW i \in DOMAIN rows
  PROVE  TurnStart(rows, i) = IF BeginsTurn(rows[i]) THEN i ELSE TurnStart(rows, i - 1)
<1> DEFINE starts(n) == { j \in 1 .. n : rows[j].type = "user" /\ ~OnlyResults(rows[j]) }
           begins == BeginsTurn(rows[i])
<1>1. i \in Nat \ {0}
  OBVIOUS
<1>2. /\ TurnStart(rows, i) = IF starts(i) = {} THEN 0
                             ELSE CHOOSE j \in starts(i) : \A k \in starts(i) : k <= j
      /\ TurnStart(rows, i - 1) = IF starts(i - 1) = {} THEN 0
                                 ELSE CHOOSE j \in starts(i - 1) : \A k \in starts(i - 1) : k <= j
  BY DEF TurnStart
<1>3. begins => i \in starts(i)
  BY <1>1 DEF BeginsTurn
<1>4. ~begins => starts(i) = starts(i - 1)
  BY <1>1 DEF BeginsTurn
<1>5. starts(i) \subseteq 1 .. i
  OBVIOUS
<1> HIDE DEF starts
<1>6. CASE begins
  <2> DEFINE S == starts(i)
             m == CHOOSE j \in S : \A k \in S : k <= j
  <2>1. i \in S /\ S \subseteq 1 .. i
    BY <1>3, <1>5, <1>6
  <2> HIDE DEF S
  <2>2. \A k \in S : k <= i
    BY <1>1, <2>1
  <2>3. m \in S /\ \A k \in S : k <= m
    BY <2>1, <2>2
  <2> HIDE DEF m
  <2>4. m = i
    BY <1>1, <2>1, <2>3
  <2> QED
    BY <1>2, <1>6, <2>1, <2>4 DEF S, m
<1>7. CASE ~begins
  BY <1>2, <1>4, <1>7
<1> QED
  BY <1>6, <1>7

LEMMA TurnBlocksTyped ==
  ASSUME NEW rows \in Seq(TranscriptRow), NEW i \in 0 .. Len(rows), NEW first \in 0 .. i
  PROVE  /\ TurnBlocks(rows, first, i) \in Seq(Seq(Block))
         /\ Len(TurnBlocks(rows, first, i)) = i - first
<1> DEFINE n == i - first
           t == TurnBlocks(rows, first, i)
<1>1. n \in Nat
  OBVIOUS
<1>2. t = [ k \in 1 .. n |-> CallsShown(rows[first + k]) ]
  BY DEF TurnBlocks
<1>3. \A k \in 1 .. n : CallsShown(rows[first + k]) \in Seq(Block)
  <2> SUFFICES ASSUME NEW k \in 1 .. n PROVE CallsShown(rows[first + k]) \in Seq(Block)
    OBVIOUS
  <2>1. rows[first + k] \in TranscriptRow
    OBVIOUS
  <2>2. ToolBlocks(rows[first + k]) \in Seq(Block)
    BY <2>1, BlocksTyped DEF ToolBlocks
  <2> QED
    BY <2>2 DEF CallsShown
<1> HIDE DEF t, n
<1>4. t \in Seq(Seq(Block)) /\ Len(t) = n
  BY <1>1, <1>2, <1>3
<1> QED
  BY <1>4 DEF t, n

LEMMA TurnToolsIs ==
  ASSUME NEW rows, NEW i
  PROVE  TurnTools(rows, i) = Len(FlattenSeq(TurnBlocks(rows, TurnStart(rows, i), i)))
BY DEF TurnTools, TurnBlocks, CallsShown

LEMMA FlattenMore ==
  ASSUME NEW S, NEW seqs \in Seq(Seq(S)), NEW t \in Seq(S)
  PROVE  FlattenSeq(Append(seqs, t)) = FlattenSeq(seqs) \o t
<1>1. \A s : Facts!FlattenSeq(s) = FlattenSeq(s)
  BY DEF Facts!FlattenSeq, FlattenSeq
<1>2. Facts!FlattenSeq(Append(seqs, t)) = Facts!FlattenSeq(seqs) \o t
  BY Facts!FlattenOneMore
<1> QED
  BY <1>1, <1>2

LEMMA TurnToolsStep ==
  ASSUME NEW rows \in Seq(TranscriptRow), NEW i \in DOMAIN rows
  PROVE  TurnTools(rows, i) = IF BeginsTurn(rows[i]) THEN 0
                              ELSE TurnTools(rows, i - 1) + Len(CallsShown(rows[i]))
<1> DEFINE first == TurnStart(rows, i)
<1>1. i \in Nat \ {0} /\ i \in 0 .. Len(rows) /\ i - 1 \in 0 .. Len(rows) /\ i - 1 \in Nat
  OBVIOUS
<1>2. TurnTools(rows, i) = Len(FlattenSeq(TurnBlocks(rows, first, i)))
  BY TurnToolsIs
<1>3. CASE BeginsTurn(rows[i])
  <2>1. first = i
    BY <1>3, TurnStartStep
  <2>2. TurnBlocks(rows, i, i) = << >>
    BY <1>1 DEF TurnBlocks
  <2>3. FlattenSeq(<< >>) = << >>
    <3>1. \A s : Facts!FlattenSeq(s) = FlattenSeq(s)
      BY DEF Facts!FlattenSeq, FlattenSeq
    <3>2. << >> \in Seq(Seq({}))
      OBVIOUS
    <3>3. FlattenSeq(<< >>) \in Seq({})
      BY <3>2, FlattenedTyped
    <3> DEFINE t == FlattenSeq(<< >>)
    <3> HIDE DEF t
    <3>4. t \in Seq({})
      BY <3>3 DEF t
    <3>5. t = << >>
      BY <3>4
    <3> QED
      BY <3>5 DEF t
  <2>4. Len(<< >>) = 0
    OBVIOUS
  <2> QED
    BY <1>2, <1>3, <2>1, <2>2, <2>3, <2>4
<1>4. CASE ~BeginsTurn(rows[i])
  <2>1. first = TurnStart(rows, i - 1) /\ first \in 0 .. i - 1
    BY <1>1, <1>4, TurnStartStep, TurnStartIs
  <2>2. TurnTools(rows, i - 1) = Len(FlattenSeq(TurnBlocks(rows, first, i - 1)))
    BY <2>1, TurnToolsIs
  <2> HIDE DEF first
  <2> DEFINE t == TurnBlocks(rows, first, i - 1)
             n == (i - 1) - first
             calls == CallsShown(rows[i])
  <2>3. t \in Seq(Seq(Block)) /\ Len(t) = n /\ n \in Nat
    <3> DEFINE m == i - 1
    <3>1. m \in 0 .. Len(rows) /\ first \in 0 .. m /\ m - first \in Nat
      BY <1>1, <2>1
    <3> HIDE DEF m
    <3> DEFINE u == TurnBlocks(rows, first, m)
    <3>2. u \in Seq(Seq(Block)) /\ Len(u) = m - first
      BY <3>1, TurnBlocksTyped
    <3> HIDE DEF u
    <3> QED
      BY <3>1, <3>2 DEF u, m
  <2>4. calls \in Seq(Block)
    <3>1. rows[i] \in TranscriptRow
      OBVIOUS
    <3>2. ToolBlocks(rows[i]) \in Seq(Block)
      BY <3>1, BlocksTyped DEF ToolBlocks
    <3> QED
      BY <3>2 DEF CallsShown
  <2>5. TurnBlocks(rows, first, i) = Append(t, calls)
    <3> DEFINE u == TurnBlocks(rows, first, i)
    <3>1. DOMAIN u = 1 .. n + 1 /\ u = [ k \in 1 .. n + 1 |-> u[k] ]
      BY <1>1, <2>1 DEF TurnBlocks
    <3>2. \A k \in 1 .. n : u[k] = t[k]
      BY <1>1, <2>1 DEF TurnBlocks
    <3>3. u[n + 1] = calls
      <4>1. first + (n + 1) = i
        BY <1>1, <2>1
      <4>2. n + 1 \in 1 .. i - first
        BY <1>1, <2>1
      <4> QED
        BY <4>1, <4>2 DEF TurnBlocks
    <3> HIDE DEF u, t, calls, n
    <3>4. t \in Seq(Seq(Block)) /\ Len(t) = n /\ n \in Nat
      BY <2>3
    <3>5. \A k \in 1 .. n + 1 : u[k] = Append(t, calls)[k]
      BY <3>2, <3>3, <3>4
    <3>6. u = Append(t, calls)
      <4> DEFINE v == Append(t, calls)
      <4>1. DOMAIN v = 1 .. n + 1 /\ v = [ k \in 1 .. n + 1 |-> v[k] ]
        <5>1. calls \in Seq(Block)
          BY <2>4
        <5>2. v \in Seq(Seq(Block)) /\ Len(v) = n + 1
          BY <3>4, <5>1
        <5> HIDE DEF v
        <5> QED
          BY <3>4, <5>2
      <4> HIDE DEF v
      <4>2. \A k \in 1 .. n + 1 : u[k] = v[k]
        BY <3>5 DEF v
      <4>3. u = v
        BY <3>1, <4>1, <4>2
      <4> QED
        BY <4>3 DEF v
    <3> QED
      BY <3>6 DEF u
  <2> HIDE DEF t, calls
  <2>6. FlattenSeq(Append(t, calls)) = FlattenSeq(t) \o calls /\ FlattenSeq(t) \in Seq(Block)
    BY <2>3, <2>4, FlattenMore, FlattenedTyped
  <2>7. Len(FlattenSeq(t) \o calls) = Len(FlattenSeq(t)) + Len(calls)
    BY <2>4, <2>6
  <2> QED
    BY <1>2, <1>4, <2>2, <2>5, <2>6, <2>7 DEF t, calls
<1> QED
  BY <1>3, <1>4

\* A row's metrics do not depend on what is written later.
LEMMA TurnToolsOfPrefix ==
  ASSUME NEW rows \in Seq(TranscriptRow), NEW n \in 0 .. Len(rows), NEW i \in 1 .. n
  PROVE  TurnTools(SubSeq(rows, 1, n), i) = TurnTools(rows, i)
<1> DEFINE part == SubSeq(rows, 1, n)
           starts(s) == { j \in 1 .. i : s[j].type = "user" /\ ~OnlyResults(s[j]) }
<1>1. \A j \in 1 .. i : part[j] = rows[j]
  OBVIOUS
<1> HIDE DEF part
<1>2. starts(part) = starts(rows)
  BY <1>1
<1>3. TurnStart(part, i) = TurnStart(rows, i)
  <2> DEFINE S == starts(part)
             T == starts(rows)
  <2>1. /\ TurnStart(part, i) = IF S = {} THEN 0 ELSE CHOOSE j \in S : \A k \in S : k <= j
        /\ TurnStart(rows, i) = IF T = {} THEN 0 ELSE CHOOSE j \in T : \A k \in T : k <= j
    BY DEF TurnStart
  <2>2. S = T
    BY <1>2
  <2> HIDE DEF S, T
  <2> QED
    BY <2>1, <2>2
<1>4. TurnStart(rows, i) \in 0 .. i
  BY TurnStartIs
<1> DEFINE first == TurnStart(rows, i)
<1> HIDE DEF first
<1>5. TurnBlocks(part, first, i) = TurnBlocks(rows, first, i)
  <2>1. \A k \in 1 .. i - first : part[first + k] = rows[first + k]
    BY <1>1, <1>4 DEF first
  <2> QED
    BY <2>1 DEF TurnBlocks
<1> QED
  BY <1>3, <1>5, TurnToolsIs DEF first, part

\* What is shown of a block: nothing, or a row whose role tells a text.
LEMMA ShownOfBlock ==
  ASSUME NEW i, NEW b, NEW row
  PROVE  \/ BlockHistory(i, b, row) = << >>
         \/ \E one : /\ BlockHistory(i, b, row) = << one >> /\ one.id = << 0, i, b >>
                     /\ row.blocks[b].kind \notin {"interrupt", "thinking"}
                     /\ one.role = IF row.blocks[b].kind \in ToolKinds THEN row.blocks[b].kind
                                   ELSE "assistant"
<1> DEFINE kind == row.blocks[b].kind
           role == IF kind \in ToolKinds THEN kind ELSE "assistant"
           one  == HistoryRow(<< 0, i, b >>, BlockKey(0, i, b), role, row.ts)
<1>1. one.id = << 0, i, b >> /\ one.role = role
  BY DEF HistoryRow
<1>2. BlockHistory(i, b, row) = IF kind \in {"interrupt", "thinking", "result", "cancelled"}
                                THEN << >> ELSE << one >>
  BY DEF BlockHistory
<1> HIDE DEF one, role, kind
<1>3. kind \notin {"interrupt", "thinking", "result", "cancelled"} => kind \notin {"interrupt", "thinking"}
  OBVIOUS
<1> QED
  BY <1>1, <1>2, <1>3 DEF role, kind

\* The last text is the last row of its role in what the blocks give.
LEMMA LastTextIsLast ==
  ASSUME NEW i \in Nat, NEW row \in TranscriptRow, NEW b, LastText(row, b),
         \A d \in DOMAIN row.blocks : row.blocks[d].kind \in ReplyKinds
  PROVE  LET parsed == FlattenSeq([ d \in DOMAIN row.blocks |-> BlockHistory(i, d, row) ])
         IN \A k \in DOMAIN parsed :
               /\ parsed[k].id[3] \in DOMAIN row.blocks
               /\ parsed[k].id[3] = b =>
                    /\ parsed[k].role = "assistant"
                    /\ \A j \in DOMAIN parsed : parsed[j].role = "assistant" => j <= k
<1> DEFINE n == Len(row.blocks)
           each == [ d \in DOMAIN row.blocks |-> BlockHistory(i, d, row) ]
           parsed == FlattenSeq(each)
<1>1. n \in Nat /\ DOMAIN row.blocks = 1 .. n
  <2>1. row.blocks \in Seq(Block)
    BY DEF TranscriptRow
  <2> QED
    BY <2>1
<1>2. \A d \in 1 .. n : BlockHistory(i, d, row) \in Seq(HistoryRows)
  BY <1>1, BlockHistoryTyped
<1>3. each = [ d \in 1 .. n |-> BlockHistory(i, d, row) ]
  BY <1>1
<1> HIDE DEF n
<1>4. \A d \in 1 .. n : each[d] = BlockHistory(i, d, row)
  BY <1>3
<1> HIDE DEF each
<1>5. each \in Seq(Seq(HistoryRows)) /\ Len(each) = n
  BY <1>1, <1>2, <1>3
<1>6. \E f, g : Facts!Indexed(Facts!FlattenSeq(each), each, n, f, g)
  BY <1>5, Facts!FlattenIndexed
<1>7. PICK f, g : Facts!Indexed(parsed, each, n, f, g)
  BY <1>6 DEF Facts!FlattenSeq, FlattenSeq
<1>8. parsed \in Seq(HistoryRows)
  BY <1>5, FlattenedTyped
<1> HIDE DEF parsed
<1>9. DOMAIN parsed = 1 .. Len(parsed) /\ Len(parsed) \in Nat
  BY <1>8
<1>10. ASSUME NEW k \in DOMAIN parsed
       PROVE  /\ f[k] \in 1 .. n /\ g[k] = 1 /\ parsed[k].id[3] = f[k]
              /\ row.blocks[f[k]].kind \notin {"interrupt", "thinking"}
              /\ parsed[k].role = IF row.blocks[f[k]].kind \in ToolKinds
                                  THEN row.blocks[f[k]].kind ELSE "assistant"
  <2> DEFINE d == f[k]
             l == g[k]
  <2>1. d \in 1 .. n /\ l \in 1 .. Len(each[d]) /\ parsed[k] = each[d][l]
    BY <1>7, <1>9 DEF Facts!Indexed
  <2> HIDE DEF d, l
  <2>2. BlockHistory(i, d, row) # << >>
    <3>1. Len(<< >>) = 0
      OBVIOUS
    <3> QED
      BY <1>4, <2>1, <3>1
  <2>3. PICK one : /\ BlockHistory(i, d, row) = << one >> /\ one.id = << 0, i, d >>
                   /\ row.blocks[d].kind \notin {"interrupt", "thinking"}
                   /\ one.role = IF row.blocks[d].kind \in ToolKinds THEN row.blocks[d].kind
                                 ELSE "assistant"
    BY <2>2, ShownOfBlock
  <2>4. Len(<< one >>) = 1 /\ << one >>[1] = one /\ << 0, i, d >>[3] = d
    OBVIOUS
  <2>5. l = 1 /\ parsed[k] = one
    BY <1>4, <2>1, <2>3, <2>4
  <2> QED
    BY <2>1, <2>3, <2>4, <2>5 DEF d, l
<1>11. ASSUME NEW k \in DOMAIN parsed, parsed[k].id[3] = b PROVE parsed[k].role = "assistant"
  <2>1. row.blocks[b].kind = "text" /\ f[k] = b
    BY <1>10, <1>11 DEF LastText
  <2> QED
    BY <1>10, <2>1 DEF ToolKinds
<1>12. ASSUME NEW k \in DOMAIN parsed, parsed[k].id[3] = b,
              NEW j \in DOMAIN parsed, parsed[j].role = "assistant"
       PROVE  j <= k
  <2>1. f[k] = b /\ f[k] \in 1 .. n /\ f[j] \in 1 .. n /\ g[k] = 1 /\ g[j] = 1
    BY <1>10, <1>12
  <2>2. row.blocks[f[j]].kind \notin ToolKinds
    BY <1>10, <1>12 DEF ToolKinds
  <2>3. row.blocks[f[j]].kind = "text"
    <3>1. row.blocks[f[j]].kind \in ReplyKinds
      BY <1>1, <2>1
    <3> QED
      BY <1>10, <2>2, <3>1 DEF ReplyKinds
  <2>4. f[j] <= f[k]
    <3>1. \A d \in DOMAIN row.blocks : row.blocks[d].kind \in {"text", "interrupt"} => d <= b
      BY DEF LastText
    <3> QED
      BY <1>1, <2>1, <2>3, <3>1
  <2>5. k < j => f[k] < f[j] \/ (f[k] = f[j] /\ g[k] < g[j])
    BY <1>7, <1>9 DEF Facts!Indexed
  <2>6. ~(k < j)
    BY <1>1, <2>1, <2>4, <2>5
  <2> QED
    BY <1>9, <2>6
<1> QED
  BY <1>1, <1>10, <1>11, <1>12 DEF parsed, each

LEMMA LastTextHasMetrics ==
  ASSUME NEW rows \in Seq(TranscriptRow), NEW i \in DOMAIN rows, NEW b, LastText(rows[i], b),
         \A d \in DOMAIN rows[i].blocks : rows[i].blocks[d].kind \in ReplyKinds
  PROVE  \A k \in DOMAIN AssistantHistory(rows, i) :
            AssistantHistory(rows, i)[k].id[3] = b =>
              AssistantHistory(rows, i)[k].chip = << TurnTools(rows, i) >>
<1> DEFINE row == rows[i]
           n == Len(row.blocks)
           each == [ d \in DOMAIN row.blocks |-> BlockHistory(i, d, row) ]
           parsed == FlattenSeq(each)
           tools == TurnTools(rows, i)
           shown == WithMetrics(parsed, tools)
           marker == HistoryRow(<< 0, i, n + 1 >>, << "interrupt", 0, i, 0 >>, "system", row.ts + 1)
           rest == IF IsInterrupt(row) THEN << marker >> ELSE << >>
<1>1. i \in Nat /\ row \in TranscriptRow /\ row.end
  BY DEF LastText
<1>2. tools \in Nat
  BY TurnToolsTyped
<1>3. AssistantHistory(rows, i) = shown \o rest
  BY <1>1 DEF AssistantHistory
<1>4. \A k \in DOMAIN parsed :
        /\ parsed[k].id[3] \in DOMAIN row.blocks
        /\ parsed[k].id[3] = b =>
             /\ parsed[k].role = "assistant"
             /\ \A j \in DOMAIN parsed : parsed[j].role = "assistant" => j <= k
  BY <1>1, LastTextIsLast
<1>5. n \in Nat /\ DOMAIN row.blocks = 1 .. n /\ b \in 1 .. n
  <2>1. row.blocks \in Seq(Block)
    BY <1>1 DEF TranscriptRow
  <2> QED
    BY <2>1 DEF LastText
<1>6. parsed \in Seq(HistoryRows)
  <2>1. \A d \in 1 .. n : BlockHistory(i, d, row) \in Seq(HistoryRows)
    BY <1>1, <1>5, BlockHistoryTyped
  <2>2. each = [ d \in 1 .. n |-> BlockHistory(i, d, row) ]
    BY <1>5
  <2> HIDE DEF each, n
  <2>3. each \in Seq(Seq(HistoryRows))
    BY <1>5, <2>1, <2>2
  <2> QED
    BY <2>3, FlattenedTyped
<1> HIDE DEF parsed, n, tools
<1>7. /\ shown \in Seq(HistoryRows) /\ Len(shown) = Len(parsed)
      /\ \A k \in DOMAIN parsed : shown[k].id = parsed[k].id
  BY <1>2, <1>6, MetricsIds
<1>8. ASSUME NEW k \in DOMAIN parsed, parsed[k].id[3] = b PROVE shown[k].chip = << tools >>
  <2>1. shown[k] = [parsed[k] EXCEPT !.chip = << tools >>]
    BY <1>4, <1>8 DEF WithMetrics
  <2>2. parsed[k] \in HistoryRows
    BY <1>6
  <2> QED
    BY <2>1, <2>2 DEF HistoryRows
<1> HIDE DEF shown
<1>9. rest \in Seq(HistoryRows) /\ (\A k \in DOMAIN rest : rest[k].id[3] = n + 1)
  <2>1. marker.id = << 0, i, n + 1 >>
    BY IdOfHistory
  <2>2. marker \in HistoryRows
    <3>1. << 0, i, n + 1 >> \in Ids
      BY <1>1, <1>5, Keys
    <3>2. << "interrupt", 0, i, 0 >> \in Key
      BY <1>1, OtherKeys DEF KeyKinds
    <3>3. "system" \in Roles /\ row.ts + 1 \in Nat
      BY <1>1 DEF Roles, TranscriptRow
    <3> QED
      BY <3>1, <3>2, <3>3, RowOfHistory
  <2> HIDE DEF marker
  <2>3. rest \in Seq(HistoryRows) /\ (rest = << >> \/ rest = << marker >>)
    BY <2>2
  <2> HIDE DEF rest
  <2>4. OfBlock(rest, 0, i, n + 1)
    BY <2>1, <2>3, NoneOrOne
  <2> QED
    BY <2>3, <2>4 DEF OfBlock
<1> HIDE DEF rest
<1>10. ASSUME NEW k \in DOMAIN (shown \o rest), (shown \o rest)[k].id[3] = b
       PROVE  (shown \o rest)[k].chip = << tools >>
  <2> DEFINE s == shown \o rest
             m == Len(shown)
             l == Len(rest)
  <2>1. /\ m \in Nat /\ l \in Nat /\ DOMAIN s = 1 .. m + l
        /\ DOMAIN shown = 1 .. m /\ DOMAIN rest = 1 .. l /\ DOMAIN parsed = 1 .. m
        /\ \A j \in 1 .. m : s[j] = shown[j]
        /\ \A j \in m + 1 .. m + l : s[j] = rest[j - m]
    BY <1>6, <1>7, <1>9
  <2>2. k \in DOMAIN s /\ s[k].id[3] = b
    BY <1>10
  <2> HIDE DEF s, m, l
  <2>3. CASE k \in 1 .. m
    <3>1. s[k] = shown[k] /\ shown[k].id = parsed[k].id /\ k \in DOMAIN parsed
      BY <1>7, <2>1, <2>3
    <3>2. shown[k].chip = << tools >>
      BY <1>8, <2>2, <3>1
    <3> QED
      BY <3>1, <3>2 DEF s
  <2>4. CASE k \in m + 1 .. m + l
    <3>1. s[k] = rest[k - m] /\ k - m \in DOMAIN rest
      BY <2>1, <2>4
    <3>2. s[k].id[3] = n + 1
      BY <1>9, <3>1
    <3> QED
      BY <1>5, <2>2, <3>2
  <2> QED
    BY <2>1, <2>2, <2>3, <2>4
<1> QED
  BY <1>3, <1>10 DEF tools

\* The history shows a turn's metrics under its last text.
THEOREM MetricsInHistory ==
  ASSUME NEW rows \in Seq(TranscriptRow), NEW i \in DOMAIN rows, NEW b, LastText(rows[i], b),
         \A d \in DOMAIN rows[i].blocks : rows[i].blocks[d].kind \in ReplyKinds,
         NEW k \in DOMAIN ParentHistory(rows), ParentHistory(rows)[k].id = << 0, i, b >>
  PROVE  ParentHistory(rows)[k].chip = << TurnTools(rows, i) >>
<1> DEFINE n == Len(rows)
           each == [ l \in DOMAIN rows |-> EntryHistory(rows, l) ]
           all == FlattenSeq(each)
<1>1. n \in Nat /\ DOMAIN rows = 1 .. n
  OBVIOUS
<1>2. \A l \in DOMAIN rows : /\ EntryHistory(rows, l) \in Seq(HistoryRows)
                             /\ OfRow(EntryHistory(rows, l), 0, l)
  BY EntryHistoryTyped, EntryDistinct
<1>3. all = ParentHistory(rows)
  BY DEF ParentHistory
<1> HIDE DEF n
<1>4. /\ each \in Seq(Seq(HistoryRows)) /\ DOMAIN each = DOMAIN rows
      /\ \A l \in DOMAIN rows : each[l] = EntryHistory(rows, l)
  BY <1>1, <1>2
<1> HIDE DEF each
<1>5. PICK l \in DOMAIN each : \E j \in DOMAIN each[l] : all[k] = each[l][j]
  BY <1>3, <1>4, FlattenedRows
<1>6. PICK j \in DOMAIN each[l] : all[k] = each[l][j]
  BY <1>5
<1>7. << 0, i, b >>[2] = i /\ << 0, i, b >>[3] = b
  OBVIOUS
<1>8. l = i
  <2>1. each[l][j].id[2] = l
    BY <1>2, <1>4 DEF OfRow
  <2> QED
    BY <1>3, <1>6, <1>7, <2>1
<1>9. each[i] = AssistantHistory(rows, i)
  BY <1>4 DEF EntryHistory, LastText
<1>10. AssistantHistory(rows, i)[j].id[3] = b /\ j \in DOMAIN AssistantHistory(rows, i)
  BY <1>3, <1>6, <1>7, <1>8, <1>9
<1>11. AssistantHistory(rows, i)[j].chip = << TurnTools(rows, i) >>
  BY <1>10, LastTextHasMetrics
<1> QED
  BY <1>3, <1>6, <1>8, <1>9, <1>11
===============================================================================
