------------------------- MODULE TranscriptSyncProofs -------------------------
(***************************************************************************)
(* Proofs about TranscriptSync, for any scripts and page limits: what a    *)
(* transcript is parsed to and what observers emit is well typed; the      *)
(* numbers that the phone is told agree, live and in the history, before a *)
(* restart and after; the pages of a history cover each row once; a turn   *)
(* that is over is shown so, with the chips the history will show; and the *)
(* subagents' observers count each call and each token once.               *)
(***************************************************************************)
EXTENDS TranscriptSync, SessionHistoryProofs

-----------------------------------------------------------------------------
(***************************************************************************)
(* What the session's observer emits                                       *)
(***************************************************************************)

EventKinds == {"user", "assistant", "thinking", "tool", "result", "system", "command", "compact",
               "subagent"}
Events == [id : Ids, key : Key, kind : EventKinds, n : Nat, chip : Seq(Nat)]
ObserverRecords ==
    [active : BOOLEAN, start : Nat, offset : Nat, textLen : Nat, thinkLen : Nat,
     emitted : SUBSET Nat, pending : SUBSET Nat, justInterrupted : BOOLEAN, turnTools : Nat,
     status : {"running", "ready"}]
Observers == { o \in ObserverRecords : IsFiniteSet(o.pending) }

\* What a row does not change, and what it may leave behind.
Place(o) == << o.active, o.start, o.offset >>
Observing(place) == { o \in Observers : Place(o) = place }
Emissions(place) == [obs : Observing(place), out : Seq(Events)]

LEMMA EventTyped ==
  ASSUME NEW id \in Ids, NEW key \in Key, NEW kind \in EventKinds, NEW n \in Nat, NEW chip \in Seq(Nat)
  PROVE  Event(id, key, kind, n, chip) \in Events
BY DEF Event, Events

LEMMA EmissionIs ==
  ASSUME NEW place, NEW o \in Observing(place), NEW out \in Seq(Events)
  PROVE  [obs |-> o, out |-> out] \in Emissions(place)
BY DEF Emissions

LEMMA NewTurnTyped ==
  ASSUME NEW place, NEW o \in Observing(place), NEW row, NEW status \in {"running", "ready"}
  PROVE  /\ NewTurn(o, row) \in Observing(place)
         /\ [NewTurn(o, row) EXCEPT !.status = status] \in Observing(place)
<1>1. NewTurn(o, row) \in ObserverRecords
  BY DEF Observing, Observers, ObserverRecords, NewTurn
<1>2. NewTurn(o, row).pending = o.pending /\ Place(NewTurn(o, row)) = place
  BY DEF Observing, Observers, ObserverRecords, NewTurn, Place
<1>3. IsFiniteSet(o.pending)
  BY DEF Observing, Observers
<1> DEFINE t == NewTurn(o, row)
<1>4. t \in ObserverRecords /\ t.pending = o.pending /\ Place(t) = place
  BY <1>1, <1>2
<1> HIDE DEF t
<1>5. [t EXCEPT !.status = status] \in ObserverRecords
  BY <1>4 DEF ObserverRecords
<1>6. [t EXCEPT !.status = status].pending = o.pending /\ Place([t EXCEPT !.status = status]) = place
  BY <1>4 DEF ObserverRecords, Place
<1> QED
  BY <1>3, <1>4, <1>5, <1>6 DEF Observing, Observers, t

LEMMA InterruptedTyped ==
  ASSUME NEW place, NEW o \in Observing(place), NEW i \in Nat
  PROVE  Interrupted(o, i) \in Emissions(place)
<1> DEFINE closes(t) == Event(<< 0, i, t >>, HashKey("tool_result_interrupt", i, t), "result", t, << >>)
           marker == Event(<< 0, i, 0 >>, HashKey("system_interrupt", i, 0), "system", 0, << >>)
           ended == [o EXCEPT !.justInterrupted = TRUE, !.pending = {}, !.status = "ready"]
           n == Cardinality(o.pending)
           closing == [ k \in 1 .. n |-> closes(Ascending(o.pending)[k]) ]
<1>1. o \in ObserverRecords /\ IsFiniteSet(o.pending) /\ Place(o) = place /\ o.pending \in SUBSET Nat
  BY DEF Observing, Observers, ObserverRecords
<1>2. ended \in ObserverRecords
  BY <1>1 DEF ObserverRecords
<1>3. ended.pending = {} /\ Place(ended) = place
  BY <1>1 DEF ObserverRecords, Place
<1>4. IsFiniteSet({})
  BY FS_EmptySet
<1> HIDE DEF ended
<1>5. ended \in Observing(place)
  BY <1>2, <1>3, <1>4 DEF Observing, Observers
<1>6. \A t \in Nat : closes(t) \in Events
  <2> SUFFICES ASSUME NEW t \in Nat PROVE closes(t) \in Events
    OBVIOUS
  <2>1. << 0, i, t >> \in Ids /\ HashKey("tool_result_interrupt", i, t) \in Key
    BY Keys, OtherKeys DEF KeyKinds
  <2>2. "result" \in EventKinds /\ << >> \in Seq(Nat)
    BY DEF EventKinds
  <2> QED
    BY <2>1, <2>2, EventTyped
<1>7. marker \in Events
  <2>1. << 0, i, 0 >> \in Ids /\ HashKey("system_interrupt", i, 0) \in Key
    BY Keys, OtherKeys DEF KeyKinds
  <2>2. "system" \in EventKinds /\ << >> \in Seq(Nat)
    BY DEF EventKinds
  <2> QED
    BY <2>1, <2>2, EventTyped
<1>8. n \in Nat /\ Ascending(o.pending) \in [1 .. n -> o.pending]
  BY <1>1, AscendingTyped
<1> HIDE DEF closes, marker, n
<1>9. closing \in Seq(Events)
  <2>1. \A k \in 1 .. n : closes(Ascending(o.pending)[k]) \in Events
    BY <1>1, <1>6, <1>8
  <2> QED
    BY <1>8, <2>1
<1> HIDE DEF closing
<1>10. closing \o << marker >> \in Seq(Events)
  BY <1>7, <1>9
<1>11. Interrupted(o, i) = [obs |-> ended, out |-> closing \o << marker >>]
  BY DEF Interrupted, ended, closing, marker, closes, n
<1> QED
  BY <1>5, <1>10, <1>11, EmissionIs

LEMMA UserBlockTyped ==
  ASSUME NEW place, NEW acc \in Emissions(place), NEW i \in Nat, NEW block \in Block
  PROVE  UserBlock(acc, i, block) \in Emissions(place)
<1> DEFINE kind == IF IsLocalCommand(block.kind) THEN "command" ELSE "user"
           text == Event(<< 0, i, 0 >>, RowKey(0, i), kind, 0, << >>)
           shown == [acc EXCEPT !.out = Append(@, text)]
           result == Event(<< 0, i, block.n >>, RowKey(0, i), "result", block.n, << >>)
           closed == [acc.obs EXCEPT !.pending = @ \ {block.n}]
<1>1. /\ acc = [obs |-> acc.obs, out |-> acc.out]
      /\ acc.obs \in Observing(place) /\ acc.out \in Seq(Events) /\ block.n \in Nat
  BY DEF Emissions, Block
<1>2. /\ acc.obs \in ObserverRecords /\ IsFiniteSet(acc.obs.pending) /\ Place(acc.obs) = place
  BY <1>1 DEF Observing, Observers
<1>3. /\ << 0, i, 0 >> \in Ids /\ << 0, i, block.n >> \in Ids /\ RowKey(0, i) \in Key
      /\ kind \in EventKinds /\ "result" \in EventKinds /\ << >> \in Seq(Nat)
  BY <1>1, Keys DEF EventKinds
<1> HIDE DEF kind
<1>4. text \in Events /\ result \in Events
  <2>1. 0 \in Nat
    OBVIOUS
  <2> QED
    BY <1>1, <1>3, <2>1, EventTyped
<1>5. closed \in Observing(place)
  <2>1. closed \in ObserverRecords
    BY <1>2 DEF ObserverRecords
  <2>2. closed.pending = acc.obs.pending \ {block.n} /\ Place(closed) = place
    BY <1>2 DEF ObserverRecords, Place
  <2>3. IsFiniteSet(acc.obs.pending \ {block.n})
    BY <1>2, FS_RemoveElement
  <2> HIDE DEF closed
  <2> QED
    BY <2>1, <2>2, <2>3 DEF Observing, Observers
<1> HIDE DEF text, result, closed
<1>6. Append(acc.out, text) \in Seq(Events) /\ Append(acc.out, result) \in Seq(Events)
  BY <1>1, <1>4
<1>7. [obs |-> acc.obs, out |-> Append(acc.out, text)] \in Emissions(place)
  BY <1>1, <1>6, EmissionIs
<1>8. [obs |-> closed, out |-> Append(acc.out, result)] \in Emissions(place)
  BY <1>5, <1>6, EmissionIs
<1>9. shown = [obs |-> acc.obs, out |-> Append(acc.out, text)]
  BY <1>1
<1> HIDE DEF shown
<1>10. \/ UserBlock(acc, i, block) = shown
       \/ UserBlock(acc, i, block) = [obs |-> closed, out |-> Append(acc.out, result)]
       \/ UserBlock(acc, i, block) = acc
  BY DEF UserBlock, shown, text, kind, closed, result
<1> QED
  BY <1>7, <1>8, <1>9, <1>10

UserBlockOf(i, acc, block) == UserBlock(acc, i, block)
UserRow == INSTANCE SequenceFacts WITH Op <- UserBlockOf

LEMMA UserEntryTyped ==
  ASSUME NEW place, NEW o \in Observing(place), NEW i \in Nat, NEW row \in TranscriptRow
  PROVE  UserEntry(o, i, row) \in Emissions(place)
<1> DEFINE fresh == NewTurn(o, row)
           status == UserStatus(fresh, row)
           begun == [fresh EXCEPT !.status = status]
           start == [obs |-> begun, out |-> << >>]
           read == UserRow!Fold(i, start, row.blocks)
<1>1. UserEntry(o, i, row) = IF IsInterrupt(row) THEN Interrupted(fresh, i) ELSE read
  BY DEF UserEntry, UserBlockOf, UserRow!Fold, UserRow!FoldLeft, UserRow!MapThenFoldSet,
         UserRow!Max, FoldLeft, MapThenFoldSet, Max
<1>2. fresh \in Observing(place)
  BY NewTurnTyped
<1>3. status \in {"running", "ready"}
  BY <1>2 DEF UserStatus, Observing, Observers, ObserverRecords
<1> HIDE DEF status
<1>4. begun \in Observing(place)
  BY <1>3, NewTurnTyped
<1> HIDE DEF fresh, begun
<1>5. row.blocks \in Seq(Block) /\ << >> \in Seq(Events)
  BY DEF TranscriptRow
<1>6. start \in Emissions(place)
  BY <1>4, <1>5, EmissionIs
<1> HIDE DEF start
<1>7. \A acc \in Emissions(place), block \in Block : UserBlockOf(i, acc, block) \in Emissions(place)
  BY UserBlockTyped DEF UserBlockOf
<1>8. read \in Emissions(place)
  BY <1>5, <1>6, <1>7, UserRow!FoldKeeps
<1>9. Interrupted(fresh, i) \in Emissions(place)
  BY <1>2, InterruptedTyped
<1> HIDE DEF read
<1> QED
  BY <1>1, <1>8, <1>9

LEMMA AssistantBlockTyped ==
  ASSUME NEW place, NEW acc \in Emissions(place), NEW i \in Nat, NEW b \in Nat,
         NEW block \in Block, NEW chip \in Seq(Nat)
  PROVE  AssistantBlock(acc, i, b, block, chip) \in Emissions(place)
<1> DEFINE o == acc.obs
           n == block.n
           event(kind, m, c) == Event(<< 0, i, b >>, BlockKey(0, i, b), kind, m, c)
<1>1. acc = [obs |-> o, out |-> acc.out] /\ acc.out \in Seq(Events) /\ o \in Observing(place) /\ n \in Nat
  BY DEF Emissions, Block
<1> HIDE DEF o, n
<1>2. o \in ObserverRecords /\ IsFiniteSet(o.pending) /\ Place(o) = place
  BY <1>1 DEF Observing, Observers
<1>3. << 0, i, b >> \in Ids /\ BlockKey(0, i, b) \in Key /\ << >> \in Seq(Nat) /\ 0 \in Nat
  BY Keys
<1>4. {"assistant", "thinking", "tool"} \subseteq EventKinds
  BY DEF EventKinds
<1>5. event("assistant", 0, chip) \in Events
  BY <1>3, <1>4, EventTyped
<1>6. event("thinking", 0, << >>) \in Events
  BY <1>3, <1>4, EventTyped
<1>7. event("tool", n, << >>) \in Events
  BY <1>1, <1>3, <1>4, EventTyped
<1> HIDE DEF event
<1>8. /\ Append(acc.out, event("assistant", 0, chip)) \in Seq(Events)
      /\ Append(acc.out, event("thinking", 0, << >>)) \in Seq(Events)
      /\ Append(acc.out, event("tool", n, << >>)) \in Seq(Events)
  BY <1>1, <1>5, <1>6, <1>7
<1>9. ASSUME NEW m \in Nat PROVE [o EXCEPT !.textLen = m] \in Observing(place)
  <2> DEFINE t == [o EXCEPT !.textLen = m]
  <2>1. t \in ObserverRecords /\ t.pending = o.pending /\ Place(t) = place
    BY <1>2 DEF ObserverRecords, Place
  <2> HIDE DEF t
  <2>2. t \in Observing(place)
    BY <1>2, <2>1 DEF Observing, Observers
  <2> QED
    BY <2>2 DEF t
<1>10. [o EXCEPT !.thinkLen = n] \in Observing(place)
  <2> DEFINE t == [o EXCEPT !.thinkLen = n]
  <2>1. t \in ObserverRecords /\ t.pending = o.pending /\ Place(t) = place
    BY <1>1, <1>2 DEF ObserverRecords, Place
  <2> HIDE DEF t
  <2>2. t \in Observing(place)
    BY <1>2, <2>1 DEF Observing, Observers
  <2> QED
    BY <2>2 DEF t
<1>11. [o EXCEPT !.emitted = @ \cup {n}, !.pending = @ \cup {n}] \in Observing(place)
  <2> DEFINE t == [o EXCEPT !.emitted = @ \cup {n}, !.pending = @ \cup {n}]
  <2>1. t \in ObserverRecords
    BY <1>1, <1>2 DEF ObserverRecords
  <2>2. t.pending = o.pending \cup {n} /\ Place(t) = place
    BY <1>2 DEF ObserverRecords, Place
  <2>3. IsFiniteSet(o.pending \cup {n})
    BY <1>2, FS_AddElement
  <2> HIDE DEF t
  <2>4. t \in Observing(place)
    BY <2>1, <2>2, <2>3 DEF Observing, Observers
  <2> QED
    BY <2>4 DEF t
<1>12. ToolBlock(acc, i, b, block) \in Emissions(place)
  <2> DEFINE t == [o EXCEPT !.emitted = @ \cup {n}, !.pending = @ \cup {n}]
  <2>1. ToolBlock(acc, i, b, block) = IF n \in o.emitted THEN acc
          ELSE [obs |-> t, out |-> Append(acc.out, event("tool", n, << >>))]
    BY DEF ToolBlock, o, n, event
  <2>2. [obs |-> t, out |-> Append(acc.out, event("tool", n, << >>))] \in Emissions(place)
    BY <1>8, <1>11, EmissionIs
  <2> QED
    BY <2>1, <2>2
<1>13. ThinkingBlock(acc, i, b, block) \in Emissions(place)
  <2> DEFINE t == [o EXCEPT !.thinkLen = n]
  <2>1. ThinkingBlock(acc, i, b, block) = IF n <= o.thinkLen THEN acc
          ELSE [obs |-> t, out |-> Append(acc.out, event("thinking", 0, << >>))]
    BY DEF ThinkingBlock, o, n, event
  <2>2. [obs |-> t, out |-> Append(acc.out, event("thinking", 0, << >>))] \in Emissions(place)
    BY <1>8, <1>10, EmissionIs
  <2> QED
    BY <2>1, <2>2
<1>14. TextBlock(acc, i, b, block, chip) \in Emissions(place)
  <2> DEFINE m == IF n > o.textLen THEN n ELSE o.textLen
             t(k) == [o EXCEPT !.textLen = k]
             seen == [acc EXCEPT !.obs.textLen = n]
  <2>1. m \in Nat
    BY <1>1, <1>2 DEF ObserverRecords
  <2>2. seen = [obs |-> t(n), out |-> acc.out]
    <3> DEFINE q == [acc.obs EXCEPT !.textLen = n]
    <3>1. [acc EXCEPT !.obs = q] = [obs |-> q, out |-> acc.out]
      <4> HIDE DEF q
      <4> QED
        BY DEF Emissions
    <3> QED
      BY <3>1 DEF o
  <2>3. seen \in Emissions(place)
    <3>1. acc.out \in Seq(Events) /\ t(n) \in Observing(place)
      BY <1>1, <1>9
    <3> HIDE DEF t, seen
    <3> QED
      BY <2>2, <3>1, EmissionIs
  <2> HIDE DEF seen, m
  <2>4. t(m) \in Observing(place)
    BY <1>9, <2>1
  <2>5. [obs |-> t(m), out |-> Append(acc.out, event("assistant", 0, chip))] \in Emissions(place)
    BY <1>8, <2>4, EmissionIs
  <2>6. TextBlock(acc, i, b, block, chip) \in
           {seen, acc, [obs |-> t(m), out |-> Append(acc.out, event("assistant", 0, chip))]}
    BY DEF TextBlock, seen, m, o, n, event
  <2> HIDE DEF t
  <2> QED
    BY <2>3, <2>5, <2>6
<1> QED
  BY <1>12, <1>13, <1>14 DEF AssistantBlock

\* An assistant row is read block by block; p is << i, row, turnTools >>.
AssistantBlockOf(p, acc, b) ==
    LET texts == { c \in DOMAIN p[2].blocks : p[2].blocks[c].kind \in {"text", "interrupt"} }
        chipOf(c) == IF p[2].end /\ c \in texts /\ \A d \in texts : d <= c THEN << p[3] >> ELSE << >>
    IN AssistantBlock(acc, p[1], b, p[2].blocks[b], chipOf(b))
AssistantRow == INSTANCE SequenceFacts WITH Op <- AssistantBlockOf

LEMMA AssistantEntryTyped ==
  ASSUME NEW place, NEW o \in Observing(place), NEW i \in Nat, NEW row \in TranscriptRow
  PROVE  AssistantEntry(o, i, row) \in Emissions(place)
<1> DEFINE active == [o EXCEPT !.status = IF o.justInterrupted THEN @ ELSE "running",
                               !.justInterrupted = FALSE,
                               !.turnTools = @ + Len(ToolBlocks(row))]
           start == [obs |-> active, out |-> << >>]
           p == << i, row, active.turnTools >>
           places == [ b \in DOMAIN row.blocks |-> b ]
           read == AssistantRow!Fold(p, start, places)
<1>1. AssistantEntry(o, i, row) = [read EXCEPT !.obs.status = IF row.end THEN "ready" ELSE @]
  BY SMTT(30) DEF AssistantEntry, AssistantBlockOf, AssistantRow!Fold, AssistantRow!FoldLeft,
         AssistantRow!MapThenFoldSet, AssistantRow!Max, FoldLeft, MapThenFoldSet, Max
<1>2. Len(ToolBlocks(row)) \in Nat
  <2>1. ToolBlocks(row) \in Seq(Block)
    BY BlocksTyped DEF ToolBlocks
  <2> QED
    BY <2>1
<1>3. o \in ObserverRecords /\ IsFiniteSet(o.pending) /\ Place(o) = place
  BY DEF Observing, Observers
<1>4. active \in ObserverRecords
  <2> DEFINE status == IF o.justInterrupted THEN o.status ELSE "running"
             tools == o.turnTools + Len(ToolBlocks(row))
  <2>1. status \in {"running", "ready"} /\ tools \in Nat
    BY <1>2, <1>3 DEF ObserverRecords
  <2>2. active = [o EXCEPT !.status = status, !.justInterrupted = FALSE, !.turnTools = tools]
    OBVIOUS
  <2> HIDE DEF status, tools
  <2> QED
    BY <1>3, <2>1, <2>2 DEF ObserverRecords
<1>5. active.pending = o.pending /\ Place(active) = place
  BY <1>3 DEF ObserverRecords, Place
<1> HIDE DEF active
<1>6. active \in Observing(place) /\ active.turnTools \in Nat
  BY <1>3, <1>4, <1>5 DEF Observing, Observers, ObserverRecords
<1>7. start \in Emissions(place)
  <2>1. << >> \in Seq(Events)
    OBVIOUS
  <2> QED
    BY <1>6, <2>1, EmissionIs
<1>8. row.blocks \in Seq(Block)
  BY DEF TranscriptRow
<1>9. places \in Seq(DOMAIN row.blocks)
  BY <1>8
<1>10. ASSUME NEW acc \in Emissions(place), NEW b \in DOMAIN row.blocks
       PROVE  AssistantBlockOf(p, acc, b) \in Emissions(place)
  <2> DEFINE texts == { c \in DOMAIN row.blocks : row.blocks[c].kind \in {"text", "interrupt"} }
             chip == IF row.end /\ b \in texts /\ \A d \in texts : d <= b
                     THEN << active.turnTools >> ELSE << >>
  <2>1. AssistantBlockOf(p, acc, b) = AssistantBlock(acc, i, b, row.blocks[b], chip)
    BY DEF AssistantBlockOf
  <2>2. chip \in Seq(Nat)
    <3>1. << active.turnTools >> \in Seq(Nat)
      BY <1>6
    <3> QED
      BY <3>1
  <2> HIDE DEF chip
  <2>3. row.blocks[b] \in Block /\ b \in Nat
    BY <1>8
  <2> QED
    BY <2>1, <2>2, <2>3, AssistantBlockTyped
<1> HIDE DEF start, p, places
<1>11. read \in Emissions(place)
  BY <1>7, <1>9, <1>10, AssistantRow!FoldKeeps
<1> HIDE DEF read
<1>12. /\ read = [obs |-> read.obs, out |-> read.out] /\ read.out \in Seq(Events)
       /\ read.obs \in Observing(place)
  BY <1>11 DEF Emissions
<1> DEFINE t == read.obs
           ended == [t EXCEPT !.status = IF row.end THEN "ready" ELSE @]
<1>13. t \in ObserverRecords /\ IsFiniteSet(t.pending) /\ Place(t) = place
  BY <1>12 DEF Observing, Observers
<1>14. [read EXCEPT !.obs.status = IF row.end THEN "ready" ELSE @] = [obs |-> ended, out |-> read.out]
  BY <1>12
<1> HIDE DEF t
<1>15. ended \in ObserverRecords
  BY <1>13 DEF ObserverRecords
<1>16. ended.pending = t.pending /\ Place(ended) = place
  BY <1>13 DEF ObserverRecords, Place
<1> HIDE DEF ended
<1>17. ended \in Observing(place)
  BY <1>13, <1>15, <1>16 DEF Observing, Observers
<1> QED
  BY <1>1, <1>12, <1>14, <1>17, EmissionIs

LEMMA ProcessEntryTyped ==
  ASSUME NEW place, NEW o \in Observing(place), NEW i \in Nat, NEW row \in TranscriptRow
  PROVE  ProcessEntry(o, i, row) \in Emissions(place)
<1> DEFINE ready == [o EXCEPT !.status = "ready"]
           event(key, kind) == Event(<< 0, i, 0 >>, key, kind, 0, << >>)
<1>1. << 0, i, 0 >> \in Ids /\ RowKey(0, i) \in Key /\ HashKey("queue_enqueue", i, 0) \in Key
  BY Keys, OtherKeys DEF KeyKinds
<1>2. {"user", "compact", "command"} \subseteq EventKinds /\ << >> \in Seq(Nat) /\ 0 \in Nat
  BY DEF EventKinds
<1>3. /\ event(HashKey("queue_enqueue", i, 0), "user") \in Events
      /\ event(RowKey(0, i), "compact") \in Events /\ event(RowKey(0, i), "command") \in Events
  BY <1>1, <1>2, EventTyped
<1>4. o \in ObserverRecords /\ IsFiniteSet(o.pending) /\ Place(o) = place
  BY DEF Observing, Observers
<1>5. ready \in ObserverRecords
  BY <1>4 DEF ObserverRecords
<1>6. ready.pending = o.pending /\ Place(ready) = place
  BY <1>4 DEF ObserverRecords, Place
<1> HIDE DEF ready, event
<1>7. ready \in Observing(place)
  BY <1>4, <1>5, <1>6 DEF Observing, Observers
<1>8. \A e \in Events : << e >> \in Seq(Events)
  OBVIOUS
<1>9. << >> \in Seq(Events)
  OBVIOUS
<1>10. \A q \in Observing(place), out \in Seq(Events) : [obs |-> q, out |-> out] \in Emissions(place)
  BY EmissionIs
<1>11. row.type \in {"user", "assistant", "enqueue", "boundary", "localout"}
  BY DEF TranscriptRow, RowTypes
<1>12. CASE row.type = "user"
  <2>1. ProcessEntry(o, i, row) = UserEntry(o, i, row)
    BY <1>12 DEF ProcessEntry
  <2> QED
    BY <2>1, UserEntryTyped
<1>13. CASE row.type = "assistant"
  <2>1. ProcessEntry(o, i, row) = AssistantEntry(o, i, row)
    BY <1>13 DEF ProcessEntry
  <2> QED
    BY <2>1, AssistantEntryTyped
<1>14. CASE row.type = "enqueue"
  <2>1. ProcessEntry(o, i, row) = EnqueueEntry(o, i, row)
    BY <1>14 DEF ProcessEntry
  <2>2. \/ EnqueueEntry(o, i, row) = [obs |-> o, out |-> << >>]
        \/ EnqueueEntry(o, i, row) =
             [obs |-> o, out |-> << event(HashKey("queue_enqueue", i, 0), "user") >>]
    BY DEF EnqueueEntry, event
  <2> QED
    BY <1>3, <1>8, <1>9, <1>10, <2>1, <2>2
<1>15. CASE row.type = "boundary"
  <2>1. ProcessEntry(o, i, row) = [obs |-> o, out |-> << event(RowKey(0, i), "compact") >>]
    BY <1>15 DEF ProcessEntry, event
  <2> QED
    BY <1>3, <1>8, <1>10, <2>1
<1>16. CASE row.type = "localout"
  <2>1. ProcessEntry(o, i, row) = [obs |-> ready, out |-> << event(RowKey(0, i), "command") >>]
    BY <1>16 DEF ProcessEntry, event, ready
  <2> QED
    BY <1>3, <1>7, <1>8, <1>10, <2>1
<1> QED
  BY <1>11, <1>12, <1>13, <1>14, <1>15, <1>16

EntryOf(rows, acc, r) ==
    LET next == ProcessEntry(acc.obs, r, rows[r])
    IN [obs |-> next.obs, out |-> acc.out \o next.out]
Entries == INSTANCE SequenceFacts WITH Op <- EntryOf

\* Reading a file leaves where the observer began, and moves it to the end.
LEMMA ReadTyped ==
  ASSUME NEW o \in Observers, NEW rows \in Seq(TranscriptRow), NEW n \in Nat, n \div 2 <= Len(rows),
         o.offset <= n
  PROVE  ReadNewEntries(o, rows, n) \in
           Emissions(<< o.active, o.start, IF o.active THEN n ELSE o.offset >>)
<1> DEFINE new == RowsBetween(o.start, o.offset, n)
           moved == [o EXCEPT !.offset = n]
           start == [obs |-> moved, out |-> << >>]
           place == << o.active, o.start, n >>
           read == Entries!Fold(rows, start, new)
<1>1. ReadNewEntries(o, rows, n) =
        IF ~o.active \/ n <= o.offset THEN [obs |-> o, out |-> << >>] ELSE read
  BY DEF ReadNewEntries, EntryOf, Entries!Fold, Entries!FoldLeft, Entries!MapThenFoldSet,
         Entries!Max, FoldLeft, MapThenFoldSet, Max
<1>2. o \in ObserverRecords /\ IsFiniteSet(o.pending) /\ o.offset \in Nat
  BY DEF Observers, ObserverRecords
<1>3. moved \in ObserverRecords
  BY <1>2 DEF ObserverRecords
<1>4. moved.pending = o.pending /\ Place(moved) = place
  BY <1>2 DEF ObserverRecords, Place
<1> HIDE DEF moved, place
<1>5. moved \in Observing(place)
  BY <1>2, <1>3, <1>4 DEF Observing, Observers
<1>6. << >> \in Seq(Events)
  OBVIOUS
<1>7. start \in Emissions(place)
  BY <1>5, <1>6, EmissionIs
<1>8. new \in Seq(DOMAIN rows)
  <2> DEFINE K == { r \in 1 .. n \div 2 : 2 * r > o.offset /\ 2 * r - 1 # o.start }
             m == Cardinality(K)
  <2>1. n \div 2 \in Nat
    OBVIOUS
  <2>2. K \subseteq 1 .. n \div 2
    OBVIOUS
  <2>3. new = Ascending(K)
    BY DEF RowsBetween
  <2> HIDE DEF K
  <2>4. IsFiniteSet(K)
    <3>1. IsFiniteSet(1 .. n \div 2)
      BY <2>1, FS_Interval
    <3> QED
      BY <2>2, <3>1, FS_Subset
  <2>5. K \in SUBSET Nat /\ K \subseteq DOMAIN rows
    BY <2>1, <2>2
  <2>6. m \in Nat /\ Ascending(K) \in [1 .. m -> K]
    BY <2>4, <2>5, AscendingTyped
  <2> HIDE DEF m
  <2>7. Ascending(K) \in [1 .. m -> DOMAIN rows]
    BY <2>5, <2>6
  <2> DEFINE f == Ascending(K)
  <2> HIDE DEF f, new
  <2>8. f \in Seq(DOMAIN rows)
    BY <2>6, <2>7 DEF f
  <2> QED
    BY <2>3, <2>8 DEF f
<1>9. ASSUME NEW acc \in Emissions(place), NEW r \in DOMAIN rows
      PROVE  EntryOf(rows, acc, r) \in Emissions(place)
  <2> DEFINE next == ProcessEntry(acc.obs, r, rows[r])
  <2>1. acc.obs \in Observing(place) /\ acc.out \in Seq(Events)
    BY DEF Emissions
  <2>2. rows[r] \in TranscriptRow /\ r \in Nat
    OBVIOUS
  <2>3. next \in Emissions(place)
    BY <2>1, <2>2, ProcessEntryTyped
  <2>4. EntryOf(rows, acc, r) = [obs |-> next.obs, out |-> acc.out \o next.out]
    BY DEF EntryOf
  <2> HIDE DEF next
  <2>5. next.obs \in Observing(place) /\ next.out \in Seq(Events)
    BY <2>3 DEF Emissions
  <2>6. acc.out \o next.out \in Seq(Events)
    BY <2>1, <2>5
  <2> QED
    BY <2>4, <2>5, <2>6, EmissionIs
<1> HIDE DEF start, new
<1>10. read \in Emissions(place)
  BY <1>7, <1>8, <1>9, Entries!FoldKeeps
<1> HIDE DEF read
<1>11. CASE ~o.active
  <2>1. o \in Observing(<< o.active, o.start, o.offset >>)
    BY DEF Observing, Place
  <2> QED
    BY <1>1, <1>6, <1>11, <2>1, EmissionIs
<1>12. CASE o.active /\ n <= o.offset
  <2>1. n = o.offset
    BY <1>2, <1>12
  <2>2. o \in Observing(<< o.active, o.start, n >>)
    BY <2>1 DEF Observing, Place
  <2> QED
    BY <1>1, <1>6, <1>12, <2>2, EmissionIs
<1>13. CASE o.active /\ ~(n <= o.offset)
  BY <1>1, <1>10, <1>13 DEF place
<1> QED
  BY <1>11, <1>12, <1>13

-----------------------------------------------------------------------------
(***************************************************************************)
(* What the subagents' observer keeps and emits                            *)
(***************************************************************************)

AgentStatuses == {"running", "idle", "done"}
AgentRecords ==
    [known : BOOLEAN, offset : Nat, textLen : Nat, thinkLen : Nat, emitted : SUBSET Nat,
     tools : Nat, status : AgentStatuses, doneEmitted : BOOLEAN]
AgentsAt(n) == { g \in AgentRecords : g.offset = n }
AgentEvents == { e \in Events : e.kind = "subagent" /\ e.chip = << >> }
AgentEmissions(n) == [agent : AgentsAt(n), out : Seq(AgentEvents)]
Archives == {NoArchive} \cup { << n >> : n \in Nat }

LEMMA AgentEmissionIs ==
  ASSUME NEW n, NEW g \in AgentsAt(n), NEW out \in Seq(AgentEvents)
  PROVE  [agent |-> g, out |-> out] \in AgentEmissions(n)
BY DEF AgentEmissions

LEMMA NoAgentTyped == NoAgent \in AgentsAt(0)
BY DEF NoAgent, AgentsAt, AgentRecords, AgentStatuses

LEMMA AgentEventTyped ==
  ASSUME NEW a \in Nat, NEW i \in Nat, NEW b \in Nat, NEW key \in Key, NEW agent
  PROVE  AgentEvent(a, i, b, key, agent) \in AgentEvents
<1>1. << a, i, b >> \in Ids /\ << >> \in Seq(Nat)
  BY Keys
<1>2. "subagent" \in EventKinds
  BY DEF EventKinds
<1>3. (IF agent.status = "done" THEN 1 ELSE 0) \in Nat
  OBVIOUS
<1> DEFINE n == IF agent.status = "done" THEN 1 ELSE 0
<1> HIDE DEF n
<1>4. AgentEvent(a, i, b, key, agent) =
        [id |-> << a, i, b >>, key |-> key, kind |-> "subagent", n |-> n, chip |-> << >>]
  BY DEF AgentEvent, n
<1>5. n \in Nat
  BY <1>3 DEF n
<1> QED
  BY <1>1, <1>2, <1>4, <1>5 DEF Events, AgentEvents

LEMMA StatusOnlyTyped ==
  ASSUME NEW a \in Nat, NEW agent
  PROVE  StatusOnly(a, agent) \in Seq(AgentEvents)
<1>1. << "none", a, 0, 0 >> \in Key
  BY OtherKeys DEF KeyKinds
<1>2. AgentEvent(a, 0, 0, << "none", a, 0, 0 >>, agent) \in AgentEvents
  BY <1>1, AgentEventTyped
<1> QED
  BY <1>2 DEF StatusOnly

LEMMA UserBlockOfAgentTyped ==
  ASSUME NEW n, NEW acc \in AgentEmissions(n), NEW a \in Nat, NEW i \in Nat, NEW block \in Block
  PROVE  UserBlockOfAgent(acc, a, i, block) \in AgentEmissions(n)
<1> DEFINE event == AgentEvent(a, i, block.n, RowKey(a, i), acc.agent)
           longer == Append(acc.out, event)
<1>1. block.n \in Nat /\ RowKey(a, i) \in Key
  BY Keys DEF Block
<1>2. event \in AgentEvents
  BY <1>1, AgentEventTyped
<1>3. acc.out \in Seq(AgentEvents) /\ acc.agent \in AgentsAt(n)
  BY DEF AgentEmissions
<1> HIDE DEF event
<1>4. longer \in Seq(AgentEvents)
  BY <1>2, <1>3
<1> HIDE DEF longer
<1>5. [acc EXCEPT !.out = longer] \in AgentEmissions(n)
  BY <1>4 DEF AgentEmissions
<1>6. UserBlockOfAgent(acc, a, i, block) = acc
      \/ UserBlockOfAgent(acc, a, i, block) = [acc EXCEPT !.out = longer]
  BY DEF UserBlockOfAgent, longer, event
<1> QED
  BY <1>5, <1>6

LEMMA AgentBlockTyped ==
  ASSUME NEW n, NEW acc \in AgentEmissions(n), NEW a \in Nat, NEW i \in Nat, NEW b \in Nat,
         NEW block \in Block
  PROVE  AgentBlock(acc, a, i, b, block) \in AgentEmissions(n)
<1> DEFINE g == acc.agent
           thought == [g EXCEPT !.thinkLen = IF block.n > @ THEN block.n ELSE @]
           called == [g EXCEPT !.emitted = @ \cup {block.n},
                               !.tools = IF block.n \in g.emitted THEN @ ELSE @ + 1]
           said == [g EXCEPT !.textLen = IF block.n > @ THEN block.n ELSE @]
           counted == CASE block.kind = "thinking" -> thought
                        [] block.kind \in ToolKinds -> called
                        [] OTHER -> said
           event == AgentEvent(a, i, b, BlockKey(a, i, b), counted)
<1>1. g \in AgentRecords /\ g.offset = n /\ acc.out \in Seq(AgentEvents) /\ block.n \in Nat
  BY DEF AgentEmissions, AgentsAt, Block
<1> HIDE DEF g
<1>2. thought \in AgentsAt(n)
  <2> DEFINE m == IF block.n > g.thinkLen THEN block.n ELSE g.thinkLen
  <2>1. m \in Nat /\ thought = [g EXCEPT !.thinkLen = m]
    BY <1>1 DEF AgentRecords
  <2> HIDE DEF m
  <2> QED
    BY <1>1, <2>1 DEF AgentRecords, AgentsAt
<1>3. said \in AgentsAt(n)
  <2> DEFINE m == IF block.n > g.textLen THEN block.n ELSE g.textLen
  <2>1. m \in Nat /\ said = [g EXCEPT !.textLen = m]
    BY <1>1 DEF AgentRecords
  <2> HIDE DEF m
  <2> QED
    BY <1>1, <2>1 DEF AgentRecords, AgentsAt
<1>4. called \in AgentsAt(n)
  <2> DEFINE m == IF block.n \in g.emitted THEN g.tools ELSE g.tools + 1
             s == g.emitted \cup {block.n}
  <2>1. m \in Nat /\ s \in SUBSET Nat
    BY <1>1 DEF AgentRecords
  <2>2. called = [g EXCEPT !.emitted = s, !.tools = m]
    OBVIOUS
  <2> HIDE DEF m, s
  <2> QED
    BY <1>1, <2>1, <2>2 DEF AgentRecords, AgentsAt
<1> HIDE DEF thought, called, said
<1>5. counted \in AgentsAt(n)
  BY <1>2, <1>3, <1>4
<1>6. BlockKey(a, i, b) \in Key
  BY Keys
<1>7. event \in AgentEvents
  BY <1>6, AgentEventTyped
<1>8. \/ AgentBlock(acc, a, i, b, block) = [agent |-> counted, out |-> acc.out]
      \/ AgentBlock(acc, a, i, b, block) = [agent |-> counted, out |-> Append(acc.out, event)]
  BY DEF AgentBlock, thought, called, said, g
<1> HIDE DEF counted, event
<1>9. Append(acc.out, event) \in Seq(AgentEvents)
  BY <1>1, <1>7
<1> QED
  BY <1>1, <1>5, <1>8, <1>9, AgentEmissionIs

AgentUserBlockOf(p, acc, block) == UserBlockOfAgent(acc, p[1], p[2], block)
AgentUserRow == INSTANCE SequenceFacts WITH Op <- AgentUserBlockOf
AgentBlockAt(p, acc, b) == AgentBlock(acc, p[1], p[2], b, p[3].blocks[b])
AgentReply == INSTANCE SequenceFacts WITH Op <- AgentBlockAt

LEMMA ProcessAgentEntryTyped ==
  ASSUME NEW n, NEW acc \in AgentEmissions(n), NEW a \in Nat, NEW i \in Nat, NEW row \in TranscriptRow
  PROVE  ProcessAgentEntry(acc, a, i, row) \in AgentEmissions(n)
<1> DEFINE g == acc.agent
           running == [g EXCEPT !.status = "running", !.textLen = 0, !.thinkLen = 0, !.emitted = {}]
           status == IF row.end THEN "idle" ELSE g.status
           replied == [g EXCEPT !.status = status]
           asked == [agent |-> running, out |-> acc.out]
           answered == [agent |-> replied, out |-> acc.out]
           places == [ b \in DOMAIN row.blocks |-> b ]
           user == AgentUserRow!Fold(<< a, i >>, asked, row.blocks)
           reply == AgentReply!Fold(<< a, i, row >>, answered, places)
<1>1. ProcessAgentEntry(acc, a, i, row) = IF row.type = "user" THEN user
                                         ELSE IF row.type = "assistant" THEN reply ELSE acc
  BY DEF ProcessAgentEntry, AgentUserBlockOf, AgentUserRow!Fold, AgentUserRow!FoldLeft,
         AgentUserRow!MapThenFoldSet, AgentUserRow!Max, AgentBlockAt, AgentReply!Fold,
         AgentReply!FoldLeft, AgentReply!MapThenFoldSet, AgentReply!Max,
         FoldLeft, MapThenFoldSet, Max
<1>2. g \in AgentRecords /\ g.offset = n /\ acc.out \in Seq(AgentEvents)
  BY DEF AgentEmissions, AgentsAt
<1>3. running \in AgentsAt(n)
  BY <1>2 DEF AgentsAt, AgentRecords, AgentStatuses
<1>4. status \in AgentStatuses
  BY <1>2 DEF AgentRecords, AgentStatuses
<1> HIDE DEF status
<1>5. replied \in AgentsAt(n)
  BY <1>2, <1>4 DEF AgentsAt, AgentRecords
<1> HIDE DEF running, replied
<1>6. asked \in AgentEmissions(n) /\ answered \in AgentEmissions(n)
  BY <1>2, <1>3, <1>5, AgentEmissionIs
<1>7. row.blocks \in Seq(Block)
  BY DEF TranscriptRow
<1>8. places \in Seq(DOMAIN row.blocks)
  BY <1>7
<1>9. \A x \in AgentEmissions(n), block \in Block :
         AgentUserBlockOf(<< a, i >>, x, block) \in AgentEmissions(n)
  BY UserBlockOfAgentTyped DEF AgentUserBlockOf
<1>10. \A x \in AgentEmissions(n), b \in DOMAIN row.blocks :
         AgentBlockAt(<< a, i, row >>, x, b) \in AgentEmissions(n)
  <2> SUFFICES ASSUME NEW x \in AgentEmissions(n), NEW b \in DOMAIN row.blocks
               PROVE  AgentBlockAt(<< a, i, row >>, x, b) \in AgentEmissions(n)
    OBVIOUS
  <2>1. row.blocks[b] \in Block /\ b \in Nat
    BY <1>7
  <2>2. AgentBlock(x, a, i, b, row.blocks[b]) \in AgentEmissions(n)
    BY <2>1, AgentBlockTyped
  <2> QED
    BY <2>2 DEF AgentBlockAt
<1> HIDE DEF asked, answered, places
<1>11. user \in AgentEmissions(n)
  BY <1>6, <1>7, <1>9, AgentUserRow!FoldKeeps
<1>12. reply \in AgentEmissions(n)
  BY <1>6, <1>8, <1>10, AgentReply!FoldKeeps
<1> HIDE DEF user, reply
<1> QED
  BY <1>1, <1>11, <1>12

AgentRowAt(p, acc, k) == ProcessAgentEntry(acc, p[1], p[2] + k, p[3][p[2] + k])
AgentRows == INSTANCE SequenceFacts WITH Op <- AgentRowAt

LEMMA ReadAgentTyped ==
  ASSUME NEW g \in AgentRecords, NEW a \in Nat, NEW rows \in Seq(TranscriptRow), NEW n \in Nat,
         g.offset <= n, n <= Len(rows)
  PROVE  ReadAgent(g, a, rows, n) \in AgentEmissions(n)
<1> DEFINE start == [agent |-> [g EXCEPT !.offset = n], out |-> << >>]
           m == n - g.offset
           places == [ k \in 1 .. m |-> k ]
           p == << a, g.offset, rows >>
           read == AgentRows!Fold(p, start, places)
<1>1. ReadAgent(g, a, rows, n) = read
  BY DEF ReadAgent, AgentRowAt, AgentRows!Fold, AgentRows!FoldLeft, AgentRows!MapThenFoldSet,
         AgentRows!Max, FoldLeft, MapThenFoldSet, Max
<1>2. g.offset \in Nat /\ m \in Nat
  BY DEF AgentRecords
<1>3. start \in AgentEmissions(n)
  <2>1. [g EXCEPT !.offset = n] \in AgentsAt(n)
    BY DEF AgentsAt, AgentRecords
  <2>2. << >> \in Seq(AgentEvents)
    OBVIOUS
  <2> QED
    BY <2>1, <2>2, AgentEmissionIs
<1>4. \A acc \in AgentEmissions(n), k \in 1 .. m : AgentRowAt(p, acc, k) \in AgentEmissions(n)
  <2> SUFFICES ASSUME NEW acc \in AgentEmissions(n), NEW k \in 1 .. m
               PROVE  AgentRowAt(p, acc, k) \in AgentEmissions(n)
    OBVIOUS
  <2>1. g.offset + k \in Nat /\ rows[g.offset + k] \in TranscriptRow
    BY <1>2
  <2>2. ProcessAgentEntry(acc, a, g.offset + k, rows[g.offset + k]) \in AgentEmissions(n)
    BY <2>1, ProcessAgentEntryTyped
  <2> QED
    BY <2>2 DEF AgentRowAt
<1> HIDE DEF m
<1>5. places \in Seq(1 .. m)
  BY <1>2
<1> HIDE DEF start, places, p
<1>6. read \in AgentEmissions(n)
  BY <1>3, <1>4, <1>5, AgentRows!FoldKeeps
<1> QED
  BY <1>1, <1>6

\* Nothing is read of a file that was read to its end.
LEMMA ReadNothing ==
  ASSUME NEW g \in AgentRecords, NEW a, NEW rows
  PROVE  ReadAgent(g, a, rows, g.offset).agent.known = g.known
<1> DEFINE start == [agent |-> [g EXCEPT !.offset = g.offset], out |-> << >>]
           places == [ k \in 1 .. g.offset - g.offset |-> k ]
           p == << a, g.offset, rows >>
           V == {start}
<1>1. ReadAgent(g, a, rows, g.offset) = AgentRows!Fold(p, start, places)
  BY DEF ReadAgent, AgentRowAt, AgentRows!Fold, AgentRows!FoldLeft, AgentRows!MapThenFoldSet,
         AgentRows!Max, FoldLeft, MapThenFoldSet, Max
<1>2. start.agent.known = g.known
  BY DEF AgentRecords
<1>3. g.offset - g.offset = 0 /\ 1 .. 0 = {}
  BY DEF AgentRecords
<1>4. places \in Seq({})
  <2>1. places = << >>
    BY <1>3
  <2>2. << >> \in Seq({})
    OBVIOUS
  <2> HIDE DEF places
  <2> QED
    BY <2>1, <2>2
<1>5. start \in V /\ \A v \in V, e \in {} : AgentRowAt(p, v, e) \in V
  OBVIOUS
<1> HIDE DEF start, places, p, V
<1>6. AgentRows!Fold(p, start, places) \in V
  BY <1>4, <1>5, AgentRows!FoldKeeps
<1>7. AgentRows!Fold(p, start, places) = start
  BY <1>6 DEF V
<1> QED
  BY <1>1, <1>2, <1>7

LEMMA ImageIsFinite ==
  ASSUME NEW S, IsFiniteSet(S), NEW f
  PROVE  IsFiniteSet({ f[x] : x \in S })
<1> DEFINE T == { f[x] : x \in S }
           h == [ x \in S |-> f[x] ]
<1>1. h \in Surjection(S, T)
  BY DEF Surjection
<1> HIDE DEF h, T
<1>2. IsFiniteSet(T)
  BY <1>1, FS_Surjection
<1> QED
  BY <1>2 DEF T

LEMMA CallsFinite ==
  ASSUME NEW row \in TranscriptRow
  PROVE  IsFiniteSet(CallsOf(row))
<1> DEFINE S == { c \in DOMAIN row.blocks : row.blocks[c].kind \in ToolKinds }
           f == [ b \in S |-> row.blocks[b].n ]
<1>1. row.blocks \in Seq(Block)
  BY DEF TranscriptRow
<1>2. S \subseteq 1 .. Len(row.blocks) /\ Len(row.blocks) \in Nat
  BY <1>1
<1>3. IsFiniteSet(S)
  BY <1>2, FS_Interval, FS_Subset
<1>4. CallsOf(row) = { f[b] : b \in S }
  BY DEF CallsOf
<1> HIDE DEF S, f
<1> QED
  BY <1>3, <1>4, ImageIsFinite

LEMMA ToolsFinite ==
  ASSUME NEW rows \in Seq(TranscriptRow), NEW n \in Nat, n <= Len(rows)
  PROVE  IsFiniteSet(ToolIds(rows, n))
<1> DEFINE replies == { j \in 1 .. n : rows[j].type = "assistant" }
           callsOf(i) == CallsOf(rows[i])
           each == { callsOf(i) : i \in replies }
<1>1. IsFiniteSet(1 .. n) /\ replies \subseteq 1 .. n
  BY FS_Interval
<1>2. IsFiniteSet(replies)
  BY <1>1, FS_Subset
<1>3. IsFiniteSet(each)
  <2> DEFINE f == [ i \in replies |-> callsOf(i) ]
  <2>1. each = { f[i] : i \in replies }
    OBVIOUS
  <2> HIDE DEF f, each, replies
  <2> QED
    BY <1>2, <2>1, ImageIsFinite
<1>4. \A i \in replies : IsFiniteSet(callsOf(i))
  <2> SUFFICES ASSUME NEW i \in replies PROVE IsFiniteSet(callsOf(i))
    OBVIOUS
  <2>1. rows[i] \in TranscriptRow
    OBVIOUS
  <2> QED
    BY <2>1, CallsFinite
<1> HIDE DEF callsOf, replies
<1>5. \A t \in each : IsFiniteSet(t)
  BY <1>4
<1>6. ToolIds(rows, n) = UNION each
  BY DEF ToolIds, callsOf, replies
<1> HIDE DEF each
<1> QED
  BY <1>3, <1>5, <1>6, FS_UNION

LEMMA ToolsTyped ==
  ASSUME NEW rows \in Seq(TranscriptRow), NEW n \in Nat, n <= Len(rows)
  PROVE  ToolsIn(rows, n) \in Nat
BY ToolsFinite, FS_CardinalityType DEF ToolsIn

LEMMA DoneTyped ==
  ASSUME NEW n, NEW g \in AgentsAt(n)
  PROVE  Done(g) \in AgentsAt(n)
BY DEF Done, AgentsAt, AgentRecords, AgentStatuses

LEMMA FromArchiveTyped ==
  ASSUME NEW n, NEW g \in AgentsAt(n), NEW kept \in Archives, kept # NoArchive
  PROVE  FromArchive(g, kept) \in AgentsAt(n)
<1>1. kept[1] \in Nat
  BY DEF Archives
<1> QED
  BY <1>1 DEF FromArchive, AgentsAt, AgentRecords, AgentStatuses

LEMMA NewAgentTyped ==
  ASSUME NEW kept \in Archives
  PROVE  NewAgent(kept) \in AgentsAt(0)
<1> DEFINE found == [NoAgent EXCEPT !.known = TRUE]
<1>1. found \in AgentsAt(0)
  BY NoAgentTyped DEF AgentsAt, AgentRecords
<1> HIDE DEF found
<1> QED
  BY <1>1, FromArchiveTyped DEF NewAgent, found

LEMMA InitialAgentTyped ==
  ASSUME NEW rows \in Seq(TranscriptRow), NEW n \in Nat, n <= Len(rows), NEW kept \in Archives,
         NEW quiet
  PROVE  InitialAgent(rows, n, kept, quiet) \in AgentsAt(n)
<1> DEFINE found == [NoAgent EXCEPT !.known = TRUE, !.offset = n]
           tools == ToolsIn(rows, n)
           replayed == [found EXCEPT !.tools = tools]
           ended == [replayed EXCEPT !.status = "done", !.doneEmitted = TRUE]
<1>1. found \in AgentsAt(n)
  BY NoAgentTyped DEF AgentsAt, AgentRecords
<1>2. tools \in Nat
  BY ToolsTyped
<1> HIDE DEF found, tools
<1>3. replayed \in AgentsAt(n)
  BY <1>1, <1>2 DEF AgentsAt, AgentRecords
<1> HIDE DEF replayed
<1>4. ended \in AgentsAt(n)
  BY <1>3 DEF AgentsAt, AgentRecords, AgentStatuses
<1> HIDE DEF ended
<1>5. kept # NoArchive => FromArchive(found, kept) \in AgentsAt(n)
  BY <1>1, FromArchiveTyped
<1>6. InitialAgent(rows, n, kept, quiet) =
        IF kept # NoArchive THEN FromArchive(found, kept)
        ELSE IF quiet /\ EndedWithEndTurn(rows, n) THEN ended ELSE replayed
  BY DEF InitialAgent, found, tools, replayed, ended
<1> QED
  BY <1>3, <1>4, <1>5, <1>6

-----------------------------------------------------------------------------
(***************************************************************************)
(* What an agent counts.  A row's calls are new to the file, so that each  *)
(* block that is not in `emitted' adds one to the calls of the rows before *)
(* and of the blocks before.                                               *)
(***************************************************************************)

NewCalls(row) == IF row.type = "assistant" THEN CallsOf(row) ELSE {}
CallsUpTo(row, b) ==
    { row.blocks[c].n : c \in { d \in DOMAIN row.blocks : d <= b /\ row.blocks[d].kind \in ToolKinds } }

\* An agent that counts ids, and one that counts base and done, the calls of
\* the row that it is in.
Tally(ids, g) == g.emitted \subseteq ids /\ g.tools = Cardinality(ids)
Counted(base, done, g) == done \subseteq g.emitted /\ Tally(base \cup done, g)

LEMMA ToolIdsStep ==
  ASSUME NEW rows \in Seq(TranscriptRow), NEW k \in 1 .. Len(rows)
  PROVE  ToolIds(rows, k) = ToolIds(rows, k - 1) \cup NewCalls(rows[k])
<1> DEFINE callsOf(i) == CallsOf(rows[i])
<1>1. \A n : ToolIds(rows, n) = UNION { callsOf(i) : i \in { j \in 1 .. n : rows[j].type = "assistant" } }
  BY DEF ToolIds
<1>2. NewCalls(rows[k]) = IF rows[k].type = "assistant" THEN callsOf(k) ELSE {}
  BY DEF NewCalls
<1>3. 1 .. k = (1 .. k - 1) \cup {k}
  OBVIOUS
<1> HIDE DEF callsOf
<1>4. \A x : x \in ToolIds(rows, k) <=> \E i \in 1 .. k : rows[i].type = "assistant" /\ x \in callsOf(i)
  BY <1>1
<1>5. \A x : x \in ToolIds(rows, k - 1) <=> \E i \in 1 .. k - 1 : rows[i].type = "assistant" /\ x \in callsOf(i)
  BY <1>1
<1> QED
  BY <1>2, <1>3, <1>4, <1>5

\* A call is in one row.
LEMMA CallsAreNew ==
  ASSUME NEW rows \in Seq(TranscriptRow), OneRowPerCall(rows), NEW k \in 1 .. Len(rows)
  PROVE  CallsOf(rows[k]) \cap ToolIds(rows, k - 1) = {}
<1> SUFFICES ASSUME NEW x \in CallsOf(rows[k]), x \in ToolIds(rows, k - 1) PROVE FALSE
  OBVIOUS
<1>1. PICK i \in 1 .. k - 1 : x \in CallsOf(rows[i])
  BY DEF ToolIds
<1>2. i \in DOMAIN rows /\ k \in DOMAIN rows /\ i # k
  OBVIOUS
<1> QED
  BY <1>1, <1>2 DEF OneRowPerCall

LEMMA AgentBlockCounts ==
  ASSUME NEW n, NEW acc \in AgentEmissions(n), NEW a, NEW i, NEW b, NEW block \in Block,
         NEW base, IsFiniteSet(base), NEW done, IsFiniteSet(done), Counted(base, done, acc.agent),
         block.kind \in ToolKinds => block.n \notin base,
         NEW more, more = IF block.kind \in ToolKinds THEN done \cup {block.n} ELSE done
  PROVE  LET g == AgentBlock(acc, a, i, b, block).agent
         IN g.known = acc.agent.known /\ Counted(base, more, g)
<1> DEFINE g == acc.agent
           h == AgentBlock(acc, a, i, b, block).agent
<1>1. g \in AgentRecords
  BY DEF AgentEmissions, AgentsAt
<1>2. /\ done \subseteq g.emitted /\ g.emitted \subseteq base \cup done
      /\ g.tools = Cardinality(base \cup done)
  BY DEF Counted, Tally
<1>3. h = CASE block.kind = "thinking" ->
                 [g EXCEPT !.thinkLen = IF block.n > @ THEN block.n ELSE @]
            [] block.kind \in ToolKinds ->
                 [g EXCEPT !.emitted = @ \cup {block.n},
                           !.tools = IF block.n \in g.emitted THEN @ ELSE @ + 1]
            [] OTHER -> [g EXCEPT !.textLen = IF block.n > @ THEN block.n ELSE @]
  BY DEF AgentBlock
<1> HIDE DEF g, h
<1>4. CASE block.kind \in ToolKinds
  <2> DEFINE m == IF block.n \in g.emitted THEN g.tools ELSE g.tools + 1
             s == g.emitted \cup {block.n}
  <2>1. block.kind # "thinking"
    BY <1>4 DEF ToolKinds
  <2>2. h = [g EXCEPT !.emitted = s, !.tools = m]
    BY <1>3, <1>4, <2>1
  <2> HIDE DEF s, m
  <2>3. h.known = g.known /\ h.emitted = s /\ h.tools = m
    BY <1>1, <2>2 DEF AgentRecords
  <2>4. more = done \cup {block.n} /\ block.n \notin base
    BY <1>4
  <2>5. more \subseteq s /\ s \subseteq base \cup more
    BY <1>2, <2>4 DEF s
  <2>6. IsFiniteSet(base \cup done)
    BY FS_Union
  <2>7. m = Cardinality(base \cup more)
    <3>1. CASE block.n \in g.emitted
      <4>1. base \cup more = base \cup done
        BY <1>2, <2>4, <3>1
      <4> QED
        BY <1>2, <3>1, <4>1 DEF m
    <3>2. CASE block.n \notin g.emitted
      <4>1. block.n \notin base \cup done
        BY <1>2, <2>4, <3>2
      <4>2. base \cup more = (base \cup done) \cup {block.n}
        BY <2>4
      <4>3. Cardinality((base \cup done) \cup {block.n}) = Cardinality(base \cup done) + 1
        BY <2>6, <4>1, FS_AddElement
      <4> QED
        BY <1>2, <3>2, <4>2, <4>3 DEF m
    <3> QED
      BY <3>1, <3>2
  <2> QED
    BY <2>3, <2>5, <2>7 DEF Counted, Tally, g, h
<1>5. CASE block.kind \notin ToolKinds
  <2>1. h.known = g.known /\ h.emitted = g.emitted /\ h.tools = g.tools
    BY <1>1, <1>3, <1>5 DEF AgentRecords
  <2>2. more = done
    BY <1>5
  <2> QED
    BY <1>2, <2>1, <2>2 DEF Counted, Tally, g, h
<1> QED
  BY <1>4, <1>5

LEMMA CallsStep ==
  ASSUME NEW row \in TranscriptRow, NEW b \in DOMAIN row.blocks
  PROVE  /\ CallsUpTo(row, 0) = {} /\ CallsUpTo(row, Len(row.blocks)) = CallsOf(row)
         /\ IsFiniteSet(CallsUpTo(row, b - 1)) /\ CallsUpTo(row, b) \subseteq CallsOf(row)
         /\ CallsUpTo(row, b) =
              IF row.blocks[b].kind \in ToolKinds
              THEN CallsUpTo(row, b - 1) \cup {row.blocks[b].n} ELSE CallsUpTo(row, b - 1)
<1> DEFINE s == row.blocks
           T(k) == { d \in DOMAIN s : d <= k /\ s[d].kind \in ToolKinds }
<1>1. s \in Seq(Block)
  BY DEF TranscriptRow
<1>2. b \in 1 .. Len(s) /\ Len(s) \in Nat /\ DOMAIN s = 1 .. Len(s)
  BY <1>1
<1>3. \A k : CallsUpTo(row, k) = { s[c].n : c \in T(k) }
  BY DEF CallsUpTo
<1>4. CallsOf(row) = { s[c].n : c \in { d \in DOMAIN s : s[d].kind \in ToolKinds } }
  BY DEF CallsOf
<1> HIDE DEF s
<1>5. T(0) = {} /\ T(Len(s)) = { d \in DOMAIN s : s[d].kind \in ToolKinds }
  BY <1>2
<1>6. T(b) = IF s[b].kind \in ToolKinds THEN T(b - 1) \cup {b} ELSE T(b - 1)
  BY <1>2
<1>7. T(b) \subseteq T(Len(s)) /\ T(b - 1) \subseteq T(Len(s))
  BY <1>2
<1> HIDE DEF T
<1>8. CallsUpTo(row, 0) = {} /\ CallsUpTo(row, Len(s)) = CallsOf(row)
  BY <1>3, <1>4, <1>5
<1>9. CallsUpTo(row, b) \subseteq CallsOf(row) /\ CallsUpTo(row, b - 1) \subseteq CallsOf(row)
  BY <1>3, <1>7, <1>8
<1>10. IsFiniteSet(CallsUpTo(row, b - 1))
  BY <1>9, CallsFinite, FS_Subset
<1>11. CallsUpTo(row, b) = IF s[b].kind \in ToolKinds
                          THEN CallsUpTo(row, b - 1) \cup {s[b].n} ELSE CallsUpTo(row, b - 1)
  <2>1. /\ CallsUpTo(row, b) = { s[c].n : c \in T(b) }
        /\ CallsUpTo(row, b - 1) = { s[c].n : c \in T(b - 1) }
    BY <1>3
  <2> DEFINE S1 == T(b)
             S0 == T(b - 1)
  <2>2. S1 = IF s[b].kind \in ToolKinds THEN S0 \cup {b} ELSE S0
    BY <1>6
  <2> HIDE DEF S1, S0
  <2>3. CASE s[b].kind \in ToolKinds
    <3>1. { s[c].n : c \in S0 \cup {b} } = { s[c].n : c \in S0 } \cup {s[b].n}
      OBVIOUS
    <3> QED
      BY <2>1, <2>2, <2>3, <3>1 DEF S1, S0
  <2>4. CASE s[b].kind \notin ToolKinds
    BY <2>1, <2>2, <2>4 DEF S1, S0
  <2> QED
    BY <2>3, <2>4
<1> QED
  BY <1>8, <1>9, <1>10, <1>11 DEF s

LEMMA AgentReplyCounts ==
  ASSUME NEW n, NEW acc \in AgentEmissions(n), NEW a \in Nat, NEW i \in Nat,
         NEW row \in TranscriptRow, NEW base, IsFiniteSet(base), Tally(base, acc.agent),
         CallsOf(row) \cap base = {}
  PROVE  LET reply == AgentReply!Fold(<< a, i, row >>, acc, [ b \in DOMAIN row.blocks |-> b ])
         IN /\ reply.agent.known = acc.agent.known
            /\ Tally(base \cup CallsOf(row), reply.agent)
<1> DEFINE p == << a, i, row >>
           places == [ b \in DOMAIN row.blocks |-> b ]
           m == Len(row.blocks)
           known == acc.agent.known
           Upto(k) == { x \in AgentEmissions(n) :
                          x.agent.known = known /\ Counted(base, CallsUpTo(row, k), x.agent) }
           V == [ k \in 0 .. m |-> Upto(k) ]
<1>1. row.blocks \in Seq(Block)
  BY DEF TranscriptRow
<1>2. m \in Nat /\ DOMAIN row.blocks = 1 .. m
  BY <1>1
<1> HIDE DEF m
<1>3. DOMAIN places = 1 .. m /\ \A b \in 1 .. m : places[b] = b
  BY <1>2
<1>4. V[0] = Upto(0) /\ V[m] = Upto(m) /\ \A b \in 1 .. m : V[b] = Upto(b) /\ V[b - 1] = Upto(b - 1)
  BY <1>2
<1> HIDE DEF V, places
<1>5. CallsUpTo(row, 0) = {} /\ CallsUpTo(row, m) = CallsOf(row)
  <2>1. CASE m = 0
    BY <1>2, <2>1 DEF CallsUpTo, CallsOf
  <2>2. CASE m # 0
    <3>1. 1 \in DOMAIN row.blocks
      BY <1>2, <2>2
    <3> QED
      BY <3>1, CallsStep DEF m
  <2> QED
    BY <2>1, <2>2
<1>6. acc \in V[0]
  <2>1. base \cup CallsUpTo(row, 0) = base /\ CallsUpTo(row, 0) \subseteq acc.agent.emitted
    BY <1>5
  <2>2. Counted(base, CallsUpTo(row, 0), acc.agent)
    BY <2>1 DEF Counted
  <2> QED
    BY <1>4, <2>2
<1>7. ASSUME NEW b \in 1 .. m, NEW x \in V[b - 1]
      PROVE  AgentBlockAt(p, x, places[b]) \in V[b]
  <2> DEFINE y == AgentBlock(x, a, i, b, row.blocks[b])
  <2>1. /\ x \in AgentEmissions(n) /\ x.agent.known = known
        /\ Counted(base, CallsUpTo(row, b - 1), x.agent)
    BY <1>4
  <2>2. row.blocks[b] \in Block /\ b \in DOMAIN row.blocks /\ b \in Nat
    BY <1>1, <1>2
  <2>3. /\ IsFiniteSet(CallsUpTo(row, b - 1)) /\ CallsUpTo(row, b) \subseteq CallsOf(row)
        /\ CallsUpTo(row, b) = IF row.blocks[b].kind \in ToolKinds
                               THEN CallsUpTo(row, b - 1) \cup {row.blocks[b].n}
                               ELSE CallsUpTo(row, b - 1)
    BY <2>2, CallsStep
  <2>4. row.blocks[b].kind \in ToolKinds => row.blocks[b].n \notin base
    BY <2>3
  <2>5. y.agent.known = known /\ Counted(base, CallsUpTo(row, b), y.agent)
    BY <2>1, <2>2, <2>3, <2>4, AgentBlockCounts
  <2>6. y \in AgentEmissions(n)
    BY <2>1, <2>2, AgentBlockTyped
  <2>7. AgentBlockAt(p, x, places[b]) = y
    BY <1>3 DEF AgentBlockAt
  <2> HIDE DEF y
  <2> QED
    BY <1>4, <2>5, <2>6, <2>7
<1> HIDE DEF p
<1>8. AgentReply!Fold(p, acc, places) \in V[m]
  BY <1>2, <1>3, <1>6, <1>7, AgentReply!FoldThrough
<1> DEFINE reply == AgentReply!Fold(p, acc, places)
<1> HIDE DEF reply
<1>9. reply.agent.known = known /\ Counted(base, CallsOf(row), reply.agent)
  BY <1>4, <1>5, <1>8 DEF reply
<1> QED
  BY <1>9 DEF Counted, reply, p, places

LEMMA ProcessAgentEntryCounts ==
  ASSUME NEW n, NEW acc \in AgentEmissions(n), NEW a \in Nat, NEW i \in Nat,
         NEW row \in TranscriptRow, NEW base, IsFiniteSet(base), Tally(base, acc.agent),
         CallsOf(row) \cap base = {}
  PROVE  LET next == ProcessAgentEntry(acc, a, i, row)
         IN next.agent.known = acc.agent.known /\ Tally(base \cup NewCalls(row), next.agent)
<1> DEFINE g == acc.agent
           running == [g EXCEPT !.status = "running", !.textLen = 0, !.thinkLen = 0, !.emitted = {}]
           status == IF row.end THEN "idle" ELSE g.status
           replied == [g EXCEPT !.status = status]
           asked == [agent |-> running, out |-> acc.out]
           answered == [agent |-> replied, out |-> acc.out]
           places == [ b \in DOMAIN row.blocks |-> b ]
           user == AgentUserRow!Fold(<< a, i >>, asked, row.blocks)
           reply == AgentReply!Fold(<< a, i, row >>, answered, places)
<1>1. ProcessAgentEntry(acc, a, i, row) = IF row.type = "user" THEN user
                                         ELSE IF row.type = "assistant" THEN reply ELSE acc
  BY DEF ProcessAgentEntry, AgentUserBlockOf, AgentUserRow!Fold, AgentUserRow!FoldLeft,
         AgentUserRow!MapThenFoldSet, AgentUserRow!Max, AgentBlockAt, AgentReply!Fold,
         AgentReply!FoldLeft, AgentReply!MapThenFoldSet, AgentReply!Max,
         FoldLeft, MapThenFoldSet, Max
<1>2. g \in AgentRecords /\ g.offset = n /\ acc.out \in Seq(AgentEvents)
  BY DEF AgentEmissions, AgentsAt
<1>3. row.blocks \in Seq(Block)
  BY DEF TranscriptRow
<1>4. NewCalls(row) = IF row.type = "assistant" THEN CallsOf(row) ELSE {}
  BY DEF NewCalls
<1>5. base \cup {} = base
  OBVIOUS
<1>6. CASE row.type = "user"
  <2> DEFINE W == { x \in AgentEmissions(n) : x.agent = running }
  <2>1. running \in AgentsAt(n)
    BY <1>2 DEF AgentsAt, AgentRecords, AgentStatuses
  <2>2. running.known = g.known /\ Tally(base, running)
    BY <1>2 DEF AgentRecords, Tally
  <2> HIDE DEF running
  <2>3. asked \in W
    BY <1>2, <2>1, AgentEmissionIs
  <2>4. \A x \in W, block \in Block : AgentUserBlockOf(<< a, i >>, x, block) \in W
    <3> SUFFICES ASSUME NEW x \in W, NEW block \in Block
                 PROVE  UserBlockOfAgent(x, a, i, block) \in W
      BY DEF AgentUserBlockOf
    <3>1. x \in AgentEmissions(n) /\ x.agent = running
      OBVIOUS
    <3>2. UserBlockOfAgent(x, a, i, block) \in AgentEmissions(n)
      BY <3>1, UserBlockOfAgentTyped
    <3>3. UserBlockOfAgent(x, a, i, block).agent = x.agent
      BY <3>1 DEF UserBlockOfAgent, AgentEmissions
    <3> QED
      BY <3>1, <3>2, <3>3
  <2> HIDE DEF W, asked
  <2>5. user \in W
    BY <1>3, <2>3, <2>4, AgentUserRow!FoldKeeps
  <2>6. user.agent = running
    BY <2>5 DEF W
  <2> HIDE DEF user
  <2> QED
    BY <1>1, <1>4, <1>5, <1>6, <2>2, <2>6
<1>7. CASE row.type = "assistant"
  <2>1. status \in AgentStatuses
    BY <1>2 DEF AgentRecords, AgentStatuses
  <2> HIDE DEF status
  <2>2. replied \in AgentsAt(n)
    BY <1>2, <2>1 DEF AgentsAt, AgentRecords
  <2>3. replied.known = g.known /\ Tally(base, replied)
    BY <1>2 DEF AgentRecords, Tally
  <2> HIDE DEF replied
  <2>4. answered \in AgentEmissions(n) /\ answered.agent = replied
    BY <1>2, <2>2, AgentEmissionIs
  <2> HIDE DEF answered
  <2>5. reply.agent.known = answered.agent.known /\ Tally(base \cup CallsOf(row), reply.agent)
    BY <2>3, <2>4, AgentReplyCounts
  <2> HIDE DEF reply
  <2> QED
    BY <1>1, <1>4, <1>7, <2>3, <2>4, <2>5
<1>8. CASE row.type # "user" /\ row.type # "assistant"
  BY <1>1, <1>4, <1>5, <1>8
<1> QED
  BY <1>6, <1>7, <1>8

LEMMA ReadAgentCounts ==
  ASSUME NEW g \in AgentRecords, NEW a \in Nat, NEW rows \in Seq(TranscriptRow), NEW n \in Nat,
         g.offset <= n, n <= Len(rows), OneRowPerCall(rows), Tally(ToolIds(rows, g.offset), g)
  PROVE  LET read == ReadAgent(g, a, rows, n)
         IN read.agent.known = g.known /\ Tally(ToolIds(rows, n), read.agent)
<1> DEFINE o == g.offset
           moved == [g EXCEPT !.offset = n]
           start == [agent |-> moved, out |-> << >>]
           m == n - o
           places == [ k \in 1 .. m |-> k ]
           p == << a, o, rows >>
           read == AgentRows!Fold(p, start, places)
           Upto(k) == { x \in AgentEmissions(n) :
                          x.agent.known = g.known /\ Tally(ToolIds(rows, o + k), x.agent) }
           V == [ k \in 0 .. m |-> Upto(k) ]
<1>1. ReadAgent(g, a, rows, n) = read
  BY DEF ReadAgent, AgentRowAt, AgentRows!Fold, AgentRows!FoldLeft, AgentRows!MapThenFoldSet,
         AgentRows!Max, FoldLeft, MapThenFoldSet, Max
<1>2. o \in Nat /\ m \in Nat /\ o + 0 = o /\ o + m = n
  BY DEF AgentRecords
<1>3. moved \in AgentsAt(n) /\ moved.known = g.known /\ moved.emitted = g.emitted
      /\ moved.tools = g.tools
  BY DEF AgentsAt, AgentRecords
<1>4. Tally(ToolIds(rows, o), g)
  OBVIOUS
<1> HIDE DEF moved, o, m
<1>5. V[0] = Upto(0) /\ V[m] = Upto(m) /\ \A k \in 1 .. m : V[k] = Upto(k) /\ V[k - 1] = Upto(k - 1)
  BY <1>2
<1>6. DOMAIN places = 1 .. m /\ \A k \in 1 .. m : places[k] = k
  BY <1>2
<1> HIDE DEF V, places
<1>7. start \in V[0]
  <2>1. start \in AgentEmissions(n) /\ start.agent = moved
    <3>1. << >> \in Seq(AgentEvents)
      OBVIOUS
    <3> QED
      BY <1>3, <3>1, AgentEmissionIs
  <2>2. Tally(ToolIds(rows, o + 0), moved)
    BY <1>2, <1>3, <1>4 DEF Tally
  <2> HIDE DEF start
  <2> QED
    BY <1>3, <1>5, <2>1, <2>2
<1>8. ASSUME NEW k \in 1 .. m, NEW x \in V[k - 1]
      PROVE  AgentRowAt(p, x, places[k]) \in V[k]
  <2> DEFINE i == o + k
             y == ProcessAgentEntry(x, a, i, rows[i])
             base == ToolIds(rows, o + (k - 1))
  <2>1. /\ x \in AgentEmissions(n) /\ x.agent.known = g.known /\ Tally(base, x.agent)
    BY <1>5
  <2>2. i \in 1 .. Len(rows) /\ i \in Nat /\ o + (k - 1) = i - 1 /\ i - 1 \in Nat /\ i - 1 <= Len(rows)
    BY <1>2
  <2>3. rows[i] \in TranscriptRow
    BY <2>2
  <2>4. base = ToolIds(rows, i - 1)
    BY <2>2
  <2> HIDE DEF i
  <2>5. IsFiniteSet(base) /\ CallsOf(rows[i]) \cap base = {}
    BY <2>2, <2>4, ToolsFinite, CallsAreNew
  <2>6. ToolIds(rows, i) = base \cup NewCalls(rows[i])
    BY <2>2, <2>4, ToolIdsStep
  <2> HIDE DEF base
  <2>7. y.agent.known = g.known /\ Tally(ToolIds(rows, i), y.agent)
    <3> DEFINE row == rows[i]
    <3>1. row \in TranscriptRow /\ CallsOf(row) \cap base = {} /\ i \in Nat
      BY <2>2, <2>3, <2>5
    <3> HIDE DEF row
    <3>2. /\ ProcessAgentEntry(x, a, i, row).agent.known = x.agent.known
          /\ Tally(base \cup NewCalls(row), ProcessAgentEntry(x, a, i, row).agent)
      BY <2>1, <2>5, <3>1, ProcessAgentEntryCounts
    <3> QED
      BY <2>1, <2>6, <3>2 DEF row
  <2>8. y \in AgentEmissions(n)
    BY <2>1, <2>2, <2>3, ProcessAgentEntryTyped
  <2>9. AgentRowAt(p, x, places[k]) = y
    BY <1>6 DEF AgentRowAt, i
  <2> HIDE DEF y
  <2> QED
    BY <1>5, <2>7, <2>8, <2>9 DEF i
<1> HIDE DEF start, p
<1>9. read \in V[m]
  BY <1>2, <1>6, <1>7, <1>8, AgentRows!FoldThrough
<1> HIDE DEF read
<1>10. read.agent.known = g.known /\ Tally(ToolIds(rows, n), read.agent)
  BY <1>2, <1>5, <1>9
<1> QED
  BY <1>1, <1>10

-----------------------------------------------------------------------------
(***************************************************************************)
(* Live output                                                             *)
(***************************************************************************)

\* The references that no crash forgot, and what sending keeps of them.
Remembered(refs, gone) == { x \in refs : x.seq \notin gone }
ToldSoFar(al, refs, gone) ==
    { acc \in [alloc : Allocators, told : SUBSET References] :
        Grows(al, acc.alloc) /\ Agree(acc.alloc, Remembered(acc.told, gone) \cup refs) }

NumberEventOf(p, acc, e) == NumberEvent(acc, e)
Sending == INSTANCE SequenceFacts WITH Op <- NumberEventOf

LEMMA NumberEventKeeps ==
  ASSUME NEW al \in Allocators, NEW refs \in SUBSET References, NEW gone,
         NEW acc \in ToldSoFar(al, refs, gone), NEW e \in Events
  PROVE  NumberEvent(acc, e) \in ToldSoFar(al, refs, gone)
<1> DEFINE new == Given(acc.alloc, e.key)
           ref == [key |-> e.key, seq |-> GivenSeq(acc.alloc, e.key)]
           before == Remembered(acc.told, gone) \cup refs
           after == [alloc |-> new, told |-> acc.told \cup {ref}]
<1>1. /\ acc.alloc \in Allocators /\ acc.told \in SUBSET References /\ Grows(al, acc.alloc)
      /\ Agree(acc.alloc, before) /\ e.key \in Key
  BY DEF ToldSoFar, Events
<1>2. new \in Allocators /\ Grows(acc.alloc, new) /\ GivenSeq(acc.alloc, e.key) \in Nat
  BY <1>1, GivenGrows
<1>3. before \in SUBSET References
  BY <1>1 DEF Remembered
<1> HIDE DEF before
<1>4. Agree(new, before \cup {ref})
  BY <1>1, <1>3, GivenAgrees
<1>5. NumberEvent(acc, e) = after
  BY DEF NumberEvent, Given, GivenSeq, Keyed
<1>6. ref \in References
  BY <1>1, <1>2 DEF References
<1> HIDE DEF new, ref
<1>7. Grows(al, new)
  BY <1>1, <1>2, GrowsOn
<1>8. (Remembered(acc.told \cup {ref}, gone) \cup refs) \in SUBSET (before \cup {ref})
  BY DEF before, Remembered
<1>9. Agree(new, Remembered(acc.told \cup {ref}, gone) \cup refs)
  BY <1>4, <1>8, FewerAgree
<1>10. acc.told \cup {ref} \in SUBSET References
  BY <1>1, <1>6
<1>11. after \in [alloc : Allocators, told : SUBSET References]
  BY <1>2, <1>10
<1>12. after.alloc = new /\ after.told = acc.told \cup {ref}
  OBVIOUS
<1> HIDE DEF after
<1> QED
  BY <1>5, <1>7, <1>9, <1>11, <1>12 DEF ToldSoFar

LEMMA SendingAgrees ==
  ASSUME NEW al \in Allocators, NEW refs \in SUBSET References, NEW gone,
         NEW before \in SUBSET References, Agree(al, Remembered(before, gone) \cup refs),
         NEW out \in Seq(Events)
  PROVE  FoldLeft(NumberEvent, [alloc |-> al, told |-> before], out) \in ToldSoFar(al, refs, gone)
<1> DEFINE start == [alloc |-> al, told |-> before]
<1>1. FoldLeft(NumberEvent, start, out) = Sending!Fold(0, start, out)
  BY DEF NumberEventOf, Sending!Fold, Sending!FoldLeft, Sending!MapThenFoldSet, Sending!Max,
         FoldLeft, MapThenFoldSet, Max
<1>2. start \in ToldSoFar(al, refs, gone)
  <2>1. Grows(al, al)
    BY AllocatorIs DEF Grows
  <2>2. start \in [alloc : Allocators, told : SUBSET References]
    OBVIOUS
  <2>3. start.alloc = al /\ start.told = before
    OBVIOUS
  <2> HIDE DEF start
  <2> QED
    BY <2>1, <2>2, <2>3 DEF ToldSoFar
<1>3. \A acc \in ToldSoFar(al, refs, gone), e \in Events :
          NumberEventOf(0, acc, e) \in ToldSoFar(al, refs, gone)
  BY NumberEventKeeps DEF NumberEventOf
<1> HIDE DEF start
<1>4. Sending!Fold(0, start, out) \in ToldSoFar(al, refs, gone)
  BY <1>2, <1>3, Sending!FoldKeeps
<1> QED
  BY <1>1, <1>4 DEF start

-----------------------------------------------------------------------------
(***************************************************************************)
(* The inductive invariant.  The numbers told and those of the cached rows *)
(* agree with the allocator, or, while the daemon is down, with its file:  *)
(* all but the numbers that a crash forgot, which are those that the file  *)
(* has not given out.  The file is an earlier state of the allocator.      *)
(***************************************************************************)

FilesOK ==
    /\ script \in Scripts
    /\ size \in Nat /\ size <= 2 * Len(script.rows)
    /\ sizes \in [Agents -> Nat]
    /\ \A a \in Agents : sizes[a] <= Len(script.files[a])
    /\ archive \in [Agents -> Archives]
    /\ up \in BOOLEAN
ObserversOK ==
    /\ obs \in Observers /\ obs.start <= obs.offset /\ obs.offset <= size
    /\ agents \in [Agents -> AgentRecords]
    /\ \A a \in Agents : agents[a].offset <= sizes[a]
Phones == [on : BOOLEAN, ms : Nat, seq : Nat, older : Nat, has : SUBSET Ids]
PhoneOK == phone \in Phones

Serving == IF up THEN alloc ELSE saved
NumbersOK ==
    /\ alloc \in Allocators /\ saved \in Allocators
    /\ up => Grows(saved, alloc)
    /\ cache.rows \in Seq(NumberedRows)
    /\ ~up => cache = NoCache
    /\ told \in SUBSET References
    /\ Agree(Serving, Remembered(told, lost) \cup Refs(cache.rows))

IInv == FilesOK /\ ObserversOK /\ PhoneOK /\ NumbersOK

\* The properties follow from it.
LEMMA Agreement ==
  ASSUME IInv
  PROVE  NumbersAgree
<1>1. Agree(Serving, Remembered(told, lost) \cup Refs(cache.rows))
  BY DEF IInv, NumbersOK
<1> SUFFICES ASSUME NEW x \in told, NEW y \in told, x.seq \notin lost, y.seq \notin lost
             PROVE  /\ x.key = y.key /\ x.key[1] # "none" => x.seq = y.seq
                    /\ x.seq = y.seq => x.key = y.key
  BY DEF NumbersAgree
<1>2. x \in Remembered(told, lost) /\ y \in Remembered(told, lost)
  BY DEF Remembered
<1>3. x.seq = y.seq => x.key = y.key
  BY <1>1, <1>2 DEF Agree
<1>4. Backed(Serving, x) /\ Backed(Serving, y)
  BY <1>1, <1>2 DEF Agree
<1> HIDE DEF Serving
<1>5. x.key = y.key /\ x.key[1] # "none" => x.seq = y.seq
  BY <1>4 DEF Backed, Keyed
<1> QED
  BY <1>3, <1>5

LEMMA Typed ==
  ASSUME IInv
  PROVE  SyncTypeOK
<1>1. script \in Scripts /\ size \in 0 .. 2 * Len(script.rows)
  BY ScriptAssumption DEF IInv, FilesOK
<1>2. \A a \in Agents : sizes[a] \in 0 .. Len(script.files[a])
  <2> SUFFICES ASSUME NEW a \in Agents PROVE sizes[a] \in 0 .. Len(script.files[a])
    OBVIOUS
  <2>1. script.files \in Seq(Seq(TranscriptRow)) /\ sizes[a] \in Nat /\ sizes[a] <= Len(script.files[a])
    BY ScriptAssumption DEF IInv, FilesOK
  <2>2. Len(script.files[a]) \in Nat
    BY <2>1 DEF Agents
  <2> QED
    BY <2>1, <2>2
<1>3. obs \in ObserverRecords /\ obs.start <= obs.offset /\ obs.offset <= size /\ size \in Nat
  BY DEF IInv, FilesOK, ObserversOK, Observers
<1>4. /\ obs.offset \in 0 .. size /\ obs.start \in 0 .. obs.offset
      /\ obs.status \in {"running", "ready"} /\ obs.turnTools \in Nat
      /\ obs.active \in BOOLEAN /\ obs.justInterrupted \in BOOLEAN
  BY <1>3 DEF ObserverRecords
<1>5. ASSUME NEW a \in Agents
      PROVE  /\ agents[a].offset \in 0 .. sizes[a]
             /\ agents[a].status \in {"running", "idle", "done"}
             /\ agents[a].tools \in Nat
  <2>1. agents[a] \in AgentRecords /\ agents[a].offset <= sizes[a] /\ sizes[a] \in Nat
    BY DEF IInv, ObserversOK, FilesOK
  <2> QED
    BY <2>1 DEF AgentRecords, AgentStatuses
<1>6. AllocatorOK(alloc) /\ AllocatorOK(saved)
  BY DEF IInv, NumbersOK, AllocatorOK, Allocators
<1>7. up => saved.nextSeq <= alloc.nextSeq /\ Known(saved) \subseteq Known(alloc)
  BY DEF IInv, NumbersOK, Grows
<1>8. /\ phone.has \subseteq Ids /\ phone.on \in BOOLEAN
      /\ phone.ms \in Nat /\ phone.seq \in Nat /\ phone.older \in Nat
  BY DEF IInv, PhoneOK, Phones
<1>9. up \in BOOLEAN
  BY DEF IInv, FilesOK
<1>10. {up, obs.active, obs.justInterrupted, phone.on} \subseteq BOOLEAN
  BY <1>4, <1>8, <1>9
<1>11. {phone.ms, phone.seq, phone.older} \subseteq Nat
  BY <1>8
<1> QED
  BY <1>1, <1>2, <1>4, <1>5, <1>6, <1>7, <1>8, <1>10, <1>11 DEF SyncTypeOK

-----------------------------------------------------------------------------
(***************************************************************************)
(* Steps.  What the files hold is well typed, and what an operation leaves *)
(* alone stays as it is.                                                   *)
(***************************************************************************)

LEMMA OnDisk ==
  ASSUME FilesOK
  PROVE  /\ script.rows \in Seq(TranscriptRow) /\ script.files \in Seq(Seq(TranscriptRow))
         /\ Len(script.rows) \in Nat /\ size \div 2 \in Nat /\ size \div 2 <= Len(script.rows)
         /\ \E n \in Nat : Agents = 1 .. n
         /\ \A a \in Agents : /\ a \in Nat /\ script.files[a] \in Seq(TranscriptRow)
                              /\ Len(script.files[a]) \in Nat
<1>1. script \in Scripts /\ size \in Nat /\ size <= 2 * Len(script.rows)
  BY DEF FilesOK
<1>2. script.rows \in Seq(TranscriptRow) /\ script.files \in Seq(Seq(TranscriptRow))
  BY <1>1, ScriptAssumption
<1>3. Len(script.rows) \in Nat /\ size \div 2 \in Nat /\ size \div 2 <= Len(script.rows)
  BY <1>1, <1>2
<1>4. Agents = 1 .. Len(script.files) /\ Len(script.files) \in Nat
  BY <1>2 DEF Agents
<1>5. \A a \in Agents : script.files[a] \in Seq(TranscriptRow)
  BY <1>2, <1>4
<1> QED
  BY <1>2, <1>3, <1>4, <1>5

LEMMA PrefixTyped ==
  ASSUME NEW S, NEW s \in Seq(S), NEW n \in Nat, n <= Len(s)
  PROVE  SubSeq(s, 1, n) \in Seq(S)
OBVIOUS

LEMMA ReadFromDisk ==
  ASSUME FilesOK
  PROVE  Written \in Seq(TranscriptRow) /\ Files \in Seq(Seq(TranscriptRow))
<1>1. Written \in Seq(TranscriptRow)
  BY OnDisk, PrefixTyped DEF Written
<1>2. PICK n \in Nat : Agents = 1 .. n
  BY OnDisk
<1>3. \A a \in Agents : SubSeq(script.files[a], 1, sizes[a]) \in Seq(TranscriptRow)
  <2> SUFFICES ASSUME NEW a \in Agents
               PROVE  SubSeq(script.files[a], 1, sizes[a]) \in Seq(TranscriptRow)
    OBVIOUS
  <2>1. script.files[a] \in Seq(TranscriptRow)
    BY OnDisk
  <2>2. sizes[a] \in Nat /\ sizes[a] <= Len(script.files[a])
    BY DEF FilesOK
  <2> QED
    BY <2>1, <2>2, PrefixTyped
<1>4. Files \in Seq(Seq(TranscriptRow))
  <2> DEFINE part(a) == SubSeq(script.files[a], 1, sizes[a])
  <2>1. Files = [ a \in 1 .. n |-> part(a) ] /\ \A a \in 1 .. n : part(a) \in Seq(TranscriptRow)
    BY <1>2, <1>3 DEF Files
  <2> HIDE DEF part
  <2> QED
    BY <2>1
<1> QED
  BY <1>1, <1>4

\* Nothing that the numbers depend on changes.
LEMMA NumbersUntouched ==
  ASSUME NumbersOK, up' = up, alloc' = alloc, saved' = saved, cache' = cache, told' = told,
         lost' = lost
  PROVE  NumbersOK'
BY DEF NumbersOK, Serving

\* Sending live output numbers it in agreement, and shows it to the phone.
LEMMA Sent ==
  ASSUME NumbersOK, PhoneOK, up, NEW out \in Seq(Events), SendLive(out),
         UNCHANGED << up, saved, cache, lost >>
  PROVE  NumbersOK' /\ PhoneOK'
<1> DEFINE refs == Refs(cache.rows)
           sent == FoldLeft(NumberEvent, [alloc |-> alloc, told |-> told], out)
           events == { out[k] : k \in DOMAIN out }
<1>1. /\ alloc \in Allocators /\ saved \in Allocators /\ told \in SUBSET References
      /\ Grows(saved, alloc) /\ cache.rows \in Seq(NumberedRows)
      /\ Agree(alloc, Remembered(told, lost) \cup refs)
  BY DEF NumbersOK, Serving
<1>2. refs \in SUBSET References
  BY <1>1, RefsTyped
<1> HIDE DEF refs
<1>3. sent \in ToldSoFar(alloc, refs, lost)
  BY <1>1, <1>2, SendingAgrees
<1>4. alloc' = sent.alloc /\ told' = sent.told /\ Shown(events)
  BY DEF SendLive, Numbered
<1> HIDE DEF sent, events
<1>5. /\ alloc' \in Allocators /\ told' \in SUBSET References /\ Grows(alloc, alloc')
      /\ Agree(alloc', Remembered(told', lost) \cup refs)
  BY <1>3, <1>4 DEF ToldSoFar
<1>6. Grows(saved, alloc')
  BY <1>1, <1>5, GrowsOn
<1>7. NumbersOK'
  BY <1>1, <1>5, <1>6 DEF NumbersOK, Serving, refs
<1>8. { e.id : e \in events } \subseteq Ids
  <2>1. \A e \in events : e \in Events
    BY DEF events
  <2> QED
    BY <2>1 DEF Events
<1>9. PhoneOK'
  <2> DEFINE ids == { e.id : e \in events }
  <2>1. phone' = phone \/ phone' = [phone EXCEPT !.has = @ \cup ids]
    BY <1>4 DEF Shown
  <2>2. ids \subseteq Ids
    BY <1>8
  <2> HIDE DEF ids
  <2> QED
    BY <2>1, <2>2 DEF PhoneOK, Phones
<1> QED
  BY <1>7, <1>9

\* Claude writes.
LEMMA RowWritten ==
  ASSUME IInv, WriteRow
  PROVE  IInv'
<1>1. /\ size \in Nat /\ size <= 2 * Len(script.rows) /\ Len(script.rows) \in Nat
      /\ size \div 2 + 1 <= Len(script.rows)
  BY OnDisk DEF IInv, FilesOK, WriteRow
<1>2. (size' = size + 2 /\ size % 2 = 0) \/ size' = size + 1
  BY DEF WriteRow
<1>3. size' \in Nat /\ size <= size' /\ size' <= 2 * Len(script.rows)
  BY <1>1, <1>2
<1>4. FilesOK'
  BY <1>3 DEF IInv, FilesOK, WriteRow, Agents
<1>5. obs.offset <= size'
  <2>1. obs.offset \in Nat /\ obs.offset <= size
    BY DEF IInv, ObserversOK, Observers, ObserverRecords
  <2> QED
    BY <1>1, <1>3, <2>1
<1>6. ObserversOK'
  BY <1>5 DEF IInv, ObserversOK, WriteRow, Agents
<1>7. PhoneOK'
  BY DEF IInv, PhoneOK, WriteRow
<1>8. NumbersOK'
  BY NumbersUntouched DEF IInv, WriteRow, seenVars
<1> QED
  BY <1>4, <1>6, <1>7, <1>8 DEF IInv

LEMMA AgentRowWritten ==
  ASSUME IInv, NEW a \in Agents, WriteAgentRow(a)
  PROVE  IInv'
<1>1. /\ sizes \in [Agents -> Nat] /\ Len(script.files[a]) \in Nat /\ sizes[a] < Len(script.files[a])
      /\ sizes' = [sizes EXCEPT ![a] = @ + 1] /\ Agents' = Agents
  BY OnDisk DEF IInv, FilesOK, WriteAgentRow, Agents
<1>2. \A b \in Agents : sizes'[b] \in Nat /\ sizes[b] <= sizes'[b]
  BY <1>1
<1>3. \A b \in Agents : sizes'[b] <= Len(script.files[b])
  BY <1>1 DEF IInv, FilesOK
<1>4. FilesOK'
  <2>1. sizes' \in [Agents -> Nat]
    BY <1>1
  <2> QED
    BY <1>1, <1>3, <2>1 DEF IInv, FilesOK, WriteAgentRow
<1>5. \A b \in Agents : agents[b].offset <= sizes'[b]
  <2> SUFFICES ASSUME NEW b \in Agents PROVE agents[b].offset <= sizes'[b]
    OBVIOUS
  <2>1. agents[b] \in AgentRecords /\ agents[b].offset <= sizes[b] /\ sizes[b] \in Nat
    BY <1>1 DEF IInv, ObserversOK
  <2>2. agents[b].offset \in Nat
    BY <2>1 DEF AgentRecords
  <2> QED
    BY <1>2, <2>1, <2>2
<1>6. ObserversOK'
  BY <1>1, <1>5 DEF IInv, ObserversOK, WriteAgentRow
<1>7. PhoneOK'
  BY DEF IInv, PhoneOK, WriteAgentRow
<1>8. NumbersOK'
  BY NumbersUntouched DEF IInv, WriteAgentRow, seenVars
<1> QED
  BY <1>4, <1>6, <1>7, <1>8 DEF IInv

\* The observers read.
LEMMA ObserverPolled ==
  ASSUME IInv, ObserverPoll
  PROVE  IInv'
<1> DEFINE read == ReadNewEntries(obs, script.rows, size)
           place == << obs.active, obs.start, IF obs.active THEN size ELSE obs.offset >>
<1>1. /\ script.rows \in Seq(TranscriptRow) /\ size \in Nat /\ size \div 2 <= Len(script.rows)
      /\ obs \in Observers /\ obs.offset <= size /\ obs.start <= obs.offset
  BY OnDisk DEF IInv, FilesOK, ObserversOK
<1>2. read \in Emissions(place)
  BY <1>1, ReadTyped
<1>3. obs' = read.obs /\ SendLive(read.out) /\ obs.active /\ up
  BY DEF ObserverPoll, Observed
<1> HIDE DEF read
<1>4. read.out \in Seq(Events) /\ read.obs \in Observing(place)
  BY <1>2 DEF Emissions
<1>5. obs' \in Observers /\ obs'.start = obs.start /\ obs'.offset = size
  BY <1>3, <1>4 DEF Observing, Place
<1>6. obs.start <= size
  <2>1. obs.start \in Nat /\ obs.offset \in Nat
    BY <1>1 DEF Observers, ObserverRecords
  <2> QED
    BY <1>1, <2>1
<1>7. FilesOK'
  BY DEF IInv, FilesOK, ObserverPoll, fileVars, Agents
<1>8. ObserversOK'
  BY <1>1, <1>5, <1>6 DEF IInv, ObserversOK, ObserverPoll, fileVars, Agents
<1>9. NumbersOK' /\ PhoneOK'
  BY <1>3, <1>4, Sent DEF IInv, ObserverPoll
<1> QED
  BY <1>7, <1>8, <1>9 DEF IInv

LEMMA AgentTyped ==
  ASSUME IInv, NEW a \in Agents
  PROVE  /\ a \in Nat /\ script.files[a] \in Seq(TranscriptRow) /\ archive[a] \in Archives
         /\ sizes[a] \in Nat /\ sizes[a] <= Len(script.files[a])
         /\ agents[a] \in AgentRecords /\ agents[a].offset \in Nat /\ agents[a].offset <= sizes[a]
         /\ ReadAgent(agents[a], a, script.files[a], sizes[a]) \in AgentEmissions(sizes[a])
<1>1. a \in Nat /\ script.files[a] \in Seq(TranscriptRow)
  BY OnDisk DEF IInv
<1>2. /\ sizes[a] \in Nat /\ sizes[a] <= Len(script.files[a])
      /\ agents[a] \in AgentRecords /\ agents[a].offset <= sizes[a] /\ archive[a] \in Archives
  BY DEF IInv, FilesOK, ObserversOK
<1>3. agents[a].offset \in Nat
  BY <1>2 DEF AgentRecords
<1>4. ReadAgent(agents[a], a, script.files[a], sizes[a]) \in AgentEmissions(sizes[a])
  BY <1>1, <1>2, ReadAgentTyped
<1> QED
  BY <1>1, <1>2, <1>3, <1>4

LEMMA AgentEventsAre ==
  ASSUME NEW out \in Seq(AgentEvents)
  PROVE  out \in Seq(Events)
BY DEF AgentEvents

LEMMA AgentStarted ==
  ASSUME IInv, NEW a \in Agents, SubagentStart(a)
  PROVE  IInv'
<1> DEFINE new == [NoAgent EXCEPT !.known = TRUE]
<1>1. /\ agents' = [agents EXCEPT ![a] = new] /\ SendLive(StatusOnly(a, agents'[a])) /\ up
      /\ UNCHANGED << script, fileVars, archive, up, obs, saved, cache, lost >>
  BY DEF SubagentStart
<1>2. new \in AgentRecords /\ new.offset = 0
  BY NoAgentTyped DEF AgentsAt, AgentRecords
<1> HIDE DEF new
<1>3. a \in Nat /\ sizes[a] \in Nat
  BY AgentTyped
<1>4. FilesOK'
  BY <1>1 DEF IInv, FilesOK, fileVars, Agents
<1>5. ObserversOK'
  <2>1. agents' \in [Agents -> AgentRecords]
    BY <1>1, <1>2 DEF IInv, ObserversOK
  <2>2. \A b \in Agents : agents'[b].offset <= sizes[b]
    BY <1>1, <1>2, <1>3 DEF IInv, ObserversOK
  <2> QED
    BY <1>1, <2>1, <2>2 DEF IInv, ObserversOK, fileVars, Agents
<1>6. StatusOnly(a, agents'[a]) \in Seq(AgentEvents)
  BY <1>3, StatusOnlyTyped
<1>7. NumbersOK' /\ PhoneOK'
  BY <1>1, <1>6, AgentEventsAre, Sent DEF IInv
<1> QED
  BY <1>4, <1>5, <1>7 DEF IInv

LEMMA AgentStopped ==
  ASSUME IInv, NEW a \in Agents, SubagentStop(a)
  PROVE  IInv'
<1> DEFINE read == ReadAgent(agents[a], a, script.files[a], sizes[a])
           done == Done(read.agent)
           kept == ArchiveOf(read.agent.tools)
           out == read.out \o StatusOnly(a, done)
<1>1. /\ agents' = [agents EXCEPT ![a] = done] /\ archive' = [archive EXCEPT ![a] = kept]
      /\ SendLive(out) /\ up /\ UNCHANGED << script, fileVars, up, obs, saved, cache, lost >>
  BY DEF SubagentStop, MarkedDone
<1>2. a \in Nat /\ sizes[a] \in Nat /\ read \in AgentEmissions(sizes[a])
  BY AgentTyped
<1> HIDE DEF read
<1>3. read.agent \in AgentsAt(sizes[a]) /\ read.out \in Seq(AgentEvents)
  BY <1>2 DEF AgentEmissions
<1>4. done \in AgentRecords /\ done.offset = sizes[a]
  BY <1>3, DoneTyped DEF AgentsAt
<1>5. kept \in Archives
  BY <1>3 DEF AgentsAt, AgentRecords, ArchiveOf, Archives
<1>6. StatusOnly(a, done) \in Seq(AgentEvents)
  BY <1>2, StatusOnlyTyped
<1>7. out \in Seq(AgentEvents)
  BY <1>3, <1>6
<1> HIDE DEF done, kept, out
<1>8. FilesOK'
  <2>1. archive' \in [Agents -> Archives]
    BY <1>1, <1>5 DEF IInv, FilesOK
  <2> QED
    BY <1>1, <2>1 DEF IInv, FilesOK, fileVars, Agents
<1>9. ObserversOK'
  <2>1. agents' \in [Agents -> AgentRecords]
    BY <1>1, <1>4 DEF IInv, ObserversOK
  <2>2. \A b \in Agents : agents'[b].offset <= sizes[b]
    BY <1>1, <1>2, <1>4 DEF IInv, ObserversOK
  <2> QED
    BY <1>1, <2>1, <2>2 DEF IInv, ObserversOK, fileVars, Agents
<1>10. NumbersOK' /\ PhoneOK'
  BY <1>1, <1>7, AgentEventsAre, Sent DEF IInv
<1> QED
  BY <1>8, <1>9, <1>10 DEF IInv

LEMMA PolledTyped ==
  ASSUME IInv, NEW a \in Agents, NEW silent
  PROVE  Polled(a, silent) \in AgentEmissions(sizes[a])
<1> DEFINE found == IF agents[a].known \/ sizes[a] = 0 THEN agents[a] ELSE NewAgent(archive[a])
           read == ReadAgent(found, a, script.files[a], sizes[a])
           done == Done(read.agent)
<1>1. /\ a \in Nat /\ script.files[a] \in Seq(TranscriptRow) /\ archive[a] \in Archives
      /\ sizes[a] \in Nat /\ sizes[a] <= Len(script.files[a])
      /\ agents[a] \in AgentRecords /\ agents[a].offset <= sizes[a]
  BY AgentTyped
<1>2. found \in AgentRecords /\ found.offset <= sizes[a]
  <2>1. NewAgent(archive[a]) \in AgentRecords /\ NewAgent(archive[a]).offset = 0
    BY <1>1, NewAgentTyped DEF AgentsAt
  <2> QED
    BY <1>1, <2>1
<1> HIDE DEF found
<1>3. read \in AgentEmissions(sizes[a])
  BY <1>1, <1>2, ReadAgentTyped
<1>4. \/ Polled(a, silent) = read
      \/ Polled(a, silent) = [agent |-> done, out |-> StatusOnly(a, done)]
  BY DEF Polled, AfterTimeout, found
<1> HIDE DEF read
<1>5. done \in AgentsAt(sizes[a])
  BY <1>3, DoneTyped DEF AgentEmissions
<1>6. StatusOnly(a, done) \in Seq(AgentEvents)
  BY <1>1, StatusOnlyTyped
<1> HIDE DEF done
<1> QED
  BY <1>3, <1>4, <1>5, <1>6, AgentEmissionIs

LEMMA AgentsArePolled ==
  ASSUME IInv, NEW silent \in SUBSET Agents, AgentPoll(silent)
  PROVE  IInv'
<1> DEFINE after == [ a \in Agents |-> Polled(a, a \in silent) ]
           each == [ a \in Agents |-> after[a].out ]
<1>1. /\ agents' = [ a \in Agents |-> after[a].agent ]
      /\ archive' = [ a \in Agents |-> Archived(after[a].agent, a) ]
      /\ SendLive(FlattenSeq(each)) /\ up
      /\ UNCHANGED << script, fileVars, up, obs, saved, cache, lost >>
  BY DEF AgentPoll, AgentsPolled
<1>2. \A a \in Agents : after[a] \in AgentEmissions(sizes[a])
  BY PolledTyped
<1> HIDE DEF after
<1>3. \A a \in Agents : /\ after[a].agent \in AgentRecords /\ after[a].agent.offset = sizes[a]
                        /\ after[a].out \in Seq(AgentEvents)
  BY <1>2 DEF AgentEmissions, AgentsAt
<1>4. FilesOK'
  <2>1. ASSUME NEW a \in Agents PROVE Archived(after[a].agent, a) \in Archives
    <3>1. archive[a] \in Archives
      BY AgentTyped
    <3>2. after[a].agent.tools \in Nat
      BY <1>3 DEF AgentRecords
    <3> QED
      BY <3>1, <3>2 DEF Archived, ArchiveOf, Archives
  <2>2. archive' \in [Agents -> Archives]
    BY <1>1, <2>1
  <2> QED
    BY <1>1, <2>2 DEF IInv, FilesOK, fileVars, Agents
<1>5. ObserversOK'
  <2>1. agents' \in [Agents -> AgentRecords]
    BY <1>1, <1>3
  <2>2. \A a \in Agents : agents'[a].offset <= sizes[a]
    <3> SUFFICES ASSUME NEW a \in Agents PROVE agents'[a].offset <= sizes[a]
      OBVIOUS
    <3>1. agents'[a].offset = sizes[a] /\ sizes[a] \in Nat
      BY <1>1, <1>3, AgentTyped
    <3> QED
      BY <3>1
  <2> QED
    BY <1>1, <2>1, <2>2 DEF IInv, ObserversOK, fileVars, Agents
<1>6. each \in Seq(Seq(AgentEvents))
  <2>1. PICK n \in Nat : Agents = 1 .. n
    BY OnDisk DEF IInv
  <2>2. each = [ a \in 1 .. n |-> after[a].out ] /\ \A a \in 1 .. n : after[a].out \in Seq(AgentEvents)
    BY <1>3, <2>1
  <2> HIDE DEF each
  <2> QED
    BY <2>2
<1> HIDE DEF each
<1>7. FlattenSeq(each) \in Seq(AgentEvents)
  BY <1>6, FlattenedTyped
<1>8. NumbersOK' /\ PhoneOK'
  BY <1>1, <1>7, AgentEventsAre, Sent DEF IInv
<1> QED
  BY <1>4, <1>5, <1>8 DEF IInv

-----------------------------------------------------------------------------
(***************************************************************************)
(* The daemon's life.                                                      *)
(***************************************************************************)

\* What a crash leaves agrees with the file: a number that it does not hold
\* and that was told was given since it was saved, and is forgotten.
LEMMA ForgottenAgree ==
  ASSUME NEW old \in Allocators, NEW new \in Allocators, Grows(old, new),
         NEW refs \in SUBSET References, Agree(new, refs)
  PROVE  Agree(old, Remembered(refs, old.nextSeq .. new.nextSeq - 1))
<1> DEFINE rest == Remembered(refs, old.nextSeq .. new.nextSeq - 1)
<1>1. old.nextSeq \in Nat \ {0} /\ new.nextSeq \in Nat \ {0}
  BY AllocatorIs
<1>2. ASSUME NEW x \in rest PROVE Backed(old, x)
  <2>1. x \in refs /\ x.seq \notin old.nextSeq .. new.nextSeq - 1 /\ x.seq \in Nat
    BY DEF Remembered, References
  <2>2. Backed(new, x)
    BY <2>1 DEF Agree
  <2>3. x.seq \in 1 .. old.nextSeq - 1
    BY <1>1, <2>1, <2>2 DEF Backed
  <2>4. CASE Keyed(x.key)
    <3>1. x.key \in Known(new) /\ new.entries[x.key] = x.seq
      BY <2>2, <2>4 DEF Backed
    <3>2. x.key \in Known(old)
      <4> SUFFICES ASSUME x.key \notin Known(old) PROVE FALSE
        OBVIOUS
      <4>1. x.seq >= old.nextSeq
        BY <3>1 DEF Grows
      <4> QED
        BY <1>1, <2>1, <2>3, <4>1
    <3>3. old.entries[x.key] = x.seq
      BY <3>1, <3>2 DEF Grows
    <3> QED
      BY <2>3, <2>4, <3>2, <3>3 DEF Backed
  <2>5. CASE ~Keyed(x.key)
    BY <2>2, <2>3, <2>5 DEF Backed, Grows
  <2> QED
    BY <2>4, <2>5
<1>3. \A x, y \in rest : x.seq = y.seq => x.key = y.key
  BY DEF Agree, Remembered
<1> HIDE DEF rest
<1>4. Agree(old, rest)
  BY <1>2, <1>3 DEF Agree
<1> QED
  BY <1>4 DEF rest

LEMMA Flushed ==
  ASSUME IInv, Flush
  PROVE  IInv'
<1>1. FilesOK' /\ ObserversOK' /\ PhoneOK'
  BY DEF IInv, FilesOK, ObserversOK, PhoneOK, Flush, fileVars, Agents
<1>2. Grows(alloc, alloc)
  BY AllocatorIs DEF IInv, NumbersOK, Grows
<1>3. NumbersOK'
  BY <1>2 DEF IInv, NumbersOK, Serving, Flush, seenVars
<1> QED
  BY <1>1, <1>3 DEF IInv

LEMMA NoObserverTyped == NoObserver \in Observers /\ NoObserver.start = 0 /\ NoObserver.offset = 0
BY FS_EmptySet DEF NoObserver, Observers, ObserverRecords

\* However the daemon ends, its observers are gone, and the files stay.
LEMMA Ended ==
  ASSUME IInv, Ends
  PROVE  FilesOK' /\ ObserversOK' /\ PhoneOK'
<1>1. FilesOK' /\ PhoneOK'
  BY DEF IInv, FilesOK, PhoneOK, Ends, fileVars, Agents
<1>2. agents' \in [Agents -> AgentRecords] /\ \A a \in Agents : agents'[a].offset = 0
  BY NoAgentTyped DEF Ends, AgentsAt
<1>3. size \in Nat /\ \A a \in Agents : sizes[a] \in Nat
  BY DEF IInv, FilesOK
<1>4. \A a \in Agents : agents'[a].offset <= sizes[a]
  BY <1>2, <1>3
<1>5. obs' \in Observers /\ obs'.start <= obs'.offset /\ obs'.offset <= size
  BY <1>3, NoObserverTyped DEF Ends
<1> QED
  BY <1>1, <1>2, <1>4, <1>5 DEF ObserversOK, Ends, fileVars, Agents

LEMMA NoCacheTyped == NoCache.rows \in Seq(NumberedRows) /\ Refs(NoCache.rows) = {}
BY DEF NoCache, Refs

LEMMA Stopped ==
  ASSUME IInv, Stop
  PROVE  IInv'
<1>1. FilesOK' /\ ObserversOK' /\ PhoneOK'
  BY Ended DEF Stop
<1>2. /\ alloc \in Allocators /\ told \in SUBSET References
      /\ Agree(alloc, Remembered(told, lost) \cup Refs(cache.rows))
  BY DEF IInv, NumbersOK, Serving, Stop
<1>3. Remembered(told, lost) \in SUBSET (Remembered(told, lost) \cup Refs(cache.rows))
  OBVIOUS
<1>4. Agree(alloc, Remembered(told, lost))
  BY <1>2, <1>3, FewerAgree
<1>5. /\ ~up' /\ alloc' = EmptyAllocator /\ saved' = alloc /\ cache' = NoCache /\ told' = told
      /\ lost' = lost
  BY DEF Stop, Ends
<1>6. Remembered(told, lost) \cup {} = Remembered(told, lost)
  OBVIOUS
<1>7. NumbersOK'
  BY <1>2, <1>4, <1>5, <1>6, EmptyTyped, NoCacheTyped DEF NumbersOK, Serving
<1> QED
  BY <1>1, <1>7 DEF IInv

LEMMA Crashed ==
  ASSUME IInv, Crash
  PROVE  IInv'
<1> DEFINE gone == saved.nextSeq .. alloc.nextSeq - 1
<1>1. FilesOK' /\ ObserversOK' /\ PhoneOK'
  BY Ended DEF Crash
<1>2. /\ alloc \in Allocators /\ saved \in Allocators /\ Grows(saved, alloc)
      /\ told \in SUBSET References /\ Agree(alloc, Remembered(told, lost) \cup Refs(cache.rows))
  BY DEF IInv, NumbersOK, Serving, Crash
<1>3. Remembered(told, lost) \in SUBSET (Remembered(told, lost) \cup Refs(cache.rows))
  OBVIOUS
<1>4. Agree(alloc, Remembered(told, lost))
  BY <1>2, <1>3, FewerAgree
<1>5. Remembered(told, lost) \in SUBSET References
  BY <1>2 DEF Remembered
<1>6. Agree(saved, Remembered(Remembered(told, lost), gone))
  BY <1>2, <1>4, <1>5, ForgottenAgree
<1> HIDE DEF gone
<1>7. Remembered(Remembered(told, lost), gone) = Remembered(told, lost \cup gone)
  BY DEF Remembered
<1>8. /\ ~up' /\ alloc' = EmptyAllocator /\ saved' = saved /\ cache' = NoCache /\ told' = told
      /\ lost' = lost \cup gone
  BY DEF Crash, Ends, gone
<1>9. Remembered(told', lost') \cup {} = Remembered(told, lost \cup gone)
  BY <1>8
<1>10. Agree(saved', Remembered(told', lost') \cup Refs(cache'.rows))
  BY <1>6, <1>7, <1>8, <1>9, NoCacheTyped
<1>11. NumbersOK'
  BY <1>2, <1>8, <1>10, EmptyTyped, NoCacheTyped DEF NumbersOK, Serving
<1> QED
  BY <1>1, <1>11 DEF IInv

LEMMA Started ==
  ASSUME IInv, NEW quiet \in BOOLEAN, Start(quiet)
  PROVE  IInv'
<1> DEFINE found(a) == IF sizes[a] = 0 THEN NoAgent
                       ELSE InitialAgent(script.files[a], sizes[a], archive[a], quiet)
           kept(a) == IF found(a).doneEmitted /\ archive[a] = NoArchive
                      THEN ArchiveOf(found(a).tools) ELSE archive[a]
<1>1. /\ ~up /\ up' = TRUE /\ alloc' = saved /\ obs' = StartObserver(size)
      /\ agents' = [ a \in Agents |-> found(a) ] /\ archive' = [ a \in Agents |-> kept(a) ]
      /\ UNCHANGED << script, fileVars, saved, cache, phone, seenVars, lost >>
  BY DEF Start
<1>2. \A a \in Agents : found(a) \in AgentRecords /\ found(a).offset <= sizes[a]
  <2> SUFFICES ASSUME NEW a \in Agents
               PROVE  found(a) \in AgentRecords /\ found(a).offset <= sizes[a]
    OBVIOUS
  <2>1. /\ script.files[a] \in Seq(TranscriptRow) /\ archive[a] \in Archives
        /\ sizes[a] \in Nat /\ sizes[a] <= Len(script.files[a])
    BY AgentTyped
  <2>2. InitialAgent(script.files[a], sizes[a], archive[a], quiet) \in AgentsAt(sizes[a])
    BY <2>1, InitialAgentTyped
  <2>3. NoAgent \in AgentsAt(0)
    BY NoAgentTyped
  <2> QED
    BY <2>1, <2>2, <2>3 DEF AgentsAt
<1> HIDE DEF found
<1>3. \A a \in Agents : kept(a) \in Archives
  <2> SUFFICES ASSUME NEW a \in Agents PROVE kept(a) \in Archives
    OBVIOUS
  <2>1. found(a).tools \in Nat /\ archive[a] \in Archives
    BY <1>2, AgentTyped DEF AgentRecords
  <2> QED
    BY <2>1 DEF ArchiveOf, Archives
<1> HIDE DEF kept
<1>4. FilesOK'
  <2>1. archive' \in [Agents -> Archives]
    BY <1>1, <1>3
  <2> QED
    BY <1>1, <2>1 DEF IInv, FilesOK, fileVars, Agents
<1>5. size \in Nat
  BY DEF IInv, FilesOK
<1>6. obs' \in Observers /\ obs'.start = size /\ obs'.offset = size
  <2> DEFINE t == StartObserver(size)
  <2>1. t \in ObserverRecords
    BY <1>5, NoObserverTyped DEF StartObserver, Observers, ObserverRecords
  <2>2. t.pending = {} /\ t.start = size /\ t.offset = size
    BY DEF StartObserver, NoObserver
  <2> HIDE DEF t
  <2> QED
    BY <1>1, <2>1, <2>2, FS_EmptySet DEF Observers, t
<1>7. ObserversOK'
  <2>1. agents' \in [Agents -> AgentRecords] /\ \A a \in Agents : agents'[a].offset <= sizes[a]
    BY <1>1, <1>2
  <2> QED
    BY <1>1, <1>5, <1>6, <2>1 DEF ObserversOK, fileVars, Agents
<1>8. PhoneOK'
  BY <1>1 DEF IInv, PhoneOK
<1>9. Grows(saved, saved)
  BY AllocatorIs DEF IInv, NumbersOK, Grows
<1>10. NumbersOK'
  BY <1>1, <1>9 DEF IInv, NumbersOK, Serving, seenVars
<1> QED
  BY <1>4, <1>7, <1>8, <1>10 DEF IInv

-----------------------------------------------------------------------------
(***************************************************************************)
(* Requests of the phone.                                                  *)
(***************************************************************************)

LEMMA ParsedAgrees ==
  ASSUME IInv, up
  PROVE  /\ Parsed.alloc \in Allocators /\ Grows(alloc, Parsed.alloc)
         /\ Parsed.rows \in Seq(NumberedRows)
         /\ Agree(Parsed.alloc, Remembered(told, lost) \cup Refs(Parsed.rows))
<1> DEFINE refs == Remembered(told, lost)
           parsed == ParseHistory(alloc, Written, Files)
<1>1. /\ alloc \in Allocators /\ told \in SUBSET References /\ cache.rows \in Seq(NumberedRows)
      /\ Agree(alloc, refs \cup Refs(cache.rows))
  BY DEF IInv, NumbersOK, Serving
<1>2. refs \in SUBSET References
  BY <1>1 DEF Remembered
<1> HIDE DEF refs
<1>3. refs \in SUBSET (refs \cup Refs(cache.rows))
  OBVIOUS
<1>4. Agree(alloc, refs)
  BY <1>1, <1>3, FewerAgree
<1>5. Written \in Seq(TranscriptRow) /\ Files \in Seq(Seq(TranscriptRow))
  BY ReadFromDisk DEF IInv
<1>6. /\ parsed.alloc \in Allocators /\ Grows(alloc, parsed.alloc)
      /\ parsed.rows \in Seq(NumberedRows)
      /\ Agree(parsed.alloc, refs \cup Refs(parsed.rows))
  BY <1>1, <1>2, <1>4, <1>5, ParseAgrees
<1> HIDE DEF parsed
<1>7. CASE cache.version = Version
  <2>1. Parsed = [alloc |-> alloc, rows |-> cache.rows]
    BY <1>7 DEF Parsed
  <2>2. Grows(alloc, alloc)
    BY <1>1, AllocatorIs DEF Grows
  <2> QED
    BY <1>1, <2>1, <2>2 DEF refs
<1>8. CASE cache.version # Version
  <2>1. Parsed = parsed
    BY <1>8 DEF Parsed, parsed
  <2> QED
    BY <1>6, <2>1 DEF refs
<1> QED
  BY <1>7, <1>8

\* The rows of a page are rows of the parse.
LEMMA PageTold ==
  ASSUME NEW rows \in Seq(NumberedRows), NEW page \in Pages(Refs(rows))
  PROVE  /\ { [key |-> page.messages[k].key, seq |-> page.messages[k].seq] :
                k \in DOMAIN page.messages } \subseteq Refs(rows)
         /\ IdsOf(page.messages) \subseteq Ids
<1>1. page.messages \in Seq(RowsAmong(Refs(rows)))
  BY DEF Pages
<1>2. \A k \in DOMAIN page.messages : page.messages[k] \in RowsAmong(Refs(rows))
  BY <1>1
<1>3. \A k \in DOMAIN page.messages :
        page.messages[k].id \in Ids /\ RefOf(page.messages[k]) \in Refs(rows)
  BY <1>2 DEF RowsAmong, NumberedRows
<1> HIDE DEF Refs
<1>4. \A k \in DOMAIN page.messages :
        [key |-> page.messages[k].key, seq |-> page.messages[k].seq] \in Refs(rows)
  BY <1>3 DEF RefOf
<1> QED
  BY <1>3, <1>4 DEF IdsOf

\* A request parses, and tells the phone rows of the parse.
LEMMA ParsedStep ==
  ASSUME IInv, up, Parse, up' = up, lost' = lost,
         told' \in SUBSET (told \cup Refs(cache'.rows))
  PROVE  FilesOK' /\ ObserversOK' /\ NumbersOK'
<1>1. /\ alloc' = Parsed.alloc /\ cache'.rows = Parsed.rows
      /\ UNCHANGED << script, fileVars, up, obs, agents, saved, lost >>
      /\ archive' = IF cache.version = Version THEN archive ELSE ArchivedByParse
  BY DEF Parse, ParseAs
<1>2. /\ alloc' \in Allocators /\ Grows(alloc, alloc') /\ cache'.rows \in Seq(NumberedRows)
      /\ Agree(alloc', Remembered(told, lost) \cup Refs(cache'.rows))
  BY <1>1, ParsedAgrees
<1>3. alloc \in Allocators /\ saved \in Allocators /\ Grows(saved, alloc) /\ told \in SUBSET References
  BY DEF IInv, NumbersOK
<1>4. Grows(saved, alloc')
  BY <1>2, <1>3, GrowsOn
<1>5. told' \in SUBSET References
  <2>1. Refs(cache'.rows) \subseteq References
    BY <1>2, RefsTyped
  <2> QED
    BY <1>3, <2>1
<1>6. (Remembered(told', lost') \cup Refs(cache'.rows))
        \in SUBSET (Remembered(told, lost) \cup Refs(cache'.rows))
  BY DEF Remembered
<1>7. Agree(alloc', Remembered(told', lost') \cup Refs(cache'.rows))
  BY <1>2, <1>6, FewerAgree
<1>8. NumbersOK'
  BY <1>1, <1>2, <1>3, <1>4, <1>5, <1>7 DEF NumbersOK, Serving
<1>9. ASSUME NEW a \in Agents PROVE ArchivedByParse[a] \in Archives
  <2>1. /\ script.files[a] \in Seq(TranscriptRow) /\ archive[a] \in Archives
        /\ sizes[a] \in Nat /\ sizes[a] <= Len(script.files[a])
    BY AgentTyped
  <2>2. ToolsIn(script.files[a], sizes[a]) \in Nat
    BY <2>1, ToolsTyped
  <2> QED
    BY <2>1, <2>2 DEF ArchivedByParse, ArchiveOf, Archives
<1>10. ArchivedByParse \in [Agents -> Archives]
  <2>1. ArchivedByParse = [ a \in Agents |-> ArchivedByParse[a] ]
    BY DEF ArchivedByParse
  <2> QED
    BY <1>9, <2>1
<1>11. FilesOK'
  BY <1>1, <1>10 DEF IInv, FilesOK, fileVars, Agents
<1>12. ObserversOK'
  BY <1>1 DEF IInv, ObserversOK, fileVars, Agents
<1> QED
  BY <1>8, <1>11, <1>12

\* A page that the phone gets, of the rows of a parse.
LEMMA SentPage ==
  ASSUME NEW rows \in Seq(NumberedRows), NEW cursor \in Cursors, NEW offset \in Nat
  PROVE  SendSessionHistory(rows, cursor, offset, Undefined) \in Pages(Refs(rows))
<1> DEFINE limit == PageLimit(Undefined, cursor)
<1>1. limit \in Nat
  BY LimitAssumption DEF PageLimit, Undefined
<1> HIDE DEF limit
<1>2. Page(rows, cursor, offset, limit) \in Pages(Refs(rows))
  BY <1>1, PageTyped
<1> QED
  BY <1>2 DEF SendSessionHistory, limit

LEMMA CursorTyped ==
  ASSUME PhoneOK
  PROVE  PhoneCursor \in Cursors /\ NoCursor \in Cursors /\ phone.older \in Nat
BY DEF PhoneOK, Phones, PhoneCursor, NoCursor, Cursors, Undefined

LEMMA RequestIs ==
  ASSUME IInv, Requests, Parse
  PROVE  up /\ up' = up /\ lost' = lost /\ cache'.rows \in Seq(NumberedRows)
<1>1. up /\ up' = up /\ lost' = lost /\ cache'.rows = Parsed.rows
  BY DEF Requests, Parse, ParseAs
<1> QED
  BY <1>1, ParsedAgrees

LEMMA SyncIs ==
  ASSUME IInv, NEW arrives \in BOOLEAN, Sync(arrives)
  PROVE  IInv'
<1> DEFINE page == SendSessionHistory(cache'.rows, PhoneCursor, 0, Undefined)
<1>1. up /\ up' = up /\ lost' = lost /\ cache'.rows \in Seq(NumberedRows) /\ Parse
  BY RequestIs DEF Sync
<1>2. Synced(page, arrives)
  BY DEF Sync
<1>3. page \in Pages(Refs(cache'.rows))
  BY <1>1, SentPage, CursorTyped DEF IInv
<1> HIDE DEF page
<1>4. /\ told' \in SUBSET (told \cup Refs(cache'.rows))
      /\ IdsOf(page.messages) \subseteq Ids
  BY <1>1, <1>2, <1>3, PageTold DEF Synced, ToldBy
<1>5. page.tailMs \in Nat /\ page.tailSeq \in Nat /\ page.nextOffset \in Nat
  BY <1>3 DEF Pages
<1>6. PhoneOK'
  <2> DEFINE ms == Reached(page.tailMs, phone.ms)
             seq == Reached(page.tailSeq, phone.seq)
             older == Reached(page.nextOffset, phone.older)
             has == phone.has \cup IdsOf(page.messages)
  <2>1. phone \in Phones
    BY DEF IInv, PhoneOK
  <2>2. ms \in Nat /\ seq \in Nat /\ older \in Nat /\ has \in SUBSET Ids
    BY <1>4, <1>5, <2>1 DEF Phones, Reached
  <2>3. phone' = IF arrives
                 THEN [phone EXCEPT !.has = has, !.ms = ms, !.seq = seq, !.older = older]
                 ELSE [phone EXCEPT !.on = FALSE]
    BY <1>2 DEF Synced
  <2> HIDE DEF ms, seq, older, has
  <2> QED
    BY <2>1, <2>2, <2>3 DEF PhoneOK, Phones
<1> QED
  BY <1>1, <1>4, <1>6, ParsedStep DEF IInv

LEMMA OlderIs ==
  ASSUME IInv, GetHistory
  PROVE  IInv'
<1> DEFINE page == SendSessionHistory(cache'.rows, NoCursor, phone.older, Undefined)
<1>1. up /\ up' = up /\ lost' = lost /\ cache'.rows \in Seq(NumberedRows) /\ Parse
  BY RequestIs DEF GetHistory
<1>2. Older(page)
  BY DEF GetHistory
<1>3. page \in Pages(Refs(cache'.rows))
  BY <1>1, SentPage, CursorTyped DEF IInv
<1> HIDE DEF page
<1>4. /\ told' \in SUBSET (told \cup Refs(cache'.rows))
      /\ IdsOf(page.messages) \subseteq Ids
  BY <1>1, <1>2, <1>3, PageTold DEF Older, ToldBy
<1>5. page.nextOffset \in Nat
  BY <1>3 DEF Pages
<1>6. PhoneOK'
  <2> DEFINE has == phone.has \cup IdsOf(page.messages)
  <2>1. phone \in Phones
    BY DEF IInv, PhoneOK
  <2>2. has \in SUBSET Ids
    BY <1>4, <2>1 DEF Phones
  <2>3. phone' = [phone EXCEPT !.has = has, !.older = page.nextOffset]
    BY <1>2 DEF Older
  <2> HIDE DEF has
  <2> QED
    BY <1>5, <2>1, <2>2, <2>3 DEF PhoneOK, Phones
<1> QED
  BY <1>1, <1>4, <1>6, ParsedStep DEF IInv

LEMMA VerifyIs ==
  ASSUME IInv, Verify
  PROVE  IInv'
<1>1. up /\ up' = up /\ lost' = lost /\ cache'.rows \in Seq(NumberedRows) /\ Parse
  BY RequestIs DEF Verify
<1>2. told' \in SUBSET (told \cup Refs(cache'.rows))
  BY DEF Verify
<1>3. \/ phone' = [phone EXCEPT !.ms = Undefined, !.seq = Undefined, !.older = Undefined]
      \/ phone' = phone
  BY DEF Verify
<1>4. PhoneOK'
  <2> DEFINE reset == [phone EXCEPT !.ms = Undefined, !.seq = Undefined, !.older = Undefined]
  <2>1. phone \in Phones
    BY DEF IInv, PhoneOK
  <2>2. reset \in Phones
    BY <2>1 DEF Phones, Undefined
  <2> HIDE DEF reset
  <2>3. phone' = reset \/ phone' = phone
    BY <1>3 DEF reset
  <2> QED
    BY <2>1, <2>2, <2>3 DEF PhoneOK
<1> QED
  BY <1>1, <1>2, <1>4, ParsedStep DEF IInv

LEMMA Toggled ==
  ASSUME IInv, PhoneToggles
  PROVE  IInv'
<1>1. FilesOK' /\ ObserversOK'
  BY DEF IInv, FilesOK, ObserversOK, PhoneToggles, fileVars, Agents
<1>2. PhoneOK'
  BY DEF IInv, PhoneOK, Phones, PhoneToggles
<1>3. NumbersOK'
  BY NumbersUntouched DEF IInv, PhoneToggles, seenVars
<1> QED
  BY <1>1, <1>2, <1>3 DEF IInv

-----------------------------------------------------------------------------
(***************************************************************************)
(* What the subagents' observer counts.  An agent that is known counts     *)
(* what its file holds up to the offset; an archive was written at the end *)
(* of the file, with the file's count, and while the daemon runs the agent *)
(* of an archive is known: it would be read again on top of the archived   *)
(* count.                                                                  *)
(***************************************************************************)

AgentOK(rows, n, g, kept, running) ==
    /\ g.known => Tally(ToolIds(rows, g.offset), g)
    /\ kept # NoArchive => n = Len(rows) /\ kept = ArchiveOf(ToolsIn(rows, n))
    /\ running /\ ~g.known /\ kept # NoArchive => n = 0
CountsOK ==
    \A a \in Agents \ outran : AgentOK(script.files[a], sizes[a], agents[a], archive[a], up)

LEMMA UnreadTally ==
  ASSUME NEW rows
  PROVE  Tally(ToolIds(rows, 0), [NoAgent EXCEPT !.known = TRUE])
<1>1. 1 .. 0 = {}
  OBVIOUS
<1>2. ToolIds(rows, 0) = {}
  BY <1>1 DEF ToolIds
<1>3. Cardinality({}) = 0
  BY FS_EmptySet
<1> QED
  BY <1>2, <1>3 DEF Tally, NoAgent

LEMMA CountsUntouched ==
  ASSUME CountsOK, UNCHANGED << script, sizes, archive, up, agents, outran >>
  PROVE  CountsOK'
BY DEF CountsOK, Agents

LEMMA AgentRowCounts ==
  ASSUME IInv, CountsOK, NEW b \in Agents, WriteAgentRow(b)
  PROVE  CountsOK'
<1>1. /\ sizes[b] < Len(script.files[b]) /\ sizes' = [sizes EXCEPT ![b] = @ + 1]
      /\ UNCHANGED << script, archive, up, agents, outran >> /\ Agents' = Agents
  BY DEF WriteAgentRow, Agents
<1>2. sizes \in [Agents -> Nat]
  BY DEF IInv, FilesOK
<1> SUFFICES ASSUME NEW a \in Agents, a \notin outran
             PROVE  AgentOK(script.files[a], sizes'[a], agents[a], archive[a], up)
  BY <1>1 DEF CountsOK
<1>3. AgentOK(script.files[a], sizes[a], agents[a], archive[a], up)
  BY DEF CountsOK
<1>4. CASE a # b
  BY <1>1, <1>2, <1>3, <1>4
<1>5. CASE a = b
  <2>1. sizes[a] \in Nat /\ Len(script.files[a]) \in Nat
    BY <1>2, OnDisk DEF IInv
  <2>2. archive[a] = NoArchive
    BY <1>1, <1>3, <1>5, <2>1 DEF AgentOK
  <2> QED
    BY <1>3, <2>2 DEF AgentOK
<1> QED
  BY <1>4, <1>5

LEMMA StartCounts ==
  ASSUME IInv, CountsOK, NEW b \in Agents, SubagentStart(b)
  PROVE  CountsOK'
<1> DEFINE new == [NoAgent EXCEPT !.known = TRUE]
<1>1. /\ agents' = [agents EXCEPT ![b] = new] /\ agents \in [Agents -> AgentRecords]
      /\ UNCHANGED << script, sizes, archive, up, outran >> /\ Agents' = Agents
  BY DEF SubagentStart, fileVars, Agents, IInv, ObserversOK
<1>2. new.known /\ new.offset = 0
  BY DEF NoAgent
<1> SUFFICES ASSUME NEW a \in Agents, a \notin outran
             PROVE  AgentOK(script.files[a], sizes[a], agents'[a], archive[a], up)
  BY <1>1 DEF CountsOK
<1>3. AgentOK(script.files[a], sizes[a], agents[a], archive[a], up)
  BY DEF CountsOK
<1>4. Tally(ToolIds(script.files[a], new.offset), new)
  BY <1>2, UnreadTally
<1> HIDE DEF new
<1>5. agents'[a] = IF a = b THEN new ELSE agents[a]
  BY <1>1
<1> QED
  BY <1>2, <1>3, <1>4, <1>5 DEF AgentOK

\* What a file of a script holds.
LEMMA FileIs ==
  ASSUME IInv, NEW a \in Agents
  PROVE  OneRowPerCall(script.files[a]) /\ Len(script.files[a]) \in Nat
BY ScriptAssumption, OnDisk DEF IInv, FilesOK, Agents

\* An agent that is read, and perhaps done with it.
LEMMA ReadIsTallied ==
  ASSUME IInv, NEW a \in Agents, NEW g \in AgentRecords, g.offset <= sizes[a],
         Tally(ToolIds(script.files[a], g.offset), g),
         NEW after, NEW read, read = ReadAgent(g, a, script.files[a], sizes[a]).agent,
         after = read \/ after = Done(read)
  PROVE  /\ after.known = g.known /\ after.offset = sizes[a]
         /\ Tally(ToolIds(script.files[a], sizes[a]), after)
         /\ after.tools = read.tools /\ read.tools = ToolsIn(script.files[a], sizes[a])
<1> DEFINE rows == script.files[a]
           n == sizes[a]
<1>1. a \in Nat /\ rows \in Seq(TranscriptRow) /\ n \in Nat /\ n <= Len(rows) /\ OneRowPerCall(rows)
  BY AgentTyped, FileIs
<1>2. g.offset <= n /\ Tally(ToolIds(rows, g.offset), g) /\ read = ReadAgent(g, a, rows, n).agent
  OBVIOUS
<1> HIDE DEF rows, n
<1>3. read.known = g.known /\ Tally(ToolIds(rows, n), read)
  BY <1>1, <1>2, ReadAgentCounts
<1>4. read \in AgentsAt(n)
  BY <1>1, <1>2, ReadAgentTyped DEF AgentEmissions
<1>5. /\ after.known = read.known /\ after.offset = n /\ after.emitted = read.emitted
      /\ after.tools = read.tools
  BY <1>4 DEF Done, AgentsAt, AgentRecords
<1> QED
  BY <1>3, <1>5 DEF Tally, ToolsIn, rows, n

LEMMA StopCounts ==
  ASSUME IInv, CountsOK, NEW b \in Agents, SubagentStop(b)
  PROVE  CountsOK'
<1> DEFINE read == ReadAgent(agents[b], b, script.files[b], sizes[b])
           done == Done(read.agent)
           kept == ArchiveOf(read.agent.tools)
<1>1. /\ agents' = [agents EXCEPT ![b] = done] /\ archive' = [archive EXCEPT ![b] = kept]
      /\ outran' = Outran(archive') /\ agents[b].known
      /\ UNCHANGED << script, sizes, up >> /\ Agents' = Agents
  BY DEF SubagentStop, MarkedDone, fileVars, Agents
<1>2. agents \in [Agents -> AgentRecords] /\ archive \in [Agents -> Archives]
  BY DEF IInv, FilesOK, ObserversOK
<1> SUFFICES ASSUME NEW a \in Agents, a \notin outran'
             PROVE  AgentOK(script.files[a], sizes[a], agents'[a], archive'[a], up)
  BY <1>1 DEF CountsOK
<1>3. a \notin outran /\ ~(archive[a] = NoArchive /\ archive'[a] # NoArchive
                            /\ (sizes[a] < Len(script.files[a]) \/ ~agents[a].known))
  BY <1>1 DEF Outran
<1>4. AgentOK(script.files[a], sizes[a], agents[a], archive[a], up)
  BY <1>3 DEF CountsOK
<1>5. CASE a # b
  <2>1. agents'[a] = agents[a] /\ archive'[a] = archive[a]
    BY <1>1, <1>2, <1>5
  <2> QED
    BY <1>4, <2>1
<1>6. CASE a = b
  <2>1. agents'[a] = done /\ archive'[a] = kept
    BY <1>1, <1>2, <1>6
  <2>2. agents[a] \in AgentRecords /\ agents[a].offset <= sizes[a]
        /\ sizes[a] \in Nat /\ sizes[a] <= Len(script.files[a])
    BY AgentTyped
  <2>3. Tally(ToolIds(script.files[a], agents[a].offset), agents[a])
    BY <1>1, <1>4, <1>6 DEF AgentOK
  <2>4. /\ done.known /\ done.offset = sizes[a] /\ Tally(ToolIds(script.files[a], sizes[a]), done)
        /\ read.agent.tools = ToolsIn(script.files[a], sizes[a])
    BY <1>1, <1>6, <2>2, <2>3, ReadIsTallied
  <2>5. kept = ArchiveOf(ToolsIn(script.files[a], sizes[a])) /\ kept # NoArchive
    BY <2>4 DEF ArchiveOf, NoArchive
  <2> HIDE DEF done, kept, read
  <2>6. sizes[a] = Len(script.files[a])
    <3>1. CASE archive[a] = NoArchive
      BY <1>3, <2>1, <2>2, <2>5, <3>1, FileIs
    <3>2. CASE archive[a] # NoArchive
      BY <1>4, <3>2 DEF AgentOK
    <3> QED
      BY <3>1, <3>2
  <2> QED
    BY <2>1, <2>4, <2>5, <2>6 DEF AgentOK
<1> QED
  BY <1>5, <1>6

LEMMA PollCounts ==
  ASSUME IInv, CountsOK, NEW silent \in SUBSET Agents, AgentPoll(silent)
  PROVE  CountsOK'
<1> DEFINE after == [ a \in Agents |-> Polled(a, a \in silent) ]
<1>1. /\ agents' = [ a \in Agents |-> after[a].agent ]
      /\ archive' = [ a \in Agents |-> Archived(after[a].agent, a) ]
      /\ outran' = Outran(archive')
      /\ UNCHANGED << script, sizes, up >> /\ Agents' = Agents
  BY DEF AgentPoll, AgentsPolled, fileVars, Agents
<1> SUFFICES ASSUME NEW a \in Agents, a \notin outran'
             PROVE  AgentOK(script.files[a], sizes[a], agents'[a], archive'[a], up)
  BY <1>1 DEF CountsOK
<1>2. a \notin outran /\ ~(archive[a] = NoArchive /\ archive'[a] # NoArchive
                            /\ (sizes[a] < Len(script.files[a]) \/ ~agents[a].known))
  BY <1>1 DEF Outran
<1>3. AgentOK(script.files[a], sizes[a], agents[a], archive[a], up)
  BY <1>2 DEF CountsOK
<1> DEFINE silently == a \in silent
           found == IF agents[a].known \/ sizes[a] = 0 THEN agents[a] ELSE NewAgent(archive[a])
           read == ReadAgent(found, a, script.files[a], sizes[a]).agent
           new == Polled(a, silently).agent
<1>4. agents'[a] = new /\ archive'[a] = Archived(new, a)
  BY <1>1
<1>5. new = read \/ new = Done(read)
  BY DEF Polled, AfterTimeout
<1>6. /\ agents[a] \in AgentRecords /\ agents[a].offset <= sizes[a] /\ archive[a] \in Archives
      /\ sizes[a] \in Nat /\ sizes[a] <= Len(script.files[a]) /\ Len(script.files[a]) \in Nat
  BY AgentTyped, FileIs
<1>7. up
  BY DEF AgentPoll
<1> HIDE DEF new
<1>8. CASE agents[a].known
  <2>1. found = agents[a]
    BY <1>8
  <2>2. Tally(ToolIds(script.files[a], found.offset), found)
    BY <1>3, <1>8, <2>1 DEF AgentOK
  <2>3. /\ new.known /\ new.offset = sizes[a] /\ Tally(ToolIds(script.files[a], sizes[a]), new)
        /\ new.tools = ToolsIn(script.files[a], sizes[a])
    BY <1>5, <1>6, <1>8, <2>1, <2>2, ReadIsTallied
  <2>4. archive'[a] # NoArchive =>
          sizes[a] = Len(script.files[a]) /\ archive'[a] = ArchiveOf(ToolsIn(script.files[a], sizes[a]))
    <3> SUFFICES ASSUME archive'[a] # NoArchive
                 PROVE  /\ sizes[a] = Len(script.files[a])
                        /\ archive'[a] = ArchiveOf(ToolsIn(script.files[a], sizes[a]))
      OBVIOUS
    <3>1. archive'[a] = ArchiveOf(new.tools) \/ archive'[a] = archive[a]
      BY <1>4 DEF Archived
    <3>2. CASE archive[a] = NoArchive
      BY <1>2, <1>6, <2>3, <3>1, <3>2
    <3>3. CASE archive[a] # NoArchive
      BY <1>3, <2>3, <3>1, <3>3 DEF AgentOK
    <3> QED
      BY <3>2, <3>3
  <2> QED
    BY <1>4, <2>3, <2>4 DEF AgentOK
<1>9. CASE ~agents[a].known
  <2>1. archive'[a] = archive[a]
    BY <1>4, <1>9 DEF Archived
  <2>2. CASE sizes[a] = 0
    <3>1. ~new.known
      <4>1. found = agents[a]
        BY <2>2
      <4>2. read.known = agents[a].known
        <5>1. agents[a].offset = sizes[a]
          BY <1>6, <2>2 DEF AgentRecords
        <5> QED
          BY <1>6, <4>1, <5>1, ReadNothing
      <4>3. read.known = new.known
        <5>1. read \in AgentRecords
          BY <1>6, <4>1, ReadAgentTyped, AgentTyped DEF AgentEmissions, AgentsAt
        <5> HIDE DEF read
        <5> QED
          BY <1>5, <5>1 DEF Done, AgentRecords
      <4> QED
        BY <1>9, <4>2, <4>3
    <3> QED
      BY <1>3, <1>4, <2>1, <2>2, <3>1 DEF AgentOK
  <2>3. CASE sizes[a] # 0
    <3>1. archive[a] = NoArchive
      BY <1>3, <1>7, <1>9, <2>3 DEF AgentOK
    <3>2. found = [NoAgent EXCEPT !.known = TRUE]
      BY <1>9, <2>3, <3>1 DEF NewAgent
    <3>3. found \in AgentRecords /\ found.known /\ found.offset = 0
      BY <3>2, NoAgentTyped DEF AgentsAt, AgentRecords, NoAgent
    <3>4. Tally(ToolIds(script.files[a], found.offset), found)
      BY <3>2, <3>3, UnreadTally
    <3>5. found.offset <= sizes[a]
      BY <1>6, <3>3
    <3> HIDE DEF found
    <3>6. /\ new.known /\ new.offset = sizes[a] /\ Tally(ToolIds(script.files[a], sizes[a]), new)
      BY <1>5, <3>3, <3>4, <3>5, ReadIsTallied
    <3> QED
      BY <1>4, <2>1, <3>1, <3>6 DEF AgentOK
  <2> QED
    BY <2>2, <2>3
<1> QED
  BY <1>8, <1>9

LEMMA EndCounts ==
  ASSUME IInv, CountsOK, Ends
  PROVE  CountsOK'
<1>1. /\ ~up' /\ agents' = [ a \in Agents |-> NoAgent ]
      /\ UNCHANGED << script, sizes, archive, outran >> /\ Agents' = Agents
  BY DEF Ends, fileVars, Agents
<1> SUFFICES ASSUME NEW a \in Agents, a \notin outran
             PROVE  AgentOK(script.files[a], sizes[a], agents'[a], archive[a], up')
  BY <1>1 DEF CountsOK
<1>2. AgentOK(script.files[a], sizes[a], agents[a], archive[a], up)
  BY DEF CountsOK
<1>3. ~agents'[a].known
  BY <1>1 DEF NoAgent
<1> QED
  BY <1>1, <1>2, <1>3 DEF AgentOK

LEMMA RestartCounts ==
  ASSUME IInv, CountsOK, NEW quiet \in BOOLEAN, Start(quiet)
  PROVE  CountsOK'
<1> DEFINE found(a) == IF sizes[a] = 0 THEN NoAgent
                       ELSE InitialAgent(script.files[a], sizes[a], archive[a], quiet)
           kept(a) == IF found(a).doneEmitted /\ archive[a] = NoArchive
                      THEN ArchiveOf(found(a).tools) ELSE archive[a]
<1>1. /\ agents' = [ a \in Agents |-> found(a) ] /\ archive' = [ a \in Agents |-> kept(a) ]
      /\ outran' = outran \cup { a \in Agents : archive[a] # archive'[a]
                                                  /\ sizes[a] < Len(script.files[a]) }
      /\ UNCHANGED << script, sizes >> /\ Agents' = Agents
  BY DEF Start, fileVars, Agents
<1> SUFFICES ASSUME NEW a \in Agents, a \notin outran'
             PROVE  AgentOK(script.files[a], sizes[a], agents'[a], archive'[a], up')
  BY <1>1 DEF CountsOK
<1> DEFINE rows == script.files[a]
           n == sizes[a]
<1>2. a \notin outran /\ (archive[a] = archive'[a] \/ ~(n < Len(rows)))
  BY <1>1
<1>3. AgentOK(rows, n, agents[a], archive[a], up)
  BY <1>2 DEF CountsOK
<1>4. n \in Nat /\ n <= Len(rows) /\ Len(rows) \in Nat
  BY AgentTyped, FileIs
<1>5. agents'[a] = found(a) /\ archive'[a] = kept(a)
  BY <1>1
<1>6. CASE n = 0
  <2>1. found(a) = NoAgent
    BY <1>6
  <2>2. kept(a) = archive[a] /\ ~found(a).known
    BY <2>1 DEF NoAgent
  <2> QED
    BY <1>3, <1>5, <1>6, <2>2 DEF AgentOK
<1>7. CASE n # 0
  <2> DEFINE g == InitialAgent(rows, n, archive[a], quiet)
             at == [NoAgent EXCEPT !.known = TRUE, !.offset = n]
  <2>1. found(a) = g
    BY <1>7
  <2>2. archive[a] # NoArchive => n = Len(rows) /\ archive[a] = << ToolsIn(rows, n) >>
    BY <1>3 DEF AgentOK, ArchiveOf
  <2>3. archive[a] # NoArchive => g = FromArchive(at, archive[a])
    BY DEF InitialAgent
  <2>4. archive[a] = NoArchive =>
          \/ g = [at EXCEPT !.tools = ToolsIn(rows, n)]
          \/ g = [[at EXCEPT !.tools = ToolsIn(rows, n)] EXCEPT !.status = "done", !.doneEmitted = TRUE]
    BY DEF InitialAgent
  <2>5. g.known /\ g.offset = n /\ g.emitted = {} /\ g.tools = ToolsIn(rows, n)
    <3>1. CASE archive[a] = NoArchive
      <4> DEFINE t == ToolsIn(rows, n)
      <4> HIDE DEF t, g
      <4> QED
        BY <2>4, <3>1 DEF NoAgent, t
    <3>2. CASE archive[a] # NoArchive
      <4> DEFINE t == ToolsIn(rows, n)
      <4> HIDE DEF t, g
      <4> DEFINE u == archive[a][1]
      <4>1. u = t
        BY <2>2, <3>2 DEF t
      <4> HIDE DEF u
      <4>2. g = [[[at EXCEPT !.status = "done"] EXCEPT !.doneEmitted = TRUE] EXCEPT !.tools = u]
        BY <2>3, <3>2 DEF FromArchive, u
      <4>3. g.known /\ g.offset = n /\ g.emitted = {} /\ g.tools = u
        BY <4>2 DEF NoAgent
      <4> QED
        BY <4>1, <4>3 DEF t
    <3> QED
      BY <3>1, <3>2
  <2> HIDE DEF g
  <2>6. Tally(ToolIds(rows, n), g)
    BY <2>5 DEF Tally, ToolsIn
  <2>7. kept(a) # NoArchive => n = Len(rows) /\ kept(a) = ArchiveOf(ToolsIn(rows, n))
    <3>1. CASE archive[a] # NoArchive
      BY <2>2, <3>1 DEF ArchiveOf
    <3>2. CASE archive[a] = NoArchive
      <4>1. kept(a) = NoArchive \/ kept(a) = ArchiveOf(ToolsIn(rows, n))
        BY <2>1, <2>5, <3>2
      <4>2. ArchiveOf(ToolsIn(rows, n)) # NoArchive
        BY DEF ArchiveOf, NoArchive
      <4> QED
        BY <1>2, <1>4, <1>5, <3>2, <4>1, <4>2
    <3> QED
      BY <3>1, <3>2
  <2> HIDE DEF kept, found, rows, n
  <2>8. AgentOK(rows, n, g, kept(a), up')
    BY <2>5, <2>6, <2>7 DEF AgentOK
  <2> QED
    BY <1>5, <2>1, <2>8 DEF rows, n
<1> QED
  BY <1>6, <1>7

LEMMA ParseCounts ==
  ASSUME IInv, CountsOK, Parse
  PROVE  CountsOK'
<1>1. /\ UNCHANGED << script, sizes, up, agents >> /\ Agents' = Agents
      /\ archive' = IF cache.version = Version THEN archive ELSE ArchivedByParse
      /\ outran' = Outran(archive')
  BY DEF Parse, ParseAs, fileVars, Agents
<1> SUFFICES ASSUME NEW a \in Agents, a \notin outran'
             PROVE  AgentOK(script.files[a], sizes[a], agents[a], archive'[a], up)
  BY <1>1 DEF CountsOK
<1>2. a \notin outran /\ ~(archive[a] = NoArchive /\ archive'[a] # NoArchive
                            /\ (sizes[a] < Len(script.files[a]) \/ ~agents[a].known))
  BY <1>1 DEF Outran
<1>3. AgentOK(script.files[a], sizes[a], agents[a], archive[a], up)
  BY <1>2 DEF CountsOK
<1>4. \/ archive'[a] = archive[a]
      \/ archive[a] = NoArchive /\ archive'[a] = ArchiveOf(ToolsIn(script.files[a], sizes[a]))
  BY <1>1 DEF ArchivedByParse
<1>5. ArchiveOf(ToolsIn(script.files[a], sizes[a])) # NoArchive
  BY DEF ArchiveOf, NoArchive
<1>6. sizes[a] \in Nat /\ sizes[a] <= Len(script.files[a]) /\ Len(script.files[a]) \in Nat
  BY AgentTyped, FileIs
<1> QED
  BY <1>2, <1>3, <1>4, <1>5, <1>6 DEF AgentOK

-----------------------------------------------------------------------------
(***************************************************************************)
(* Theorems                                                                *)
(***************************************************************************)

LEMMA Initially ==
  ASSUME Init
  PROVE  IInv
<1>1. script.rows \in Seq(TranscriptRow) /\ script.files \in Seq(Seq(TranscriptRow))
  BY ScriptAssumption DEF Init
<1>2. \A a \in Agents : script.files[a] \in Seq(TranscriptRow)
  BY <1>1 DEF Agents
<1>3. Len(script.rows) \in Nat /\ \A a \in Agents : Len(script.files[a]) \in Nat
  BY <1>1, <1>2
<1>4. FilesOK
  BY <1>3 DEF Init, FilesOK, Archives
<1>5. ObserversOK
  <2> DEFINE t == StartObserver(0)
  <2>1. t \in ObserverRecords
    BY NoObserverTyped DEF StartObserver, Observers, ObserverRecords
  <2>2. t.pending = {} /\ t.start = 0 /\ t.offset = 0
    BY DEF StartObserver, NoObserver
  <2>3. obs = t /\ size = 0 /\ agents = [ a \in Agents |-> NoAgent ] /\ sizes = [ a \in Agents |-> 0 ]
    BY DEF Init
  <2> HIDE DEF t
  <2>4. obs \in Observers
    BY <2>1, <2>2, <2>3, FS_EmptySet DEF Observers
  <2>5. NoAgent \in AgentRecords /\ NoAgent.offset = 0
    BY NoAgentTyped DEF AgentsAt
  <2> QED
    BY <2>2, <2>3, <2>4, <2>5 DEF ObserversOK
<1>6. PhoneOK
  BY DEF Init, PhoneOK, Phones, Undefined
<1>7. NumbersOK
  <2>1. Grows(EmptyAllocator, EmptyAllocator)
    BY EmptyTyped, AllocatorIs DEF Grows
  <2>2. Remembered(told, lost) \cup Refs(cache.rows) = {}
    BY NoCacheTyped DEF Init, Remembered
  <2>3. Agree(Serving, {})
    BY DEF Agree
  <2> QED
    BY <2>1, <2>2, <2>3, EmptyTyped, NoCacheTyped DEF Init, NumbersOK
<1> QED
  BY <1>4, <1>5, <1>6, <1>7 DEF IInv

LEMMA Unchanged ==
  ASSUME IInv, UNCHANGED vars
  PROVE  IInv'
<1>1. FilesOK' /\ ObserversOK' /\ PhoneOK'
  BY DEF IInv, FilesOK, ObserversOK, PhoneOK, vars, Agents
<1>2. NumbersOK'
  BY NumbersUntouched DEF IInv, vars
<1> QED
  BY <1>1, <1>2 DEF IInv

\* The invariant that the next theorems rest on: the transcript, the observers,
\* the phone's copy and the allocator with its file are well formed, and all
\* numbers told or cached agree with the allocator that serves next.
THEOREM SyncInvariant == Spec => []IInv
<1>1. Init => IInv
  BY Initially
<1>2. IInv /\ [Next]_vars => IInv'
  <2> SUFFICES ASSUME IInv, [Next]_vars PROVE IInv'
    OBVIOUS
  <2>1. CASE WriteRow
    BY <2>1, RowWritten
  <2>2. ASSUME NEW a \in Agents, WriteAgentRow(a) PROVE IInv'
    BY <2>2, AgentRowWritten
  <2>3. ASSUME NEW a \in Agents, SubagentStart(a) PROVE IInv'
    BY <2>3, AgentStarted
  <2>4. ASSUME NEW a \in Agents, SubagentStop(a) PROVE IInv'
    BY <2>4, AgentStopped
  <2>5. CASE ObserverPoll
    BY <2>5, ObserverPolled
  <2>6. ASSUME NEW silent \in SUBSET Agents, AgentPoll(silent) PROVE IInv'
    BY <2>6, AgentsArePolled
  <2>7. CASE Flush
    BY <2>7, Flushed
  <2>8. CASE Stop
    BY <2>8, Stopped
  <2>9. CASE Crash
    BY <2>9, Crashed
  <2>10. ASSUME NEW quiet \in BOOLEAN, Start(quiet) PROVE IInv'
    BY <2>10, Started
  <2>11. ASSUME NEW arrives \in BOOLEAN, Sync(arrives) PROVE IInv'
    BY <2>11, SyncIs
  <2>12. CASE GetHistory
    BY <2>12, OlderIs
  <2>13. CASE Verify
    BY <2>13, VerifyIs
  <2>14. CASE PhoneToggles
    BY <2>14, Toggled
  <2>15. CASE UNCHANGED vars
    BY <2>15, Unchanged
  <2> QED
    BY <2>1, <2>2, <2>3, <2>4, <2>5, <2>6, <2>7, <2>8, <2>9, <2>10, <2>11, <2>12, <2>13, <2>14,
       <2>15 DEF Next
<1> QED
  BY <1>1, <1>2, PTL DEF Spec

\* Types, bounds of the observers' offsets by what is on disk, allocators that
\* number every key once, and a file that is never ahead of the memory.
THEOREM SyncTypeCorrect == Spec => []SyncTypeOK
<1>1. IInv => SyncTypeOK
  BY Typed
<1> QED
  BY <1>1, SyncInvariant, PTL

\* Whatever is sent live, in a sync or on a page, before a restart or after, a
\* row with a uuid has one number and a number names one row; only numbers that
\* a crash forgot before they were saved are given again.
THEOREM OneNumberPerRow == Spec => []NumbersAgree
<1>1. IInv => NumbersAgree
  BY Agreement
<1> QED
  BY <1>1, SyncInvariant, PTL

\* The pages of the history as it is now hold every row exactly once, whatever
\* their size (getSessionHistory): a phone that scrolls back through them misses
\* nothing and gets nothing twice, subagents' rows included.
THEOREM PagesAreComplete == Spec => []PagesCoverOnce
<1>1. ASSUME IInv PROVE PagesCoverOnce
  <2> DEFINE rows == Written
             files == Files
  <2>1. alloc \in Allocators
    BY <1>1 DEF IInv, NumbersOK
  <2>2. rows \in Seq(TranscriptRow) /\ files \in Seq(Seq(TranscriptRow))
    BY <1>1, ReadFromDisk DEF IInv
  <2> HIDE DEF rows, files
  <2>3. CoverOnce(ParseHistory(alloc, rows, files).rows)
    BY <2>1, <2>2, ParseCoversOnce
  <2> QED
    BY <2>3 DEF PagesCoverOnce, RowsNow, rows, files
<1> QED
  BY <1>1, SyncInvariant, PTL

\* What the observer knows of its subagents' files and their archives.
THEOREM CountsInvariant == Spec => [](IInv /\ CountsOK)
<1>1. Init => CountsOK
  <2> SUFFICES ASSUME Init PROVE CountsOK
    OBVIOUS
  <2> SUFFICES ASSUME NEW a \in Agents
               PROVE  AgentOK(script.files[a], sizes[a], agents[a], archive[a], up)
    BY DEF CountsOK
  <2>1. ~agents[a].known /\ archive[a] = NoArchive
    BY DEF Init, NoAgent
  <2> QED
    BY <2>1 DEF AgentOK
<1>2. IInv /\ CountsOK /\ [Next]_vars => CountsOK'
  <2> SUFFICES ASSUME IInv, CountsOK, [Next]_vars PROVE CountsOK'
    OBVIOUS
  <2>1. CASE WriteRow
    BY <2>1, CountsUntouched DEF WriteRow
  <2>2. ASSUME NEW a \in Agents, WriteAgentRow(a) PROVE CountsOK'
    BY <2>2, AgentRowCounts
  <2>3. ASSUME NEW a \in Agents, SubagentStart(a) PROVE CountsOK'
    BY <2>3, StartCounts
  <2>4. ASSUME NEW a \in Agents, SubagentStop(a) PROVE CountsOK'
    BY <2>4, StopCounts
  <2>5. CASE ObserverPoll
    BY <2>5, CountsUntouched DEF ObserverPoll, fileVars
  <2>6. ASSUME NEW silent \in SUBSET Agents, AgentPoll(silent) PROVE CountsOK'
    BY <2>6, PollCounts
  <2>7. CASE Flush
    BY <2>7, CountsUntouched DEF Flush, fileVars
  <2>8. CASE Stop
    BY <2>8, EndCounts DEF Stop
  <2>9. CASE Crash
    BY <2>9, EndCounts DEF Crash
  <2>10. ASSUME NEW quiet \in BOOLEAN, Start(quiet) PROVE CountsOK'
    BY <2>10, RestartCounts
  <2>11. ASSUME NEW arrives \in BOOLEAN, Sync(arrives) PROVE CountsOK'
    BY <2>11, ParseCounts DEF Sync
  <2>12. CASE GetHistory
    BY <2>12, ParseCounts DEF GetHistory
  <2>13. CASE Verify
    BY <2>13, ParseCounts DEF Verify
  <2>14. CASE PhoneToggles
    BY <2>14, CountsUntouched DEF PhoneToggles, fileVars
  <2>15. CASE UNCHANGED vars
    BY <2>15, CountsUntouched DEF vars
  <2> QED
    BY <2>1, <2>2, <2>3, <2>4, <2>5, <2>6, <2>7, <2>8, <2>9, <2>10, <2>11, <2>12, <2>13, <2>14,
       <2>15 DEF Next
<1> QED
  BY <1>1, <1>2, SyncInvariant, PTL DEF Spec

\* When the observer has read a subagent's file (subagent-observer.ts), it
\* counts as many tool calls as the file holds, however it found the subagent:
\* by the SubagentStart hook, by the poll, or by the first scan of a later
\* daemon, with an archive or without.
THEOREM CountsAreRight == Spec => []AgentCounts
<1>1. CountsOK => AgentCounts
  BY DEF CountsOK, AgentOK, Tally, AgentCounts, ToolsIn
<1> QED
  BY <1>1, CountsInvariant, PTL

-----------------------------------------------------------------------------
(***************************************************************************)
(* What the observer shows, row by row: the calls that its events leave    *)
(* open, and the metrics that they carry.                                  *)
(***************************************************************************)

NumbersOf(out, kind) == { out[k].n : k \in { j \in DOMAIN out : out[j].kind = kind } }
StillOpen(calls, out) == (calls \cup NumbersOf(out, "tool")) \ NumbersOf(out, "result")

\* The metrics in what is emitted for row i are those of its last text.
Plain(out) == \A k \in DOMAIN out : out[k].chip = << >>
MetricsAt(row, i, tools, e) ==
    \E b : e.id = << 0, i, b >> /\ LastText(row, b) /\ e.chip = << tools >>
MetricsOf(out, row, i, tools) ==
    \A k \in DOMAIN out : out[k].chip # << >> => MetricsAt(row, i, tools, out[k])

LEMMA NumbersJoined ==
  ASSUME NEW s \in Seq(Events), NEW t \in Seq(Events), NEW kind
  PROVE  NumbersOf(s \o t, kind) = NumbersOf(s, kind) \cup NumbersOf(t, kind)
<1> DEFINE m == Len(s)
           n == Len(t)
           u == s \o t
<1>1. /\ m \in Nat /\ n \in Nat /\ DOMAIN s = 1 .. m /\ DOMAIN t = 1 .. n /\ DOMAIN u = 1 .. m + n
      /\ \A k \in 1 .. m : u[k] = s[k]
      /\ \A k \in 1 .. n : u[m + k] = t[k]
  OBVIOUS
<1> HIDE DEF m, n, u
<1>2. \A k \in DOMAIN u : \/ k \in DOMAIN s /\ u[k] = s[k]
                          \/ \E j \in DOMAIN t : u[k] = t[j]
  <2> SUFFICES ASSUME NEW k \in DOMAIN u, k \notin DOMAIN s PROVE \E j \in DOMAIN t : u[k] = t[j]
    BY <1>1
  <2>1. k - m \in 1 .. n /\ m + (k - m) = k
    BY <1>1
  <2> QED
    BY <1>1, <2>1
<1>3. \A k \in DOMAIN s : \E j \in DOMAIN u : u[j] = s[k]
  BY <1>1
<1>4. \A k \in DOMAIN t : \E j \in DOMAIN u : u[j] = t[k]
  <2> SUFFICES ASSUME NEW k \in DOMAIN t PROVE \E j \in DOMAIN u : u[j] = t[k]
    OBVIOUS
  <2>1. m + k \in DOMAIN u
    BY <1>1
  <2> QED
    BY <1>1, <2>1
<1>5. \A x : x \in NumbersOf(u, kind) => x \in NumbersOf(s, kind) \/ x \in NumbersOf(t, kind)
  BY <1>2 DEF NumbersOf
<1>6. \A x : x \in NumbersOf(s, kind) \/ x \in NumbersOf(t, kind) => x \in NumbersOf(u, kind)
  BY <1>3, <1>4 DEF NumbersOf
<1> QED
  BY <1>5, <1>6 DEF u

LEMMA JoinedOpen ==
  ASSUME NEW s \in Seq(Events), NEW t \in Seq(Events), NEW calls
  PROVE  StillOpen(calls, s \o t) \subseteq StillOpen(StillOpen(calls, s), t)
BY NumbersJoined DEF StillOpen

LEMMA OneMoreOpen ==
  ASSUME NEW s \in Seq(Events), NEW e \in Events, NEW calls
  PROVE  /\ \A x \in StillOpen(calls, Append(s, e)) :
               /\ x \in StillOpen(calls, s) \/ (e.kind = "tool" /\ x = e.n)
               /\ e.kind = "result" => x # e.n
         /\ Plain(s) /\ e.chip = << >> => Plain(Append(s, e))
<1>1. << e >> \in Seq(Events) /\ Append(s, e) = s \o << e >>
  OBVIOUS
<1>2. DOMAIN << e >> = {1} /\ << e >>[1] = e
  OBVIOUS
<1>3. \A kind : NumbersOf(<< e >>, kind) = IF e.kind = kind THEN {e.n} ELSE {}
  BY <1>2 DEF NumbersOf
<1>4. \A kind : NumbersOf(Append(s, e), kind) = NumbersOf(s, kind) \cup NumbersOf(<< e >>, kind)
  <2> DEFINE t == << e >>
  <2>1. t \in Seq(Events) /\ Append(s, e) = s \o t
    BY <1>1
  <2> HIDE DEF t
  <2>2. \A kind : NumbersOf(s \o t, kind) = NumbersOf(s, kind) \cup NumbersOf(t, kind)
    BY <2>1, NumbersJoined
  <2> QED
    BY <2>1, <2>2 DEF t
<1>5. \A x \in StillOpen(calls, Append(s, e)) :
         /\ x \in StillOpen(calls, s) \/ (e.kind = "tool" /\ x = e.n)
         /\ e.kind = "result" => x # e.n
  BY <1>3, <1>4 DEF StillOpen
<1>6. \A k \in DOMAIN Append(s, e) : Append(s, e)[k] = e \/ (k \in DOMAIN s /\ Append(s, e)[k] = s[k])
  OBVIOUS
<1> QED
  BY <1>5, <1>6 DEF Plain

LEMMA NothingOpen ==
  ASSUME NEW calls
  PROVE  StillOpen(calls, << >>) = calls /\ Plain(<< >>)
BY DEF StillOpen, NumbersOf, Plain

\* What the blocks of a row do not change.
SameTurn(o, next) ==
    /\ next.turnTools = o.turnTools /\ next.status = o.status
    /\ next.justInterrupted = o.justInterrupted

LEMMA UserBlockShows ==
  ASSUME NEW place, NEW acc \in Emissions(place), NEW i \in Nat, NEW block \in Block, NEW calls,
         StillOpen(calls, acc.out) \subseteq acc.obs.pending, Plain(acc.out)
  PROVE  LET next == UserBlock(acc, i, block)
         IN /\ SameTurn(acc.obs, next.obs) /\ next.obs.pending \subseteq acc.obs.pending
            /\ StillOpen(calls, next.out) \subseteq next.obs.pending /\ Plain(next.out)
            /\ block.kind = "result" => block.n \notin next.obs.pending
<1> DEFINE kind == IF IsLocalCommand(block.kind) THEN "command" ELSE "user"
           text == Event(<< 0, i, 0 >>, RowKey(0, i), kind, 0, << >>)
           result == Event(<< 0, i, block.n >>, RowKey(0, i), "result", block.n, << >>)
           closed == [acc.obs EXCEPT !.pending = @ \ {block.n}]
           next == UserBlock(acc, i, block)
<1>1. /\ acc = [obs |-> acc.obs, out |-> acc.out]
      /\ acc.obs \in ObserverRecords /\ acc.out \in Seq(Events) /\ block.n \in Nat
  BY DEF Emissions, Observing, Observers, Block
<1>2. /\ << 0, i, 0 >> \in Ids /\ << 0, i, block.n >> \in Ids /\ RowKey(0, i) \in Key
      /\ kind \in EventKinds \ {"tool", "result"} /\ "result" \in EventKinds /\ << >> \in Seq(Nat)
  BY <1>1, Keys DEF EventKinds
<1> HIDE DEF kind
<1>3. text \in Events /\ text.kind = kind /\ text.chip = << >>
  <2>1. 0 \in Nat
    OBVIOUS
  <2> QED
    BY <1>2, <2>1, EventTyped DEF Event
<1>4. result \in Events /\ result.kind = "result" /\ result.n = block.n /\ result.chip = << >>
  BY <1>1, <1>2, EventTyped DEF Event
<1>5. closed.pending = acc.obs.pending \ {block.n} /\ SameTurn(acc.obs, closed)
  BY <1>1 DEF ObserverRecords, SameTurn
<1>6. \/ /\ next = [obs |-> acc.obs, out |-> Append(acc.out, text)] /\ block.kind # "result"
      \/ next = [obs |-> closed, out |-> Append(acc.out, result)]
      \/ next = acc /\ block.kind # "result"
  <2>1. [acc EXCEPT !.out = Append(@, text)] = [obs |-> acc.obs, out |-> Append(acc.out, text)]
    <3> DEFINE longer == Append(acc.out, text)
    <3> HIDE DEF longer
    <3>1. [acc EXCEPT !.out = longer] = [obs |-> acc.obs, out |-> longer]
      BY DEF Emissions
    <3> QED
      BY <3>1 DEF longer
  <2>2. block.kind \in TextKinds \ {"caveat", "internal"} => block.kind # "result"
    BY DEF TextKinds
  <2> QED
    BY <2>1, <2>2 DEF UserBlock, text, kind, closed, result
<1> HIDE DEF text, result, closed, next
<1>7. CASE next = [obs |-> acc.obs, out |-> Append(acc.out, text)] /\ block.kind # "result"
  <2>1. StillOpen(calls, Append(acc.out, text)) \subseteq acc.obs.pending /\ Plain(Append(acc.out, text))
    BY <1>1, <1>2, <1>3, OneMoreOpen
  <2> QED
    BY <1>7, <2>1 DEF SameTurn, next
<1>8. CASE next = [obs |-> closed, out |-> Append(acc.out, result)]
  <2>1. /\ StillOpen(calls, Append(acc.out, result)) \subseteq acc.obs.pending \ {block.n}
        /\ Plain(Append(acc.out, result))
    BY <1>1, <1>4, OneMoreOpen
  <2> QED
    BY <1>5, <1>8, <2>1 DEF next
<1>9. CASE next = acc /\ block.kind # "result"
  BY <1>9 DEF SameTurn, next
<1> QED
  BY <1>6, <1>7, <1>8, <1>9

\* What a row makes of an observer that left at most `calls' open.
Shows(calls, o, row, i, next) ==
    /\ next.obs.turnTools = IF BeginsTurn(row) THEN 0 ELSE o.turnTools + Len(CallsShown(row))
    /\ StillOpen(calls, next.out) \subseteq next.obs.pending
    /\ next.obs.pending \subseteq { c \in o.pending : ~Answers(row, c) } \cup NewCalls(row)
    /\ MetricsOf(next.out, row, i, next.obs.turnTools)
Cuts(row) == row.type = "user" /\ IsInterrupt(row)
Settles(o, row, next) ==
    /\ row.type = "assistant" /\ row.end => next.status = "ready"
    /\ Cuts(row) => next.status = "ready" /\ next.justInterrupted
    /\ row.type = "assistant" /\ o.status = "ready" /\ o.justInterrupted => next.status = "ready"

LEMMA PlainMetrics ==
  ASSUME NEW out, Plain(out), NEW row, NEW i, NEW tools
  PROVE  MetricsOf(out, row, i, tools)
BY DEF Plain, MetricsOf

\* An interrupt closes every call that waits for a result.
LEMMA InterruptShows ==
  ASSUME NEW place, NEW o \in Observing(place), NEW i \in Nat, NEW calls, calls \subseteq o.pending
  PROVE  LET next == Interrupted(o, i)
         IN /\ next.obs.turnTools = o.turnTools /\ next.obs.status = "ready"
            /\ next.obs.justInterrupted /\ next.obs.pending = {}
            /\ StillOpen(calls, next.out) = {} /\ Plain(next.out)
<1> DEFINE closes(t) == Event(<< 0, i, t >>, HashKey("tool_result_interrupt", i, t), "result", t, << >>)
           marker == Event(<< 0, i, 0 >>, HashKey("system_interrupt", i, 0), "system", 0, << >>)
           ended == [o EXCEPT !.justInterrupted = TRUE, !.pending = {}, !.status = "ready"]
           at == Ascending(o.pending)
           n == Cardinality(o.pending)
           closing == [ k \in 1 .. n |-> closes(at[k]) ]
           out == closing \o << marker >>
<1>1. o \in ObserverRecords /\ IsFiniteSet(o.pending) /\ o.pending \in SUBSET Nat
  BY DEF Observing, Observers, ObserverRecords
<1>2. /\ ended.turnTools = o.turnTools /\ ended.status = "ready" /\ ended.justInterrupted
      /\ ended.pending = {}
  BY <1>1 DEF ObserverRecords
<1>3. Interrupted(o, i) = [obs |-> ended, out |-> out]
  BY DEF Interrupted
<1>4. \A t : closes(t).kind = "result" /\ closes(t).n = t /\ closes(t).chip = << >>
  BY DEF Event
<1>5. marker.kind = "system" /\ marker.chip = << >>
  BY DEF Event
<1> HIDE DEF closes, marker, ended
<1>6. n \in Nat /\ at \in [1 .. n -> o.pending] /\ \A c \in o.pending : \E k \in 1 .. n : at[k] = c
  BY <1>1, AscendingOnto
<1> HIDE DEF at, n
<1>7. closing \in Seq({ closes(t) : t \in Nat }) /\ Len(closing) = n
      /\ \A k \in 1 .. n : closing[k] = closes(at[k])
  <2>1. \A k \in 1 .. n : closes(at[k]) \in { closes(t) : t \in Nat }
    BY <1>1, <1>6
  <2> QED
    BY <1>6, <2>1
<1> HIDE DEF closing
<1>8. /\ DOMAIN out = 1 .. n + 1 /\ out[n + 1] = marker
      /\ \A k \in 1 .. n : out[k] = closes(at[k])
  BY <1>6, <1>7
<1> HIDE DEF out
<1>9. Plain(out)
  <2> SUFFICES ASSUME NEW k \in 1 .. n + 1 PROVE out[k].chip = << >>
    BY <1>8 DEF Plain
  <2>1. k \in 1 .. n \/ k = n + 1
    BY <1>6
  <2> QED
    BY <1>4, <1>5, <1>8, <2>1
<1>10. NumbersOf(out, "tool") = {}
  <2> SUFFICES ASSUME NEW k \in 1 .. n + 1 PROVE out[k].kind # "tool"
    BY <1>8 DEF NumbersOf
  <2>1. k \in 1 .. n \/ k = n + 1
    BY <1>6
  <2> QED
    BY <1>4, <1>5, <1>8, <2>1
<1>11. o.pending \subseteq NumbersOf(out, "result")
  <2> SUFFICES ASSUME NEW c \in o.pending PROVE c \in NumbersOf(out, "result")
    OBVIOUS
  <2>1. PICK k \in 1 .. n : at[k] = c
    BY <1>6
  <2>2. k \in DOMAIN out /\ out[k].kind = "result" /\ out[k].n = c
    BY <1>4, <1>6, <1>8, <2>1
  <2> QED
    BY <2>2 DEF NumbersOf
<1>12. StillOpen(calls, out) = {}
  BY <1>10, <1>11 DEF StillOpen
<1> QED
  BY <1>2, <1>3, <1>9, <1>12

LEMMA NewTurnShows ==
  ASSUME NEW o \in ObserverRecords, NEW row
  PROVE  LET next == NewTurn(o, row)
         IN /\ next.turnTools = IF OnlyResults(row) THEN o.turnTools ELSE 0
            /\ next.pending = o.pending
BY DEF NewTurn, ObserverRecords

LEMMA UserEntryShows ==
  ASSUME NEW place, NEW o \in Observing(place), NEW i \in Nat, NEW row \in TranscriptRow,
         row.type = "user", NEW calls, calls \subseteq o.pending
  PROVE  LET next == UserEntry(o, i, row) IN Shows(calls, o, row, i, next) /\ Settles(o, row, next.obs)
<1> DEFINE fresh == NewTurn(o, row)
           status == UserStatus(fresh, row)
           begun == [fresh EXCEPT !.status = status]
           start == [obs |-> begun, out |-> << >>]
           read == UserRow!Fold(i, start, row.blocks)
           cut == Interrupted(fresh, i)
           tools == IF BeginsTurn(row) THEN 0 ELSE o.turnTools + Len(CallsShown(row))
<1>1. UserEntry(o, i, row) = IF IsInterrupt(row) THEN cut ELSE read
  BY DEF UserEntry, UserBlockOf, UserRow!Fold, UserRow!FoldLeft, UserRow!MapThenFoldSet,
         UserRow!Max, FoldLeft, MapThenFoldSet, Max
<1>2. o \in ObserverRecords /\ o.turnTools \in Nat
  BY DEF Observing, Observers, ObserverRecords
<1>3. fresh \in Observing(place) /\ fresh \in ObserverRecords
  BY NewTurnTyped DEF Observing, Observers
<1>4. fresh.turnTools = tools /\ fresh.pending = o.pending
  <2>1. tools = IF OnlyResults(row) THEN o.turnTools ELSE 0
    <3>1. CallsShown(row) = << >> /\ Len(<< >>) = 0
      BY DEF CallsShown
    <3> QED
      BY <1>2, <3>1 DEF BeginsTurn
  <2> HIDE DEF tools
  <2> QED
    BY <1>2, <2>1, NewTurnShows
<1>5. status \in {"running", "ready"}
  BY <1>3 DEF UserStatus, ObserverRecords
<1> HIDE DEF status, fresh, tools
<1>6. begun \in Observing(place) /\ begun.turnTools = tools /\ begun.pending = o.pending
  <2>1. begun \in Observing(place)
    BY <1>5, NewTurnTyped DEF fresh
  <2>2. begun.turnTools = fresh.turnTools /\ begun.pending = fresh.pending
    BY <1>3 DEF ObserverRecords
  <2> QED
    BY <1>4, <2>1, <2>2
<1>7. NewCalls(row) = {} /\ ~(row.type = "assistant")
  BY DEF NewCalls
<1>8. CASE IsInterrupt(row)
  <2>1. /\ cut.obs.turnTools = tools /\ cut.obs.status = "ready" /\ cut.obs.justInterrupted
        /\ cut.obs.pending = {} /\ StillOpen(calls, cut.out) = {} /\ Plain(cut.out)
    BY <1>3, <1>4, InterruptShows
  <2> HIDE DEF cut
  <2>2. Shows(calls, o, row, i, cut)
    BY <2>1, PlainMetrics DEF Shows, tools
  <2>3. Settles(o, row, cut.obs)
    BY <1>7, <2>1 DEF Settles
  <2> QED
    BY <1>1, <1>8, <2>2, <2>3
<1>9. CASE ~IsInterrupt(row)
  <2> DEFINE n == Len(row.blocks)
             Upto(k) == { x \in Emissions(place) :
                 /\ x.obs.turnTools = tools /\ x.obs.pending \subseteq o.pending
                 /\ StillOpen(calls, x.out) \subseteq x.obs.pending /\ Plain(x.out)
                 /\ \A b \in 1 .. k : row.blocks[b].kind = "result" => row.blocks[b].n \notin x.obs.pending }
             V == [ k \in 0 .. n |-> Upto(k) ]
  <2>1. row.blocks \in Seq(Block)
    BY DEF TranscriptRow
  <2>2. n \in Nat /\ DOMAIN row.blocks = 1 .. n
    BY <2>1
  <2> HIDE DEF begun, n
  <2>3. V[0] = Upto(0) /\ V[n] = Upto(n) /\ \A k \in 1 .. n : V[k] = Upto(k) /\ V[k - 1] = Upto(k - 1)
    BY <2>2
  <2> HIDE DEF V
  <2>4. start \in V[0]
    <3>1. << >> \in Seq(Events)
      OBVIOUS
    <3>2. start \in Emissions(place)
      BY <1>6, <3>1, EmissionIs
    <3> QED
      BY <1>6, <2>3, <3>2, NothingOpen
  <2>5. ASSUME NEW k \in 1 .. n, NEW x \in V[k - 1]
        PROVE  UserBlockOf(i, x, row.blocks[k]) \in V[k]
    <3> DEFINE block == row.blocks[k]
               next == UserBlock(x, i, block)
    <3>1. block \in Block
      BY <2>1, <2>2
    <3>2. /\ x \in Emissions(place) /\ x.obs.turnTools = tools /\ x.obs.pending \subseteq o.pending
          /\ StillOpen(calls, x.out) \subseteq x.obs.pending /\ Plain(x.out)
          /\ \A b \in 1 .. k - 1 : row.blocks[b].kind = "result" => row.blocks[b].n \notin x.obs.pending
      BY <2>3
    <3>3. /\ SameTurn(x.obs, next.obs) /\ next.obs.pending \subseteq x.obs.pending
          /\ StillOpen(calls, next.out) \subseteq next.obs.pending /\ Plain(next.out)
          /\ block.kind = "result" => block.n \notin next.obs.pending
      BY <3>1, <3>2, UserBlockShows
    <3>4. next \in Emissions(place)
      BY <3>1, <3>2, UserBlockTyped
    <3>5. \A b \in 1 .. k : row.blocks[b].kind = "result" => row.blocks[b].n \notin next.obs.pending
      <4>1. \A b \in 1 .. k : b \in 1 .. k - 1 \/ b = k
        BY <2>2
      <4> HIDE DEF next
      <4> QED
        BY <3>2, <3>3, <4>1
    <3> HIDE DEF next, block
    <3>6. next \in V[k]
      BY <2>3, <3>2, <3>3, <3>4, <3>5 DEF SameTurn
    <3> QED
      BY <3>6 DEF UserBlockOf, next, block
  <2> HIDE DEF start
  <2>6. read \in V[n]
    BY <2>2, <2>4, <2>5, UserRow!FoldThrough
  <2> HIDE DEF read
  <2>7. /\ read.obs.turnTools = tools /\ read.obs.pending \subseteq o.pending
        /\ StillOpen(calls, read.out) \subseteq read.obs.pending /\ Plain(read.out)
        /\ \A b \in 1 .. n : row.blocks[b].kind = "result" => row.blocks[b].n \notin read.obs.pending
    BY <2>3, <2>6
  <2>8. \A c \in read.obs.pending : ~Answers(row, c)
    BY <1>9, <2>2, <2>7 DEF Answers
  <2>9. Shows(calls, o, row, i, read)
    BY <2>7, <2>8, PlainMetrics DEF Shows, tools
  <2>10. Settles(o, row, read.obs)
    BY <1>7, <1>9 DEF Settles, Cuts
  <2> QED
    BY <1>1, <1>9, <2>9, <2>10
<1> QED
  BY <1>8, <1>9

LEMMA OneMoreMetrics ==
  ASSUME NEW s \in Seq(Events), NEW e \in Events, NEW row, NEW i, NEW tools, MetricsOf(s, row, i, tools),
         e.chip # << >> => MetricsAt(row, i, tools, e)
  PROVE  MetricsOf(Append(s, e), row, i, tools)
<1>1. \A k \in DOMAIN Append(s, e) : Append(s, e)[k] = e \/ (k \in DOMAIN s /\ Append(s, e)[k] = s[k])
  OBVIOUS
<1> QED
  BY <1>1 DEF MetricsOf

LEMMA AssistantBlockShows ==
  ASSUME NEW place, NEW acc \in Emissions(place), NEW i \in Nat, NEW b \in Nat,
         NEW block \in Block, NEW chip \in Seq(Nat), NEW calls, NEW row, NEW tools,
         StillOpen(calls, acc.out) \subseteq acc.obs.pending, MetricsOf(acc.out, row, i, tools),
         chip # << >> /\ block.kind # "interrupt" => chip = << tools >> /\ LastText(row, b)
  PROVE  LET next == AssistantBlock(acc, i, b, block, chip)
         IN /\ SameTurn(acc.obs, next.obs)
            /\ \A c \in next.obs.pending :
                  c \in acc.obs.pending \/ (block.kind \in ToolKinds /\ c = block.n)
            /\ StillOpen(calls, next.out) \subseteq next.obs.pending
            /\ MetricsOf(next.out, row, i, tools)
<1> DEFINE o == acc.obs
           n == block.n
           event(kind, m, c) == Event(<< 0, i, b >>, BlockKey(0, i, b), kind, m, c)
           text == event("assistant", 0, chip)
           thought == event("thinking", 0, << >>)
           call == event("tool", n, << >>)
           t1(m) == [o EXCEPT !.textLen = m]
           t2 == [o EXCEPT !.thinkLen = n]
           t3 == [o EXCEPT !.emitted = @ \cup {n}, !.pending = @ \cup {n}]
           next == AssistantBlock(acc, i, b, block, chip)
<1>1. acc = [obs |-> o, out |-> acc.out] /\ acc.out \in Seq(Events) /\ o \in ObserverRecords /\ n \in Nat
  BY DEF Emissions, Block, Observing, Observers
<1> HIDE DEF o, n
<1>2. << 0, i, b >> \in Ids /\ BlockKey(0, i, b) \in Key /\ << >> \in Seq(Nat) /\ 0 \in Nat
  <2>1. << 0, i, b >> \in Ids /\ BlockKey(0, i, b) \in Key
    BY ONLY 0 \in Nat, i \in Nat, b \in Nat, Keys
  <2> QED
    BY <2>1
<1>3. {"assistant", "thinking", "tool"} \subseteq EventKinds
  BY DEF EventKinds
<1>4. text \in Events /\ text.kind = "assistant" /\ text.chip = chip /\ text.id = << 0, i, b >>
  BY <1>2, <1>3, EventTyped DEF Event
<1>5. thought \in Events /\ thought.kind = "thinking" /\ thought.chip = << >>
  BY <1>2, <1>3, EventTyped DEF Event
<1>6. call \in Events /\ call.kind = "tool" /\ call.chip = << >> /\ call.n = n
  BY <1>1, <1>2, <1>3, EventTyped DEF Event
<1>7. \A m : SameTurn(o, t1(m)) /\ t1(m).pending = o.pending
  BY <1>1 DEF ObserverRecords, SameTurn
<1>8. SameTurn(o, t2) /\ t2.pending = o.pending
  BY <1>1 DEF ObserverRecords, SameTurn
<1>9. SameTurn(o, t3) /\ t3.pending = o.pending \cup {n}
  BY <1>1 DEF ObserverRecords, SameTurn
<1>10. SameTurn(o, o)
  BY DEF SameTurn
<1>11. /\ StillOpen(calls, acc.out) \subseteq o.pending
       /\ MetricsOf(acc.out, row, i, tools)
  BY DEF o
<1>12. \/ next = acc
       \/ \E m : next = [obs |-> t1(m), out |-> acc.out]
       \/ block.kind # "interrupt" /\ \E m : next = [obs |-> t1(m), out |-> Append(acc.out, text)]
       \/ next = [obs |-> t2, out |-> Append(acc.out, thought)]
       \/ block.kind \in ToolKinds /\ next = [obs |-> t3, out |-> Append(acc.out, call)]
  <2>1. [acc EXCEPT !.obs.textLen = n] = [obs |-> t1(n), out |-> acc.out]
    <3> DEFINE q == [acc.obs EXCEPT !.textLen = n]
    <3>1. [acc EXCEPT !.obs = q] = [obs |-> q, out |-> acc.out]
      <4> HIDE DEF q
      <4> QED
        BY DEF Emissions
    <3> QED
      BY <3>1 DEF o
  <2> DEFINE m == IF n > o.textLen THEN n ELSE o.textLen
             seen == [acc EXCEPT !.obs.textLen = n]
  <2>2. ToolBlock(acc, i, b, block) \in {acc, [obs |-> t3, out |-> Append(acc.out, call)]}
    BY DEF ToolBlock, o, n
  <2>3. ThinkingBlock(acc, i, b, block) \in {acc, [obs |-> t2, out |-> Append(acc.out, thought)]}
    BY DEF ThinkingBlock, o, n
  <2>4. \/ TextBlock(acc, i, b, block, chip) \in {seen, acc}
        \/ /\ block.kind # "interrupt"
           /\ TextBlock(acc, i, b, block, chip) = [obs |-> t1(m), out |-> Append(acc.out, text)]
    BY DEF TextBlock, o, n
  <2>5. \/ next = ToolBlock(acc, i, b, block) /\ block.kind \in ToolKinds
        \/ next = ThinkingBlock(acc, i, b, block)
        \/ next = TextBlock(acc, i, b, block, chip)
    BY DEF AssistantBlock
  <2> HIDE DEF m, t1, t2, t3, next, text, thought, call, seen
  <2> QED
    BY <2>1, <2>2, <2>3, <2>4, <2>5 DEF seen
<1> HIDE DEF t1, t2, t3, next, text, thought, call
<1>13. CASE next = acc
  BY <1>10, <1>11, <1>13 DEF next, o
<1>14. ASSUME NEW m, next = [obs |-> t1(m), out |-> acc.out]
       PROVE  /\ SameTurn(o, next.obs) /\ next.obs.pending = o.pending
              /\ StillOpen(calls, next.out) \subseteq o.pending /\ MetricsOf(next.out, row, i, tools)
  BY <1>7, <1>11, <1>14
<1>15. ASSUME NEW m, next = [obs |-> t1(m), out |-> Append(acc.out, text)], block.kind # "interrupt"
       PROVE  /\ SameTurn(o, next.obs) /\ next.obs.pending = o.pending
              /\ StillOpen(calls, next.out) \subseteq o.pending /\ MetricsOf(next.out, row, i, tools)
  <2>1. chip # << >> => MetricsAt(row, i, tools, text)
    BY <1>4, <1>15 DEF MetricsAt
  <2>2. MetricsOf(Append(acc.out, text), row, i, tools)
    BY <1>1, <1>4, <1>11, <2>1, OneMoreMetrics
  <2>3. StillOpen(calls, Append(acc.out, text)) \subseteq o.pending
    BY <1>1, <1>4, <1>11, OneMoreOpen
  <2> QED
    BY <1>7, <1>15, <2>2, <2>3
<1>16. CASE next = [obs |-> t2, out |-> Append(acc.out, thought)]
  <2>1. MetricsOf(Append(acc.out, thought), row, i, tools)
    BY <1>1, <1>5, <1>11, OneMoreMetrics
  <2>2. StillOpen(calls, Append(acc.out, thought)) \subseteq o.pending
    BY <1>1, <1>5, <1>11, OneMoreOpen
  <2> QED
    BY <1>8, <1>16, <2>1, <2>2 DEF next, o
<1>17. CASE block.kind \in ToolKinds /\ next = [obs |-> t3, out |-> Append(acc.out, call)]
  <2>1. MetricsOf(Append(acc.out, call), row, i, tools)
    BY <1>1, <1>6, <1>11, OneMoreMetrics
  <2>2. StillOpen(calls, Append(acc.out, call)) \subseteq o.pending \cup {n}
    BY <1>1, <1>6, <1>11, OneMoreOpen
  <2> QED
    BY <1>9, <1>17, <2>1, <2>2 DEF next, o, n
<1> QED
  BY <1>12, <1>13, <1>14, <1>15, <1>16, <1>17 DEF next, o

LEMMA AssistantEntryShows ==
  ASSUME NEW place, NEW o \in Observing(place), NEW i \in Nat, NEW row \in TranscriptRow,
         row.type = "assistant", NEW calls, calls \subseteq o.pending
  PROVE  LET next == AssistantEntry(o, i, row)
         IN Shows(calls, o, row, i, next) /\ Settles(o, row, next.obs)
<1> DEFINE status == IF o.justInterrupted THEN o.status ELSE "running"
           tools == o.turnTools + Len(ToolBlocks(row))
           active == [o EXCEPT !.status = IF o.justInterrupted THEN @ ELSE "running",
                               !.justInterrupted = FALSE,
                               !.turnTools = @ + Len(ToolBlocks(row))]
           start == [obs |-> active, out |-> << >>]
           p == << i, row, active.turnTools >>
           places == [ b \in DOMAIN row.blocks |-> b ]
           read == AssistantRow!Fold(p, start, places)
           last == [read EXCEPT !.obs.status = IF row.end THEN "ready" ELSE @]
           n == Len(row.blocks)
<1>1. AssistantEntry(o, i, row) = last
  BY SMTT(30) DEF AssistantEntry, AssistantBlockOf, AssistantRow!Fold, AssistantRow!FoldLeft,
         AssistantRow!MapThenFoldSet, AssistantRow!Max, FoldLeft, MapThenFoldSet, Max
<1>2. Len(ToolBlocks(row)) \in Nat
  <2>1. ToolBlocks(row) \in Seq(Block)
    BY BlocksTyped DEF ToolBlocks
  <2> QED
    BY <2>1
<1>3. o \in ObserverRecords /\ IsFiniteSet(o.pending) /\ Place(o) = place
  BY DEF Observing, Observers
<1>4. status \in {"running", "ready"} /\ tools \in Nat
  BY <1>2, <1>3 DEF ObserverRecords
<1>5. active = [o EXCEPT !.status = status, !.justInterrupted = FALSE, !.turnTools = tools]
  OBVIOUS
<1>6. ~BeginsTurn(row) /\ CallsShown(row) = ToolBlocks(row) /\ NewCalls(row) = CallsOf(row)
      /\ ~Cuts(row) /\ (\A c : ~Answers(row, c))
  BY DEF BeginsTurn, CallsShown, NewCalls, Cuts, Answers
<1> HIDE DEF status, tools, active
<1>7. /\ active \in ObserverRecords /\ active.pending = o.pending /\ Place(active) = place
      /\ active.turnTools = tools /\ active.status = status
  BY <1>3, <1>4, <1>5 DEF ObserverRecords, Place
<1>8. active \in Observing(place)
  BY <1>3, <1>7 DEF Observing, Observers
<1>9. row.blocks \in Seq(Block)
  BY DEF TranscriptRow
<1>10. n \in Nat /\ DOMAIN row.blocks = 1 .. n
  BY <1>9
<1>11. p = << i, row, tools >>
  BY <1>7
<1> DEFINE V == { x \in Emissions(place) :
             /\ SameTurn(active, x.obs) /\ x.obs.pending \subseteq o.pending \cup CallsOf(row)
             /\ StillOpen(calls, x.out) \subseteq x.obs.pending
             /\ MetricsOf(x.out, row, i, tools) }
<1>12. start \in V
  <2>1. << >> \in Seq(Events)
    OBVIOUS
  <2>2. start \in Emissions(place)
    BY <1>8, <2>1, EmissionIs
  <2>3. SameTurn(active, active)
    BY DEF SameTurn
  <2> QED
    BY <1>7, <2>2, <2>3, NothingOpen, PlainMetrics
<1>13. places \in Seq(DOMAIN row.blocks)
  BY <1>9
<1> HIDE DEF p
<1>14. ASSUME NEW x \in V, NEW b \in DOMAIN row.blocks
       PROVE  AssistantBlockOf(p, x, b) \in V
  <2> DEFINE block == row.blocks[b]
             texts == { c \in DOMAIN row.blocks : row.blocks[c].kind \in {"text", "interrupt"} }
             lastText == row.end /\ b \in texts /\ \A d \in texts : d <= b
             chip == IF row.end /\ b \in texts /\ \A d \in texts : d <= b THEN << tools >> ELSE << >>
             next == AssistantBlock(x, i, b, block, chip)
  <2>1. AssistantBlockOf(p, x, b) = next
    <3>1. p[1] = i /\ p[2] = row /\ p[3] = tools
      BY <1>11
    <3> QED
      BY <3>1 DEF AssistantBlockOf
  <2>2. chip \in Seq(Nat)
    <3>1. << tools >> \in Seq(Nat) /\ << >> \in Seq(Nat)
      BY <1>4
    <3> QED
      BY <3>1
  <2>3. block \in Block /\ b \in Nat
    BY <1>9, <1>10
  <2>4. chip # << >> /\ block.kind # "interrupt" => chip = << tools >> /\ LastText(row, b)
    <3>1. lastText /\ block.kind # "interrupt" => LastText(row, b)
      BY DEF LastText
    <3> HIDE DEF lastText
    <3>2. chip = IF lastText THEN << tools >> ELSE << >>
      BY DEF lastText
    <3> QED
      BY <3>1, <3>2
  <2> HIDE DEF chip, block
  <2>5. /\ x \in Emissions(place) /\ SameTurn(active, x.obs)
        /\ x.obs.pending \subseteq o.pending \cup CallsOf(row)
        /\ StillOpen(calls, x.out) \subseteq x.obs.pending
        /\ MetricsOf(x.out, row, i, tools)
    OBVIOUS
  <2>6. /\ SameTurn(x.obs, next.obs)
        /\ \A c \in next.obs.pending :
              c \in x.obs.pending \/ (block.kind \in ToolKinds /\ c = block.n)
        /\ StillOpen(calls, next.out) \subseteq next.obs.pending
        /\ MetricsOf(next.out, row, i, tools)
    BY <2>2, <2>3, <2>4, <2>5, AssistantBlockShows
  <2>7. next \in Emissions(place)
    BY <2>2, <2>3, <2>5, AssistantBlockTyped
  <2>8. block.kind \in ToolKinds => block.n \in CallsOf(row)
    BY DEF CallsOf, block
  <2> HIDE DEF next
  <2>9. SameTurn(active, next.obs)
    BY <2>5, <2>6 DEF SameTurn
  <2>10. next \in V
    BY <2>5, <2>6, <2>7, <2>8, <2>9
  <2> QED
    BY <2>1, <2>10
<1> HIDE DEF start, places, V
<1>15. read \in V
  BY <1>12, <1>13, <1>14, AssistantRow!FoldKeeps
<1> HIDE DEF read
<1>16. /\ read \in Emissions(place) /\ SameTurn(active, read.obs)
       /\ read.obs.pending \subseteq o.pending \cup CallsOf(row)
       /\ StillOpen(calls, read.out) \subseteq read.obs.pending
       /\ MetricsOf(read.out, row, i, tools)
  BY <1>15 DEF V
<1> DEFINE t == read.obs
           ended == [t EXCEPT !.status = IF row.end THEN "ready" ELSE @]
<1>17. read = [obs |-> t, out |-> read.out] /\ t \in ObserverRecords
  BY <1>16 DEF Emissions, Observing, Observers
<1>18. last = [obs |-> ended, out |-> read.out]
  BY <1>17
<1> HIDE DEF t
<1>19. /\ ended.pending = t.pending /\ ended.turnTools = t.turnTools
       /\ ended.status = IF row.end THEN "ready" ELSE t.status
  BY <1>17 DEF ObserverRecords
<1> HIDE DEF ended, last
<1>20. last.obs.turnTools = tools /\ last.out = read.out /\ last.obs.pending = read.obs.pending
       /\ last.obs.status = IF row.end THEN "ready" ELSE status
  BY <1>7, <1>16, <1>18, <1>19 DEF SameTurn, t
<1>21. Shows(calls, o, row, i, last)
  <2>1. { c \in o.pending : ~Answers(row, c) } = o.pending
    BY <1>6
  <2> QED
    BY <1>6, <1>16, <1>20, <2>1 DEF Shows, tools
<1>22. Settles(o, row, last.obs)
  BY <1>6, <1>20 DEF Settles, status
<1> QED
  BY <1>1, <1>21, <1>22

LEMMA ProcessEntryShows ==
  ASSUME NEW place, NEW o \in Observing(place), NEW i \in Nat, NEW row \in TranscriptRow,
         NEW calls, calls \subseteq o.pending
  PROVE  LET next == ProcessEntry(o, i, row)
         IN Shows(calls, o, row, i, next) /\ Settles(o, row, next.obs)
<1>1. CASE row.type = "user"
  <2>1. ProcessEntry(o, i, row) = UserEntry(o, i, row)
    BY <1>1 DEF ProcessEntry
  <2> QED
    BY <1>1, <2>1, UserEntryShows
<1>2. CASE row.type = "assistant"
  <2>1. ProcessEntry(o, i, row) = AssistantEntry(o, i, row)
    BY <1>2 DEF ProcessEntry
  <2> QED
    BY <1>2, <2>1, AssistantEntryShows
<1>3. CASE row.type \notin {"user", "assistant"}
  <2> DEFINE next == ProcessEntry(o, i, row)
             ready == [o EXCEPT !.status = "ready"]
             event(key, kind) == Event(<< 0, i, 0 >>, key, kind, 0, << >>)
  <2>1. o \in ObserverRecords /\ o.turnTools \in Nat
    BY DEF Observing, Observers, ObserverRecords
  <2>2. ready.pending = o.pending /\ ready.turnTools = o.turnTools
    BY <2>1 DEF ObserverRecords
  <2>3. \A key, kind : event(key, kind).kind = kind /\ event(key, kind).chip = << >>
    BY DEF Event
  <2> HIDE DEF ready, event
  <2>4. row.type \in {"enqueue", "boundary", "localout"}
    BY <1>3 DEF TranscriptRow, RowTypes
  <2>5. /\ next.obs \in {o, ready}
        /\ \/ next.out = << >>
           \/ \E key : \E kind \in {"user", "compact", "command"} : next.out = << event(key, kind) >>
    BY <2>4 DEF ProcessEntry, EnqueueEntry, event, ready
  <2> HIDE DEF next
  <2>6. Plain(next.out) /\ NumbersOf(next.out, "tool") = {} /\ NumbersOf(next.out, "result") = {}
    <3>1. CASE next.out = << >>
      BY <3>1 DEF Plain, NumbersOf
    <3>2. ASSUME NEW key, NEW kind \in {"user", "compact", "command"}, next.out = << event(key, kind) >>
          PROVE  Plain(next.out) /\ NumbersOf(next.out, "tool") = {} /\ NumbersOf(next.out, "result") = {}
      <4>1. DOMAIN next.out = {1} /\ next.out[1] = event(key, kind)
        BY <3>2
      <4>2. next.out[1].chip = << >> /\ next.out[1].kind \notin {"tool", "result"}
        BY <2>3, <4>1
      <4> QED
        BY <4>1, <4>2 DEF Plain, NumbersOf
    <3> QED
      BY <2>5, <3>1, <3>2
  <2>7. StillOpen(calls, next.out) = calls
    BY <2>6 DEF StillOpen
  <2>8. ~BeginsTurn(row) /\ CallsShown(row) = << >> /\ Len(<< >>) = 0 /\ NewCalls(row) = {}
        /\ ~Cuts(row) /\ (\A c : ~Answers(row, c)) /\ row.type # "assistant"
    BY <1>3 DEF BeginsTurn, CallsShown, NewCalls, Cuts, Answers
  <2>9. next.obs.turnTools = o.turnTools /\ next.obs.pending = o.pending
    BY <2>2, <2>5
  <2>10. o.turnTools = o.turnTools + Len(CallsShown(row))
    BY <2>1, <2>8
  <2>11. { c \in o.pending : ~Answers(row, c) } = o.pending
    BY <2>8
  <2>12. Shows(calls, o, row, i, next)
    BY <2>6, <2>7, <2>8, <2>9, <2>10, <2>11, PlainMetrics DEF Shows
  <2>13. Settles(o, row, next.obs)
    BY <2>8 DEF Settles
  <2> QED
    BY <2>12, <2>13 DEF next
<1> QED
  BY <1>1, <1>2, <1>3

-----------------------------------------------------------------------------
(***************************************************************************)
(* What the observer knows of the transcript up to row q, if it started at *)
(* `start': how many tools the turn has used that it saw begin, that calls *)
(* which wait for a result are unanswered, and how its last row left it.   *)
(***************************************************************************)

SeenTurn(rows, start, i) == TurnStart(rows, i) > 0 /\ 2 * TurnStart(rows, i) - 1 > start
Settled(rows, start, q, o) ==
    q > 0 /\ start < 2 * q - 1 =>
        /\ rows[q].end => o.status = "ready"
        /\ Cuts(rows[q]) => o.status = "ready" /\ o.justInterrupted
        /\ q > 1 /\ start < 2 * q - 3 /\ Cuts(rows[q - 1]) /\ rows[q].type = "assistant"
             => o.status = "ready"
Follows(rows, start, q, o) ==
    /\ SeenTurn(rows, start, q) => o.turnTools = TurnTools(rows, q)
    /\ o.pending \subseteq Unanswered(rows, q)
    /\ Settled(rows, start, q, o)

LEMMA UnansweredStep ==
  ASSUME NEW rows \in Seq(TranscriptRow), NEW i \in DOMAIN rows
  PROVE  { c \in Unanswered(rows, i - 1) : ~Answers(rows[i], c) } \cup NewCalls(rows[i])
            \subseteq Unanswered(rows, i)
<1> DEFINE waits(j, n) == { c \in CallsOf(rows[j]) : \A k \in j + 1 .. n : ~Answers(rows[k], c) }
           replies(n) == { j \in 1 .. n : rows[j].type = "assistant" }
<1>1. i \in Nat /\ i > 0
  OBVIOUS
<1>2. \A n : Unanswered(rows, n) = UNION { waits(j, n) : j \in replies(n) }
  BY DEF Unanswered
<1>3. \A n, c : c \in Unanswered(rows, n) <=> \E j \in replies(n) : c \in waits(j, n)
  <2> HIDE DEF waits, replies
  <2> QED
    BY <1>2
<1>4. ASSUME NEW c \in Unanswered(rows, i - 1), ~Answers(rows[i], c) PROVE c \in Unanswered(rows, i)
  <2>1. PICK j \in replies(i - 1) : c \in waits(j, i - 1)
    BY <1>3
  <2>2. j \in replies(i)
    BY <1>1
  <2>3. c \in waits(j, i)
    <3>1. \A k \in j + 1 .. i : k \in j + 1 .. i - 1 \/ k = i
      BY <1>1
    <3> QED
      BY <1>4, <2>1, <3>1
  <2> QED
    BY <1>3, <2>2, <2>3
<1>5. ASSUME NEW c \in NewCalls(rows[i]) PROVE c \in Unanswered(rows, i)
  <2>1. rows[i].type = "assistant" /\ c \in CallsOf(rows[i])
    BY <1>5 DEF NewCalls
  <2>2. i + 1 .. i = {}
    BY <1>1
  <2>3. i \in replies(i) /\ c \in waits(i, i)
    BY <1>1, <2>1, <2>2
  <2> QED
    BY <1>3, <2>3
<1> QED
  BY <1>4, <1>5

LEMMA RowIsFollowed ==
  ASSUME NEW rows \in Seq(TranscriptRow), WholeTurns(rows), NEW start \in Nat, NEW i \in DOMAIN rows,
         NEW o, o.turnTools \in Nat, Follows(rows, start, i - 1, o), NEW calls,
         NEW next, Shows(calls, o, rows[i], i, next), Settles(o, rows[i], next.obs)
  PROVE  Follows(rows, start, i, next.obs)
<1> DEFINE row == rows[i]
           first == TurnStart(rows, i)
           before == TurnStart(rows, i - 1)
           p == next.obs
<1>1. i \in Nat /\ i > 0 /\ row \in TranscriptRow
  OBVIOUS
<1>2. first = IF BeginsTurn(row) THEN i ELSE before
  BY TurnStartStep
<1>3. TurnTools(rows, i) = IF BeginsTurn(row) THEN 0 ELSE TurnTools(rows, i - 1) + Len(CallsShown(row))
  BY TurnToolsStep
<1>4. row.end => row.type = "assistant"
  BY DEF WholeTurns
<1> HIDE DEF first, before, p
<1>5. SeenTurn(rows, start, i) => p.turnTools = TurnTools(rows, i)
  <2>1. ~BeginsTurn(row) /\ SeenTurn(rows, start, i) => SeenTurn(rows, start, i - 1)
    BY <1>2 DEF SeenTurn, first, before
  <2>2. p.turnTools = IF BeginsTurn(row) THEN 0 ELSE o.turnTools + Len(CallsShown(row))
    BY DEF Shows, p
  <2>3. SeenTurn(rows, start, i - 1) => o.turnTools = TurnTools(rows, i - 1)
    BY DEF Follows
  <2> QED
    BY <1>3, <2>1, <2>2, <2>3
<1>6. p.pending \subseteq Unanswered(rows, i)
  <2>1. p.pending \subseteq { c \in o.pending : ~Answers(row, c) } \cup NewCalls(row)
    BY DEF Shows, p
  <2>2. o.pending \subseteq Unanswered(rows, i - 1)
    BY DEF Follows
  <2> QED
    BY <2>1, <2>2, UnansweredStep
<1>7. Settled(rows, start, i, p)
  <2>1. /\ row.type = "assistant" /\ row.end => p.status = "ready"
        /\ Cuts(row) => p.status = "ready" /\ p.justInterrupted
        /\ row.type = "assistant" /\ o.status = "ready" /\ o.justInterrupted => p.status = "ready"
    BY DEF Settles, p
  <2>2. ASSUME i > 1, start < 2 * i - 3, Cuts(rows[i - 1]) PROVE o.status = "ready" /\ o.justInterrupted
    <3>1. i - 1 > 0 /\ start < 2 * (i - 1) - 1
      BY <1>1, <2>2
    <3>2. Settled(rows, start, i - 1, o)
      BY DEF Follows
    <3> QED
      BY <2>2, <3>1, <3>2 DEF Settled
  <2> QED
    BY <1>4, <2>1, <2>2 DEF Settled
<1> QED
  BY <1>5, <1>6, <1>7 DEF Follows, p

\* A row whose end only it gets, as it started in its middle.
LEMMA HalfRowIsFollowed ==
  ASSUME NEW rows \in Seq(TranscriptRow), NEW i \in DOMAIN rows, NEW o, o.pending = {}
  PROVE  Follows(rows, 2 * i - 1, i, o)
<1>1. i \in Nat /\ i > 0
  OBVIOUS
<1>2. TurnStart(rows, i) \in 0 .. i
  BY <1>1, TurnStartIs
<1>3. ~SeenTurn(rows, 2 * i - 1, i)
  BY <1>1, <1>2 DEF SeenTurn
<1>4. ~(2 * i - 1 < 2 * i - 1)
  BY <1>1
<1> QED
  BY <1>3, <1>4 DEF Follows, Settled

\* The rows that are read are the m that follow row f: the last that was read,
\* or the one whose end only is there.
RowsFollow(f, m, start, from, to) ==
    /\ f + m = to \div 2
    /\ f = from \div 2 \/ (f = from \div 2 + 1 /\ from = start /\ start = 2 * f - 1)
    /\ DOMAIN RowsBetween(start, from, to) = 1 .. m
    /\ \A k \in 1 .. m : RowsBetween(start, from, to)[k] = f + k

LEMMA RowsRead ==
  ASSUME NEW start \in Nat, NEW from \in Nat, NEW to \in Nat, start <= from, from < to
  PROVE  \E f \in Nat : \E m \in Nat : RowsFollow(f, m, start, from, to)
<1> DEFINE h == from \div 2
           n == to \div 2
           half == from = start /\ from = 2 * h + 1
           f == IF half THEN h + 1 ELSE h
           m == n - f
           K == { r \in 1 .. n : 2 * r > from /\ 2 * r - 1 # start }
<1>1. h \in Nat /\ n \in Nat /\ (from = 2 * h \/ from = 2 * h + 1) /\ (to = 2 * n \/ to = 2 * n + 1)
  OBVIOUS
<1>2. RowsBetween(start, from, to) = Ascending(K)
  BY DEF RowsBetween
<1> HIDE DEF h, n
<1>3. f \in Nat /\ m \in Nat /\ f + m = n
  BY <1>1
<1>4. \A r \in 1 .. n : 2 * r > from /\ 2 * r - 1 # start <=> r > f
  BY <1>1
<1>5. K = f + 1 .. f + m
  <2>1. \A r \in Nat : r \in 1 .. n /\ r > f <=> r \in f + 1 .. f + m
    <3> HIDE DEF f, m
    <3> QED
      BY <1>3
  <2> QED
    BY <1>3, <1>4, <2>1
<1>6. f = h \/ (f = h + 1 /\ from = start /\ start = 2 * f - 1)
  BY <1>1
<1> HIDE DEF f, m, K
<1>7. DOMAIN Ascending(K) = 1 .. m /\ \A k \in 1 .. m : Ascending(K)[k] = f + k
  BY <1>3, <1>5, AscendingFrom
<1>8. RowsFollow(f, m, start, from, to)
  BY <1>2, <1>3, <1>6, <1>7 DEF h, n, RowsFollow
<1> QED
  BY <1>3, <1>8

\* Metrics of a row up to q.
ShownMetrics(rows, start, q, e) ==
    \E i \in 1 .. q : \E b :
        /\ e.id = << 0, i, b >> /\ LastText(rows[i], b)
        /\ SeenTurn(rows, start, i) => e.chip = << TurnTools(rows, i) >>
RightMetrics(out, rows, start, q) ==
    \A k \in DOMAIN out : out[k].chip # << >> => ShownMetrics(rows, start, q, out[k])

LEMMA MetricsJoined ==
  ASSUME NEW s \in Seq(Events), NEW t \in Seq(Events), NEW rows, NEW start, NEW i \in Nat \ {0},
         RightMetrics(s, rows, start, i - 1), NEW tools, MetricsOf(t, rows[i], i, tools),
         SeenTurn(rows, start, i) => tools = TurnTools(rows, i)
  PROVE  RightMetrics(s \o t, rows, start, i)
<1> DEFINE u == s \o t
<1>1. \A k \in DOMAIN u : \/ k \in DOMAIN s /\ u[k] = s[k]
                          \/ \E j \in DOMAIN t : u[k] = t[j]
  <2> DEFINE m == Len(s)
             n == Len(t)
  <2>1. /\ m \in Nat /\ n \in Nat /\ DOMAIN s = 1 .. m /\ DOMAIN t = 1 .. n /\ DOMAIN u = 1 .. m + n
        /\ \A k \in 1 .. m : u[k] = s[k]
        /\ \A k \in 1 .. n : u[m + k] = t[k]
    OBVIOUS
  <2> HIDE DEF m, n, u
  <2> SUFFICES ASSUME NEW k \in DOMAIN u, k \notin DOMAIN s PROVE \E j \in DOMAIN t : u[k] = t[j]
    BY <2>1
  <2>2. k - m \in 1 .. n /\ m + (k - m) = k
    BY <2>1
  <2> QED
    BY <2>1, <2>2
<1> HIDE DEF u
<1>2. \A j \in DOMAIN s : s[j].chip # << >> => ShownMetrics(rows, start, i, s[j])
  <2>1. \A l \in 1 .. i - 1 : l \in 1 .. i
    OBVIOUS
  <2> QED
    BY <2>1 DEF RightMetrics, ShownMetrics
<1>3. \A j \in DOMAIN t : t[j].chip # << >> => ShownMetrics(rows, start, i, t[j])
  <2>1. i \in 1 .. i
    OBVIOUS
  <2> QED
    BY <2>1 DEF MetricsOf, MetricsAt, ShownMetrics
<1> QED
  BY <1>1, <1>2, <1>3 DEF RightMetrics, u

\* What has been read up to row q, from an observer that left `calls' open.
ReadUpTo(place, rows, start, calls, q) ==
    { x \in Emissions(place) :
        /\ Follows(rows, start, q, x.obs)
        /\ StillOpen(calls, x.out) \subseteq x.obs.pending
        /\ RightMetrics(x.out, rows, start, q) }

LEMMA EntryIsRead ==
  ASSUME NEW place, NEW rows \in Seq(TranscriptRow), WholeTurns(rows), NEW start \in Nat, NEW calls,
         NEW i \in DOMAIN rows, NEW x \in ReadUpTo(place, rows, start, calls, i - 1)
  PROVE  EntryOf(rows, x, i) \in ReadUpTo(place, rows, start, calls, i)
<1> DEFINE row == rows[i]
           open == StillOpen(calls, x.out)
           next == ProcessEntry(x.obs, i, row)
           all == x.out \o next.out
<1>1. /\ x.obs \in Observing(place) /\ x.out \in Seq(Events) /\ Follows(rows, start, i - 1, x.obs)
      /\ open \subseteq x.obs.pending /\ RightMetrics(x.out, rows, start, i - 1)
  BY DEF ReadUpTo, Emissions
<1>2. i \in Nat \ {0} /\ row \in TranscriptRow
  OBVIOUS
<1> HIDE DEF row, open
<1>3. next \in Emissions(place)
  BY <1>1, <1>2, ProcessEntryTyped
<1>4. Shows(open, x.obs, row, i, next) /\ Settles(x.obs, row, next.obs)
  BY <1>1, <1>2, ProcessEntryShows
<1> HIDE DEF next
<1>5. next.obs \in Observing(place) /\ next.out \in Seq(Events) /\ x.obs.turnTools \in Nat
  BY <1>1, <1>3 DEF Emissions, Observing, Observers, ObserverRecords
<1>6. Follows(rows, start, i, next.obs)
  BY <1>1, <1>4, <1>5, RowIsFollowed DEF row
<1>7. StillOpen(calls, all) \subseteq next.obs.pending
  <2>1. StillOpen(calls, all) \subseteq StillOpen(open, next.out)
    BY <1>1, <1>5, JoinedOpen DEF open
  <2> QED
    BY <1>4, <2>1 DEF Shows
<1>8. RightMetrics(all, rows, start, i)
  <2>1. MetricsOf(next.out, rows[i], i, next.obs.turnTools)
    BY <1>4 DEF Shows, row
  <2>2. SeenTurn(rows, start, i) => next.obs.turnTools = TurnTools(rows, i)
    BY <1>6 DEF Follows
  <2> QED
    BY <1>1, <1>2, <1>5, <2>1, <2>2, MetricsJoined
<1>9. EntryOf(rows, x, i) = [obs |-> next.obs, out |-> all]
  BY DEF EntryOf, next, row
<1>10. all \in Seq(Events)
  BY <1>1, <1>5
<1> HIDE DEF all
<1>11. EntryOf(rows, x, i) \in Emissions(place)
  BY <1>5, <1>9, <1>10, EmissionIs
<1> QED
  BY <1>6, <1>7, <1>8, <1>9, <1>11 DEF ReadUpTo

\* What is read from the file leaves the observer with what it would know had
\* it read it row by row.
LEMMA ReadShows ==
  ASSUME NEW o \in Observers, o.active, o.start <= o.offset, NEW rows \in Seq(TranscriptRow),
         WholeTurns(rows), NEW n \in Nat, n \div 2 <= Len(rows), o.offset < n,
         Follows(rows, o.start, o.offset \div 2, o), o.offset = o.start => o.pending = {},
         NEW calls, calls \subseteq o.pending
  PROVE  ReadNewEntries(o, rows, n) \in
           ReadUpTo(<< TRUE, o.start, n >>, rows, o.start, calls, n \div 2)
<1> DEFINE new == RowsBetween(o.start, o.offset, n)
           moved == [o EXCEPT !.offset = n]
           start == [obs |-> moved, out |-> << >>]
           place == << TRUE, o.start, n >>
           read == Entries!Fold(rows, start, new)
<1>1. o \in ObserverRecords /\ IsFiniteSet(o.pending) /\ o.offset \in Nat /\ o.start \in Nat
  BY DEF Observers, ObserverRecords
<1>2. ReadNewEntries(o, rows, n) = read
  <2>1. ~(~o.active \/ n <= o.offset)
    BY <1>1
  <2> QED
    BY <2>1 DEF ReadNewEntries, EntryOf, Entries!Fold, Entries!FoldLeft, Entries!MapThenFoldSet,
         Entries!Max, FoldLeft, MapThenFoldSet, Max
<1>3. moved \in ObserverRecords
  BY <1>1 DEF ObserverRecords
<1>4. /\ moved.pending = o.pending /\ Place(moved) = place /\ moved.turnTools = o.turnTools
      /\ moved.status = o.status /\ moved.justInterrupted = o.justInterrupted
  BY <1>1 DEF ObserverRecords, Place
<1> HIDE DEF moved, place
<1>5. moved \in Observing(place)
  BY <1>1, <1>3, <1>4 DEF Observing, Observers
<1>6. << >> \in Seq(Events)
  OBVIOUS
<1>7. start \in Emissions(place) /\ start.obs = moved /\ start.out = << >>
  BY <1>5, <1>6, EmissionIs
<1> HIDE DEF start
<1>8. PICK f \in Nat : \E m \in Nat : RowsFollow(f, m, o.start, o.offset, n)
  BY <1>1, RowsRead
<1>9. PICK m \in Nat : RowsFollow(f, m, o.start, o.offset, n)
  BY <1>8
<1>10. /\ f + m = n \div 2
       /\ f = o.offset \div 2 \/ (f = o.offset \div 2 + 1 /\ o.offset = o.start /\ o.start = 2 * f - 1)
       /\ DOMAIN new = 1 .. m
       /\ \A k \in 1 .. m : new[k] = f + k
  BY <1>9 DEF RowsFollow
<1>11. Follows(rows, o.start, f, moved)
  <2>1. CASE f = o.offset \div 2
    BY <1>4, <2>1 DEF Follows, Settled
  <2>2. CASE f = o.offset \div 2 + 1 /\ o.offset = o.start /\ o.start = 2 * f - 1
    <3>1. f \in DOMAIN rows
      <4> DEFINE q == n \div 2
                 first == o.start
      <4>1. q \in Nat /\ f + m = q /\ q <= Len(rows)
        BY <1>10
      <4>2. first \in Nat /\ first = 2 * f - 1
        BY <1>1, <2>2
      <4> HIDE DEF q, first
      <4>3. f > 0
        BY <4>2
      <4> QED
        BY <4>1, <4>3
    <3>2. moved.pending = {}
      BY <1>4, <2>2
    <3>3. Follows(rows, 2 * f - 1, f, moved)
      BY <3>1, <3>2, HalfRowIsFollowed
    <3> QED
      BY <2>2, <3>3
  <2> QED
    BY <1>10, <2>1, <2>2
<1>12. start \in ReadUpTo(place, rows, o.start, calls, f)
  <2>1. RightMetrics(<< >>, rows, o.start, f)
    BY DEF RightMetrics
  <2> QED
    BY <1>4, <1>7, <1>11, <2>1, NothingOpen DEF ReadUpTo
<1> DEFINE So(k) == ReadUpTo(place, rows, o.start, calls, f + k)
           V == [ k \in 0 .. m |-> So(k) ]
<1>13. start \in V[0]
  <2>1. f + 0 = f /\ 0 \in 0 .. m
    BY <1>10
  <2> HIDE DEF So
  <2>2. V[0] = So(0)
    BY <2>1
  <2> QED
    BY <1>12, <2>1, <2>2 DEF So
<1>14. ASSUME NEW k \in 1 .. m, NEW x \in V[k - 1] PROVE EntryOf(rows, x, new[k]) \in V[k]
  <2>1. /\ k \in 0 .. m /\ k - 1 \in 0 .. m /\ f + (k - 1) = (f + k) - 1 /\ f + k <= n \div 2
        /\ f + k \in Nat \ {0} /\ n \div 2 \in Nat
    BY <1>10
  <2>2. V[k] = So(k) /\ V[k - 1] = So(k - 1)
    <3> HIDE DEF So
    <3> QED
      BY <2>1
  <2>3. f + k \in DOMAIN rows /\ new[k] = f + k
    BY <1>10, <2>1
  <2>4. x \in ReadUpTo(place, rows, o.start, calls, (f + k) - 1)
    BY <2>1, <2>2
  <2> DEFINE i == f + k
  <2> HIDE DEF i
  <2>5. i \in DOMAIN rows /\ x \in ReadUpTo(place, rows, o.start, calls, i - 1)
    BY <2>3, <2>4 DEF i
  <2>6. EntryOf(rows, x, i) \in ReadUpTo(place, rows, o.start, calls, i)
    BY <1>1, <2>5, EntryIsRead
  <2> QED
    BY <2>2, <2>3, <2>6 DEF i
<1>15. read \in V[m]
  <2> HIDE DEF V, new
  <2> QED
    BY <1>10, <1>13, <1>14, Entries!FoldThrough
<1>16. V[m] = So(m)
  <2> HIDE DEF So
  <2>1. m \in 0 .. m
    BY <1>10
  <2> QED
    BY <2>1
<1> QED
  BY <1>2, <1>10, <1>15, <1>16 DEF place

-----------------------------------------------------------------------------
(***************************************************************************)
(* The invariant of what is shown live.  The observer knows the rows that  *)
(* it has read, a call that is shown as running waits for its result in    *)
(* the observer, and the metrics sent are those of the turns on disk.      *)
(***************************************************************************)

ObserverKnows ==
    /\ Follows(script.rows, obs.start, obs.offset \div 2, obs)
    /\ obs.offset = obs.start => obs.pending = {}
    /\ openTools \subseteq obs.pending
    /\ ~up => openTools = {}
OfTurn(c, rows, n) ==
    \E i \in 1 .. n : \E b :
        c.id = << 0, i, b >> /\ LastText(rows[i], b) /\ c.chip = << TurnTools(rows, i) >>
ChipsOK == \A c \in chips : OfTurn(c, script.rows, size \div 2)
LiveOK == ObserverKnows /\ ChipsOK

\* What is sent opens and closes calls, and its metrics are kept.
LEMMA SentShows ==
  ASSUME NEW out, SendLive(out)
  PROVE  /\ openTools' = StillOpen(openTools, out)
         /\ \A c \in chips' :
               \/ c \in chips
               \/ \E k \in DOMAIN out : /\ out[k].chip # << >> /\ ObservedTurn(out[k].id[2])
                                        /\ c.id = out[k].id /\ c.chip = out[k].chip
<1> DEFINE events == { out[k] : k \in DOMAIN out }
           ofKind(kind) == { e.n : e \in { x \in events : x.kind = kind } }
           sent == { [id |-> e.id, chip |-> e.chip] :
                       e \in { x \in events : x.chip # << >> /\ ObservedTurn(x.id[2]) } }
<1>1. openTools' = (openTools \cup ofKind("tool")) \ ofKind("result") /\ chips' = chips \cup sent
  BY DEF SendLive, Shown
<1>2. \A kind : ofKind(kind) = NumbersOf(out, kind)
  BY DEF NumbersOf
<1>3. \A c \in sent : \E k \in DOMAIN out : /\ out[k].chip # << >> /\ ObservedTurn(out[k].id[2])
                                            /\ c.id = out[k].id /\ c.chip = out[k].chip
  OBVIOUS
<1> HIDE DEF sent, ofKind
<1>4. openTools' = StillOpen(openTools, out)
  BY <1>1, <1>2 DEF StillOpen
<1> QED
  BY <1>1, <1>3, <1>4

LEMMA LiveUntouched ==
  ASSUME LiveOK, UNCHANGED << script, size, up, obs, openTools, chips >>
  PROVE  LiveOK'
BY DEF LiveOK, ObserverKnows, ChipsOK

\* The transcript grows.
LEMMA GrownLive ==
  ASSUME IInv, LiveOK, WriteRow
  PROVE  LiveOK'
<1>1. ObserverKnows'
  BY DEF LiveOK, ObserverKnows, WriteRow, seenVars
<1>2. 1 .. size \div 2 \subseteq 1 .. size' \div 2
  <2>1. size \in Nat /\ (size' = size + 1 \/ size' = size + 2)
    BY DEF IInv, FilesOK, WriteRow
  <2> QED
    BY <2>1
<1>3. chips' = chips /\ script' = script
  BY DEF WriteRow, seenVars
<1> DEFINE n == size \div 2
           m == size' \div 2
<1>4. ASSUME NEW c \in chips PROVE OfTurn(c, script.rows, m)
  <2>1. OfTurn(c, script.rows, n)
    BY DEF LiveOK, ChipsOK
  <2>2. 1 .. n \subseteq 1 .. m
    BY <1>2
  <2> HIDE DEF n, m
  <2> QED
    BY <2>1, <2>2 DEF OfTurn
<1>5. ChipsOK'
  BY <1>3, <1>4 DEF ChipsOK
<1> QED
  BY <1>1, <1>5 DEF LiveOK

\* What the subagents' observer sends opens no call and has no metrics.
LEMMA AgentsShowNothing ==
  ASSUME LiveOK, NEW out \in Seq(AgentEvents), SendLive(out), UNCHANGED << script, size, up, obs >>
  PROVE  LiveOK'
<1>1. \A k \in DOMAIN out : out[k].kind = "subagent" /\ out[k].chip = << >>
  BY DEF AgentEvents
<1>2. NumbersOf(out, "tool") = {}
  BY <1>1 DEF NumbersOf
<1>3. openTools' \subseteq openTools
  BY <1>2, SentShows DEF StillOpen
<1>4. chips' \subseteq chips
  BY <1>1, SentShows
<1> QED
  BY <1>3, <1>4 DEF LiveOK, ObserverKnows, ChipsOK

\* The observer reads.
LEMMA PollShows ==
  ASSUME IInv, LiveOK, ObserverPoll
  PROVE  LiveOK'
<1> DEFINE rows == script.rows
           first == obs.start
           read == ReadNewEntries(obs, rows, size)
           place == << TRUE, first, size >>
           n == size \div 2
<1>1. /\ script \in Scripts /\ obs \in Observers /\ obs.start <= obs.offset /\ size \in Nat
      /\ obs.active /\ obs.offset < size /\ obs' = read.obs /\ SendLive(read.out)
      /\ script' = script /\ size' = size /\ up' = TRUE
  BY DEF IInv, FilesOK, ObserversOK, ObserverPoll, Observed, fileVars
<1>2. rows \in Seq(TranscriptRow) /\ n <= Len(rows) /\ n \in Nat
  BY OnDisk DEF IInv
<1>3. WholeTurns(rows)
  BY <1>1, TurnAssumption
<1>4. /\ Follows(rows, first, obs.offset \div 2, obs) /\ openTools \subseteq obs.pending
      /\ obs.offset = first => obs.pending = {}
  BY DEF LiveOK, ObserverKnows
<1>5. read \in ReadUpTo(place, rows, first, openTools, n)
  <2> HIDE DEF rows
  <2> QED
    BY <1>1, <1>2, <1>3, <1>4, ReadShows
<1> HIDE DEF read
<1>6. /\ read.obs \in Observing(place) /\ Follows(rows, first, n, read.obs)
      /\ StillOpen(openTools, read.out) \subseteq read.obs.pending
      /\ RightMetrics(read.out, rows, first, n)
  BY <1>5 DEF ReadUpTo, Emissions
<1>7. obs'.start = first /\ obs'.offset = size
  BY <1>1, <1>6 DEF Observing, Place
<1>8. first < size
  <2>1. first \in Nat /\ obs.offset \in Nat
    BY <1>1 DEF Observers, ObserverRecords
  <2> QED
    BY <1>1, <2>1
<1>9. ObserverKnows'
  <2>1. Follows(script'.rows, obs'.start, obs'.offset \div 2, obs')
    BY <1>1, <1>6, <1>7
  <2>2. obs'.offset # obs'.start
    BY <1>1, <1>7, <1>8
  <2>3. openTools' \subseteq obs'.pending
    BY <1>1, <1>6, SentShows
  <2> QED
    BY <1>1, <2>1, <2>2, <2>3 DEF ObserverKnows
<1>10. ASSUME NEW c \in chips' PROVE OfTurn(c, rows, n)
  <2>1. CASE c \in chips
    BY <2>1 DEF LiveOK, ChipsOK
  <2>2. CASE c \notin chips
    <3>1. PICK k \in DOMAIN read.out : /\ read.out[k].chip # << >> /\ ObservedTurn(read.out[k].id[2])
                                       /\ c.id = read.out[k].id /\ c.chip = read.out[k].chip
      BY <1>1, <2>2, SentShows
    <3> DEFINE e == read.out[k]
    <3> HIDE DEF e
    <3>2. ShownMetrics(rows, first, n, e)
      BY <1>6, <3>1 DEF RightMetrics, e
    <3> HIDE DEF rows, first
    <3>3. PICK i \in 1 .. n : \E b : /\ e.id = << 0, i, b >> /\ LastText(rows[i], b)
                                     /\ SeenTurn(rows, first, i) => e.chip = << TurnTools(rows, i) >>
      BY <3>2 DEF ShownMetrics
    <3>4. PICK b : /\ e.id = << 0, i, b >> /\ LastText(rows[i], b)
                   /\ SeenTurn(rows, first, i) => e.chip = << TurnTools(rows, i) >>
      BY <3>3
    <3>5. e.id[2] = i
      BY <3>4
    <3>6. SeenTurn(rows, first, i)
      BY <3>1, <3>5 DEF ObservedTurn, SeenTurn, rows, first, e
    <3> QED
      BY <3>1, <3>4, <3>6 DEF OfTurn, e
  <2> QED
    BY <2>1, <2>2
<1>11. ChipsOK'
  BY <1>1, <1>10 DEF ChipsOK
<1> QED
  BY <1>9, <1>11 DEF LiveOK

\* The daemon ends, and starts again.
LEMMA EndShows ==
  ASSUME LiveOK, Ends
  PROVE  LiveOK'
<1>1. /\ obs' = NoObserver /\ openTools' = {} /\ chips' = chips /\ script' = script /\ size' = size
  BY DEF Ends, fileVars
<1>2. NoObserver.start = 0 /\ NoObserver.offset = 0 /\ NoObserver.pending = {} /\ 0 \div 2 = 0
  BY DEF NoObserver
<1>3. ~SeenTurn(script.rows, 0, 0)
  <2>1. \A r : TurnStart(r, 0) = 0
    BY DEF TurnStart
  <2> QED
    BY <2>1 DEF SeenTurn
<1>4. Follows(script.rows, 0, 0, NoObserver)
  BY <1>2, <1>3 DEF Follows, Settled
<1>5. ObserverKnows'
  BY <1>1, <1>2, <1>4 DEF ObserverKnows
<1>6. ChipsOK'
  BY <1>1 DEF LiveOK, ChipsOK
<1> QED
  BY <1>5, <1>6 DEF LiveOK

LEMMA NothingSeen ==
  ASSUME NEW rows \in Seq(TranscriptRow), NEW n \in Nat, NEW o, o.pending = {}
  PROVE  Follows(rows, n, n \div 2, o)
<1> DEFINE q == n \div 2
<1>1. q \in Nat /\ 2 * q <= n
  <2>1. n \in Nat
    OBVIOUS
  <2> QED
    BY ONLY <2>1 DEF q
<1> HIDE DEF q
<1>2. TurnStart(rows, q) \in 0 .. q
  BY <1>1, TurnStartIs
<1>3. ~SeenTurn(rows, n, q)
  <2> DEFINE first == TurnStart(rows, q)
  <2> HIDE DEF first
  <2>1. first \in Nat /\ first <= q
    BY <1>1, <1>2 DEF first
  <2>2. ~(2 * first - 1 > n)
    BY <1>1, <2>1
  <2> QED
    BY <2>2 DEF SeenTurn, first
<1>4. ~(n < 2 * q - 1)
  BY <1>1
<1>5. Follows(rows, n, q, o)
  BY <1>3, <1>4 DEF Follows, Settled
<1> QED
  BY <1>5 DEF q

LEMMA StartShows ==
  ASSUME IInv, LiveOK, NEW quiet, Start(quiet)
  PROVE  LiveOK'
<1>1. /\ ~up /\ obs' = StartObserver(size) /\ openTools' = openTools /\ chips' = chips
      /\ script' = script /\ size' = size /\ size \in Nat /\ script.rows \in Seq(TranscriptRow)
  BY OnDisk DEF Start, seenVars, fileVars, IInv, FilesOK
<1>2. obs'.start = size /\ obs'.offset = size /\ obs'.pending = {}
  BY <1>1 DEF StartObserver, NoObserver
<1>3. Follows(script.rows, size, size \div 2, obs')
  BY <1>1, <1>2, NothingSeen
<1>4. openTools = {}
  BY <1>1 DEF LiveOK, ObserverKnows
<1>5. ObserverKnows'
  BY <1>1, <1>2, <1>3, <1>4 DEF ObserverKnows
<1>6. ChipsOK'
  BY <1>1 DEF LiveOK, ChipsOK
<1> QED
  BY <1>5, <1>6 DEF LiveOK

\* Every step of the subagents' observer sends the subagents' own events.
LEMMA AgentsSend ==
  ASSUME IInv,
         \/ \E a \in Agents : SubagentStart(a) \/ SubagentStop(a)
         \/ \E silent \in SUBSET Agents : AgentPoll(silent)
  PROVE  \E out \in Seq(AgentEvents) : SendLive(out)
<1>1. ASSUME NEW a \in Agents, SubagentStart(a) PROVE \E out \in Seq(AgentEvents) : SendLive(out)
  <2>1. SendLive(StatusOnly(a, agents'[a]))
    BY <1>1 DEF SubagentStart
  <2>2. StatusOnly(a, agents'[a]) \in Seq(AgentEvents)
    BY AgentTyped, StatusOnlyTyped
  <2> QED
    BY <2>1, <2>2
<1>2. ASSUME NEW a \in Agents, SubagentStop(a) PROVE \E out \in Seq(AgentEvents) : SendLive(out)
  <2> DEFINE read == ReadAgent(agents[a], a, script.files[a], sizes[a])
             done == StatusOnly(a, Done(read.agent))
  <2>1. SendLive(read.out \o done)
    BY <1>2 DEF SubagentStop, MarkedDone
  <2>2. a \in Nat /\ read \in AgentEmissions(sizes[a])
    BY AgentTyped
  <2>3. done \in Seq(AgentEvents)
    BY <2>2, StatusOnlyTyped
  <2> HIDE DEF read, done
  <2>4. read.out \in Seq(AgentEvents)
    BY <2>2 DEF AgentEmissions
  <2>5. read.out \o done \in Seq(AgentEvents)
    BY <2>3, <2>4
  <2> QED
    BY <2>1, <2>5
<1>3. ASSUME NEW silent \in SUBSET Agents, AgentPoll(silent)
      PROVE  \E out \in Seq(AgentEvents) : SendLive(out)
  <2> DEFINE after == [ a \in Agents |-> Polled(a, a \in silent) ]
             each == [ a \in Agents |-> after[a].out ]
  <2>1. SendLive(FlattenSeq(each))
    BY <1>3 DEF AgentPoll, AgentsPolled
  <2>2. \A a \in Agents : after[a] \in AgentEmissions(sizes[a])
    BY PolledTyped
  <2> HIDE DEF after
  <2>3. \A a \in Agents : after[a].out \in Seq(AgentEvents)
    BY <2>2 DEF AgentEmissions
  <2>4. PICK n \in Nat : Agents = 1 .. n
    BY OnDisk DEF IInv
  <2>5. each = [ a \in 1 .. n |-> after[a].out ] /\ \A a \in 1 .. n : after[a].out \in Seq(AgentEvents)
    BY <2>3, <2>4
  <2> HIDE DEF each
  <2>6. each \in Seq(Seq(AgentEvents))
    BY <2>5
  <2>7. FlattenSeq(each) \in Seq(AgentEvents)
    BY <2>6, FlattenedTyped
  <2> QED
    BY <2>1, <2>7
<1> QED
  BY <1>1, <1>2, <1>3

\* The invariant of what is shown live is one.
THEOREM LiveInvariant == Spec => [](IInv /\ LiveOK)
<1>1. Init => LiveOK
  <2> SUFFICES ASSUME Init PROVE LiveOK
    OBVIOUS
  <2>1. /\ script.rows \in Seq(TranscriptRow) /\ size = 0 /\ obs = StartObserver(0)
        /\ openTools = {} /\ chips = {}
    BY ScriptAssumption DEF Init
  <2>2. obs.start = 0 /\ obs.offset = 0 /\ obs.pending = {}
    BY <2>1 DEF StartObserver, NoObserver
  <2>3. Follows(script.rows, 0, 0 \div 2, obs)
    BY <2>1, <2>2, NothingSeen
  <2> QED
    BY <2>1, <2>2, <2>3 DEF LiveOK, ObserverKnows, ChipsOK
<1>2. IInv /\ LiveOK /\ [Next]_vars => LiveOK'
  <2> SUFFICES ASSUME IInv, LiveOK, [Next]_vars PROVE LiveOK'
    OBVIOUS
  <2>1. CASE WriteRow
    BY <2>1, GrownLive
  <2>2. ASSUME NEW a \in Agents, WriteAgentRow(a) PROVE LiveOK'
    BY <2>2, LiveUntouched DEF WriteAgentRow, seenVars
  <2>3. ASSUME NEW a \in Agents, SubagentStart(a) \/ SubagentStop(a) PROVE LiveOK'
    <3>1. UNCHANGED << script, size, up, obs >>
      BY <2>3 DEF SubagentStart, SubagentStop, fileVars
    <3> QED
      BY <2>3, <3>1, AgentsSend, AgentsShowNothing
  <2>4. CASE ObserverPoll
    BY <2>4, PollShows
  <2>5. ASSUME NEW silent \in SUBSET Agents, AgentPoll(silent) PROVE LiveOK'
    <3>1. UNCHANGED << script, size, up, obs >>
      BY <2>5 DEF AgentPoll, fileVars
    <3> QED
      BY <2>5, <3>1, AgentsSend, AgentsShowNothing
  <2>6. CASE Flush
    BY <2>6, LiveUntouched DEF Flush, fileVars, seenVars
  <2>7. CASE Stop \/ Crash
    BY <2>7, EndShows DEF Stop, Crash
  <2>8. ASSUME NEW quiet \in BOOLEAN, Start(quiet) PROVE LiveOK'
    BY <2>8, StartShows
  <2>9. ASSUME Parse PROVE LiveOK'
    BY <2>9, LiveUntouched DEF Parse, ParseAs, fileVars
  <2>10. ASSUME NEW arrives \in BOOLEAN, Sync(arrives) PROVE LiveOK'
    BY <2>9, <2>10 DEF Sync
  <2>11. CASE GetHistory \/ Verify
    BY <2>9, <2>11 DEF GetHistory, Verify
  <2>12. CASE PhoneToggles
    BY <2>12, LiveUntouched DEF PhoneToggles, fileVars, seenVars
  <2>13. CASE UNCHANGED vars
    BY <2>13, LiveUntouched DEF vars
  <2> QED
    BY <2>1, <2>2, <2>3, <2>4, <2>5, <2>6, <2>7, <2>8, <2>10, <2>11, <2>12, <2>13 DEF Next
<1> QED
  BY <1>1, <1>2, SyncInvariant, PTL DEF Spec

\* What is on disk is the beginning of what Claude will have written.
LEMMA WrittenIs ==
  ASSUME FilesOK
  PROVE  LET n == size \div 2
         IN /\ n \in 0 .. Len(script.rows) /\ Len(Written) = n /\ DOMAIN Written = 1 .. n
            /\ \A i \in 1 .. n : i \in DOMAIN script.rows /\ Written[i] = script.rows[i]
<1> DEFINE n == size \div 2
<1>1. script.rows \in Seq(TranscriptRow) /\ n \in Nat /\ n <= Len(script.rows)
  BY OnDisk
<1> HIDE DEF n
<1>2. Written = SubSeq(script.rows, 1, n)
  BY DEF Written, n
<1> QED
  BY <1>1, <1>2 DEF n

\* The metrics under the last answer of a turn, counted by the observer
\* (session-observer.ts) over the rows of the turn as they come, are those
\* that getSessionHistory counts in the file (session-discovery.ts), if the
\* observer saw the whole turn.
THEOREM ChipsAreRight == Spec => []ChipsAgree
<1>1. IInv /\ LiveOK => ChipsAgree
  <2> SUFFICES ASSUME IInv, LiveOK, NEW c \in chips, NEW k \in DOMAIN ParentHistory(Written),
                      ParentHistory(Written)[k].id = c.id
               PROVE  ParentHistory(Written)[k].chip = c.chip
    BY DEF ChipsAgree
  <2> DEFINE n == size \div 2
             rows == script.rows
             written == Written
  <2>1. /\ rows \in Seq(TranscriptRow) /\ written \in Seq(TranscriptRow) /\ n \in 0 .. Len(rows)
        /\ DOMAIN written = 1 .. n /\ \A i \in 1 .. n : i \in DOMAIN rows /\ written[i] = rows[i]
        /\ WholeTurns(rows)
    BY OnDisk, ReadFromDisk, WrittenIs, TurnAssumption DEF IInv, FilesOK
  <2>2. written = SubSeq(rows, 1, n)
    BY DEF Written
  <2>3. OfTurn(c, rows, n)
    BY DEF LiveOK, ChipsOK
  <2> HIDE DEF n, rows, written
  <2>4. PICK i \in 1 .. n : \E b : /\ c.id = << 0, i, b >> /\ LastText(rows[i], b)
                                   /\ c.chip = << TurnTools(rows, i) >>
    BY <2>3 DEF OfTurn
  <2>5. PICK b : /\ c.id = << 0, i, b >> /\ LastText(rows[i], b) /\ c.chip = << TurnTools(rows, i) >>
    BY <2>4
  <2>6. i \in DOMAIN written /\ written[i] = rows[i] /\ i \in DOMAIN rows
    BY <2>1
  <2>7. \A d \in DOMAIN rows[i].blocks : rows[i].blocks[d].kind \in ReplyKinds
    BY <2>1, <2>5, <2>6 DEF WholeTurns, LastText
  <2>8. ParentHistory(written)[k].chip = << TurnTools(written, i) >>
    BY <2>1, <2>5, <2>6, <2>7, MetricsInHistory DEF written
  <2>9. TurnTools(written, i) = TurnTools(rows, i)
    BY <2>1, <2>2, TurnToolsOfPrefix
  <2> QED
    BY <2>5, <2>8, <2>9 DEF written
<1> QED
  BY <1>1, LiveInvariant, PTL

\* When the observer (session-observer.ts) has read a transcript whose last
\* turn is over, by its end or by an interrupt (and the row that Claude may
\* write after it), the session is ready, and no call that was shown is left
\* running on the phone.
THEOREM TurnsEndOnThePhone == Spec => []TurnOverIsShown
<1>1. IInv /\ LiveOK => TurnOverIsShown
  <2> SUFFICES ASSUME IInv, LiveOK, up, obs.offset = size, TurnOver
               PROVE  obs.status = "ready" /\ openTools = {}
    BY DEF TurnOverIsShown
  <2> DEFINE i == size \div 2
             rows == script.rows
             first == obs.start
  <2>1. /\ rows \in Seq(TranscriptRow) /\ i \in 0 .. Len(rows) /\ WholeTurns(rows)
        /\ Len(Written) = i /\ DOMAIN Written = 1 .. i
        /\ \A j \in 1 .. i : j \in DOMAIN rows /\ Written[j] = rows[j]
    BY OnDisk, WrittenIs, TurnAssumption DEF IInv, FilesOK
  <2>2. Follows(rows, first, i, obs) /\ openTools \subseteq obs.pending
    BY DEF LiveOK, ObserverKnows
  <2>3. first \in Nat
    BY DEF IInv, ObserversOK, Observers, ObserverRecords
  <2> HIDE DEF i, rows, first
  <2>4. first < 2 * i - 1 /\ i \in 1 .. i /\ i > 0 /\ i \in DOMAIN rows
    BY <2>1 DEF TurnOver, Saw, first
  <2>5. \/ rows[i].end
        \/ Cuts(rows[i])
        \/ /\ i - 1 \in 1 .. i /\ first < 2 * (i - 1) - 1 /\ Cuts(rows[i - 1])
           /\ rows[i].type = "assistant"
    BY <2>1, <2>4 DEF TurnOver, Cut, Cuts, Saw, first
  <2>6. Settled(rows, first, i, obs) /\ openTools \subseteq Unanswered(rows, i)
    BY <2>2 DEF Follows
  <2>7. CASE rows[i].end
    <3>1. LastOfTurn(rows, i)
      BY <2>1, <2>4, <2>7 DEF WholeTurns, LastOfTurn
    <3>2. Unanswered(rows, i) = {}
      BY <2>1, <2>4, <3>1 DEF WholeTurns
    <3> QED
      BY <2>4, <2>6, <2>7, <3>2 DEF Settled
  <2>8. CASE Cuts(rows[i])
    <3>1. \A j \in 1 .. i : rows[j].type = "assistant" => i \in j + 1 .. i
      BY <2>1, <2>4, <2>8 DEF Cuts
    <3>2. \A c : Answers(rows[i], c)
      BY <2>8 DEF Cuts, Answers
    <3>3. Unanswered(rows, i) = {}
      BY <3>1, <3>2 DEF Unanswered
    <3> QED
      BY <2>4, <2>6, <2>8, <3>3 DEF Settled
  <2>9. CASE /\ i - 1 \in 1 .. i /\ first < 2 * (i - 1) - 1 /\ Cuts(rows[i - 1])
             /\ rows[i].type = "assistant"
    <3>1. i > 1 /\ first < 2 * i - 3
      <4>1. i \in Nat /\ 1 <= i - 1 /\ first < 2 * (i - 1) - 1
        <5>1. i \in Nat
          BY <2>1
        <5> QED
          BY <2>9, <5>1
      <4> QED
        BY <2>3, <4>1
    <3>2. LastOfTurn(rows, i)
      BY <2>9, <3>1 DEF LastOfTurn, Cuts
    <3>3. Unanswered(rows, i) = {}
      BY <2>1, <2>4, <3>2 DEF WholeTurns
    <3> QED
      BY <2>4, <2>6, <2>9, <3>1, <3>3 DEF Settled
  <2> QED
    BY <2>5, <2>7, <2>8, <2>9
<1> QED
  BY <1>1, LiveInvariant, PTL
===============================================================================
