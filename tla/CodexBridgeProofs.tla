--------------------------- MODULE CodexBridgeProofs ---------------------------
(***************************************************************************)
(* Theorems about CodexBridge, for any texts and bounds: its type          *)
(* invariant, TurnsAnnounced, StatusSettles and EchoesHidden.              *)
(***************************************************************************)
EXTENDS CodexBridge, FiniteSetTheorems, SequenceTheorems, TLAPS

PolledRow(p, view, row) == ProcessEntry(view, row)
Poll == INSTANCE SequenceFacts WITH Op <- PolledRow

(***************************************************************************)
(* The inductive invariant.  Its parts speak of a view v of the entry and  *)
(* of the rows s that are still to be read, so that a poll, which reads    *)
(* all rows in one step, can be followed row by row.                       *)
(***************************************************************************)
Counts == [Texts -> Nat]
Views ==
    [status : Statuses, stop : 0 .. MaxTurns, injected : Counts,
     phone : [status : Statuses, completions : [Turns -> Nat], messages : Counts],
     past : [noticed : SUBSET Turns, hushed : SUBSET Turns, lapsed : SUBSET Turns,
             strayed : SUBSET Texts, typed : Counts, early : BOOLEAN]]

Busy == codex \in {"prompted", "working", "stopping"}

CodexType ==
    /\ codex \in {"gone", "idle"} \/ (Busy /\ turn # 0)
    /\ hooked \in BOOLEAN /\ target \in BOOLEAN /\ tailing \in BOOLEAN
    /\ turn \in 0 .. MaxTurns
    /\ IF codex = "prompted" THEN prompt \in Prompts ELSE prompt = NoPrompt
    /\ rollout \in [exists : BOOLEAN, ended : BOOLEAN, unread : Seq(Rows)]
    /\ terminal \in Seq(Texts)
    /\ daemon \in {"down", "warming", "up"}
    /\ sends \in 0 .. MaxSends

\* Only a session with an entry and a rollout is tailed, and only for a
\* session that is tailed are there rows to read.
Tails ==
    /\ tailing => status # "none" /\ rollout.exists
    /\ rollout.unread # << >> => tailing
    /\ daemon = "down" => status = "none"

\* The rows to be read: a turn has one user row and one that completes it, and
\* they come in the order of turns, the latter when Codex is idle again.
RowsInOrder(s) ==
    /\ \A i \in 1 .. Len(s) :
        /\ s[i].kind # "header" /\ s[i].turn <= turn
        /\ s[i].kind = "user" => s[i].prompt \in Prompts /\ (codex = "prompted" => s[i].turn < turn)
        /\ s[i].kind = "completed" => s[i].turn # 0 /\ (Busy => s[i].turn < turn)
    /\ \A i, j \in 1 .. Len(s) :
        i < j /\ s[i].kind = s[j].kind /\ s[i].kind \in {"user", "completed"}
            => s[i].turn < s[j].turn

HookToCome(t) == t > turn \/ (t = turn /\ codex \in {"prompted", "working"})
RowToCome(t, s) ==
    \/ t > turn \/ (t = turn /\ Busy)
    \/ \E i \in 1 .. Len(s) : s[i].kind = "completed" /\ s[i].turn = t

\* A turn that its hook announced has a record until its row is read, or lost it.
Announced(v, s) ==
    /\ v.stop # 0 => v.stop \in v.past.noticed
    /\ \A t \in Turns :
        LET c == v.phone.completions[t] IN
        /\ HookToCome(t) => t \notin v.past.noticed
        /\ t \notin v.past.noticed => c = 0
        /\ t \in v.past.noticed => c > 0 \/ t \in v.past.hushed
        /\ RowToCome(t, s) => c <= 1 /\ (c = 1 => v.stop = t \/ t \in v.past.lapsed)
        /\ c <= 1 \/ (c = 2 /\ t \in v.past.lapsed)

\* No more messages were shown than turns had begun.
Shown(v, s) == \A t \in Texts :
    /\ v.injected[t] <= sends
    /\ v.phone.messages[t] <= turn
    /\ codex = "prompted" => v.phone.messages[t] < turn
    /\ \A i \in 1 .. Len(s) : s[i].kind = "user" => v.phone.messages[t] < s[i].turn

\* The texts on their way from the phone to the observer.
Hits(s, E) == { i \in 1 .. Len(s) : s[i] \in E }
Count(s, E) == Cardinality(Hits(s, E))
Sent(t) == [text |-> t, from |-> "phone"]
Echoes(t) == { r \in Rows : r.kind = "user" /\ r.prompt = Sent(t) }
InPrompt(t) == IF prompt = Sent(t) THEN 1 ELSE 0

\* Each of them is owed an echo that is hidden: by an injection that is still
\* counted, or by a typed message that was hidden in its place.
Owed(v, s) == \A t \in Texts \ v.past.strayed :
    /\ v.injected[t] + v.past.typed[t] =
           v.phone.messages[t] + Count(terminal, {t}) + InPrompt(t) + Count(s, Echoes(t))
    /\ v.phone.messages[t] <= v.past.typed[t]

\* The phone's status is the entry's, or early; an entry is RUNNING only while
\* a prompt waits, a turn goes on, or its end is to be read.
Settles(v, s) ==
    /\ v.phone.status = "running" =>
          v.past.early \/ (daemon = "up" /\ v.status = "running")
    /\ codex \in {"working", "stopping"} => ~rollout.ended
    /\ rollout.ended /\ s # << >> => s[Len(s)].kind \in LifecycleKinds
    /\ tailing /\ v.status = "running" /\ rollout.ended /\ s = << >> =>
          codex \in {"prompted", "gone"} /\ hooked

RowsInv(v, s) ==
    RowsInOrder(s) /\ Announced(v, s) /\ Shown(v, s) /\ Owed(v, s) /\ Settles(v, s)

IInv == CodexType /\ View \in Views /\ Tails /\ RowsInv(View, rollout.unread)

-----------------------------------------------------------------------------
(***************************************************************************)
(* Counting in sequences                                                   *)
(***************************************************************************)

LEMMA HitsFinite ==
  ASSUME NEW R, NEW s \in Seq(R), NEW E
  PROVE  IsFiniteSet(Hits(s, E)) /\ Count(s, E) \in Nat
<1>1. IsFiniteSet(1 .. Len(s))
  BY FS_Interval
<1>2. Hits(s, E) \in SUBSET (1 .. Len(s))
  BY DEF Hits
<1> QED
  BY <1>1, <1>2, FS_Subset, FS_CardinalityType DEF Count

LEMMA CountEmpty == \A E : Count(<< >>, E) = 0
<1> SUFFICES ASSUME NEW E PROVE Count(<< >>, E) = 0
  OBVIOUS
<1>1. Hits(<< >>, E) = {}
  BY DEF Hits
<1> QED
  BY <1>1, FS_EmptySet DEF Count

LEMMA CountAppend ==
  ASSUME NEW R, NEW s \in Seq(R), NEW e \in R, NEW E
  PROVE  Count(Append(s, e), E) = Count(s, E) + IF e \in E THEN 1 ELSE 0
<1> DEFINE n == Len(s)
<1>1. n \in Nat
  OBVIOUS
<1>2. n + 1 \notin Hits(s, E)
  BY DEF Hits
<1>3. /\ Len(Append(s, e)) = n + 1
      /\ \A i \in 1 .. n : Append(s, e)[i] = s[i]
      /\ Append(s, e)[n + 1] = e
  BY AppendProperties
<1> HIDE DEF n
<1>4. Hits(Append(s, e), E) = IF e \in E THEN Hits(s, E) \cup {n + 1} ELSE Hits(s, E)
  <2>1. ASSUME NEW i
        PROVE  i \in Hits(Append(s, e), E) <=> i \in Hits(s, E) \/ (i = n + 1 /\ e \in E)
    BY <1>1, <1>3 DEF Hits, n
  <2> QED
    BY <2>1
<1>5. IsFiniteSet(Hits(s, E)) /\ Count(s, E) \in Nat
  BY HitsFinite
<1>6. Cardinality(Hits(s, E) \cup {n + 1}) = Cardinality(Hits(s, E)) + 1
  BY <1>2, <1>5, FS_AddElement
<1> QED
  BY <1>4, <1>5, <1>6 DEF Count

LEMMA CountHead ==
  ASSUME NEW R, NEW s \in Seq(R), s # << >>, NEW E
  PROVE  Count(s, E) = Count(Tail(s), E) + IF Head(s) \in E THEN 1 ELSE 0
<1>1. /\ Tail(s) \in Seq(R) /\ Len(Tail(s)) = Len(s) - 1
      /\ \A i \in 1 .. Len(Tail(s)) : Tail(s)[i] = s[i + 1]
  BY HeadTailProperties
<1>2. Head(s) = s[1] /\ Len(s) \in Nat /\ Len(s) # 0
  BY EmptySeq
<1> DEFINE f == [ i \in Hits(Tail(s), E) |-> i + 1 ]
           Later == Hits(s, E) \ {1}
<1>3. f \in Bijection(Hits(Tail(s), E), Later)
  <2>1. \A i : i \in Hits(Tail(s), E) <=> i \in Int /\ i # 0 /\ i + 1 \in Hits(s, E)
    BY <1>1, <1>2 DEF Hits
  <2>2. Hits(Tail(s), E) \subseteq Int /\ Hits(s, E) \subseteq Int
    BY DEF Hits
  <2>3. f \in [ Hits(Tail(s), E) -> Later ]
    BY <2>1, <2>2
  <2>4. \A i, j \in Hits(Tail(s), E) : f[i] = f[j] => i = j
    BY <2>2
  <2>5. ASSUME NEW j \in Later PROVE \E i \in Hits(Tail(s), E) : f[i] = j
    <3>1. j - 1 \in Int /\ (j - 1) + 1 = j /\ j - 1 # 0
      BY <2>2
    <3>2. j - 1 \in Hits(Tail(s), E)
      BY <2>1, <3>1
    <3> QED
      BY <3>1, <3>2
  <2> QED
    BY <2>3, <2>4, <2>5 DEF Bijection, Injection, Surjection, IsInjective
<1>4. Count(Tail(s), E) = Cardinality(Later)
  <2>1. IsFiniteSet(Hits(Tail(s), E))
    BY <1>1, HitsFinite
  <2>2. ExistsBijection(Hits(Tail(s), E), Later)
    BY <1>3 DEF ExistsBijection
  <2> HIDE DEF Later
  <2> QED
    BY <2>1, <2>2, FS_Bijection DEF Count
<1>5. Cardinality(Later) = IF 1 \in Hits(s, E) THEN Count(s, E) - 1 ELSE Count(s, E)
  BY HitsFinite, FS_RemoveElement DEF Count
<1>6. 1 \in Hits(s, E) <=> Head(s) \in E
  BY <1>2 DEF Hits
<1> QED
  BY <1>4, <1>5, <1>6, HitsFinite

-----------------------------------------------------------------------------
(***************************************************************************)
(* What the handlers change of a view.  Announced speaks of a view's       *)
(* record, Shown and Owed of its messages, Settles of the rest.            *)
(***************************************************************************)
RecordOf(v) == << v.stop, v.phone.completions, v.past.noticed, v.past.hushed, v.past.lapsed >>
MessagesOf(v) == << v.injected, v.phone.messages, v.past.typed, v.past.strayed >>

LEMMA StatusChangeView ==
  ASSUME NEW v \in Views, NEW st \in Statuses
  PROVE  LET w == StatusChange(v, st) IN
         /\ w \in Views /\ w.status = st
         /\ RecordOf(w) = RecordOf(v) /\ MessagesOf(w) = MessagesOf(v)
         /\ IF v.status # st /\ Done THEN w.phone.status = st
            ELSE w.phone.status = v.phone.status /\ w.past.early = v.past.early
BY DEF StatusChange, Told, Views, RecordOf, MessagesOf

LEMMA FailedView ==
  ASSUME NEW v \in Views
  PROVE  LET w == Failed(v) IN
         /\ w \in Views /\ w.status = "error"
         /\ RecordOf(w) = RecordOf(v) /\ MessagesOf(w) = MessagesOf(v)
         /\ IF Done THEN w.phone.status = "error"
            ELSE w.phone.status = v.phone.status /\ w.past.early = v.past.early
BY DEF Failed, Told, Views, RecordOf, MessagesOf, Statuses

LEMMA CompletionView ==
  ASSUME NEW v \in Views, NEW t \in Turns
  PROVE  LET w == SendCodexCompletion(v, t) IN
         /\ w \in Views /\ w.status = v.status
         /\ MessagesOf(w) = MessagesOf(v)
         /\ w.stop = v.stop /\ w.past.noticed = v.past.noticed
         /\ w.past.lapsed = v.past.lapsed
         /\ IF Done
            THEN /\ w.phone.completions = [v.phone.completions EXCEPT ![t] = @ + 1]
                 /\ w.past.hushed = v.past.hushed
                 /\ w.phone.status = "ready"
            ELSE /\ w.phone.completions = v.phone.completions
                 /\ w.past.hushed = v.past.hushed \cup {t}
                 /\ w.phone.status = v.phone.status /\ w.past.early = v.past.early
<1>1. [v.phone.completions EXCEPT ![t] = @ + 1] \in [Turns -> Nat]
  BY DEF Views
<1>2. v.past.hushed \cup {t} \in SUBSET Turns
  BY DEF Views
<1>3. CASE Done
  BY <1>1, <1>3 DEF SendCodexCompletion, Views, MessagesOf, Statuses
<1>4. CASE ~Done
  BY <1>2, <1>4 DEF SendCodexCompletion, Views, MessagesOf
<1> QED
  BY <1>3, <1>4

LEMMA ConsumeView ==
  ASSUME NEW v \in Views, NEW t \in Turns, v.stop # 0
  PROVE  LET w == Consume(v, t) IN
         /\ w \in Views /\ w.status = v.status
         /\ MessagesOf(w) = MessagesOf(v)
         /\ w.stop = 0 /\ w.past.noticed = v.past.noticed
         /\ w.phone = v.phone /\ w.past.early = v.past.early
         /\ IF v.stop = t THEN w.past.hushed = v.past.hushed /\ w.past.lapsed = v.past.lapsed
            ELSE /\ w.past.hushed = v.past.hushed \cup {t}
                 /\ w.past.lapsed = v.past.lapsed \cup {v.stop}
<1>1. 0 \in 0 .. MaxTurns
  BY CodexAssumption
<1>2. v.past.hushed \cup {t} \in SUBSET Turns /\ v.past.lapsed \cup {v.stop} \in SUBSET Turns
  BY DEF Views, Turns
<1>3. CASE v.stop = t
  BY <1>1, <1>3 DEF Consume, Views, MessagesOf
<1>4. CASE v.stop # t
  BY <1>1, <1>2, <1>4 DEF Consume, Views, MessagesOf
<1> QED
  BY <1>3, <1>4

LEMMA UserMessageView ==
  ASSUME NEW v \in Views, NEW p \in Prompts
  PROVE  LET w == UserMessage(v, p) IN
         /\ w \in Views /\ w.status = v.status /\ w.phone.status = v.phone.status
         /\ w.past.early = v.past.early /\ w.past.strayed = v.past.strayed
         /\ RecordOf(w) = RecordOf(v)
         /\ w.past.typed = [v.past.typed EXCEPT ![p.text] =
                                @ + (IF p.from = "terminal" THEN 1 ELSE 0)]
         /\ IF v.injected[p.text] > 0
            THEN /\ w.injected = [v.injected EXCEPT ![p.text] = @ - 1]
                 /\ w.phone.messages = v.phone.messages
            ELSE /\ w.injected = v.injected
                 /\ w.phone.messages = [v.phone.messages EXCEPT ![p.text] = @ + 1]
<1> DEFINE typed == [v.past.typed EXCEPT ![p.text] = @ + (IF p.from = "terminal" THEN 1 ELSE 0)]
           fewer == [v.injected EXCEPT ![p.text] = @ - 1]
           more == [v.phone.messages EXCEPT ![p.text] = @ + 1]
           read == [v EXCEPT !.past.typed = typed]
<1>1. p.text \in Texts
  BY DEF Prompts
<1>2. typed \in Counts /\ more \in Counts
  BY <1>1 DEF Counts, Views
<1>3. v.injected[p.text] > 0 => fewer \in Counts
  BY <1>1 DEF Counts, Views
<1>4. UserMessage(v, p) = IF v.injected[p.text] > 0 THEN [read EXCEPT !.injected = fewer]
                          ELSE [read EXCEPT !.phone.messages = more]
  BY DEF UserMessage, Views
<1> HIDE DEF typed, fewer, more
<1>5. /\ read \in Views /\ read.past.typed = typed
      /\ read.injected = v.injected /\ read.status = v.status /\ read.phone = v.phone
      /\ read.past.early = v.past.early /\ read.past.strayed = v.past.strayed
  BY <1>2 DEF Views
<1>6. RecordOf(read) = RecordOf(v)
  BY DEF Views, RecordOf
<1> HIDE DEF read
<1> DEFINE w == UserMessage(v, p)
<1>7. CASE v.injected[p.text] > 0
  <2>1. w = [read EXCEPT !.injected = fewer]
    BY <1>4, <1>7
  <2> HIDE DEF w
  <2>2. w \in Views /\ w.injected = fewer /\ w.phone = read.phone
    BY <1>3, <1>5, <1>7, <2>1 DEF Views
  <2>3. w.status = read.status /\ w.past = read.past /\ RecordOf(w) = RecordOf(read)
    BY <1>5, <2>1 DEF Views, RecordOf
  <2> QED
    BY <1>5, <1>6, <1>7, <2>2, <2>3 DEF typed, fewer, w
<1>8. CASE ~(v.injected[p.text] > 0)
  <2>1. w = [read EXCEPT !.phone.messages = more]
    BY <1>4, <1>8
  <2> HIDE DEF w
  <2>2. w \in Views /\ w.injected = read.injected /\ w.phone.messages = more
    BY <1>2, <1>5, <2>1 DEF Views
  <2>3. /\ w.status = read.status /\ w.phone.status = read.phone.status
        /\ w.past = read.past /\ RecordOf(w) = RecordOf(read)
    BY <1>5, <2>1 DEF Views, RecordOf
  <2> QED
    BY <1>5, <1>6, <1>8, <2>2, <2>3 DEF typed, more, w
<1> QED
  BY <1>7, <1>8

-----------------------------------------------------------------------------
(***************************************************************************)
(* What is left of the invariant when the first row has been read.         *)
(***************************************************************************)

LEMMA FirstRow ==
  ASSUME NEW s \in Seq(Rows), s # << >>
  PROVE  /\ Head(s) \in Rows /\ Tail(s) \in Seq(Rows)
         /\ Len(s) \in Nat \ {0} /\ Len(Tail(s)) = Len(s) - 1 /\ Head(s) = s[1]
         /\ \A i \in 1 .. Len(Tail(s)) :
                i + 1 \in 1 .. Len(s) /\ Tail(s)[i] = s[i + 1] /\ Tail(s)[i] \in Rows
<1>1. /\ Head(s) \in Rows /\ Tail(s) \in Seq(Rows) /\ Len(Tail(s)) = Len(s) - 1
      /\ \A i \in 1 .. Len(Tail(s)) : Tail(s)[i] = s[i + 1]
  BY HeadTailProperties
<1>2. Len(s) \in Nat \ {0} /\ Head(s) = s[1]
  BY EmptySeq
<1> QED
  BY <1>1, <1>2

LEMMA OrderTail ==
  ASSUME NEW s \in Seq(Rows), s # << >>, RowsInOrder(s)
  PROVE  /\ RowsInOrder(Tail(s))
         /\ Head(s).kind # "header" /\ Head(s).turn <= turn
         /\ Head(s).kind = "user" => Head(s).prompt \in Prompts /\ (codex = "prompted" => Head(s).turn < turn)
         /\ Head(s).kind = "completed" => Head(s).turn # 0 /\ (Busy => Head(s).turn < turn)
         /\ \A i \in 1 .. Len(Tail(s)) :
                Tail(s)[i].kind = Head(s).kind /\ Head(s).kind \in {"user", "completed"}
                    => Head(s).turn < Tail(s)[i].turn
<1>1. 1 \in 1 .. Len(s) /\ Head(s) = s[1]
  BY FirstRow
<1>2. \A i \in 1 .. Len(Tail(s)) : i + 1 \in 1 .. Len(s) /\ Tail(s)[i] = s[i + 1] /\ 1 < i + 1
  BY FirstRow
<1>3. \A i, j \in 1 .. Len(Tail(s)) : i < j => i + 1 < j + 1
  OBVIOUS
<1>4. RowsInOrder(Tail(s))
  BY <1>2, <1>3 DEF RowsInOrder
<1> QED
  BY <1>1, <1>2, <1>4 DEF RowsInOrder

LEMMA AnnouncedTail ==
  ASSUME NEW v \in Views, NEW w \in Views, NEW s \in Seq(Rows), s # << >>,
         Announced(v, s), RecordOf(w) = RecordOf(v)
  PROVE  Announced(w, Tail(s))
<1>1. \A t : RowToCome(t, Tail(s)) => RowToCome(t, s)
  BY FirstRow DEF RowToCome
<1>2. /\ w.stop = v.stop /\ w.phone.completions = v.phone.completions
      /\ w.past.noticed = v.past.noticed /\ w.past.hushed = v.past.hushed
      /\ w.past.lapsed = v.past.lapsed
  BY DEF RecordOf
<1> QED
  BY <1>1, <1>2 DEF Announced

LEMMA ShownTail ==
  ASSUME NEW v \in Views, NEW w \in Views, NEW s \in Seq(Rows), s # << >>,
         Shown(v, s), MessagesOf(w) = MessagesOf(v)
  PROVE  Shown(w, Tail(s))
<1>1. w.injected = v.injected /\ w.phone.messages = v.phone.messages
  BY DEF MessagesOf
<1>2. \A i \in 1 .. Len(Tail(s)) : i + 1 \in 1 .. Len(s) /\ Tail(s)[i] = s[i + 1]
  BY FirstRow
<1> QED
  BY <1>1, <1>2 DEF Shown

LEMMA OwedTail ==
  ASSUME NEW v \in Views, NEW w \in Views, NEW s \in Seq(Rows), s # << >>,
         Owed(v, s), MessagesOf(w) = MessagesOf(v), Head(s).kind # "user"
  PROVE  Owed(w, Tail(s))
<1>1. /\ w.injected = v.injected /\ w.phone.messages = v.phone.messages
      /\ w.past.typed = v.past.typed /\ w.past.strayed = v.past.strayed
  BY DEF MessagesOf
<1>2. ASSUME NEW t PROVE Count(s, Echoes(t)) = Count(Tail(s), Echoes(t))
  <2>1. Count(s, Echoes(t)) = Count(Tail(s), Echoes(t)) + IF Head(s) \in Echoes(t) THEN 1 ELSE 0
    BY CountHead
  <2>2. Head(s) \notin Echoes(t)
    BY DEF Echoes
  <2>3. Count(Tail(s), Echoes(t)) \in Nat
    BY FirstRow, HitsFinite
  <2> QED
    BY <2>1, <2>2, <2>3
<1> QED
  BY <1>1, <1>2 DEF Owed

\* The row that ends a turn is not followed by a status that says otherwise.
LEMMA SettlesTail ==
  ASSUME NEW v \in Views, NEW w \in Views, NEW s \in Seq(Rows), s # << >>, Settles(v, s),
         Head(s).kind \in LifecycleKinds => w.status # "running",
         w.phone.status = "running" => w.past.early \/ (Done /\ w.status = "running")
  PROVE  Settles(w, Tail(s))
<1>1. Tail(s) # << >> => Tail(s)[Len(Tail(s))] = s[Len(s)]
  <2>1. Tail(s) # << >> => Len(Tail(s)) \in 1 .. Len(Tail(s))
    BY FirstRow, EmptySeq
  <2>2. (Len(s) - 1) + 1 = Len(s)
    BY FirstRow
  <2> QED
    BY <2>1, <2>2, FirstRow
<1>2. Tail(s) = << >> => Head(s) = s[Len(s)]
  <2>1. Tail(s) = << >> => Len(s) - 1 = 0
    BY FirstRow, EmptySeq
  <2> QED
    BY <2>1, FirstRow
<1> QED
  BY <1>1, <1>2 DEF Settles, Done

-----------------------------------------------------------------------------
(***************************************************************************)
(* Reading a row.                                                          *)
(***************************************************************************)
ViewInv(v, s) == v \in Views /\ v.status # "none" /\ RowsInv(v, s)

\* StatusChange keeps what the phone is shown and is owed, and the phone's
\* status true.
LEMMA StatusChangeInv ==
  ASSUME NEW v \in Views, NEW st \in Statuses, NEW s, Settles(v, s)
  PROVE  LET w == StatusChange(v, st) IN
         w.phone.status = "running" => w.past.early \/ (Done /\ w.status = "running")
BY StatusChangeView DEF Settles, Done

LEMMA CompletedView ==
  ASSUME NEW v \in Views, NEW t \in Turns
  PROVE  LET w == Completed(v, t) IN
         /\ w \in Views /\ w.status = "ready" /\ MessagesOf(w) = MessagesOf(v)
         /\ IF Done /\ v.stop = 0 THEN w.phone.status = "ready"
            ELSE w.phone.status = v.phone.status /\ w.past.early = v.past.early
         /\ w.past.noticed = v.past.noticed \cup {t}
         /\ IF Done /\ v.stop # 0
            THEN w.stop = 0 /\ w.phone.completions = v.phone.completions
            ELSE w.stop = v.stop
         /\ IF Done /\ v.stop # 0 /\ v.stop # t
            THEN w.past.lapsed = v.past.lapsed \cup {v.stop}
            ELSE w.past.lapsed = v.past.lapsed
         /\ IF Done /\ v.stop \in {0, t} THEN w.past.hushed = v.past.hushed
            ELSE w.past.hushed = v.past.hushed \cup {t}
         /\ IF Done /\ v.stop = 0
            THEN w.phone.completions = [v.phone.completions EXCEPT ![t] = @ + 1]
            ELSE w.phone.completions = v.phone.completions
<1> DEFINE noticed == v.past.noticed \cup {t}
           ready == [v EXCEPT !.status = "ready", !.past.noticed = noticed]
<1>1. /\ ready \in Views /\ ready.status = "ready" /\ ready.past.noticed = noticed
      /\ ready.stop = v.stop /\ ready.phone = v.phone /\ MessagesOf(ready) = MessagesOf(v)
      /\ ready.past.hushed = v.past.hushed /\ ready.past.lapsed = v.past.lapsed
      /\ ready.past.early = v.past.early
  <2>1. noticed \in SUBSET Turns /\ "ready" \in Statuses
    BY DEF Views, Statuses
  <2> HIDE DEF noticed
  <2> QED
    BY <2>1 DEF Views, MessagesOf
<1>2. Completed(v, t) = IF Done /\ v.stop # 0 THEN Consume(ready, t)
                        ELSE SendCodexCompletion(ready, t)
  BY DEF Completed
<1> HIDE DEF ready
<1>3. CASE Done /\ v.stop # 0
  <2>1. Completed(v, t) = Consume(ready, t)
    BY <1>2, <1>3
  <2> QED
    BY <1>1, <1>3, <2>1, ConsumeView
<1>4. CASE ~(Done /\ v.stop # 0)
  <2>1. Completed(v, t) = SendCodexCompletion(ready, t)
    BY <1>2, <1>4
  <2> DEFINE w == Completed(v, t)
  <2>2. /\ w \in Views /\ w.status = ready.status
        /\ MessagesOf(w) = MessagesOf(ready)
        /\ w.stop = ready.stop /\ w.past.noticed = ready.past.noticed
        /\ w.past.lapsed = ready.past.lapsed
        /\ IF Done
           THEN /\ w.phone.completions = [ready.phone.completions EXCEPT ![t] = @ + 1]
                /\ w.past.hushed = ready.past.hushed
                /\ w.phone.status = "ready"
           ELSE /\ w.phone.completions = ready.phone.completions
                /\ w.past.hushed = ready.past.hushed \cup {t}
                /\ w.phone.status = ready.phone.status /\ w.past.early = ready.past.early
    <3> DEFINE u == SendCodexCompletion(ready, t)
    <3>1. /\ u \in Views /\ u.status = ready.status
          /\ MessagesOf(u) = MessagesOf(ready)
          /\ u.stop = ready.stop /\ u.past.noticed = ready.past.noticed
          /\ u.past.lapsed = ready.past.lapsed
          /\ IF Done
             THEN /\ u.phone.completions = [ready.phone.completions EXCEPT ![t] = @ + 1]
                  /\ u.past.hushed = ready.past.hushed
                  /\ u.phone.status = "ready"
             ELSE /\ u.phone.completions = ready.phone.completions
                  /\ u.past.hushed = ready.past.hushed \cup {t}
                  /\ u.phone.status = ready.phone.status /\ u.past.early = ready.past.early
      BY <1>1, CompletionView
    <3>2. w = u
      BY <2>1
    <3> HIDE DEF u, w
    <3> QED
      BY <3>1, <3>2
  <2> HIDE DEF w
  <2>3. CASE Done
    <3>1. v.stop = 0
      BY <1>4, <2>3
    <3>2. w.phone.completions = [v.phone.completions EXCEPT ![t] = @ + 1]
      BY <1>1, <2>2, <2>3
    <3> QED
      BY <1>1, <2>2, <2>3, <3>1, <3>2 DEF w
  <2>4. CASE ~Done
    <3>1. w.phone.completions = v.phone.completions
      BY <1>1, <2>2, <2>4
    <3> QED
      BY <1>1, <2>2, <2>4, <3>1 DEF w
  <2> QED
    BY <2>3, <2>4
<1> QED
  BY <1>3, <1>4

LEMMA CompletedRead ==
  ASSUME NEW v \in Views, NEW s \in Seq(Rows), s # << >>, CodexType,
         RowsInv(v, s), Head(s).kind = "completed"
  PROVE  ViewInv(Completed(StatusChange(v, "ready"), Head(s).turn), Tail(s))
<1> DEFINE t == Head(s).turn
           u == StatusChange(v, "ready")
           w == Completed(u, t)
<1>1. /\ t \in Turns /\ t <= turn /\ (Busy => t < turn)
      /\ \A i \in 1 .. Len(Tail(s)) : Tail(s)[i].kind = "completed" => t < Tail(s)[i].turn
  <2>1. Head(s).turn \in 0 .. MaxTurns
    BY FirstRow DEF Rows
  <2> QED
    BY <2>1, OrderTail DEF RowsInv, Turns
<1>2. /\ u \in Views /\ RecordOf(u) = RecordOf(v) /\ MessagesOf(u) = MessagesOf(v)
      /\ u.phone.status = "running" => u.past.early \/ (Done /\ u.status = "running")
      /\ u.status = "ready"
  BY StatusChangeView, StatusChangeInv DEF RowsInv, Statuses
<1>3. /\ u.stop = v.stop /\ u.phone.completions = v.phone.completions
      /\ u.past.noticed = v.past.noticed /\ u.past.hushed = v.past.hushed
      /\ u.past.lapsed = v.past.lapsed
  BY <1>2 DEF RecordOf
<1> HIDE DEF t, u
<1>4. /\ w \in Views /\ w.status = "ready" /\ MessagesOf(w) = MessagesOf(v)
      /\ w.phone.status = "running" => w.past.early
  BY <1>1, <1>2, CompletedView
<1>5. Announced(w, Tail(s))
  <2>1. Announced(v, s)
    BY DEF RowsInv
  <2>2. Announced(v, Tail(s))
    BY <2>1, AnnouncedTail
  <2>3. RowToCome(t, s) /\ ~RowToCome(t, Tail(s)) /\ ~HookToCome(t)
    <3>1. 1 \in 1 .. Len(s) /\ s[1] = Head(s)
      BY FirstRow
    <3>2. RowToCome(t, s)
      BY <3>1 DEF RowToCome, t
    <3>3. turn \in Nat /\ t \in Nat
      BY <1>1 DEF CodexType, Turns
    <3>4. \A i \in 1 .. Len(Tail(s)) : ~(Tail(s)[i].kind = "completed" /\ Tail(s)[i].turn = t)
      BY <1>1, <3>3
    <3> QED
      BY <1>1, <3>2, <3>3, <3>4 DEF RowToCome, HookToCome, Busy
  <2>4. /\ w.past.noticed = v.past.noticed \cup {t}
        /\ v.past.lapsed \subseteq w.past.lapsed
        /\ v.past.hushed \subseteq w.past.hushed
        /\ w.stop = IF Done THEN 0 ELSE v.stop
        /\ Done /\ v.stop \notin {0, t} => v.stop \in w.past.lapsed
        /\ IF Done /\ v.stop = 0
           THEN w.phone.completions = [v.phone.completions EXCEPT ![t] = @ + 1]
           ELSE /\ w.phone.completions = v.phone.completions
                /\ (Done /\ v.stop = t) \/ t \in w.past.hushed
    <3>1. t \in Turns /\ u \in Views /\ t # 0
      BY <1>1, <1>2 DEF Turns
    <3>2. /\ w.past.noticed = u.past.noticed \cup {t}
          /\ IF Done /\ u.stop # 0
             THEN w.stop = 0 /\ w.phone.completions = u.phone.completions
             ELSE w.stop = u.stop
          /\ IF Done /\ u.stop # 0 /\ u.stop # t
             THEN w.past.lapsed = u.past.lapsed \cup {u.stop}
             ELSE w.past.lapsed = u.past.lapsed
          /\ IF Done /\ u.stop \in {0, t} THEN w.past.hushed = u.past.hushed
             ELSE w.past.hushed = u.past.hushed \cup {t}
          /\ IF Done /\ u.stop = 0
             THEN w.phone.completions = [u.phone.completions EXCEPT ![t] = @ + 1]
             ELSE w.phone.completions = u.phone.completions
      BY <3>1, CompletedView
    <3> HIDE DEF w
    <3> QED
      BY <1>3, <3>1, <3>2
  <2> HIDE DEF w
  <2>5. w.stop # 0 => w.stop \in w.past.noticed
    BY <2>1, <2>4 DEF Announced
  <2>6. ASSUME NEW x \in Turns, x # t
        PROVE  LET c == w.phone.completions[x] IN
        /\ HookToCome(x) => x \notin w.past.noticed
        /\ x \notin w.past.noticed => c = 0
        /\ x \in w.past.noticed => c > 0 \/ x \in w.past.hushed
        /\ RowToCome(x, Tail(s)) => c <= 1 /\ (c = 1 => w.stop = x \/ x \in w.past.lapsed)
        /\ c <= 1 \/ (c = 2 /\ x \in w.past.lapsed)
    <3>1. w.phone.completions[x] = v.phone.completions[x]
      BY <2>4, <2>6 DEF Views
    <3>2. x \in w.past.noticed <=> x \in v.past.noticed
      BY <2>4, <2>6
    <3>3. x # 0 /\ (v.stop = x => w.stop = x \/ x \in w.past.lapsed)
      BY <2>4, <2>6 DEF Turns
    <3> QED
      BY <2>2, <2>4, <3>1, <3>2, <3>3 DEF Announced
  <2>7. LET c == w.phone.completions[t] IN
        /\ c > 0 \/ t \in w.past.hushed
        /\ c <= 1 \/ (c = 2 /\ t \in w.past.lapsed)
    <3>1. v.phone.completions[t] \in Nat
      BY <1>1 DEF Views
    <3>2. LET c == v.phone.completions[t] IN
          /\ c <= 1 /\ (c = 1 => v.stop = t \/ t \in v.past.lapsed)
          /\ t \in v.past.noticed => c > 0 \/ t \in v.past.hushed
          /\ v.stop = t => t \in v.past.noticed
      BY <1>1, <2>1, <2>3 DEF Announced, Turns
    <3>3. CASE Done /\ v.stop = 0
      <4>1. w.phone.completions[t] = v.phone.completions[t] + 1
        BY <1>1, <2>4, <3>3 DEF Views
      <4> QED
        BY <1>1, <2>4, <3>1, <3>2, <3>3, <4>1 DEF Turns
    <3>4. CASE ~(Done /\ v.stop = 0)
      BY <2>4, <3>2, <3>4
    <3> QED
      BY <3>3, <3>4
  <2> QED
    BY <2>3, <2>4, <2>5, <2>6, <2>7 DEF Announced
<1>6. RowsInOrder(Tail(s)) /\ Shown(w, Tail(s)) /\ Owed(w, Tail(s)) /\ Settles(w, Tail(s))
  BY <1>4, OrderTail, ShownTail, OwedTail, SettlesTail DEF RowsInv
<1> QED
  BY <1>4, <1>5, <1>6 DEF ViewInv, RowsInv, t, u

LEMMA UserRead ==
  ASSUME NEW v \in Views, NEW s \in Seq(Rows), s # << >>, CodexType,
         RowsInv(v, s), Head(s).kind = "user"
  PROVE  ViewInv(UserMessage(StatusChange(v, "running"), Head(s).prompt), Tail(s))
<1> DEFINE p == Head(s).prompt
           u == StatusChange(v, "running")
           w == UserMessage(u, p)
<1>1. /\ p \in Prompts /\ Head(s).turn <= turn /\ Head(s).turn \in Nat
      /\ codex = "prompted" => Head(s).turn < turn
      /\ \A i \in 1 .. Len(Tail(s)) : Tail(s)[i].kind = "user" => Head(s).turn < Tail(s)[i].turn
  <2>1. Head(s).turn \in 0 .. MaxTurns
    BY FirstRow DEF Rows
  <2> QED
    BY <2>1, OrderTail DEF RowsInv
<1>2. /\ u \in Views /\ RecordOf(u) = RecordOf(v) /\ MessagesOf(u) = MessagesOf(v)
      /\ u.phone.status = "running" => u.past.early \/ (Done /\ u.status = "running")
      /\ u.status = "running"
  BY StatusChangeView, StatusChangeInv DEF RowsInv, Statuses
<1>3. /\ u.injected = v.injected /\ u.phone.messages = v.phone.messages
      /\ u.past.typed = v.past.typed /\ u.past.strayed = v.past.strayed
  BY <1>2 DEF MessagesOf
<1> HIDE DEF p, u
<1>4. /\ w \in Views /\ w.status = "running" /\ w.past.strayed = v.past.strayed
      /\ RecordOf(w) = RecordOf(v)
      /\ w.phone.status = "running" => w.past.early \/ (Done /\ w.status = "running")
      /\ w.past.typed = [v.past.typed EXCEPT ![p.text] =
                             @ + (IF p.from = "terminal" THEN 1 ELSE 0)]
      /\ IF v.injected[p.text] > 0
         THEN /\ w.injected = [v.injected EXCEPT ![p.text] = @ - 1]
              /\ w.phone.messages = v.phone.messages
         ELSE /\ w.injected = v.injected
              /\ w.phone.messages = [v.phone.messages EXCEPT ![p.text] = @ + 1]
  <2>1. /\ w \in Views /\ w.status = u.status /\ w.phone.status = u.phone.status
        /\ w.past.early = u.past.early /\ w.past.strayed = u.past.strayed
        /\ RecordOf(w) = RecordOf(u)
        /\ w.past.typed = [u.past.typed EXCEPT ![p.text] =
                               @ + (IF p.from = "terminal" THEN 1 ELSE 0)]
        /\ IF u.injected[p.text] > 0
           THEN /\ w.injected = [u.injected EXCEPT ![p.text] = @ - 1]
                /\ w.phone.messages = u.phone.messages
           ELSE /\ w.injected = u.injected
                /\ w.phone.messages = [u.phone.messages EXCEPT ![p.text] = @ + 1]
    BY <1>1, <1>2, UserMessageView
  <2> HIDE DEF w
  <2> QED
    BY <1>2, <1>3, <2>1
<1> HIDE DEF w
<1>5. ASSUME NEW t \in Texts
      PROVE  /\ v.injected[t] \in Nat /\ v.phone.messages[t] \in Nat /\ v.past.typed[t] \in Nat
             /\ t # p.text => /\ w.injected[t] = v.injected[t]
                              /\ w.phone.messages[t] = v.phone.messages[t]
                              /\ w.past.typed[t] = v.past.typed[t]
             /\ t = p.text =>
                   /\ w.past.typed[t] = v.past.typed[t] + (IF p.from = "terminal" THEN 1 ELSE 0)
                   /\ IF v.injected[t] > 0
                      THEN w.injected[t] = v.injected[t] - 1 /\ w.phone.messages[t] = v.phone.messages[t]
                      ELSE w.injected[t] = v.injected[t] /\ w.phone.messages[t] = v.phone.messages[t] + 1
  <2>1. /\ v.injected \in [Texts -> Nat] /\ v.phone.messages \in [Texts -> Nat]
        /\ v.past.typed \in [Texts -> Nat]
    BY DEF Views, Counts
  <2>2. CASE v.injected[p.text] > 0
    BY <1>4, <2>1, <2>2
  <2>3. CASE ~(v.injected[p.text] > 0)
    BY <1>4, <2>1, <2>3
  <2> QED
    BY <2>2, <2>3
<1>6. RowsInOrder(Tail(s)) /\ Announced(w, Tail(s)) /\ Settles(w, Tail(s))
  <2>1. Head(s).kind \notin LifecycleKinds
    BY DEF LifecycleKinds
  <2> QED
    BY <1>4, <2>1, OrderTail, AnnouncedTail, SettlesTail DEF RowsInv
<1>7. Shown(w, Tail(s))
  <2>1. 1 \in 1 .. Len(s) /\ Head(s) = s[1] /\ turn \in Nat /\ sends \in Nat
    BY FirstRow DEF CodexType
  <2>2. \A i \in 1 .. Len(Tail(s)) : i + 1 \in 1 .. Len(s) /\ Tail(s)[i] = s[i + 1]
    BY FirstRow
  <2>3. ASSUME NEW t \in Texts
        PROVE  /\ v.injected[t] <= sends /\ v.phone.messages[t] <= turn
               /\ codex = "prompted" => v.phone.messages[t] < turn
               /\ v.phone.messages[t] < Head(s).turn
               /\ \A i \in 1 .. Len(Tail(s)) :
                      Tail(s)[i].kind = "user" => v.phone.messages[t] < Tail(s)[i].turn
    <3>1. Shown(v, s)
      BY DEF RowsInv
    <3>2. \A i \in 1 .. Len(s) : s[i].kind = "user" => v.phone.messages[t] < s[i].turn
      BY <3>1 DEF Shown
    <3>3. v.phone.messages[t] < Head(s).turn
      BY <2>1, <3>2
    <3>4. \A i \in 1 .. Len(Tail(s)) :
              Tail(s)[i].kind = "user" => v.phone.messages[t] < Tail(s)[i].turn
      BY <2>2, <3>2
    <3>5. /\ v.injected[t] <= sends /\ v.phone.messages[t] <= turn
          /\ codex = "prompted" => v.phone.messages[t] < turn
      BY <3>1 DEF Shown
    <3> QED
      BY <3>3, <3>4, <3>5
  <2>4. ASSUME NEW i \in 1 .. Len(Tail(s)) PROVE Tail(s)[i].turn \in Nat
    <3>1. Tail(s)[i] \in Rows
      BY FirstRow
    <3> QED
      BY <3>1 DEF Rows
  <2>5. ASSUME NEW t \in Texts
        PROVE  /\ w.injected[t] <= sends /\ w.phone.messages[t] <= turn
               /\ codex = "prompted" => w.phone.messages[t] < turn
               /\ \A i \in 1 .. Len(Tail(s)) :
                      Tail(s)[i].kind = "user" => w.phone.messages[t] < Tail(s)[i].turn
    <3>1. w.injected[t] <= sends
      BY <1>5, <2>1, <2>3
    <3>2. w.phone.messages[t] \in {v.phone.messages[t], v.phone.messages[t] + 1}
      BY <1>5
    <3>3. w.phone.messages[t] \in Nat /\ w.phone.messages[t] <= Head(s).turn
      <4>1. v.phone.messages[t] \in Nat /\ v.phone.messages[t] < Head(s).turn
        BY <1>5, <2>3
      <4> QED
        BY <1>1, <3>2, <4>1
    <3>4. codex = "prompted" => w.phone.messages[t] < turn
      BY <1>1, <2>1, <3>2, <3>3
    <3>5. w.phone.messages[t] <= turn
      BY <1>1, <2>1, <3>2, <3>3
    <3>6. ASSUME NEW i \in 1 .. Len(Tail(s)), Tail(s)[i].kind = "user"
          PROVE  w.phone.messages[t] < Tail(s)[i].turn
      BY <1>1, <2>4, <3>2, <3>3, <3>6
    <3> QED
      BY <3>1, <3>4, <3>5, <3>6
  <2> QED
    BY <2>5 DEF Shown
<1>8. Owed(w, Tail(s))
  <2> SUFFICES ASSUME NEW t \in Texts \ w.past.strayed
               PROVE  /\ w.injected[t] + w.past.typed[t] =
                             w.phone.messages[t] + Count(terminal, {t}) + InPrompt(t)
                                 + Count(Tail(s), Echoes(t))
                      /\ w.phone.messages[t] <= w.past.typed[t]
    BY DEF Owed
  <2> DEFINE k == Count(terminal, {t})
             m == InPrompt(t)
             n == Count(Tail(s), Echoes(t))
  <2>1. k \in Nat /\ m \in Nat /\ n \in Nat
    BY FirstRow, HitsFinite DEF CodexType, InPrompt
  <2>2. Head(s) \in Echoes(t) <=> p = Sent(t)
    BY FirstRow DEF Echoes, p
  <2>3. Count(s, Echoes(t)) = n + IF p = Sent(t) THEN 1 ELSE 0
    BY <2>2, CountHead
  <2>4. /\ v.injected[t] + v.past.typed[t] = v.phone.messages[t] + k + m + Count(s, Echoes(t))
        /\ v.phone.messages[t] <= v.past.typed[t]
    BY <1>4 DEF RowsInv, Owed
  <2> HIDE DEF k, m, n
  <2>5. p = Sent(t) <=> p.text = t /\ p.from # "terminal"
    BY <1>1 DEF Prompts, Sent
  <2>6. /\ w.injected[t] + w.past.typed[t] = w.phone.messages[t] + k + m + n
        /\ w.phone.messages[t] <= w.past.typed[t]
    <3> DEFINE i == v.injected[t]    i1 == w.injected[t]
               d == v.past.typed[t]  d1 == w.past.typed[t]
               e == v.phone.messages[t]  e1 == w.phone.messages[t]
    <3>1. t \in Texts
      OBVIOUS
    <3>2. /\ i \in Nat /\ d \in Nat /\ e \in Nat
          /\ t # p.text => i1 = i /\ e1 = e /\ d1 = d
          /\ t = p.text =>
                /\ d1 = d + (IF p.from = "terminal" THEN 1 ELSE 0)
                /\ IF i > 0 THEN i1 = i - 1 /\ e1 = e ELSE i1 = i /\ e1 = e + 1
      BY <1>5, <3>1
    <3>3. i + d = e + k + m + Count(s, Echoes(t)) /\ e <= d
      BY <2>4
    <3> HIDE DEF i, d, e, i1, d1, e1
    <3>4. i1 + d1 = e1 + k + m + n /\ e1 <= d1
      <4>1. CASE t # p.text
        BY <2>1, <2>3, <2>5, <3>2, <3>3, <4>1
      <4>2. CASE t = p.text /\ p.from = "terminal"
        BY <2>1, <2>3, <2>5, <3>2, <3>3, <4>2
      <4>3. CASE t = p.text /\ p.from # "terminal"
        <5>1. d1 = d /\ i + d = e + k + m + (n + 1)
          BY <2>3, <2>5, <3>2, <3>3, <4>3
        <5> i \in Nat /\ d \in Nat /\ e \in Nat /\ e <= d
          BY <3>2, <3>3
        <5>2. CASE i > 0
          <6>1. i1 = i - 1 /\ e1 = e
            BY <3>2, <4>3, <5>2
          <6> QED
            BY <2>1, <5>1, <6>1
        <5>3. CASE ~(i > 0)
          <6>1. i1 = i /\ e1 = e + 1 /\ i = 0
            BY <3>2, <4>3, <5>3
          <6>2. 0 + d = e + k + m + (n + 1)
            BY <5>1, <6>1
          <6> QED
            BY <2>1, <5>1, <6>1, <6>2
        <5> QED
          BY <5>2, <5>3
      <4> QED
        BY <4>1, <4>2, <4>3
    <3> QED
      BY <3>4 DEF i1, d1, e1
  <2> QED
    BY <2>6 DEF k, m, n
<1> QED
  BY <1>4, <1>6, <1>7, <1>8 DEF ViewInv, RowsInv, p, u, w

\* A row that changes the status only.
LEMMA OtherRead ==
  ASSUME NEW v \in Views, NEW w \in Views, NEW s \in Seq(Rows), s # << >>, RowsInv(v, s),
         Head(s).kind \notin {"user", "completed"},
         RecordOf(w) = RecordOf(v), MessagesOf(w) = MessagesOf(v), w.status # "none",
         Head(s).kind \in LifecycleKinds => w.status # "running",
         w.phone.status = "running" => w.past.early \/ (Done /\ w.status = "running")
  PROVE  ViewInv(w, Tail(s))
BY OrderTail, AnnouncedTail, ShownTail, OwedTail, SettlesTail DEF ViewInv, RowsInv

LEMMA EntryRead ==
  ASSUME NEW v \in Views, NEW s \in Seq(Rows), s # << >>, CodexType, ViewInv(v, s)
  PROVE  ViewInv(ProcessEntry(v, Head(s)), Tail(s))
<1> DEFINE row == Head(s)
           w == ProcessEntry(v, row)
<1>1. RowsInv(v, s) /\ Settles(v, s) /\ row \in Rows /\ row.kind # "header"
  BY FirstRow, OrderTail DEF ViewInv, RowsInv
<1>2. {"ready", "running"} \subseteq Statuses
  BY DEF Statuses
<1>3. row.kind \in {"completed", "aborted", "failed", "message", "user", "interrupt", "exec_end"}
  BY <1>1 DEF Rows, Kinds, LifecycleKinds, ItemKinds
<1>4. CASE row.kind = "completed"
  BY <1>1, <1>4, CompletedRead DEF ProcessEntry
<1>5. CASE row.kind = "user"
  BY <1>1, <1>5, UserRead DEF ProcessEntry
<1>6. CASE row.kind = "aborted"
  <2>1. w = StatusChange(v, "ready")
    BY <1>6 DEF ProcessEntry
  <2> HIDE DEF w
  <2>2. w \in Views /\ w.status = "ready" /\ RecordOf(w) = RecordOf(v) /\ MessagesOf(w) = MessagesOf(v)
    BY <1>1, <1>2, <2>1, StatusChangeView DEF ViewInv
  <2>3. w.phone.status = "running" => w.past.early \/ (Done /\ w.status = "running")
    BY <1>1, <1>2, <2>1, StatusChangeInv DEF ViewInv
  <2>4. ViewInv(w, Tail(s))
    BY <1>1, <1>6, <2>2, <2>3, OtherRead DEF ViewInv
  <2> QED
    BY <2>4 DEF w
<1>7. CASE row.kind = "failed"
  <2>1. w = Failed(v)
    BY <1>7 DEF ProcessEntry
  <2> HIDE DEF w
  <2>2. w.phone.status = "running" => w.past.early \/ (Done /\ w.status = "running")
    BY <1>1, <2>1, FailedView DEF Settles, Done
  <2> QED
    BY <1>1, <1>7, <2>1, <2>2, FailedView, OtherRead DEF w
<1>8. CASE row.kind = "message"
  <2>1. w = StatusChange(v, "running")
    BY <1>8 DEF ProcessEntry
  <2> HIDE DEF w
  <2>2. row.kind \notin LifecycleKinds
    BY <1>8 DEF LifecycleKinds
  <2>3. /\ w \in Views /\ w.status = "running"
        /\ RecordOf(w) = RecordOf(v) /\ MessagesOf(w) = MessagesOf(v)
    BY <1>1, <1>2, <2>1, StatusChangeView DEF ViewInv
  <2>4. w.phone.status = "running" => w.past.early \/ (Done /\ w.status = "running")
    BY <1>1, <1>2, <2>1, StatusChangeInv DEF ViewInv
  <2>5. ViewInv(w, Tail(s))
    BY <1>1, <1>8, <2>2, <2>3, <2>4, OtherRead DEF ViewInv
  <2> QED
    BY <2>5 DEF w
<1>9. CASE row.kind \in {"interrupt", "exec_end"}
  <2> DEFINE u == StatusChange(v, "running")
  <2>1. w = StatusChange(u, "ready")
    BY <1>9 DEF ProcessEntry
  <2>2. /\ u \in Views /\ RecordOf(u) = RecordOf(v) /\ MessagesOf(u) = MessagesOf(v)
        /\ u.phone.status = "running" => u.past.early \/ (Done /\ u.status = "running")
    BY <1>1, <1>2, StatusChangeView, StatusChangeInv
  <2> HIDE DEF u, w
  <2>3. /\ w \in Views /\ w.status = "ready"
        /\ RecordOf(w) = RecordOf(v) /\ MessagesOf(w) = MessagesOf(v)
        /\ w.phone.status = "running" => w.past.early \/ (Done /\ w.status = "running")
    <3>1. /\ w \in Views /\ w.status = "ready"
          /\ RecordOf(w) = RecordOf(u) /\ MessagesOf(w) = MessagesOf(u)
          /\ IF u.status # "ready" /\ Done THEN w.phone.status = "ready"
             ELSE w.phone.status = u.phone.status /\ w.past.early = u.past.early
      BY <1>2, <2>1, <2>2, StatusChangeView
    <3> QED
      BY <2>2, <3>1
  <2> QED
    BY <1>1, <1>9, <2>3, OtherRead DEF w
<1> QED
  BY <1>3, <1>4, <1>5, <1>6, <1>7, <1>8, <1>9

\* A poll reads them all.
LEMMA AllRead ==
  ASSUME NEW v \in Views, NEW s \in Seq(Rows), CodexType, ViewInv(v, s)
  PROVE  ViewInv(FoldLeft(ProcessEntry, v, s), << >>)
<1> DEFINE I == { p \in Views \X Seq(Rows) : ViewInv(p[1], p[2]) }
<1>1. FoldLeft(ProcessEntry, v, s) = Poll!Fold(0, v, s)
  BY DEF PolledRow, Poll!Fold, Poll!FoldLeft, Poll!MapThenFoldSet, Poll!Max, FoldLeft, MapThenFoldSet, Max
<1>2. I \in SUBSET (Views \X Seq(Rows)) /\ << v, s >> \in I
  OBVIOUS
<1>3. \A x \in Views, q \in Seq(Rows) :
          << x, q >> \in I /\ q # << >> => << ProcessEntry(x, Head(q)), Tail(q) >> \in I
  <2> SUFFICES ASSUME NEW x \in Views, NEW q \in Seq(Rows), ViewInv(x, q), q # << >>
               PROVE  << ProcessEntry(x, Head(q)), Tail(q) >> \in I
    OBVIOUS
  <2>1. ViewInv(ProcessEntry(x, Head(q)), Tail(q)) /\ Tail(q) \in Seq(Rows)
    BY EntryRead, FirstRow
  <2> QED
    BY <2>1 DEF ViewInv
<1> HIDE DEF I
<1>4. << Poll!Fold(0, v, s), << >> >> \in I
  BY <1>2, <1>3, Poll!FoldConsumes DEF PolledRow
<1> QED
  BY <1>1, <1>4 DEF I

-----------------------------------------------------------------------------
(***************************************************************************)
(* Steps.  What a step that leaves a part of the state alone keeps.        *)
(***************************************************************************)

LEMMA NewView ==
  ASSUME NEW w \in Views, BecomesView(w)
  PROVE  View' = w
BY DEF BecomesView, View, Views

LEMMA SameView == UNCHANGED entryVars => View' = View
BY DEF entryVars, View

LEMMA Fields ==
  /\ View.status = status /\ View.stop = stopRecord /\ View.injected = injected
  /\ View.phone = phone /\ View.past = past
BY DEF View

LEMMA FieldsNext ==
  /\ View'.status = status' /\ View'.stop = stopRecord' /\ View'.injected = injected'
  /\ View'.phone = phone' /\ View'.past = past'
BY DEF View

LEMMA AppendRow ==
  ASSUME NEW s \in Seq(Rows), NEW r \in Rows
  PROVE  /\ Append(s, r) \in Seq(Rows) /\ Append(s, r) # << >>
         /\ Len(s) \in Nat /\ Len(Append(s, r)) = Len(s) + 1
         /\ \A i \in 1 .. Len(s) : Append(s, r)[i] = s[i]
         /\ Append(s, r)[Len(s) + 1] = r
BY AppendProperties

LEMMA OrderAppend ==
  ASSUME NEW s \in Seq(Rows), NEW r \in Rows, RowsInOrder(s)',
         r.kind # "header", r.turn <= turn',
         r.kind = "user" => /\ codex' # "prompted" /\ r.prompt \in Prompts
                            /\ \A i \in 1 .. Len(s) : s[i].kind = "user" => s[i].turn < r.turn,
         r.kind = "completed" =>
             /\ ~Busy' /\ r.turn # 0
             /\ \A i \in 1 .. Len(s) : s[i].kind = "completed" => s[i].turn < r.turn
  PROVE  RowsInOrder(Append(s, r))'
<1> DEFINE q == Append(s, r)
           n == Len(s)
<1>1. /\ n \in Nat /\ Len(q) = n + 1
      /\ \A i \in 1 .. n : q[i] = s[i]
      /\ q[n + 1] = r
  BY AppendRow
<1>2. \A i \in 1 .. Len(s) :
          /\ s[i].kind # "header" /\ s[i].turn <= turn'
          /\ s[i].kind = "user" => s[i].prompt \in Prompts /\ (codex' = "prompted" => s[i].turn < turn')
          /\ s[i].kind = "completed" => s[i].turn # 0 /\ (Busy' => s[i].turn < turn')
  BY DEF RowsInOrder
<1>3. \A i, j \in 1 .. Len(s) :
          i < j /\ s[i].kind = s[j].kind /\ s[i].kind \in {"user", "completed"}
              => s[i].turn < s[j].turn
  BY DEF RowsInOrder
<1> HIDE DEF q, n
<1>4. ASSUME NEW i \in 1 .. n + 1
      PROVE  /\ q[i].kind # "header" /\ q[i].turn <= turn'
             /\ q[i].kind = "user" => q[i].prompt \in Prompts /\ (codex' = "prompted" => q[i].turn < turn')
             /\ q[i].kind = "completed" => q[i].turn # 0 /\ (Busy' => q[i].turn < turn')
  <2>1. CASE i = n + 1
    BY <1>1, <2>1
  <2>2. CASE i \in 1 .. n
    BY <1>1, <1>2, <2>2 DEF n
  <2> QED
    BY <1>1, <2>1, <2>2
<1>5. ASSUME NEW i \in 1 .. n + 1, NEW j \in 1 .. n + 1, i < j,
             q[i].kind = q[j].kind, q[i].kind \in {"user", "completed"}
      PROVE  q[i].turn < q[j].turn
  <2>1. i \in 1 .. n
    BY <1>1, <1>5
  <2>2. CASE j \in 1 .. n
    BY <1>1, <1>3, <1>5, <2>1, <2>2 DEF n
  <2>3. CASE j = n + 1
    BY <1>1, <1>5, <2>1, <2>3 DEF n
  <2> QED
    BY <1>1, <2>2, <2>3
<1> QED
  BY <1>1, <1>4, <1>5 DEF RowsInOrder, q

LEMMA AnnouncedKept ==
  ASSUME Announced(View, rollout.unread),
         stopRecord' = stopRecord, phone'.completions = phone.completions,
         past'.noticed = past.noticed, past'.hushed = past.hushed, past'.lapsed = past.lapsed,
         \A t \in Turns : HookToCome(t)' => HookToCome(t),
         \A t \in Turns : RowToCome(t, rollout.unread)' => RowToCome(t, rollout.unread)
  PROVE  Announced(View, rollout.unread)'
BY DEF Announced, View

LEMMA OneRow ==
  ASSUME CodexType, Tails, NEW r \in Rows, Write(<< r >>)
  PROVE  /\ rollout' \in [exists : BOOLEAN, ended : BOOLEAN, unread : Seq(Rows)]
         /\ rollout'.exists /\ (rollout'.ended <=> r.kind \in {"header"} \cup LifecycleKinds)
         /\ rollout.unread \in Seq(Rows)
         /\ ~tailing => rollout.unread = << >>
         /\ rollout'.unread = IF tailing THEN Append(rollout.unread, r) ELSE << >>
<1>1. rollout.unread \in Seq(Rows) /\ (~tailing => rollout.unread = << >>) /\ tailing \in BOOLEAN
  BY DEF CodexType, Tails
<1>2. rollout.unread \o << r >> = Append(rollout.unread, r) /\ Append(rollout.unread, r) \in Seq(Rows)
  BY <1>1, AppendIsConcat, AppendProperties
<1>3. Last(<< r >>) = r
  BY DEF Last
<1> DEFINE ended == r.kind \in {"header"} \cup LifecycleKinds
           unread == IF tailing THEN Append(rollout.unread, r) ELSE << >>
<1>4. rollout' = [exists |-> TRUE, ended |-> ended, unread |-> unread]
  BY <1>2, <1>3 DEF Write
<1>5. unread \in Seq(Rows) /\ ended \in BOOLEAN
  BY <1>2
<1> HIDE DEF ended, unread
<1>6. rollout' \in [exists : BOOLEAN, ended : BOOLEAN, unread : Seq(Rows)]
  BY <1>4, <1>5
<1>7. rollout'.exists /\ rollout'.ended = ended /\ rollout'.unread = unread
  BY <1>4
<1> QED
  BY <1>1, <1>6, <1>7 DEF ended, unread

-----------------------------------------------------------------------------
(***************************************************************************)
(* The invariant holds at first, and every step of Codex keeps it.         *)
(***************************************************************************)

LEMMA InitInv == ASSUME Init PROVE IInv
<1>1. CodexType /\ Tails
  <2>1. rollout \in [exists : BOOLEAN, ended : BOOLEAN, unread : Seq(Rows)]
    BY DEF Init
  <2>2. CodexType
    <3>1. turn \in 0 .. MaxTurns /\ sends \in 0 .. MaxSends
      BY CodexAssumption DEF Init
    <3>2. terminal \in Seq(Texts) /\ prompt = NoPrompt /\ codex = "gone"
      BY DEF Init
    <3>3. hooked \in BOOLEAN /\ target \in BOOLEAN /\ tailing \in BOOLEAN
      BY DEF Init
    <3>4. daemon \in {"down", "warming", "up"}
      BY DEF Init
    <3> QED
      BY <2>1, <3>1, <3>2, <3>3, <3>4 DEF CodexType
  <2>3. Tails
    BY DEF Init, Tails
  <2> QED
    BY <2>2, <2>3
<1>2. View \in Views
  <2>1. Nobody \in Counts /\ [t \in Turns |-> 0] \in [Turns -> Nat]
    BY DEF Nobody, Counts
  <2>2. phone \in [status : Statuses, completions : [Turns -> Nat], messages : Counts]
    BY <2>1 DEF Init, Statuses
  <2>3. past \in [noticed : SUBSET Turns, hushed : SUBSET Turns, lapsed : SUBSET Turns,
                  strayed : SUBSET Texts, typed : Counts, early : BOOLEAN]
    BY <2>1 DEF Init
  <2>4. status \in Statuses /\ stopRecord \in 0 .. MaxTurns /\ injected \in Counts
    BY <2>1, CodexAssumption DEF Init, Statuses
  <2> QED
    BY <2>2, <2>3, <2>4 DEF View, Views
<1>3. RowsInOrder(<< >>) /\ Announced(View, << >>) /\ Shown(View, << >>) /\ Settles(View, << >>)
  <2>1. RowsInOrder(<< >>)
    BY DEF RowsInOrder
  <2>2. Announced(View, << >>)
    BY CodexAssumption, Fields DEF Init, Announced
  <2>3. Shown(View, << >>)
    BY Fields DEF Init, Shown, Nobody
  <2>4. Settles(View, << >>)
    BY Fields DEF Init, Settles
  <2> QED
    BY <2>1, <2>2, <2>3, <2>4
<1>4. Owed(View, << >>)
  <2> SUFFICES ASSUME NEW t \in Texts
               PROVE  /\ injected[t] + past.typed[t] =
                             phone.messages[t] + Count(terminal, {t}) + InPrompt(t)
                                 + Count(<< >>, Echoes(t))
                      /\ phone.messages[t] <= past.typed[t]
    BY DEF Owed, View
  <2>1. Count(terminal, {t}) = 0 /\ Count(<< >>, Echoes(t)) = 0
    BY CountEmpty DEF Init
  <2>2. InPrompt(t) = 0
    BY DEF Init, InPrompt, NoPrompt, Sent
  <2> QED
    BY <2>1, <2>2 DEF Init, Nobody
<1> QED
  BY <1>1, <1>2, <1>3, <1>4 DEF IInv, RowsInv, Init

\* What a step may assume.
LEMMA Before ==
  ASSUME IInv
  PROVE  /\ CodexType /\ Tails /\ View \in Views
         /\ RowsInOrder(rollout.unread) /\ Announced(View, rollout.unread)
         /\ Shown(View, rollout.unread) /\ Owed(View, rollout.unread)
         /\ Settles(View, rollout.unread)
         /\ turn \in Nat /\ sends \in Nat /\ rollout.unread \in Seq(Rows)
         /\ status \in Statuses /\ stopRecord \in 0 .. MaxTurns /\ injected \in Counts
         /\ phone \in [status : Statuses, completions : [Turns -> Nat], messages : Counts]
         /\ past \in [noticed : SUBSET Turns, hushed : SUBSET Turns, lapsed : SUBSET Turns,
                      strayed : SUBSET Texts, typed : Counts, early : BOOLEAN]
<1>1. View \in Views
  BY DEF IInv
<1>2. /\ status \in Statuses /\ stopRecord \in 0 .. MaxTurns /\ injected \in Counts
      /\ phone \in [status : Statuses, completions : [Turns -> Nat], messages : Counts]
      /\ past \in [noticed : SUBSET Turns, hushed : SUBSET Turns, lapsed : SUBSET Turns,
                   strayed : SUBSET Texts, typed : Counts, early : BOOLEAN]
  BY <1>1 DEF View, Views
<1> QED
  BY <1>2 DEF IInv, RowsInv, CodexType

\* And what it has to show.
LEMMA After ==
  ASSUME CodexType', Tails', View' \in Views, RowsInOrder(rollout.unread)',
         Announced(View, rollout.unread)', Shown(View, rollout.unread)',
         Owed(View, rollout.unread)', Settles(View, rollout.unread)'
  PROVE  IInv'
BY DEF IInv, RowsInv

LEMMA SessionStartView ==
  ASSUME IInv, SessionStartHook
  PROVE  /\ View' \in Views /\ RecordOf(View') = RecordOf(View)
         /\ MessagesOf(View') = MessagesOf(View)
         /\ status' = IF Tracked THEN "ready" ELSE status
         /\ IF Done THEN phone'.status = "ready"
            ELSE phone'.status = phone.status /\ past'.early = past.early
<1> DEFINE w == [View EXCEPT !.status = IF Tracked THEN "ready" ELSE @,
                             !.phone.status = IF Done THEN "ready" ELSE @,
                             !.past.early = ~Done /\ @]
<1>1. View \in Views /\ View.past.early \in BOOLEAN
  BY DEF IInv, Views
<1>2. (~Done /\ View.past.early) \in BOOLEAN
  OBVIOUS
<1>3. /\ w \in Views /\ RecordOf(w) = RecordOf(View) /\ MessagesOf(w) = MessagesOf(View)
      /\ w.status = (IF Tracked THEN "ready" ELSE View.status)
      /\ IF Done THEN w.phone.status = "ready"
         ELSE w.phone.status = View.phone.status /\ w.past.early = View.past.early
  BY <1>1, <1>2 DEF Views, RecordOf, MessagesOf, Statuses
<1>4. View' = w
  BY <1>3, NewView DEF SessionStartHook
<1> HIDE DEF w
<1> QED
  BY <1>3, <1>4, Fields, FieldsNext

LEMMA PromptSubmitView ==
  ASSUME IInv, PromptSubmitHook
  PROVE  /\ View' \in Views /\ RecordOf(View') = RecordOf(View)
         /\ MessagesOf(View') = MessagesOf(View)
         /\ status' = IF Tracked THEN "running" ELSE status
         /\ phone'.status = "running" /\ past'.early = (~Done \/ ~Tracked)
<1> DEFINE w == [View EXCEPT !.status = IF Tracked THEN "running" ELSE @,
                             !.phone.status = "running",
                             !.past.early = ~Done \/ ~Tracked]
<1>1. View \in Views
  BY DEF IInv
<1>2. (~Done \/ ~Tracked) \in BOOLEAN
  OBVIOUS
<1>3. /\ w \in Views /\ RecordOf(w) = RecordOf(View) /\ MessagesOf(w) = MessagesOf(View)
      /\ w.status = (IF Tracked THEN "running" ELSE View.status)
      /\ w.phone.status = "running" /\ w.past.early = (~Done \/ ~Tracked)
  BY <1>1, <1>2 DEF Views, RecordOf, MessagesOf, Statuses
<1>4. View' = w
  BY <1>3, NewView DEF PromptSubmitHook
<1> HIDE DEF w
<1> QED
  BY <1>3, <1>4, Fields, FieldsNext

LEMMA StopView ==
  ASSUME IInv, StopHook, turn # 0
  PROVE  /\ View' \in Views /\ MessagesOf(View') = MessagesOf(View)
         /\ stopRecord' = turn
         /\ past'.noticed = past.noticed \cup {turn}
         /\ past'.lapsed = past.lapsed \cup ({stopRecord} \ {0})
         /\ IF Done
            THEN /\ phone'.completions = [phone.completions EXCEPT ![turn] = @ + 1]
                 /\ past'.hushed = past.hushed
                 /\ phone'.status = "ready"
            ELSE /\ phone'.completions = phone.completions
                 /\ past'.hushed = past.hushed \cup {turn}
                 /\ phone'.status = phone.status /\ past'.early = past.early
<1> DEFINE lapsed == past.lapsed \cup ({stopRecord} \ {0})
           noticed == past.noticed \cup {turn}
           st == IF Tracked THEN "ready" ELSE status
           u == [View EXCEPT !.status = st, !.stop = turn, !.past.lapsed = lapsed,
                             !.past.noticed = noticed]
           w == SendCodexCompletion(u, turn)
<1>1. turn \in Turns /\ turn \in 0 .. MaxTurns
  BY DEF IInv, CodexType, Turns
<1>2. View \in Views /\ st \in Statuses
  BY Before DEF Statuses
<1>3. lapsed \in SUBSET Turns /\ noticed \in SUBSET Turns
  BY <1>1, Before DEF Turns
<1>4. BecomesView(w)
  BY Fields DEF StopHook
<1> HIDE DEF lapsed, noticed, st
<1>5. /\ u \in Views /\ u.stop = turn /\ u.past.noticed = noticed /\ u.past.lapsed = lapsed
      /\ MessagesOf(u) = MessagesOf(View) /\ u.phone = View.phone
      /\ u.past.hushed = View.past.hushed /\ u.past.early = View.past.early
  BY <1>1, <1>2, <1>3 DEF Views, MessagesOf
<1> HIDE DEF u
<1>6. /\ w \in Views /\ w.status = u.status
      /\ MessagesOf(w) = MessagesOf(u)
      /\ w.stop = u.stop /\ w.past.noticed = u.past.noticed
      /\ w.past.lapsed = u.past.lapsed
      /\ IF Done
         THEN /\ w.phone.completions = [u.phone.completions EXCEPT ![turn] = @ + 1]
              /\ w.past.hushed = u.past.hushed
              /\ w.phone.status = "ready"
         ELSE /\ w.phone.completions = u.phone.completions
              /\ w.past.hushed = u.past.hushed \cup {turn}
              /\ w.phone.status = u.phone.status /\ w.past.early = u.past.early
  BY <1>1, <1>5, CompletionView
<1> HIDE DEF w
<1>7. View' = w
  BY <1>4, <1>6, NewView
<1> QED
  BY <1>5, <1>6, <1>7, Fields, FieldsNext DEF lapsed, noticed

\* What Shown and Owed speak of, of the view before a step and after it.
MessagesKept == /\ injected' = injected /\ phone'.messages = phone.messages
                /\ past'.typed = past.typed /\ past'.strayed = past.strayed

RecordKept == /\ stopRecord' = stopRecord /\ phone'.completions = phone.completions
              /\ past'.noticed = past.noticed /\ past'.hushed = past.hushed
              /\ past'.lapsed = past.lapsed

LEMMA KeptIs ==
  /\ MessagesOf(View') = MessagesOf(View) => MessagesKept
  /\ RecordOf(View') = RecordOf(View) => RecordKept
BY Fields, FieldsNext DEF MessagesOf, RecordOf, MessagesKept, RecordKept

LEMMA LaunchInv == ASSUME IInv, Launch PROVE IInv'
<1>1. /\ codex = "gone" /\ codex' = "idle" /\ ~Busy /\ ~Busy' /\ turn' = turn
      /\ terminal' = terminal /\ prompt = NoPrompt /\ prompt' = NoPrompt /\ daemon' = daemon
      /\ hooked' = hooked /\ sends' = sends
  BY Before DEF Launch, Busy, CodexType
<1>2. /\ View' \in Views /\ RecordKept /\ MessagesKept /\ target' \in BOOLEAN
      /\ \/ /\ Heard /\ status' = (IF Tracked THEN "ready" ELSE status)
            /\ tailing' = (tailing \/ (status = "none" /\ rollout.exists))
            /\ IF Done THEN phone'.status = "ready"
               ELSE phone'.status = phone.status /\ past'.early = past.early
         \/ /\ ~Heard /\ status' = status /\ tailing' = tailing
            /\ phone' = phone /\ past' = past
  <2>1. CASE SessionStartHook
    BY <2>1, SessionStartView, KeptIs DEF SessionStartHook, RecordCodexHookActivity
  <2>2. CASE NotHeard
    <3>1. View' = View /\ UNCHANGED << status, tailing, target, phone, past >>
      BY <2>2, SameView DEF NotHeard, entryVars
    <3> QED
      BY <2>2, <3>1, Before, KeptIs DEF NotHeard, CodexType
  <2> QED
    BY <2>1, <2>2 DEF Launch
<1>3. /\ rollout' \in [exists : BOOLEAN, ended : BOOLEAN, unread : Seq(Rows)]
      /\ rollout'.unread = rollout.unread
      /\ rollout.exists => rollout' = rollout
  <2>1. CASE rollout' = rollout
    BY <2>1, Before DEF CodexType
  <2>2. CASE ~rollout.exists /\ Write(<< Row("header") >>)
    <3>1. ~tailing /\ Row("header") \in Rows
      BY <2>2, Before DEF Tails, Row, Rows, Kinds, CodexType
    <3> QED
      BY <2>2, <3>1, OneRow, Before
  <2> QED
    BY <2>1, <2>2 DEF Launch
<1>4. CodexType'
  <2>1. tailing' \in BOOLEAN
    BY <1>2, Before DEF CodexType
  <2> QED
    BY <1>1, <1>2, <1>3, <2>1, Before DEF CodexType
<1>5. Tails'
  <2>1. rollout.exists => rollout'.exists
    BY <1>3
  <2>2. Heard => daemon # "down"
    BY DEF Heard
  <2>3. Tracked <=> status # "none" \/ rollout.exists
    BY DEF Tracked
  <2>4. Tails
    BY Before
  <2>5. /\ tailing => tailing'
        /\ tailing' => tailing \/ (Heard /\ Tracked /\ rollout.exists)
        /\ tailing' /\ Tracked => status' # "none"
    <3>1. CASE Heard
      <4>1. status' = (IF Tracked THEN "ready" ELSE status)
        BY <1>2, <3>1
      <4>2. tailing' = (tailing \/ (status = "none" /\ rollout.exists))
        BY <1>2, <3>1
      <4> QED
        BY <3>1, <4>1, <4>2, <2>3, <2>4 DEF Tails
    <3>2. CASE ~Heard
      <4>1. status' = status /\ tailing' = tailing
        BY <1>2, <3>2
      <4> QED
        BY <4>1, <2>3, <2>4 DEF Tails
    <3> QED
      BY <3>1, <3>2
  <2>6. tailing' => status' # "none" /\ rollout'.exists
    BY <2>1, <2>3, <2>4, <2>5 DEF Tails
  <2>7. daemon' = "down" => status' = "none"
    BY <1>1, <1>2, <2>2, <2>4 DEF Tails
  <2> QED
    BY <1>3, <2>4, <2>5, <2>6, <2>7 DEF Tails
<1>6. RowsInOrder(rollout.unread)'
  BY <1>1, <1>3, Before DEF RowsInOrder
<1>7. Announced(View, rollout.unread)'
  <2>1. \A t \in Turns : HookToCome(t)' => HookToCome(t)
    BY <1>1 DEF HookToCome
  <2>2. \A t \in Turns : RowToCome(t, rollout.unread)' => RowToCome(t, rollout.unread)
    BY <1>1, <1>3 DEF RowToCome
  <2> QED
    BY <1>2, <2>1, <2>2, Before, AnnouncedKept DEF RecordKept
<1>8. Shown(View, rollout.unread)'
  BY <1>1, <1>2, <1>3, Before, Fields, FieldsNext DEF Shown, MessagesKept
<1>9. Owed(View, rollout.unread)'
  <2>1. \A t : InPrompt(t)' = InPrompt(t)
    BY <1>1 DEF InPrompt
  <2> QED
    BY <1>1, <1>2, <1>3, <2>1, Before, Fields, FieldsNext DEF Owed, MessagesKept
<1>10. Settles(View, rollout.unread)'
  <2>1. phone'.status = "running" => past'.early \/ (daemon' = "up" /\ status' = "running")
    BY <1>1, <1>2, Before, Fields DEF Settles, Done
  <2>2. rollout'.ended /\ rollout'.unread # << >> =>
            rollout'.unread[Len(rollout'.unread)].kind \in LifecycleKinds
    BY <1>3, Before DEF Tails, Settles
  <2>3. ~(tailing' /\ status' = "running" /\ rollout'.ended /\ rollout'.unread = << >>)
    <3>1. CASE Heard
      BY <1>2, <3>1, Before DEF Tails, Tracked
    <3>2. CASE ~Heard
      <4>1. tailing' = tailing /\ status' = status
        BY <1>2, <3>2
      <4>2. tailing /\ status = "running" /\ rollout.ended /\ rollout.unread = << >> => hooked
        BY Before, Fields DEF Settles
      <4>3. tailing => daemon # "down" /\ rollout' = rollout
        BY <1>3, Before DEF Tails
      <4> QED
        BY <3>2, <4>1, <4>2, <4>3 DEF Heard
    <3> QED
      BY <3>1, <3>2
  <2> QED
    BY <1>1, <2>1, <2>2, <2>3, FieldsNext DEF Settles
<1> QED
  BY <1>2, <1>4, <1>5, <1>6, <1>7, <1>8, <1>9, <1>10, After

LEMMA SubmitInv == ASSUME IInv, Submit PROVE IInv'
<1>1. /\ codex = "idle" /\ codex' = "prompted" /\ turn' = turn + 1 /\ turn < MaxTurns
      /\ rollout' = rollout /\ daemon' = daemon /\ prompt = NoPrompt
      /\ hooked' = hooked /\ sends' = sends /\ ~Busy /\ turn \in Nat
  BY Before DEF Submit, Busy, CodexType
<1>2. /\ View' \in Views /\ RecordKept /\ MessagesKept /\ target' \in BOOLEAN
      /\ \/ /\ Heard /\ status' = (IF Tracked THEN "running" ELSE status)
            /\ tailing' = (tailing \/ (status = "none" /\ rollout.exists))
            /\ phone'.status = "running" /\ past'.early = (~Done \/ ~Tracked)
         \/ /\ ~Heard /\ status' = status /\ tailing' = tailing
            /\ phone' = phone /\ past' = past
  <2>1. CASE PromptSubmitHook
    BY <2>1, PromptSubmitView, KeptIs DEF PromptSubmitHook, RecordCodexHookActivity
  <2>2. CASE NotHeard
    <3>1. View' = View /\ UNCHANGED << status, tailing, target, phone, past >>
      BY <2>2, SameView DEF NotHeard, entryVars
    <3> QED
      BY <2>2, <3>1, Before, KeptIs DEF NotHeard, CodexType
  <2> QED
    BY <2>1, <2>2 DEF Submit
<1>3. prompt' \in Prompts /\ terminal' \in Seq(Texts) /\ terminal \in Seq(Texts)
  <2>1. terminal \in Seq(Texts)
    BY Before DEF CodexType
  <2>2. CASE (\E t \in Texts : prompt' = [text |-> t, from |-> "terminal"]) /\ terminal' = terminal
    BY <2>1, <2>2 DEF Prompts
  <2>3. CASE /\ terminal # << >> /\ prompt' = [text |-> Head(terminal), from |-> "phone"]
             /\ terminal' = Tail(terminal)
    BY <2>1, <2>3, HeadTailProperties DEF Prompts
  <2> QED
    BY <2>2, <2>3 DEF Submit
<1>4. CodexType'
  <2>1. tailing' \in BOOLEAN
    BY <1>2, Before DEF CodexType
  <2>2. turn' \in 0 .. MaxTurns /\ turn' # 0
    BY <1>1, CodexAssumption
  <2> QED
    BY <1>1, <1>2, <1>3, <2>1, <2>2, Before DEF CodexType, Busy
<1>5. Tails'
  <2>1. Heard => daemon # "down"
    BY DEF Heard
  <2>2. Tracked <=> status # "none" \/ rollout.exists
    BY DEF Tracked
  <2>3. Tails
    BY Before
  <2>4. /\ tailing => tailing'
        /\ tailing' => tailing \/ (Heard /\ Tracked /\ rollout.exists)
        /\ tailing' /\ Tracked => status' # "none"
    <3>1. CASE Heard
      <4>1. status' = (IF Tracked THEN "running" ELSE status)
        BY <1>2, <3>1
      <4>2. tailing' = (tailing \/ (status = "none" /\ rollout.exists))
        BY <1>2, <3>1
      <4> QED
        BY <3>1, <4>1, <4>2, <2>2, <2>3 DEF Tails
    <3>2. CASE ~Heard
      <4>1. status' = status /\ tailing' = tailing
        BY <1>2, <3>2
      <4> QED
        BY <4>1, <2>2, <2>3 DEF Tails
    <3> QED
      BY <3>1, <3>2
  <2>5. tailing' => status' # "none" /\ rollout'.exists
    BY <1>1, <2>2, <2>3, <2>4 DEF Tails
  <2>6. daemon' = "down" => status' = "none"
    BY <1>1, <1>2, <2>1, <2>3 DEF Tails
  <2> QED
    BY <1>1, <2>3, <2>4, <2>5, <2>6 DEF Tails
<1>6. \A i \in 1 .. Len(rollout.unread) :
          rollout.unread[i].turn \in Nat /\ rollout.unread[i].turn <= turn
  <2>1. \A i \in 1 .. Len(rollout.unread) : rollout.unread[i] \in Rows
    BY Before
  <2> QED
    BY <2>1, Before DEF Rows, RowsInOrder
<1>7. RowsInOrder(rollout.unread)'
  <2>1. RowsInOrder(rollout.unread)
    BY Before
  <2>2. rollout'.unread = rollout.unread /\ turn \in Nat /\ turn' = turn + 1
    BY <1>1, Before
  <2>3. \A i \in 1 .. Len(rollout.unread) :
            rollout.unread[i].turn <= turn' /\ rollout.unread[i].turn < turn'
    BY <1>6, <2>2
  <2>4. \A i \in 1 .. Len(rollout.unread) :
            /\ rollout.unread[i].kind # "header"
            /\ rollout.unread[i].kind = "user" => rollout.unread[i].prompt \in Prompts
            /\ rollout.unread[i].kind = "completed" => rollout.unread[i].turn # 0
    BY <2>1 DEF RowsInOrder
  <2>5. \A i, j \in 1 .. Len(rollout.unread) :
            /\ i < j /\ rollout.unread[i].kind = rollout.unread[j].kind
            /\ rollout.unread[i].kind \in {"user", "completed"}
            => rollout.unread[i].turn < rollout.unread[j].turn
    BY <2>1 DEF RowsInOrder
  <2> QED
    BY <2>2, <2>3, <2>4, <2>5 DEF RowsInOrder
<1>8. Announced(View, rollout.unread)'
  <2>1. ASSUME NEW t \in Turns PROVE HookToCome(t)' => HookToCome(t)
    BY <1>1 DEF HookToCome, Turns
  <2>2. ASSUME NEW t \in Turns
        PROVE RowToCome(t, rollout.unread)' => RowToCome(t, rollout.unread)
    BY <1>1 DEF RowToCome, Turns
  <2> QED
    BY <1>2, <2>1, <2>2, Before, AnnouncedKept DEF RecordKept
<1>9. Shown(View, rollout.unread)'
  <2> SUFFICES ASSUME NEW t \in Texts
               PROVE  /\ injected'[t] <= sends'
                      /\ phone'.messages[t] < turn'
                      /\ \A i \in 1 .. Len(rollout'.unread) : rollout'.unread[i].kind = "user" =>
                             phone'.messages[t] < rollout'.unread[i].turn
    <3>1. ASSUME NEW t \in Texts PROVE phone'.messages[t] \in Nat
      BY <1>2, FieldsNext DEF Views, Counts
    <3> QED
      BY <1>1, <3>1, FieldsNext DEF Shown
  <2>1. phone.messages[t] \in Nat
    BY Before DEF Counts
  <2> QED
    BY <1>1, <1>2, <2>1, Before, Fields DEF Shown, MessagesKept
<1>10. Owed(View, rollout.unread)'
  <2>1. ASSUME NEW t \in Texts
        PROVE  Count(terminal', {t}) + InPrompt(t)' = Count(terminal, {t}) + InPrompt(t)
    <3>1. InPrompt(t) = 0 /\ Count(terminal, {t}) \in Nat
      BY <1>1, <1>3, HitsFinite DEF InPrompt, NoPrompt, Sent
    <3>2. CASE (\E u \in Texts : prompt' = [text |-> u, from |-> "terminal"]) /\ terminal' = terminal
      BY <3>1, <3>2 DEF InPrompt, Sent
    <3>3. CASE /\ terminal # << >> /\ prompt' = [text |-> Head(terminal), from |-> "phone"]
               /\ terminal' = Tail(terminal)
      <4>1. Count(terminal, {t}) = Count(terminal', {t}) + (IF Head(terminal) \in {t} THEN 1 ELSE 0)
        BY <1>3, <3>3, CountHead
      <4>2. Count(terminal', {t}) \in Nat
        BY <1>3, HitsFinite
      <4>3. InPrompt(t)' = IF Head(terminal) = t THEN 1 ELSE 0
        BY <3>3 DEF InPrompt, Sent
      <4> QED
        BY <3>1, <4>1, <4>2, <4>3
    <3> QED
      BY <3>2, <3>3 DEF Submit
  <2> SUFFICES ASSUME NEW t \in Texts \ past.strayed
               PROVE  /\ injected[t] + past.typed[t] =
                             phone.messages[t] + Count(terminal', {t}) + InPrompt(t)'
                                 + Count(rollout.unread, Echoes(t))
                      /\ phone.messages[t] <= past.typed[t]
    BY <1>1, <1>2, FieldsNext DEF Owed, MessagesKept
  <2>2. /\ phone.messages[t] \in Nat /\ Count(terminal', {t}) \in Nat /\ InPrompt(t)' \in Nat
        /\ Count(terminal, {t}) \in Nat /\ InPrompt(t) \in Nat
        /\ Count(rollout.unread, Echoes(t)) \in Nat
    BY <1>3, Before, HitsFinite DEF Counts, InPrompt
  <2>3. /\ injected[t] + past.typed[t] = phone.messages[t] + Count(terminal, {t}) + InPrompt(t)
                                             + Count(rollout.unread, Echoes(t))
        /\ phone.messages[t] <= past.typed[t]
    BY Before, Fields DEF Owed
  <2> QED
    BY <2>1, <2>2, <2>3
<1>11. Settles(View, rollout.unread)'
  <2>1. phone'.status = "running" => past'.early \/ (daemon' = "up" /\ status' = "running")
    BY <1>1, <1>2, Before, Fields DEF Settles, Done
  <2>2. tailing' /\ status' = "running" /\ rollout.ended /\ rollout.unread = << >> => hooked
    <3>1. ~(tailing /\ status = "running" /\ rollout.ended /\ rollout.unread = << >>)
      BY <1>1, Before, Fields DEF Settles
    <3> QED
      BY <1>2, <3>1 DEF Heard
  <2> QED
    BY <1>1, <2>1, <2>2, Before, FieldsNext DEF Settles
<1> QED
  BY <1>2, <1>4, <1>5, <1>7, <1>8, <1>9, <1>10, <1>11, After

LEMMA SwallowInv == ASSUME IInv, Swallow PROVE IInv'
<1>1. /\ UNCHANGED << codex, hooked, prompt, turn, rollout, status, stopRecord, injected, phone >>
      /\ UNCHANGED << daemon, tailing, target, sends >>
      /\ terminal \in Seq(Texts) /\ terminal # << >>
      /\ terminal' = Tail(terminal) /\ terminal' \in Seq(Texts)
      /\ past' = [past EXCEPT !.strayed = @ \cup {Head(terminal)}]
      /\ Head(terminal) \in Texts
  BY Before, HeadTailProperties DEF Swallow, Strayed, daemonVars, CodexType
<1>2. /\ past' \in [noticed : SUBSET Turns, hushed : SUBSET Turns, lapsed : SUBSET Turns,
                    strayed : SUBSET Texts, typed : Counts, early : BOOLEAN]
      /\ past'.strayed = past.strayed \cup {Head(terminal)} /\ past'.typed = past.typed
      /\ past'.noticed = past.noticed /\ past'.hushed = past.hushed
      /\ past'.lapsed = past.lapsed /\ past'.early = past.early
  BY <1>1, Before
<1>3. View' \in Views
  BY <1>1, <1>2, Before DEF View, Views
<1>4. CodexType'
  <2>1. CodexType
    BY Before
  <2> QED
    BY <1>1, <2>1 DEF CodexType, Busy
<1>5. Tails' /\ RowsInOrder(rollout.unread)'
  BY <1>1, Before DEF Tails, RowsInOrder, Busy
<1>6. Announced(View, rollout.unread)'
  BY <1>1, <1>2, Before, AnnouncedKept DEF HookToCome, RowToCome, Busy
<1>7. Shown(View, rollout.unread)'
  BY <1>1, Before, Fields, FieldsNext DEF Shown
<1>8. Owed(View, rollout.unread)'
  <2> SUFFICES ASSUME NEW t \in Texts \ past.strayed, t # Head(terminal)
               PROVE  /\ injected[t] + past.typed[t] =
                             phone.messages[t] + Count(terminal', {t}) + InPrompt(t)
                                 + Count(rollout.unread, Echoes(t))
                      /\ phone.messages[t] <= past.typed[t]
    BY <1>1, <1>2, FieldsNext DEF Owed, InPrompt
  <2>1. Count(terminal, {t}) = Count(terminal', {t}) + (IF Head(terminal) \in {t} THEN 1 ELSE 0)
    BY <1>1, CountHead
  <2>2. Count(terminal', {t}) \in Nat
    BY <1>1, HitsFinite
  <2>3. Count(terminal, {t}) = Count(terminal', {t})
    BY <2>1, <2>2
  <2> QED
    BY <2>3, Before, Fields DEF Owed
<1>9. Settles(View, rollout.unread)'
  BY <1>1, <1>2, Before, Fields, FieldsNext DEF Settles
<1> QED
  BY <1>3, <1>4, <1>5, <1>6, <1>7, <1>8, <1>9, After

LEMMA WritePromptInv == ASSUME IInv, WritePrompt PROVE IInv'
<1>a. PICK r : r = [Row("user") EXCEPT !.prompt = prompt]
  OBVIOUS
<1>b. PICK s : s = rollout.unread
  OBVIOUS
<1>1. /\ codex = "prompted" /\ codex' = "working" /\ Busy /\ Busy' /\ prompt' = NoPrompt
      /\ UNCHANGED << hooked, turn, terminal, status, stopRecord, injected, phone >>
      /\ UNCHANGED << daemon, tailing, target, sends >>
      /\ turn \in 1 .. MaxTurns /\ prompt \in Prompts /\ turn \in Nat
  <2>1. CodexType
    BY Before
  <2> QED
    BY <2>1 DEF WritePrompt, Busy, daemonVars, CodexType
<1>2. r \in Rows /\ r.kind = "user" /\ r.turn = turn /\ r.prompt = prompt
  BY <1>a, <1>1 DEF Row, Rows, Kinds, ItemKinds
<1>3. /\ rollout' \in [exists : BOOLEAN, ended : BOOLEAN, unread : Seq(Rows)]
      /\ rollout'.exists /\ ~rollout'.ended /\ s \in Seq(Rows)
      /\ ~tailing => s = << >>
      /\ rollout'.unread = IF tailing THEN Append(s, r) ELSE << >>
  <2>1. Write(<< r >>)
    BY <1>a DEF WritePrompt
  <2> QED
    BY <1>b, <1>2, <2>1, Before, OneRow DEF LifecycleKinds
<1>4. past' = IF prompt.from = "phone" /\ ~tailing
              THEN [past EXCEPT !.strayed = @ \cup {prompt.text}] ELSE past
  BY DEF WritePrompt, Strayed
<1>5. /\ past' \in [noticed : SUBSET Turns, hushed : SUBSET Turns, lapsed : SUBSET Turns,
                    strayed : SUBSET Texts, typed : Counts, early : BOOLEAN]
      /\ past'.strayed = IF prompt.from = "phone" /\ ~tailing
                         THEN past.strayed \cup {prompt.text} ELSE past.strayed
      /\ past'.typed = past.typed
      /\ past'.noticed = past.noticed /\ past'.hushed = past.hushed
      /\ past'.lapsed = past.lapsed /\ past'.early = past.early
  <2>1. prompt.text \in Texts
    BY <1>1 DEF Prompts
  <2> QED
    BY <1>4, <2>1, Before
<1>6. View' \in Views
  BY <1>1, <1>5, Before DEF View, Views
<1>7. CodexType'
  <2>1. CodexType
    BY Before
  <2> QED
    BY <1>1, <1>3, <2>1 DEF CodexType, Busy
<1>8. Tails'
  BY <1>1, <1>3, Before DEF Tails
<1>9. RowsInOrder(rollout.unread)'
  <2>1. CASE tailing
    <3>1. /\ RowsInOrder(s)'
          /\ \A i \in 1 .. Len(s) : s[i].kind = "user" => s[i].turn < r.turn
      BY <1>b, <1>1, <1>2, Before DEF RowsInOrder
    <3>2. RowsInOrder(Append(s, r))'
      BY <1>1, <1>2, <1>3, <3>1, OrderAppend
    <3> QED
      BY <1>3, <2>1, <3>2
  <2>2. CASE ~tailing
    BY <1>3, <2>2 DEF RowsInOrder
  <2> QED
    BY <2>1, <2>2
<1>10. Announced(View, rollout.unread)'
  <2>1. \A t \in Turns : HookToCome(t)' => HookToCome(t)
    BY <1>1 DEF HookToCome
  <2>2. ASSUME NEW t \in Turns, RowToCome(t, rollout.unread)' PROVE RowToCome(t, rollout.unread)
    <3>1. CASE t > turn \/ (t = turn /\ Busy)
      BY <3>1 DEF RowToCome
    <3>2. CASE \E i \in 1 .. Len(rollout'.unread) :
                   rollout'.unread[i].kind = "completed" /\ rollout'.unread[i].turn = t
      <4>1. tailing
        BY <1>3, <3>2
      <4>2. \E i \in 1 .. Len(s) : s[i].kind = "completed" /\ s[i].turn = t
        BY <1>2, <1>3, <3>2, <4>1, AppendRow
      <4> QED
        BY <1>b, <4>2 DEF RowToCome
    <3> QED
      BY <1>1, <2>2, <3>1, <3>2 DEF RowToCome
  <2> QED
    BY <1>1, <1>5, <2>1, <2>2, Before, AnnouncedKept
<1>11. Shown(View, rollout.unread)'
  <2> SUFFICES ASSUME NEW t \in Texts
               PROVE  /\ injected[t] <= sends /\ phone.messages[t] <= turn
                      /\ \A i \in 1 .. Len(rollout'.unread) : rollout'.unread[i].kind = "user" =>
                             phone.messages[t] < rollout'.unread[i].turn
    BY <1>1, FieldsNext DEF Shown
  <2>1. /\ injected[t] <= sends /\ phone.messages[t] < turn /\ phone.messages[t] <= turn
        /\ \A i \in 1 .. Len(s) : s[i].kind = "user" => phone.messages[t] < s[i].turn
    BY <1>b, <1>1, Before, Fields DEF Shown
  <2>2. CASE tailing
    BY <1>2, <1>3, <2>1, <2>2, AppendRow
  <2>3. CASE ~tailing
    BY <1>3, <2>1, <2>3
  <2> QED
    BY <2>2, <2>3
<1>12. Owed(View, rollout.unread)'
  <2> SUFFICES ASSUME NEW t \in Texts \ past'.strayed
               PROVE  /\ injected[t] + past.typed[t] =
                             phone.messages[t] + Count(terminal, {t}) + InPrompt(t)'
                                 + Count(rollout'.unread, Echoes(t))
                      /\ phone.messages[t] <= past.typed[t]
    BY <1>1, <1>5, FieldsNext DEF Owed
  <2>1. /\ injected[t] + past.typed[t] =
               phone.messages[t] + Count(terminal, {t}) + InPrompt(t) + Count(s, Echoes(t))
        /\ phone.messages[t] <= past.typed[t]
    <3>1. t \notin past.strayed
      BY <1>5
    <3> QED
      BY <1>b, <3>1, Before, Fields DEF Owed
  <2>2. InPrompt(t) + Count(s, Echoes(t)) = InPrompt(t)' + Count(rollout'.unread, Echoes(t))
    <3>1. InPrompt(t)' = 0
      BY <1>1 DEF InPrompt, NoPrompt, Sent
    <3>2. Count(s, Echoes(t)) \in Nat
      BY <1>3, HitsFinite
    <3>3. CASE tailing
      <4>1. Count(rollout'.unread, Echoes(t)) =
                Count(s, Echoes(t)) + (IF r \in Echoes(t) THEN 1 ELSE 0)
        BY <1>2, <1>3, <3>3, CountAppend
      <4>2. r \in Echoes(t) <=> prompt = Sent(t)
        BY <1>2 DEF Echoes
      <4> QED
        BY <3>1, <3>2, <4>1, <4>2 DEF InPrompt
    <3>4. CASE ~tailing
      <4>1. prompt # Sent(t)
        BY <1>5, <3>4 DEF Sent
      <4> QED
        BY <1>3, <3>1, <3>2, <3>4, <4>1 DEF InPrompt
    <3> QED
      BY <3>3, <3>4
  <2>3. /\ phone.messages[t] \in Nat /\ Count(terminal, {t}) \in Nat
        /\ InPrompt(t) \in Nat /\ InPrompt(t)' \in Nat
        /\ Count(s, Echoes(t)) \in Nat /\ Count(rollout'.unread, Echoes(t)) \in Nat
    BY <1>3, Before, HitsFinite DEF Counts, InPrompt, CodexType
  <2> QED
    BY <2>1, <2>2, <2>3
<1>13. Settles(View, rollout.unread)'
  <2>1. phone'.status = "running" => past'.early \/ (daemon' = "up" /\ status' = "running")
    BY <1>1, <1>5, Before, Fields DEF Settles
  <2> QED
    BY <1>1, <1>3, <2>1, FieldsNext DEF Settles
<1> QED
  BY <1>6, <1>7, <1>8, <1>9, <1>10, <1>11, <1>12, <1>13, After

\* Rows other than a prompt: more(s, q), the users' rows of q are those of s, and
\* only the turn that goes on may be completed by a new one.
More(s, q) ==
    /\ \A t \in Texts : Count(q, Echoes(t)) = Count(s, Echoes(t))
    /\ \A i \in 1 .. Len(q) : q[i].kind = "user" =>
           \E j \in 1 .. Len(s) : s[j].kind = "user" /\ s[j].turn = q[i].turn
    /\ \A i \in 1 .. Len(q) : q[i].kind = "completed" =>
           \/ q[i].turn = turn
           \/ \E j \in 1 .. Len(s) : s[j].kind = "completed" /\ s[j].turn = q[i].turn

LEMMA MoreAppend ==
  ASSUME NEW s \in Seq(Rows), NEW q \in Seq(Rows), NEW r \in Rows, More(s, q),
         r.kind # "user", r.kind = "completed" => r.turn = turn
  PROVE  More(s, Append(q, r))
<1>1. /\ Len(q) \in Nat /\ Len(Append(q, r)) = Len(q) + 1
      /\ \A i \in 1 .. Len(q) : Append(q, r)[i] = q[i]
      /\ Append(q, r)[Len(q) + 1] = r
  BY AppendRow
<1>2. \A i \in 1 .. Len(Append(q, r)) : i \in 1 .. Len(q) \/ i = Len(q) + 1
  BY <1>1
<1>3. ASSUME NEW t \in Texts PROVE Count(Append(q, r), Echoes(t)) = Count(s, Echoes(t))
  <2>1. Count(Append(q, r), Echoes(t)) = Count(q, Echoes(t)) + (IF r \in Echoes(t) THEN 1 ELSE 0)
    BY CountAppend
  <2>2. r \notin Echoes(t) /\ Count(q, Echoes(t)) \in Nat
    BY HitsFinite DEF Echoes
  <2> QED
    BY <2>1, <2>2 DEF More
<1>4. ASSUME NEW i \in 1 .. Len(Append(q, r)), Append(q, r)[i].kind = "user"
      PROVE  \E j \in 1 .. Len(s) : s[j].kind = "user" /\ s[j].turn = Append(q, r)[i].turn
  BY <1>1, <1>2, <1>4 DEF More
<1>5. ASSUME NEW i \in 1 .. Len(Append(q, r)), Append(q, r)[i].kind = "completed"
      PROVE  \/ Append(q, r)[i].turn = turn
             \/ \E j \in 1 .. Len(s) :
                    s[j].kind = "completed" /\ s[j].turn = Append(q, r)[i].turn
  BY <1>1, <1>2, <1>5 DEF More
<1> QED
  BY <1>3, <1>4, <1>5 DEF More

LEMMA MoreKept ==
  ASSUME IInv, NEW s \in Seq(Rows), NEW q \in Seq(Rows),
         s = rollout.unread, q = rollout'.unread, More(s, q),
         codex \in {"working", "stopping"}, codex' \in {"working", "idle"},
         codex' = "working" => codex = "working",
         UNCHANGED << prompt, turn, terminal, entryVars, sends >>
  PROVE  /\ View' \in Views /\ Announced(View, rollout.unread)'
         /\ Shown(View, rollout.unread)' /\ Owed(View, rollout.unread)'
<1>1. Busy /\ prompt' = prompt /\ turn' = turn /\ terminal' = terminal /\ View' = View /\ sends' = sends
  BY SameView DEF Busy
<1>2. UNCHANGED << status, stopRecord, injected, phone, past >>
  BY DEF entryVars
<1>3. Announced(View, rollout.unread)'
  <2>1. \A t \in Turns : HookToCome(t)' => HookToCome(t)
    BY <1>1 DEF HookToCome
  <2>2. ASSUME NEW t \in Turns, RowToCome(t, rollout.unread)' PROVE RowToCome(t, rollout.unread)
    <3>1. CASE t > turn \/ (t = turn /\ Busy)
      BY <3>1 DEF RowToCome
    <3>2. CASE \E i \in 1 .. Len(q) : q[i].kind = "completed" /\ q[i].turn = t
      BY <1>1, <3>2 DEF RowToCome, More
    <3> QED
      BY <1>1, <2>2, <3>1, <3>2 DEF RowToCome
  <2> QED
    BY <1>2, <2>1, <2>2, Before, AnnouncedKept
<1>4. Shown(View, rollout.unread)'
  <2> SUFFICES ASSUME NEW t \in Texts
               PROVE  /\ injected[t] <= sends /\ phone.messages[t] <= turn
                      /\ \A i \in 1 .. Len(q) : q[i].kind = "user" => phone.messages[t] < q[i].turn
    BY <1>1, <1>2, FieldsNext DEF Shown
  <2>1. /\ injected[t] <= sends /\ phone.messages[t] <= turn
        /\ \A i \in 1 .. Len(s) : s[i].kind = "user" => phone.messages[t] < s[i].turn
    BY Before, Fields DEF Shown
  <2> QED
    BY <2>1 DEF More
<1>5. Owed(View, rollout.unread)'
  BY <1>1, <1>2, Before, Fields, FieldsNext DEF Owed, More, InPrompt
<1> QED
  BY <1>1, <1>3, <1>4, <1>5, Before

LEMMA WorkInv == ASSUME IInv, Work PROVE IInv'
<1>1. PICK kind \in {"message", "exec_end"} : Write(<< Row(kind) >>)
  BY DEF Work
<1>a. PICK r : r = Row(kind)
  OBVIOUS
<1>b. PICK s : s = rollout.unread
  OBVIOUS
<1>2. /\ codex = "working" /\ codex' = "working" /\ CodexType
      /\ UNCHANGED << codex, hooked, prompt, turn, terminal, entryVars >>
      /\ UNCHANGED << daemon, tailing, target, sends >>
      /\ UNCHANGED << status, stopRecord, injected, phone, past >>
      /\ turn \in 0 .. MaxTurns
  BY Before DEF Work, entryVars, daemonVars, CodexType
<1>3. r \in Rows /\ r.turn = turn /\ r.kind \in {"message", "exec_end"}
  BY <1>a, <1>2 DEF Row, Rows, Kinds, ItemKinds
<1>4. /\ rollout' \in [exists : BOOLEAN, ended : BOOLEAN, unread : Seq(Rows)]
      /\ rollout'.exists /\ ~rollout'.ended /\ s \in Seq(Rows)
      /\ ~tailing => s = << >>
      /\ rollout'.unread = IF tailing THEN Append(s, r) ELSE << >>
  BY <1>a, <1>b, <1>1, <1>3, Before, OneRow DEF LifecycleKinds
<1>5. More(s, rollout'.unread)
  <2>1. More(s, s)
    BY DEF More
  <2>2. CASE tailing
    BY <1>3, <1>4, <2>1, <2>2, MoreAppend
  <2>3. CASE ~tailing
    BY <1>4, <2>1, <2>3
  <2> QED
    BY <2>2, <2>3
<1>6. CodexType' /\ Tails'
  <2>1. Tails
    BY Before
  <2> QED
    BY <1>2, <1>4, <2>1 DEF CodexType, Busy, Tails
<1>7. RowsInOrder(rollout.unread)'
  <2>1. RowsInOrder(s)'
    BY <1>b, <1>2, Before DEF RowsInOrder, Busy
  <2>2. CASE tailing
    <3>1. RowsInOrder(Append(s, r))'
      BY <1>2, <1>3, <1>4, <2>1, OrderAppend
    <3> QED
      BY <1>4, <2>2, <3>1
  <2>3. CASE ~tailing
    BY <1>4, <2>3 DEF RowsInOrder
  <2> QED
    BY <2>2, <2>3
<1>8. /\ View' \in Views /\ Announced(View, rollout.unread)'
      /\ Shown(View, rollout.unread)' /\ Owed(View, rollout.unread)'
  <2>1. PICK q \in Seq(Rows) : q = rollout'.unread
    BY <1>4
  <2> QED
    BY <1>b, <1>2, <1>4, <1>5, <2>1, MoreKept
<1>9. Settles(View, rollout.unread)'
  <2>1. phone'.status = "running" => past'.early \/ (daemon' = "up" /\ status' = "running")
    BY <1>2, Before, Fields DEF Settles
  <2> QED
    BY <1>2, <1>4, <2>1, FieldsNext DEF Settles
<1> QED
  BY <1>6, <1>7, <1>8, <1>9, After

LEMMA TwoRows ==
  ASSUME CodexType, Tails, NEW r \in Rows, NEW r2 \in Rows, Write(<< r, r2 >>)
  PROVE  /\ rollout' \in [exists : BOOLEAN, ended : BOOLEAN, unread : Seq(Rows)]
         /\ rollout'.exists
         /\ rollout.unread \in Seq(Rows)
         /\ ~tailing => rollout.unread = << >>
         /\ rollout'.unread = IF tailing THEN Append(Append(rollout.unread, r), r2) ELSE << >>
<1>1. rollout.unread \in Seq(Rows) /\ (~tailing => rollout.unread = << >>) /\ tailing \in BOOLEAN
  BY DEF CodexType, Tails
<1>2. /\ rollout.unread \o << r, r2 >> = Append(Append(rollout.unread, r), r2)
      /\ Append(Append(rollout.unread, r), r2) \in Seq(Rows)
  BY <1>1
<1> DEFINE ended == Last(<< r, r2 >>).kind \in {"header"} \cup LifecycleKinds
           unread == IF tailing THEN Append(Append(rollout.unread, r), r2) ELSE << >>
<1>3. rollout' = [exists |-> TRUE, ended |-> ended, unread |-> unread]
  BY <1>2 DEF Write
<1>4. unread \in Seq(Rows) /\ ended \in BOOLEAN
  BY <1>2
<1> HIDE DEF ended, unread
<1>5. rollout' \in [exists : BOOLEAN, ended : BOOLEAN, unread : Seq(Rows)]
  BY <1>3, <1>4
<1>6. rollout'.exists /\ rollout'.unread = unread
  BY <1>3
<1> QED
  BY <1>1, <1>5, <1>6 DEF unread

LEMMA StopInv == ASSUME IInv, Stop PROVE IInv'
<1>1. /\ codex = "working" /\ codex' = "stopping" /\ Busy /\ Busy'
      /\ UNCHANGED << hooked, prompt, turn, rollout, terminal, daemon, sends >>
      /\ turn \in 1 .. MaxTurns /\ turn # 0 /\ prompt = NoPrompt
  <2>1. CodexType
    BY Before
  <2> QED
    BY <2>1 DEF Stop, Busy, CodexType
<1>2. CASE StopHook
  <2>1. /\ Heard /\ target' \in BOOLEAN
        /\ tailing' = (tailing \/ (status = "none" /\ rollout.exists))
        /\ status' = (IF Tracked THEN "ready" ELSE status)
    <3>1. BecomesView(SendCodexCompletion([View EXCEPT !.status = IF Tracked THEN "ready" ELSE @,
                        !.stop = turn,
                        !.past.lapsed = @ \cup ({stopRecord} \ {0}),
                        !.past.noticed = @ \cup {turn}], turn))
      BY <1>2 DEF StopHook
    <3>2. SendCodexCompletion([View EXCEPT !.status = IF Tracked THEN "ready" ELSE @,
                        !.stop = turn,
                        !.past.lapsed = @ \cup ({stopRecord} \ {0}),
                        !.past.noticed = @ \cup {turn}], turn).status
              = (IF Tracked THEN "ready" ELSE status)
      BY DEF SendCodexCompletion, View
    <3> QED
      BY <1>2, <3>1, <3>2 DEF StopHook, RecordCodexHookActivity, BecomesView
  <2>2. /\ View' \in Views /\ MessagesOf(View') = MessagesOf(View)
        /\ stopRecord' = turn
        /\ past'.noticed = past.noticed \cup {turn}
        /\ past'.lapsed = past.lapsed \cup ({stopRecord} \ {0})
        /\ IF Done
           THEN /\ phone'.completions = [phone.completions EXCEPT ![turn] = @ + 1]
                /\ past'.hushed = past.hushed
                /\ phone'.status = "ready"
           ELSE /\ phone'.completions = phone.completions
                /\ past'.hushed = past.hushed \cup {turn}
                /\ phone'.status = phone.status /\ past'.early = past.early
    BY <1>1, <1>2, StopView
  <2>3. MessagesKept
    BY <2>2, KeptIs
  <2>4. Tails /\ CodexType
    BY Before
  <2>5. CodexType'
    BY <1>1, <2>1, <2>4 DEF CodexType, Busy
  <2>6. Tails'
    BY <1>1, <2>1, <2>4 DEF Tails, Heard, Tracked
  <2>7. RowsInOrder(rollout.unread)'
    BY <1>1, Before DEF RowsInOrder
  <2>8. Announced(View, rollout.unread)'
    <3>1. Announced(View, rollout.unread)
      BY Before
    <3>2. stopRecord' # 0 => stopRecord' \in past'.noticed
      BY <2>2
    <3>3. /\ phone.completions \in [Turns -> Nat] /\ turn \in Turns /\ turn \in Nat
          /\ past.lapsed \subseteq past'.lapsed /\ past.hushed \subseteq past'.hushed
      BY <1>1, <2>2, Before DEF Turns
    <3>4. ASSUME NEW t \in Turns
          PROVE  /\ HookToCome(t)' <=> t > turn
                 /\ HookToCome(t) <=> t > turn \/ t = turn
                 /\ RowToCome(t, rollout.unread)' <=> RowToCome(t, rollout.unread)
      BY <1>1 DEF HookToCome, RowToCome
    <3>5. phone.completions[turn] = 0 /\ turn \notin past.noticed
      BY <3>1, <3>3, <3>4, Fields DEF Announced
    <3>6. ASSUME NEW t \in Turns
          PROVE  LET c == phone'.completions[t] IN
                 /\ HookToCome(t)' => t \notin past'.noticed
                 /\ t \notin past'.noticed => c = 0
                 /\ t \in past'.noticed => c > 0 \/ t \in past'.hushed
                 /\ RowToCome(t, rollout.unread)' =>
                        c <= 1 /\ (c = 1 => stopRecord' = t \/ t \in past'.lapsed)
                 /\ c <= 1 \/ (c = 2 /\ t \in past'.lapsed)
      <4>1. CASE t = turn
        <5>1. phone'.completions[t] = IF Done THEN 1 ELSE 0
          BY <2>2, <3>3, <3>5, <4>1
        <5>2. Done \/ t \in past'.hushed
          BY <2>2, <4>1
        <5> QED
          BY <2>2, <3>3, <3>4, <4>1, <5>1, <5>2
      <4>2. CASE t # turn
        <5>1. phone'.completions[t] = phone.completions[t]
          BY <2>2, <3>3, <4>2
        <5>2. t \in past'.noticed <=> t \in past.noticed
          BY <2>2, <4>2
        <5>3. stopRecord = t => t \in past'.lapsed
          BY <2>2 DEF Turns
        <5>4. LET c == phone.completions[t] IN
              /\ HookToCome(t) => t \notin past.noticed
              /\ t \notin past.noticed => c = 0
              /\ t \in past.noticed => c > 0 \/ t \in past.hushed
              /\ RowToCome(t, rollout.unread) =>
                     c <= 1 /\ (c = 1 => stopRecord = t \/ t \in past.lapsed)
              /\ c <= 1 \/ (c = 2 /\ t \in past.lapsed)
          BY <3>1, Fields DEF Announced
        <5> QED
          BY <3>3, <3>4, <4>2, <5>1, <5>2, <5>3, <5>4
      <4> QED
        BY <4>1, <4>2
    <3> QED
      BY <3>2, <3>6, FieldsNext DEF Announced
  <2>9. Shown(View, rollout.unread)'
    BY <1>1, <2>3, Before, Fields, FieldsNext DEF Shown, MessagesKept
  <2>10. Owed(View, rollout.unread)'
    BY <1>1, <2>3, Before, Fields, FieldsNext DEF Owed, MessagesKept, InPrompt
  <2>11. Settles(View, rollout.unread)'
    <3>1. phone'.status = "running" => past'.early
      BY <2>2, Before, Fields DEF Settles, Done
    <3>2. ~rollout.ended
      BY <1>1, Before DEF Settles
    <3> QED
      BY <1>1, <3>1, <3>2, FieldsNext DEF Settles
  <2> QED
    BY <2>2, <2>5, <2>6, <2>7, <2>8, <2>9, <2>10, <2>11, After
<1>3. CASE NotHeard
  <2>1. UNCHANGED << status, stopRecord, injected, phone, past, tailing, target >> /\ View' = View
    BY <1>3, SameView DEF NotHeard, entryVars
  <2>2. Tails /\ CodexType /\ View \in Views
    BY Before
  <2>3. CodexType' /\ Tails' /\ RowsInOrder(rollout.unread)'
    BY <1>1, <2>1, <2>2, Before DEF CodexType, Busy, Tails, RowsInOrder
  <2>4. Announced(View, rollout.unread)'
    BY <1>1, <2>1, Before, AnnouncedKept DEF HookToCome, RowToCome
  <2>5. Shown(View, rollout.unread)'
    BY <1>1, <2>1, Before, Fields, FieldsNext DEF Shown
  <2>6. Owed(View, rollout.unread)'
    BY <1>1, <2>1, Before, Fields, FieldsNext DEF Owed, InPrompt
  <2>7. Settles(View, rollout.unread)'
    BY <1>1, <2>1, Before, Fields, FieldsNext DEF Settles
  <2> QED
    BY <2>1, <2>2, <2>3, <2>4, <2>5, <2>6, <2>7, After
<1> QED
  BY <1>2, <1>3 DEF Stop

LEMMA EndTurnInv == ASSUME IInv, EndTurn PROVE IInv'
<1>b. PICK s : s = rollout.unread
  OBVIOUS
<1>1. /\ codex \in {"working", "stopping"} /\ codex' = "idle" /\ Busy /\ ~Busy' /\ CodexType
      /\ UNCHANGED << hooked, prompt, turn, terminal, entryVars >>
      /\ UNCHANGED << daemon, tailing, target, sends >>
      /\ UNCHANGED << status, stopRecord, injected, phone, past >>
      /\ turn \in 0 .. MaxTurns /\ turn # 0 /\ s \in Seq(Rows) /\ prompt = NoPrompt
  <2>1. CodexType
    BY Before
  <2> QED
    BY <1>b, <2>1, Before DEF EndTurn, entryVars, daemonVars, CodexType, Busy
<1>2. /\ RowsInOrder(s)' /\ More(s, s)
      /\ \A i \in 1 .. Len(s) : s[i].kind = "completed" => s[i].turn < turn
  BY <1>b, <1>1, Before DEF RowsInOrder, More
<1>3. \A kind \in {"completed", "failed", "interrupt", "aborted"} :
          Row(kind) \in Rows /\ Row(kind).kind = kind /\ Row(kind).turn = turn
  BY <1>1 DEF Row, Rows, Kinds, ItemKinds, LifecycleKinds
<1>4. turn \in Nat /\ turn <= turn
  BY <1>1
<1>5. \E q \in Seq(Rows) :
         /\ rollout' \in [exists : BOOLEAN, ended : BOOLEAN, unread : Seq(Rows)]
         /\ rollout'.exists
         /\ rollout'.unread = (IF tailing THEN q ELSE << >>) /\ (~tailing => s = << >>)
         /\ q # << >> /\ q[Len(q)].kind \in LifecycleKinds
         /\ More(s, q) /\ RowsInOrder(q)'
  <2>1. ASSUME NEW r \in Rows, Write(<< r >>), r.kind \in {"completed", "failed"}, r.turn = turn
        PROVE  \E q \in Seq(Rows) :
         /\ rollout' \in [exists : BOOLEAN, ended : BOOLEAN, unread : Seq(Rows)]
         /\ rollout'.exists
         /\ rollout'.unread = (IF tailing THEN q ELSE << >>) /\ (~tailing => s = << >>)
         /\ q # << >> /\ q[Len(q)].kind \in LifecycleKinds
         /\ More(s, q) /\ RowsInOrder(q)'
    <3>1. /\ rollout' \in [exists : BOOLEAN, ended : BOOLEAN, unread : Seq(Rows)]
          /\ rollout'.exists /\ (~tailing => s = << >>)
          /\ rollout'.unread = IF tailing THEN Append(s, r) ELSE << >>
      BY <1>b, <2>1, Before, OneRow
    <3>2. /\ Append(s, r) \in Seq(Rows) /\ Append(s, r) # << >>
          /\ Append(s, r)[Len(Append(s, r))] = r
      BY <1>1, AppendRow
    <3>3. More(s, Append(s, r))
      BY <1>1, <1>2, <2>1, MoreAppend
    <3>4. RowsInOrder(Append(s, r))'
      BY <1>1, <1>2, <1>4, <2>1, OrderAppend
    <3>5. r.kind \in LifecycleKinds
      BY <2>1 DEF LifecycleKinds
    <3> QED
      BY <3>1, <3>2, <3>3, <3>4, <3>5
  <2>2. CASE codex = "stopping" /\ Write(<< Row("completed") >>)
    BY <1>3, <2>1, <2>2
  <2>3. CASE codex = "working" /\ Write(<< Row("failed") >>)
    BY <1>3, <2>1, <2>3
  <2>4. CASE codex = "working" /\ Write(<< Row("interrupt"), Row("aborted") >>)
    <3>a. PICK r : r = Row("interrupt")
      OBVIOUS
    <3>b. PICK r2 : r2 = Row("aborted")
      OBVIOUS
    <3>1. /\ r \in Rows /\ r.kind = "interrupt" /\ r.turn = turn
          /\ r2 \in Rows /\ r2.kind = "aborted" /\ r2.turn = turn
      BY <1>3, <3>a, <3>b
    <3> DEFINE q == Append(s, r)
    <3>2. /\ rollout' \in [exists : BOOLEAN, ended : BOOLEAN, unread : Seq(Rows)]
          /\ rollout'.exists /\ (~tailing => s = << >>)
          /\ rollout'.unread = IF tailing THEN Append(q, r2) ELSE << >>
      BY <1>b, <2>4, <3>a, <3>b, <3>1, Before, TwoRows
    <3>3. /\ q \in Seq(Rows) /\ Append(q, r2) \in Seq(Rows) /\ Append(q, r2) # << >>
          /\ Append(q, r2)[Len(Append(q, r2))] = r2
      BY <1>1, <3>1, AppendRow
    <3>4. More(s, q) /\ RowsInOrder(q)'
      BY <1>1, <1>2, <1>4, <3>1, MoreAppend, OrderAppend
    <3> HIDE DEF q
    <3>5. More(s, Append(q, r2)) /\ RowsInOrder(Append(q, r2))'
      BY <1>1, <1>2, <1>4, <3>1, <3>3, <3>4, MoreAppend, OrderAppend
    <3>6. r2.kind \in LifecycleKinds
      BY <3>1 DEF LifecycleKinds
    <3> QED
      BY <3>2, <3>3, <3>5, <3>6
  <2> QED
    BY <2>2, <2>3, <2>4 DEF EndTurn
<1>6. PICK q \in Seq(Rows) :
         /\ rollout' \in [exists : BOOLEAN, ended : BOOLEAN, unread : Seq(Rows)]
         /\ rollout'.exists
         /\ rollout'.unread = (IF tailing THEN q ELSE << >>) /\ (~tailing => s = << >>)
         /\ q # << >> /\ q[Len(q)].kind \in LifecycleKinds
         /\ More(s, q) /\ RowsInOrder(q)'
  BY <1>5
<1>7. CodexType' /\ Tails'
  <2>1. Tails
    BY Before
  <2> QED
    BY <1>1, <1>6, <2>1 DEF CodexType, Busy, Tails
<1>8. RowsInOrder(rollout.unread)'
  <2>1. CASE tailing
    BY <1>6, <2>1
  <2>2. CASE ~tailing
    BY <1>6, <2>2 DEF RowsInOrder
  <2> QED
    BY <2>1, <2>2
<1>9. /\ View' \in Views /\ Announced(View, rollout.unread)'
      /\ Shown(View, rollout.unread)' /\ Owed(View, rollout.unread)'
  <2>1. PICK u \in Seq(Rows) : u = rollout'.unread
    BY <1>6
  <2>2. More(s, u)
    BY <1>2, <1>6, <2>1
  <2> QED
    BY <1>b, <1>1, <2>1, <2>2, MoreKept
<1>10. Settles(View, rollout.unread)'
  <2>1. phone'.status = "running" => past'.early \/ (daemon' = "up" /\ status' = "running")
    BY <1>1, Before, Fields DEF Settles
  <2>2. tailing => rollout'.unread = q
    BY <1>6
  <2> QED
    BY <1>1, <1>6, <2>1, <2>2, FieldsNext DEF Settles
<1> QED
  BY <1>7, <1>8, <1>9, <1>10, After

LEMMA ExitInv == ASSUME IInv, Exit PROVE IInv'
<1>1. /\ codex' = "gone" /\ prompt' = NoPrompt /\ ~Busy' /\ CodexType /\ Tails
      /\ UNCHANGED << hooked, turn, rollout, terminal, status, stopRecord, injected, phone >>
      /\ UNCHANGED << daemon, tailing, target, sends >>
      /\ codex = "prompted" \/ prompt = NoPrompt
      /\ codex = "prompted" => prompt \in Prompts
  <2>1. CodexType /\ Tails
    BY Before
  <2> QED
    BY <2>1 DEF Exit, Busy, daemonVars, CodexType
<1>2. past' = IF codex = "prompted" /\ prompt.from = "phone"
              THEN [past EXCEPT !.strayed = @ \cup {prompt.text}] ELSE past
  BY DEF Exit, Strayed
<1>3. /\ past' \in [noticed : SUBSET Turns, hushed : SUBSET Turns, lapsed : SUBSET Turns,
                    strayed : SUBSET Texts, typed : Counts, early : BOOLEAN]
      /\ past'.strayed = IF codex = "prompted" /\ prompt.from = "phone"
                         THEN past.strayed \cup {prompt.text} ELSE past.strayed
      /\ past'.typed = past.typed
      /\ past'.noticed = past.noticed /\ past'.hushed = past.hushed
      /\ past'.lapsed = past.lapsed /\ past'.early = past.early
  <2>1. codex = "prompted" => prompt.text \in Texts
    BY <1>1 DEF Prompts
  <2> QED
    BY <1>2, <2>1, Before
<1>4. View' \in Views
  BY <1>1, <1>3, Before DEF View, Views
<1>5. CodexType' /\ Tails'
  BY <1>1 DEF CodexType, Tails
<1>6. RowsInOrder(rollout.unread)'
  BY <1>1, Before DEF RowsInOrder
<1>7. Announced(View, rollout.unread)'
  <2>1. \A t \in Turns : HookToCome(t)' => HookToCome(t)
    BY <1>1 DEF HookToCome
  <2>2. \A t \in Turns : RowToCome(t, rollout.unread)' => RowToCome(t, rollout.unread)
    BY <1>1 DEF RowToCome
  <2> QED
    BY <1>1, <1>3, <2>1, <2>2, Before, AnnouncedKept
<1>8. Shown(View, rollout.unread)'
  BY <1>1, Before, Fields, FieldsNext DEF Shown
<1>9. Owed(View, rollout.unread)'
  <2> SUFFICES ASSUME NEW t \in Texts \ past'.strayed
               PROVE  /\ injected[t] + past.typed[t] =
                             phone.messages[t] + Count(terminal, {t}) + InPrompt(t)'
                                 + Count(rollout.unread, Echoes(t))
                      /\ phone.messages[t] <= past.typed[t]
    BY <1>1, <1>3, FieldsNext DEF Owed
  <2>1. InPrompt(t)' = InPrompt(t)
    BY <1>1, <1>3 DEF InPrompt, Sent, NoPrompt
  <2>2. t \in Texts \ past.strayed
    BY <1>3
  <2> QED
    BY <2>1, <2>2, Before, Fields DEF Owed
<1>10. Settles(View, rollout.unread)'
  <2>1. phone'.status = "running" => past'.early \/ (daemon' = "up" /\ status' = "running")
    BY <1>1, <1>3, Before, Fields DEF Settles
  <2> QED
    BY <1>1, <2>1, Before, Fields, FieldsNext DEF Settles
<1> QED
  BY <1>4, <1>5, <1>6, <1>7, <1>8, <1>9, <1>10, After

-----------------------------------------------------------------------------
(***************************************************************************)
(* And every step of the daemon.                                           *)
(***************************************************************************)

\* Most of them leave Codex, the rows and the texts alone.
LEMMA CodexKept ==
  ASSUME IInv, UNCHANGED << codexVars, sends >>
  PROVE  /\ UNCHANGED << codex, hooked, prompt, turn, rollout, terminal >>
         /\ target' \in BOOLEAN /\ tailing' \in BOOLEAN /\ daemon' \in {"down", "warming", "up"}
                => CodexType'
         /\ RowsInOrder(rollout.unread)'
         /\ RecordKept => Announced(View, rollout.unread)'
         /\ MessagesKept => Shown(View, rollout.unread)' /\ Owed(View, rollout.unread)'
<1>1. UNCHANGED << codex, hooked, prompt, turn, rollout, terminal, sends >> /\ CodexType
  BY Before DEF codexVars
<1>2. target' \in BOOLEAN /\ tailing' \in BOOLEAN /\ daemon' \in {"down", "warming", "up"}
          => CodexType'
  BY <1>1 DEF CodexType, Busy
<1>3. RowsInOrder(rollout.unread)'
  BY <1>1, Before DEF RowsInOrder, Busy
<1>4. ASSUME RecordKept PROVE Announced(View, rollout.unread)'
  <2>1. /\ \A t \in Turns : HookToCome(t)' => HookToCome(t)
        /\ \A t \in Turns : RowToCome(t, rollout.unread)' => RowToCome(t, rollout.unread)
    BY <1>1 DEF HookToCome, RowToCome, Busy
  <2> QED
    BY <1>4, <2>1, Before, AnnouncedKept DEF RecordKept
<1>5. ASSUME MessagesKept PROVE Shown(View, rollout.unread)'
  BY <1>1, <1>5, Before, Fields, FieldsNext DEF Shown, MessagesKept
<1>6. ASSUME MessagesKept PROVE Owed(View, rollout.unread)'
  BY <1>1, <1>6, Before, Fields, FieldsNext DEF Owed, MessagesKept, InPrompt
<1> QED
  BY <1>1, <1>2, <1>3, <1>4, <1>5, <1>6

LEMMA StartInv == ASSUME IInv, Start PROVE IInv'
<1>1. /\ UNCHANGED << codexVars, sends >> /\ UNCHANGED << tailing, target >>
      /\ daemon = "down" /\ daemon' = "warming"
      /\ UNCHANGED << status, stopRecord, injected, phone, past >> /\ View' = View
  BY SameView DEF Start, entryVars
<1>2. RecordKept /\ MessagesKept
  BY <1>1 DEF RecordKept, MessagesKept
<1>3. CodexType /\ Tails /\ View \in Views
  BY Before
<1>4. CodexType' /\ UNCHANGED << codex, hooked, rollout >>
  BY <1>1, <1>3, CodexKept DEF CodexType
<1>5. Tails'
  BY <1>1, <1>3, <1>4 DEF Tails
<1>6. Settles(View, rollout.unread)'
  BY <1>1, <1>4, Before, Fields, FieldsNext DEF Settles
<1> QED
  BY <1>1, <1>2, <1>3, <1>4, <1>5, <1>6, CodexKept, After

LEMMA ReadNewEntriesInv == ASSUME IInv, ReadNewEntries PROVE IInv'
<1> DEFINE w == FoldLeft(ProcessEntry, View, rollout.unread)
<1>1. /\ UNCHANGED << codex, hooked, prompt, turn, terminal >>
      /\ UNCHANGED << daemon, tailing, target, sends >>
      /\ rollout.unread # << >> /\ BecomesView(w)
      /\ rollout' = [rollout EXCEPT !.unread = << >>]
  BY DEF ReadNewEntries, daemonVars
<1>2. CodexType /\ Tails
  BY Before
<1>3. ViewInv(w, << >>)
  <2>1. ViewInv(View, rollout.unread)
    BY <1>1, <1>2, Before, Fields DEF ViewInv, IInv, Tails
  <2> QED
    BY <1>2, <2>1, Before, AllRead
<1> HIDE DEF w
<1>4. View' = w /\ w \in Views /\ status' = w.status /\ status' # "none"
  BY <1>1, <1>3, NewView, FieldsNext DEF ViewInv
<1>5. /\ rollout' \in [exists : BOOLEAN, ended : BOOLEAN, unread : Seq(Rows)]
      /\ rollout'.unread = << >> /\ rollout'.exists = rollout.exists
      /\ rollout'.ended = rollout.ended
  <2>1. rollout \in [exists : BOOLEAN, ended : BOOLEAN, unread : Seq(Rows)]
    BY <1>2 DEF CodexType
  <2>2. << >> \in Seq(Rows)
    OBVIOUS
  <2> QED
    BY <1>1, <2>1, <2>2
<1>6. CodexType'
  BY <1>1, <1>2, <1>5 DEF CodexType, Busy
<1>7. Tails'
  BY <1>1, <1>2, <1>4, <1>5 DEF Tails
<1>8. RowsInOrder(rollout.unread)'
  BY <1>5 DEF RowsInOrder
<1>9. Announced(View, rollout.unread)'
  BY <1>1, <1>3, <1>4, <1>5 DEF ViewInv, RowsInv, Announced, HookToCome, RowToCome, Busy
<1>10. Shown(View, rollout.unread)'
  BY <1>1, <1>3, <1>4, <1>5 DEF ViewInv, RowsInv, Shown
<1>11. Owed(View, rollout.unread)'
  BY <1>1, <1>3, <1>4, <1>5 DEF ViewInv, RowsInv, Owed, InPrompt
<1>12. Settles(View, rollout.unread)'
  BY <1>1, <1>3, <1>4, <1>5 DEF ViewInv, RowsInv, Settles
<1> QED
  BY <1>4, <1>6, <1>7, <1>8, <1>9, <1>10, <1>11, <1>12, After

LEMMA ReadFailsInv == ASSUME IInv, ReadFails PROVE IInv'
<1> DEFINE w == Failed(View)
<1>1. /\ UNCHANGED << codexVars, sends >> /\ UNCHANGED << tailing, target, daemon >>
      /\ tailing /\ BecomesView(w)
  BY DEF ReadFails, daemonVars
<1>2. CodexType /\ Tails /\ View \in Views
  BY Before
<1>3. /\ w \in Views /\ w.status = "error"
      /\ RecordOf(w) = RecordOf(View) /\ MessagesOf(w) = MessagesOf(View)
      /\ IF Done THEN w.phone.status = "error"
         ELSE w.phone.status = View.phone.status /\ w.past.early = View.past.early
  BY <1>2, FailedView
<1> HIDE DEF w
<1>4. View' = w
  BY <1>1, <1>3, NewView
<1>5. RecordKept /\ MessagesKept /\ status' = "error"
  BY <1>3, <1>4, KeptIs, FieldsNext
<1>6. CodexType' /\ UNCHANGED << codex, hooked, rollout >>
  BY <1>1, <1>2, CodexKept DEF CodexType
<1>7. Tails'
  BY <1>1, <1>2, <1>5, <1>6 DEF Tails
<1>8. Settles(View, rollout.unread)'
  <2>1. phone'.status = "running" => past'.early
    BY <1>3, <1>4, Before, Fields, FieldsNext DEF Settles, Done
  <2> QED
    BY <1>5, <1>6, <2>1, Before, FieldsNext DEF Settles
<1> QED
  BY <1>1, <1>3, <1>4, <1>5, <1>6, <1>7, <1>8, CodexKept, After

LEMMA StopRecordExpiresInv == ASSUME IInv, StopRecordExpires PROVE IInv'
<1>1. /\ UNCHANGED << codexVars, sends >> /\ UNCHANGED << tailing, target, daemon >>
      /\ UNCHANGED << status, injected, phone >>
      /\ stopRecord # 0 /\ stopRecord' = 0
      /\ past' = [past EXCEPT !.lapsed = @ \cup {stopRecord}]
  BY DEF StopRecordExpires, daemonVars
<1>2. CodexType /\ Tails /\ stopRecord \in Turns
  BY <1>1, Before DEF Turns
<1>3. /\ past' \in [noticed : SUBSET Turns, hushed : SUBSET Turns, lapsed : SUBSET Turns,
                    strayed : SUBSET Texts, typed : Counts, early : BOOLEAN]
      /\ past'.lapsed = past.lapsed \cup {stopRecord} /\ past'.strayed = past.strayed
      /\ past'.typed = past.typed
      /\ past'.noticed = past.noticed /\ past'.hushed = past.hushed /\ past'.early = past.early
  BY <1>1, <1>2, Before
<1>4. View' \in Views
  <2>1. 0 \in 0 .. MaxTurns
    BY CodexAssumption
  <2> QED
    BY <1>1, <1>3, <2>1, Before DEF View, Views
<1>5. MessagesKept
  BY <1>1, <1>3 DEF MessagesKept
<1>6. CodexType' /\ UNCHANGED << codex, hooked, turn, rollout >>
  BY <1>1, <1>2, CodexKept DEF CodexType
<1>7. Tails'
  BY <1>1, <1>2, <1>6 DEF Tails
<1>8. Announced(View, rollout.unread)'
  BY <1>1, <1>3, <1>6, Before, Fields, FieldsNext DEF Announced, HookToCome, RowToCome, Busy
<1>9. Settles(View, rollout.unread)'
  BY <1>1, <1>3, <1>6, Before, Fields, FieldsNext DEF Settles
<1> QED
  BY <1>1, <1>4, <1>5, <1>6, <1>7, <1>8, <1>9, CodexKept, After

LEMMA NextStatusIs ==
  ASSUME NEW st \in Statuses
  PROVE  /\ NextStatus(st) \in Statuses /\ NextStatus(st) # "none"
         /\ NextStatus(st) = "running" => st = "running"
BY DEF NextStatus, Statuses

LEMMA DiscoverInv == ASSUME IInv, Discover PROVE IInv'
<1>1. /\ UNCHANGED << codexVars, target, sends >> /\ daemon # "down" /\ daemon' = "up"
      /\ CodexType /\ Tails /\ View \in Views /\ status \in Statuses
  BY Before DEF Discover
<1>2. UNCHANGED << codex, hooked, prompt, turn, rollout, terminal >>
  BY <1>1 DEF codexVars
<1>3. /\ View' \in Views /\ RecordKept /\ MessagesKept
      /\ tailing' \in BOOLEAN /\ (tailing => tailing')
      /\ tailing' => status' # "none" /\ rollout.exists
      /\ phone'.status = "running" => past'.early \/ status' = "running"
      /\ tailing' /\ status' = "running" => tailing /\ status = "running"
  <2>1. CASE ~rollout.exists /\ UNCHANGED << entryVars, tailing >>
    <3>1. UNCHANGED << status, stopRecord, injected, phone, past, tailing >> /\ View' = View
      BY <2>1, SameView DEF entryVars
    <3> QED
      BY <1>1, <3>1, Before, Fields DEF RecordKept, MessagesKept, CodexType, Tails, Settles
  <2>2. CASE /\ rollout.exists /\ status # "none"
             /\ BecomesView(StatusChange(View, NextStatus(status)))
             /\ UNCHANGED tailing
    <3> DEFINE st == NextStatus(status)
               w == StatusChange(View, st)
    <3>1. st \in Statuses /\ st # "none" /\ (st = "running" => status = "running")
      BY <1>1, NextStatusIs
    <3>2. /\ w \in Views /\ w.status = st
          /\ RecordOf(w) = RecordOf(View) /\ MessagesOf(w) = MessagesOf(View)
          /\ IF View.status # st /\ Done THEN w.phone.status = st
             ELSE w.phone.status = View.phone.status /\ w.past.early = View.past.early
      BY <1>1, <3>1, StatusChangeView
    <3>3. BecomesView(w)
      BY <2>2
    <3> HIDE DEF w, st
    <3>4. View' = w
      BY <3>2, <3>3, NewView
    <3>5. RecordKept /\ MessagesKept
      BY <3>2, <3>4, KeptIs
    <3>6. status' = st /\ tailing' = tailing
      BY <2>2, <3>2, <3>4, FieldsNext
    <3>7. phone'.status = "running" => past'.early \/ status' = "running"
      <4>1. phone.status = "running" => past.early \/ (Done /\ status = "running")
        BY Before, Fields DEF Settles, Done
      <4>2. CASE status # st /\ Done
        BY <3>2, <3>4, <3>6, <4>2, Fields, FieldsNext
      <4>3. CASE ~(status # st /\ Done)
        <5>1. phone'.status = phone.status /\ past'.early = past.early
          BY <3>2, <3>4, <4>3, Fields, FieldsNext
        <5> QED
          BY <3>6, <4>1, <4>3, <5>1
      <4> QED
        BY <4>2, <4>3
    <3>8. tailing \in BOOLEAN
      BY <1>1 DEF CodexType
    <3> QED
      BY <2>2, <3>1, <3>2, <3>4, <3>5, <3>6, <3>7, <3>8
  <2>3. CASE /\ rollout.exists /\ status = "none"
             /\ BecomesView([View EXCEPT !.status = NextStatus("none")])
             /\ tailing' = TRUE
    <3> DEFINE st == NextStatus("none")
               w == [View EXCEPT !.status = st]
    <3>1. st \in Statuses /\ st # "none" /\ st # "running"
      BY NextStatusIs DEF Statuses
    <3> HIDE DEF st
    <3>2. /\ w \in Views /\ w.status = st /\ w.phone = View.phone /\ w.past = View.past
          /\ RecordOf(w) = RecordOf(View) /\ MessagesOf(w) = MessagesOf(View)
      BY <1>1, <3>1 DEF Views, RecordOf, MessagesOf
    <3>3. BecomesView(w)
      BY <2>3 DEF st
    <3> HIDE DEF w
    <3>4. View' = w
      BY <3>2, <3>3, NewView
    <3>5. RecordKept /\ MessagesKept
      BY <3>2, <3>4, KeptIs
    <3>6. status' = st /\ phone' = phone /\ past' = past
      BY <3>2, <3>4, Fields, FieldsNext
    <3>7. phone'.status = "running" => past'.early
      BY <2>3, <3>6, Before, Fields DEF Settles
    <3> QED
      BY <2>3, <3>1, <3>2, <3>4, <3>5, <3>6, <3>7
  <2> QED
    BY <2>1, <2>2, <2>3 DEF Discover
<1>4. CodexType'
  BY <1>1, <1>3, CodexKept DEF CodexType
<1>5. Tails'
  BY <1>1, <1>2, <1>3 DEF Tails
<1>6. Settles(View, rollout.unread)'
  <2>1. tailing' /\ status' = "running" /\ rollout.ended /\ rollout.unread = << >>
            => codex \in {"prompted", "gone"} /\ hooked
    BY <1>3, Before, Fields DEF Settles
  <2> QED
    BY <1>1, <1>2, <1>3, <2>1, Before, FieldsNext DEF Settles
<1> QED
  BY <1>1, <1>3, <1>4, <1>5, <1>6, CodexKept, After

LEMMA ListSessionsInv == ASSUME IInv, ListSessions PROVE IInv'
<1> DEFINE st == NextStatus(status)
           w == [View EXCEPT !.phone.status = st, !.past.early = ~Done]
<1>1. /\ UNCHANGED << codexVars, sends >> /\ UNCHANGED << daemon, tailing >>
      /\ target' \in BOOLEAN /\ BecomesView(w)
      /\ CodexType /\ Tails /\ View \in Views
      /\ st \in Statuses /\ (st = "running" => status = "running")
  BY Before, NextStatusIs DEF ListSessions, HasTerminal, Live
<1> HIDE DEF st
<1>2. /\ w \in Views /\ w.status = View.status /\ w.phone.status = st /\ w.past.early = ~Done
      /\ RecordOf(w) = RecordOf(View) /\ MessagesOf(w) = MessagesOf(View)
  <2>1. (~Done) \in BOOLEAN
    OBVIOUS
  <2> QED
    BY <1>1, <2>1 DEF Views, RecordOf, MessagesOf
<1> HIDE DEF w
<1>3. View' = w
  BY <1>1, <1>2, NewView
<1>4. RecordKept /\ MessagesKept
  BY <1>2, <1>3, KeptIs
<1>5. status' = status /\ phone'.status = st /\ past'.early = ~Done
  BY <1>2, <1>3, Fields, FieldsNext
<1>6. CodexType' /\ UNCHANGED << codex, hooked, rollout >>
  BY <1>1, CodexKept DEF CodexType
<1>7. Tails'
  BY <1>1, <1>5, <1>6 DEF Tails
<1>8. Settles(View, rollout.unread)'
  <2>1. phone'.status = "running" => past'.early \/ (daemon' = "up" /\ status' = "running")
    BY <1>1, <1>5 DEF Done
  <2> QED
    BY <1>1, <1>5, <1>6, <2>1, Before, Fields, FieldsNext DEF Settles
<1> QED
  BY <1>1, <1>2, <1>3, <1>4, <1>6, <1>7, <1>8, CodexKept, After

LEMMA SendCodexMessageInv ==
  ASSUME IInv, NEW t \in Texts, SendCodexMessage(t)
  PROVE  IInv'
<1>1. /\ UNCHANGED << codex, hooked, prompt, turn, rollout >>
      /\ UNCHANGED << status, stopRecord, phone, past, daemon, tailing >>
      /\ sends < MaxSends /\ sends' = sends + 1 /\ target' = TRUE
      /\ CodexType /\ Tails /\ sends \in Nat /\ terminal \in Seq(Texts) /\ injected \in Counts
  BY Before DEF SendCodexMessage, CodexType
<1>2. \/ terminal' = Append(terminal, t) /\ injected' = [injected EXCEPT ![t] = @ + 1]
      \/ terminal' = terminal /\ injected' = injected
  BY DEF SendCodexMessage
<1>3. terminal' \in Seq(Texts) /\ injected' \in Counts
  <2>1. Append(terminal, t) \in Seq(Texts)
    BY <1>1, AppendProperties
  <2>2. [injected EXCEPT ![t] = @ + 1] \in Counts
    BY <1>1 DEF Counts
  <2> QED
    BY <1>1, <1>2, <2>1, <2>2
<1>4. View' \in Views
  BY <1>1, <1>3, Before DEF View, Views
<1>5. CodexType'
  <2>1. sends' \in 0 .. MaxSends
    BY <1>1, CodexAssumption
  <2> QED
    BY <1>1, <1>3, <2>1 DEF CodexType, Busy
<1>6. Tails' /\ RowsInOrder(rollout.unread)'
  BY <1>1, Before DEF Tails, RowsInOrder, Busy
<1>7. Announced(View, rollout.unread)'
  BY <1>1, Before, AnnouncedKept DEF HookToCome, RowToCome, Busy
<1>8. Shown(View, rollout.unread)'
  <2> SUFFICES ASSUME NEW u \in Texts
               PROVE  injected'[u] <= sends'
    BY <1>1, Before, Fields, FieldsNext DEF Shown
  <2>1. injected[u] \in Nat /\ injected[u] <= sends
    BY <1>1, Before, Fields DEF Counts, Shown
  <2> QED
    BY <1>1, <1>2, <2>1 DEF Counts
<1>9. Owed(View, rollout.unread)'
  <2> SUFFICES ASSUME NEW u \in Texts \ past.strayed
               PROVE  injected'[u] + past.typed[u] =
                             phone.messages[u] + Count(terminal', {u}) + InPrompt(u)
                                 + Count(rollout.unread, Echoes(u))
    BY <1>1, Before, Fields, FieldsNext DEF Owed, InPrompt
  <2>1. injected[u] + past.typed[u] =
               phone.messages[u] + Count(terminal, {u}) + InPrompt(u)
                   + Count(rollout.unread, Echoes(u))
    BY Before, Fields DEF Owed
  <2>2. /\ injected[u] \in Nat /\ past.typed[u] \in Nat /\ phone.messages[u] \in Nat
        /\ Count(terminal, {u}) \in Nat /\ InPrompt(u) \in Nat
        /\ Count(rollout.unread, Echoes(u)) \in Nat
    BY <1>1, Before, HitsFinite DEF Counts, InPrompt
  <2>3. CASE terminal' = terminal /\ injected' = injected
    BY <2>1, <2>3
  <2>4. CASE terminal' = Append(terminal, t) /\ injected' = [injected EXCEPT ![t] = @ + 1]
    <3>1. Count(terminal', {u}) = Count(terminal, {u}) + (IF t \in {u} THEN 1 ELSE 0)
      BY <1>1, <2>4, CountAppend
    <3>2. injected'[u] = injected[u] + (IF t \in {u} THEN 1 ELSE 0)
      BY <1>1, <2>2, <2>4 DEF Counts
    <3> QED
      BY <2>1, <2>2, <3>1, <3>2
  <2> QED
    BY <1>2, <2>3, <2>4
<1>10. Settles(View, rollout.unread)'
  BY <1>1, Before, Fields, FieldsNext DEF Settles
<1> QED
  BY <1>4, <1>5, <1>6, <1>7, <1>8, <1>9, <1>10, After

\* Texts that are not in flight are in no terminal and in no row.
LEMMA NotInFlight ==
  ASSUME IInv, NEW t \in Texts, t \notin InFlight
  PROVE  /\ injected[t] = 0 /\ InPrompt(t) = 0 /\ Count(terminal, {t}) = 0
         /\ Count(rollout.unread, Echoes(t)) = 0
<1>1. /\ ~(injected[t] > 0) /\ t # prompt.text
      /\ \A i \in DOMAIN terminal : terminal[i] # t
      /\ \A i \in DOMAIN rollout.unread : rollout.unread[i].prompt.text # t
  BY DEF InFlight
<1>2. injected[t] = 0 /\ InPrompt(t) = 0
  BY <1>1, Before DEF Counts, InPrompt, Sent
<1>3. Hits(terminal, {t}) = {}
  <2>1. terminal \in Seq(Texts)
    BY Before DEF CodexType
  <2> QED
    BY <1>1, <2>1 DEF Hits
<1>4. Hits(rollout.unread, Echoes(t)) = {}
  <2>1. rollout.unread \in Seq(Rows)
    BY Before
  <2>2. \A r \in Echoes(t) : r.prompt.text = t
    BY DEF Echoes, Sent
  <2> QED
    BY <1>1, <2>1, <2>2 DEF Hits
<1> QED
  BY <1>2, <1>3, <1>4, FS_EmptySet DEF Count

\* What is left when the observer stops: no rows, and what was in flight strays.
LEMMA StoppedKept ==
  ASSUME IInv,
         UNCHANGED << codex, hooked, prompt, turn, terminal, sends >>,
         rollout' = [rollout EXCEPT !.unread = << >>],
         phone'.messages = phone.messages, past'.typed = past.typed,
         past'.strayed = past.strayed \cup InFlight,
         injected' \in {injected, Nobody}
  PROVE  /\ rollout' \in [exists : BOOLEAN, ended : BOOLEAN, unread : Seq(Rows)]
         /\ rollout'.unread = << >>
         /\ RowsInOrder(rollout.unread)' /\ Shown(View, rollout.unread)'
         /\ Owed(View, rollout.unread)'
         /\ \A t \in Turns : HookToCome(t)' => HookToCome(t)
         /\ \A t \in Turns : RowToCome(t, rollout.unread)' => RowToCome(t, rollout.unread)
<1>1. rollout' \in [exists : BOOLEAN, ended : BOOLEAN, unread : Seq(Rows)] /\ rollout'.unread = << >>
  <2>1. rollout \in [exists : BOOLEAN, ended : BOOLEAN, unread : Seq(Rows)]
    BY Before DEF CodexType
  <2>2. << >> \in Seq(Rows)
    OBVIOUS
  <2> QED
    BY <2>1, <2>2
<1>2. RowsInOrder(rollout.unread)'
  BY <1>1 DEF RowsInOrder
<1>3. Shown(View, rollout.unread)'
  <2> SUFFICES ASSUME NEW t \in Texts
               PROVE  /\ injected'[t] <= sends /\ phone.messages[t] <= turn
                      /\ codex = "prompted" => phone.messages[t] < turn
    BY <1>1, FieldsNext DEF Shown
  <2>1. /\ injected[t] <= sends /\ phone.messages[t] <= turn /\ 0 <= sends
        /\ codex = "prompted" => phone.messages[t] < turn
    BY Before, Fields DEF Shown
  <2> QED
    BY <2>1 DEF Nobody
<1>4. Owed(View, rollout.unread)'
  <2> SUFFICES ASSUME NEW t \in Texts \ (past.strayed \cup InFlight)
               PROVE  /\ injected'[t] + past.typed[t] =
                             phone.messages[t] + Count(terminal, {t}) + InPrompt(t)
                                 + Count(<< >>, Echoes(t))
                      /\ phone.messages[t] <= past.typed[t]
    BY <1>1, FieldsNext DEF Owed, InPrompt
  <2>1. /\ injected[t] = 0 /\ InPrompt(t) = 0 /\ Count(terminal, {t}) = 0
        /\ Count(rollout.unread, Echoes(t)) = 0
    BY NotInFlight
  <2>2. injected'[t] = 0
    BY <2>1 DEF Nobody
  <2>3. /\ injected[t] + past.typed[t] = phone.messages[t] + Count(terminal, {t}) + InPrompt(t)
                                             + Count(rollout.unread, Echoes(t))
        /\ phone.messages[t] <= past.typed[t]
    BY Before, Fields DEF Owed
  <2> QED
    BY <2>1, <2>2, <2>3, CountEmpty
<1>5. /\ \A t \in Turns : HookToCome(t)' => HookToCome(t)
      /\ \A t \in Turns : RowToCome(t, rollout.unread)' => RowToCome(t, rollout.unread)
  BY <1>1 DEF HookToCome, RowToCome, Busy
<1> QED
  BY <1>1, <1>2, <1>3, <1>4, <1>5

LEMMA KillSessionInv == ASSUME IInv, KillSession PROVE IInv'
<1> DEFINE strayed == past.strayed \cup InFlight
           w == [View EXCEPT !.status = "history", !.phone.status = "history",
                             !.past.early = FALSE, !.past.strayed = strayed]
<1>1. /\ UNCHANGED << codex, hooked, prompt, turn, terminal, daemon, target, sends >>
      /\ status # "none" /\ tailing' = FALSE
      /\ rollout' = [rollout EXCEPT !.unread = << >>]
      /\ BecomesView(w) /\ CodexType /\ Tails /\ View \in Views
  BY Before, Fields DEF KillSession
<1>2. strayed \in SUBSET Texts
  BY Before DEF InFlight
<1> HIDE DEF strayed
<1>3. /\ w \in Views /\ w.status = "history" /\ w.phone.status = "history"
      /\ RecordOf(w) = RecordOf(View) /\ w.injected = View.injected
      /\ w.phone.messages = View.phone.messages /\ w.past.typed = View.past.typed
      /\ w.past.strayed = strayed
  BY <1>1, <1>2 DEF Views, RecordOf, Statuses
<1> HIDE DEF w
<1>4. View' = w
  BY <1>1, <1>3, NewView
<1>5. /\ RecordKept /\ status' = "history" /\ phone'.status = "history"
      /\ injected' = injected /\ phone'.messages = phone.messages /\ past'.typed = past.typed
      /\ past'.strayed = past.strayed \cup InFlight
  BY <1>3, <1>4, KeptIs, Fields, FieldsNext DEF strayed
<1>6. /\ rollout' \in [exists : BOOLEAN, ended : BOOLEAN, unread : Seq(Rows)]
      /\ rollout'.unread = << >>
      /\ RowsInOrder(rollout.unread)' /\ Shown(View, rollout.unread)'
      /\ Owed(View, rollout.unread)'
      /\ \A t \in Turns : HookToCome(t)' => HookToCome(t)
      /\ \A t \in Turns : RowToCome(t, rollout.unread)' => RowToCome(t, rollout.unread)
  BY <1>1, <1>5, StoppedKept
<1>7. CodexType'
  BY <1>1, <1>6 DEF CodexType, Busy
<1>8. Tails'
  BY <1>1, <1>5, <1>6 DEF Tails
<1>9. Announced(View, rollout.unread)'
  BY <1>5, <1>6, Before, AnnouncedKept DEF RecordKept
<1>10. Settles(View, rollout.unread)'
  <2>1. rollout'.ended = rollout.ended
    BY <1>1 DEF CodexType
  <2> QED
    BY <1>1, <1>5, <1>6, <2>1, Before, FieldsNext DEF Settles
<1> QED
  BY <1>3, <1>4, <1>6, <1>7, <1>8, <1>9, <1>10, After

LEMMA CrashInv == ASSUME IInv, Crash PROVE IInv'
<1>1. /\ UNCHANGED << codex, hooked, prompt, turn, terminal, phone, sends >>
      /\ daemon' = "down" /\ tailing' = FALSE /\ status' = "none" /\ target' = FALSE
      /\ stopRecord' = 0 /\ injected' = Nobody
      /\ rollout' = [rollout EXCEPT !.unread = << >>]
      /\ past' = [past EXCEPT !.lapsed = @ \cup ({stopRecord} \ {0}),
                              !.strayed = @ \cup InFlight,
                              !.early = TRUE]
      /\ CodexType
  BY Before DEF Crash
<1>2. /\ past' \in [noticed : SUBSET Turns, hushed : SUBSET Turns, lapsed : SUBSET Turns,
                    strayed : SUBSET Texts, typed : Counts, early : BOOLEAN]
      /\ past'.lapsed = past.lapsed \cup ({stopRecord} \ {0})
      /\ past'.strayed = past.strayed \cup InFlight /\ past'.early
      /\ past'.noticed = past.noticed /\ past'.hushed = past.hushed /\ past'.typed = past.typed
  <2>1. /\ past.lapsed \cup ({stopRecord} \ {0}) \in SUBSET Turns
        /\ past.strayed \cup InFlight \in SUBSET Texts
    BY Before DEF Turns, InFlight
  <2> QED
    BY <1>1, <2>1, Before
<1>3. View' \in Views
  <2>1. 0 \in 0 .. MaxTurns /\ Nobody \in Counts /\ "none" \in Statuses
    BY CodexAssumption DEF Nobody, Counts, Statuses
  <2> QED
    BY <1>1, <1>2, <2>1, Before DEF View, Views
<1>4. /\ rollout' \in [exists : BOOLEAN, ended : BOOLEAN, unread : Seq(Rows)]
      /\ rollout'.unread = << >>
      /\ RowsInOrder(rollout.unread)' /\ Shown(View, rollout.unread)'
      /\ Owed(View, rollout.unread)'
      /\ \A t \in Turns : HookToCome(t)' => HookToCome(t)
      /\ \A t \in Turns : RowToCome(t, rollout.unread)' => RowToCome(t, rollout.unread)
  BY <1>1, <1>2, StoppedKept
<1>5. CodexType'
  BY <1>1, <1>4 DEF CodexType, Busy
<1>6. Tails'
  BY <1>1, <1>4 DEF Tails
<1>7. Announced(View, rollout.unread)'
  <2>1. Announced(View, rollout.unread)
    BY Before
  <2>2. \A t \in Turns : stopRecord = t => t \in past'.lapsed
    BY <1>2 DEF Turns
  <2>3. past.lapsed \subseteq past'.lapsed
    BY <1>2
  <2> QED
    BY <1>1, <1>2, <1>4, <2>1, <2>2, <2>3, Fields, FieldsNext DEF Announced
<1>8. Settles(View, rollout.unread)'
  <2>1. rollout'.ended = rollout.ended
    BY <1>1 DEF CodexType
  <2> QED
    BY <1>1, <1>2, <1>4, <2>1, Before, FieldsNext DEF Settles
<1> QED
  BY <1>3, <1>4, <1>5, <1>6, <1>7, <1>8, After

-----------------------------------------------------------------------------
(***************************************************************************)
(* The theorems.                                                           *)
(***************************************************************************)

LEMMA NextInv == ASSUME IInv, [Next]_vars PROVE IInv'
<1>1. CASE Next
  BY <1>1, LaunchInv, SubmitInv, SwallowInv, WritePromptInv, WorkInv, StopInv, EndTurnInv,
     ExitInv, StartInv, ReadNewEntriesInv, ReadFailsInv, StopRecordExpiresInv, DiscoverInv,
     ListSessionsInv, SendCodexMessageInv, KillSessionInv, CrashInv DEF Next
<1>2. CASE UNCHANGED vars
  <2>1. /\ UNCHANGED << codex, hooked, prompt, turn, rollout, terminal >>
        /\ UNCHANGED << status, stopRecord, injected, phone, past >>
        /\ UNCHANGED << daemon, tailing, target, sends, starts >>
    BY <1>2 DEF vars, codexVars, entryVars, daemonVars
  <2>2. View' = View
    BY <2>1 DEF View
  <2>3. CodexType' /\ Tails'
    BY <2>1, Before DEF CodexType, Tails, Busy
  <2>4. /\ RowsInOrder(rollout.unread)' /\ Announced(View, rollout.unread)'
        /\ Shown(View, rollout.unread)'
    BY <2>1, <2>2, Before DEF RowsInOrder, Announced, Shown, HookToCome, RowToCome, Busy
  <2>5. Owed(View, rollout.unread)' /\ Settles(View, rollout.unread)'
    BY <2>1, <2>2, Before DEF Owed, Settles, InPrompt
  <2> QED
    BY <2>2, <2>3, <2>4, <2>5, Before, After
<1> QED
  BY <1>1, <1>2

\* The invariant holds in every state.
THEOREM CodexInvariant == Spec => []IInv
<1>1. Init => IInv
  BY InitInv
<1>2. IInv /\ [Next]_vars => IInv'
  BY NextInv
<1> QED
  BY <1>1, <1>2, PTL DEF Spec

LEMMA TypeFromInv == ASSUME IInv PROVE CodexTypeOK
<1>1. /\ CodexType /\ Tails /\ sends \in 0 .. MaxSends /\ turn \in 0 .. MaxTurns
      /\ injected \in Counts /\ phone.messages \in Counts /\ phone.completions \in [Turns -> Nat]
  BY Before DEF CodexType
<1>2. injected \in [Texts -> 0 .. MaxSends]
  <2>1. ASSUME NEW t \in Texts PROVE injected[t] \in Nat /\ injected[t] <= sends
    BY <1>1, Before, Fields DEF Counts, Shown
  <2>2. ASSUME NEW t \in Texts PROVE injected[t] \in 0 .. MaxSends
    BY <1>1, <2>1, CodexAssumption
  <2> QED
    BY <1>1, <2>2 DEF Counts
<1>3. phone.messages \in [Texts -> 0 .. MaxTurns]
  <2>1. ASSUME NEW t \in Texts PROVE phone.messages[t] \in Nat /\ phone.messages[t] <= turn
    BY <1>1, Before, Fields DEF Counts, Shown
  <2>2. ASSUME NEW t \in Texts PROVE phone.messages[t] \in 0 .. MaxTurns
    BY <1>1, <2>1, CodexAssumption
  <2> QED
    BY <1>1, <2>2 DEF Counts
<1>4. phone.completions \in [Turns -> 0 .. 2]
  <2>1. ASSUME NEW t \in Turns PROVE phone.completions[t] \in 0 .. 2
    <3>1. phone.completions[t] \in Nat
      BY <1>1
    <3>2. phone.completions[t] <= 1 \/ phone.completions[t] = 2
      BY Before, Fields DEF Announced
    <3> QED
      BY <3>1, <3>2
  <2> QED
    BY <1>1, <2>1
<1>5. /\ status \in Statuses /\ phone.status \in Statuses /\ stopRecord \in 0 .. MaxTurns
  BY Before
<1>6. /\ codex \in {"gone", "idle", "prompted", "working", "stopping"}
      /\ hooked \in BOOLEAN /\ target \in BOOLEAN
      /\ prompt \in Prompts \cup {NoPrompt} /\ turn \in 0 .. MaxTurns
      /\ rollout.exists \in BOOLEAN /\ rollout.ended \in BOOLEAN /\ rollout.unread \in Seq(Rows)
      /\ terminal \in Seq(Texts)
      /\ daemon \in {"down", "warming", "up"} /\ tailing \in BOOLEAN
  BY <1>1 DEF CodexType, Busy
<1>7. /\ tailing => status # "none" /\ rollout.exists
      /\ rollout.unread # << >> => tailing
      /\ daemon = "down" => status = "none"
  BY <1>1 DEF Tails
<1> QED
  BY <1>2, <1>3, <1>4, <1>5, <1>6, <1>7 DEF CodexTypeOK

LEMMA AnnouncedFromInv == ASSUME IInv PROVE TurnsAnnounced
<1> SUFFICES ASSUME NEW t \in past.noticed
             PROVE  phone.completions[t] \in (IF t \in past.hushed THEN 0 ELSE 1)
                                           .. (IF t \in past.lapsed THEN 2 ELSE 1)
  BY DEF TurnsAnnounced
<1>1. t \in Turns /\ phone.completions[t] \in Nat
  BY Before
<1>2. LET c == phone.completions[t] IN
      /\ c > 0 \/ t \in past.hushed
      /\ c <= 1 \/ (c = 2 /\ t \in past.lapsed)
  BY <1>1, Before, Fields DEF Announced
<1> QED
  BY <1>1, <1>2

LEMMA SettlesFromInv == ASSUME IInv PROVE StatusSettles
BY Before, Fields DEF StatusSettles, Quiet, Settles

LEMMA EchoesFromInv == ASSUME IInv PROVE EchoesHidden
<1> SUFFICES ASSUME Quiet, terminal = << >>, NEW t \in Texts \ past.strayed
             PROVE  phone.messages[t] = past.typed[t]
  BY DEF EchoesHidden
<1>1. InPrompt(t) = 0 /\ Count(terminal, {t}) = 0 /\ Count(rollout.unread, Echoes(t)) = 0
  BY CountEmpty, Before DEF Quiet, CodexType, InPrompt, NoPrompt, Sent
<1>2. /\ injected[t] + past.typed[t] = phone.messages[t] + Count(terminal, {t}) + InPrompt(t)
                                           + Count(rollout.unread, Echoes(t))
      /\ phone.messages[t] <= past.typed[t]
  BY Before, Fields DEF Owed
<1>3. injected[t] \in Nat /\ past.typed[t] \in Nat /\ phone.messages[t] \in Nat
  BY Before DEF Counts
<1> QED
  BY <1>1, <1>2, <1>3

\* The type of the state: in particular no text is counted more often than the
\* phone sent a message, no turn is announced three times, and no text is shown
\* more often than turns were begun.
THEOREM CodexTypeCorrect == Spec => []CodexTypeOK
<1>1. IInv => CodexTypeOK
  BY TypeFromInv
<1> QED
  BY <1>1, CodexInvariant, PTL

\* A turn that was noticed to end is announced, and once: the stop hook and the
\* rollout's completed row, whichever of them is seen, make one completion.
THEOREM TurnsAreAnnounced == Spec => []TurnsAnnounced
<1>1. IInv => TurnsAnnounced
  BY AnnouncedFromInv
<1> QED
  BY <1>1, CodexInvariant, PTL

\* When nothing is going on, the session is not left RUNNING, and the phone does
\* not show it so unless it was told too early.
THEOREM StatusIsSettled == Spec => []StatusSettles
<1>1. IInv => StatusSettles
  BY SettlesFromInv
<1> QED
  BY <1>1, CodexInvariant, PTL

\* When nothing is going on and on its way, the phone was shown every message
\* typed at the terminal, and no echo of its own.
THEOREM EchoesAreHidden == Spec => []EchoesHidden
<1>1. IInv => EchoesHidden
  BY EchoesFromInv
<1> QED
  BY <1>1, CodexInvariant, PTL

================================================================================
