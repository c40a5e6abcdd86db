------------------------- MODULE SessionBindingProofs -------------------------
(***************************************************************************)
(* Theorems about SessionBinding, for every set of terminals and every     *)
(* bound: which terminal a session is bound to, what the list of the phone *)
(* says of it, and that the journal on disk agrees with the records.       *)
(***************************************************************************)
EXTENDS SessionBinding, SequenceTheorems, FiniteSetTheorems, TLAPS

\* Only the facts about sub-sequences are used: the operator of the folds is
\* whichever.
AnyStep(p, v, e) == v
Facts == INSTANCE SequenceFacts WITH Op <- AnyStep

-----------------------------------------------------------------------------
(* The inductive invariant.                                                 *)

\* Session c may be shown on terminal p.
Family(c, p) == IF Alone(p) THEN c \in ran[p]
                ELSE \E q \in Pids : ~ Alone(q) /\ c \in ran[q]

\* c is the session that p began last.
IsLatest(c, p) == \A d \in ran[p] : d <= c

\* Sessions are numbered in the order in which they begin, and <pid>.json is of
\* the first one of its process.
WorldOK ==
    \A p \in Pids :
        /\ \A c \in ran[p] : c \in Sids /\ c < nextSid
        /\ runs[p] = NotRunning => ran[p] = {} /\ hook[p] = << >>
        /\ runs[p] # NotRunning => pidJson[p] \in ran[p]
        /\ Alive(p) => runs[p] \in ran[p] /\ IsLatest(runs[p], p)
        /\ (Alive(p) /\ runs[p] = pidJson[p]) => ran[p] = {runs[p]}

\* Hooks tell of their own process: SessionStart of the session it began last,
\* SessionEnd, which is sent before it, of the one before that.
HooksOK ==
    \A p \in Pids : \A i \in DOMAIN hook[p] :
        LET h == hook[p][i]
        IN  /\ h.claude \in ran[p]
            /\ h.event = "session_start" => IsLatest(h.claude, p)
            /\ (h.event = "session_start" /\ h.source = "resume") => ran[p] = {h.claude}
            /\ h.event = "session_end" =>
                  i = 1 /\ \A d \in ran[p] : d > h.claude => IsLatest(d, p)

\* A process on its own writes its transcripts one after the other.
DiskOK ==
    /\ \A i \in DOMAIN disk : \E p \in Pids : disk[i] \in ran[p]
    /\ \A p \in Pids : Alone(p) =>
         \A i, j \in DOMAIN disk :
             (i < j /\ disk[i] \in ran[p] /\ disk[j] \in ran[p]) => disk[i] < disk[j]

MapOK == \A i \in DOMAIN mapFile : mapFile[i].claude \in ran[mapFile[i].pid]

\* A session has one record; its process ran it, and the process it was
\* observed on before it went to HISTORY has exited.
Distinct(S) == \A i, j \in DOMAIN S : S[i].claude = S[j].claude => i = j

RecordOK(r) ==
    /\ r.pid = None => r.last # None
    /\ r.pid # None => Family(r.claude, r.pid) /\ runs[r.pid] # NotRunning
    /\ r.last # None => Family(r.claude, r.last) /\ runs[r.last] = Exited

RecordsOK == Distinct(sessions) /\ \A r \in All : RecordOK(r)

Single ==
    \A r, s \in All : (r.pid = s.pid /\ r.pid \in Pids \ astray /\ Alone(r.pid)) => r = s

\* A SessionEnd of session c of p has not been sent yet.
EndPending(p, c) ==
    \E i \in DOMAIN hook[p] : hook[p][i].event = "session_end" /\ hook[p][i].claude = c

\* Between the two hooks of a /clear the terminal has no record, but for one of
\* the session that it has begun or of one that ends again.
PendingOK ==
    \A w \in Cwds : pendingClear[w] # None =>
        LET p == pendingClear[w]
        IN  /\ runs[p] # NotRunning
            /\ \/ CwdOf[p] = w
               \/ ~ Alone(p) /\ \A q \in Pids : CwdOf[q] = w => ~ Alone(q)
            /\ (Alone(p) /\ p \notin astray) =>
                  \A r \in All : r.pid = p => IsLatest(r.claude, p) \/ EndPending(p, r.claude)

\* What the journal tells of a session that is observed, of one in HISTORY, and
\* of a /clear.
ObservedIn(log, c, p) ==
    \E i \in DOMAIN log :
        /\ log[i] = Event("observe", p, c)
        /\ \A j \in i + 1 .. Len(log) : log[j].claude = c => log[j].event = "clear"
ClosedIn(log, c) ==
    \A i \in DOMAIN log : (log[i].event = "observe" /\ log[i].claude = c) =>
        \E j \in i + 1 .. Len(log) : log[j].claude = c /\ Closes(log[j])
ClearsFollowed(log) ==
    \A i \in DOMAIN log : log[i].event = "clear" =>
        \E j \in i + 1 .. Len(log) : log[j].pid = log[i].pid

Tells(log, r) == IF r.pid = None THEN ClosedIn(log, r.claude) ELSE ObservedIn(log, r.claude, r.pid)

JournalOK == ClearsFollowed(journal) /\ \A r \in All : Tells(journal, r)

TickOK ==
    /\ tick.step = "down" => tick = Down /\ sessions = << >> /\ pendingClear = [w \in Cwds |-> None]
    /\ tick.step = "idle" => tick = Idle
    /\ \A p \in tick.observe : Alive(p)
    /\ tick.step = "adopt" => \A c \in tick.adopt : \E r \in All : r.claude = c /\ r.pid # None

IInv == /\ BindingTypeOK /\ WorldOK /\ HooksOK /\ DiskOK /\ MapOK
        /\ RecordsOK /\ Single /\ PendingOK /\ JournalOK /\ TickOK

-----------------------------------------------------------------------------
(* Sequences.                                                               *)

LEMMA PickedElements ==
  ASSUME NEW S, NEW s \in Seq(S), NEW K \in SUBSET DOMAIN s
  PROVE  /\ Picked(s, K) \in Seq(S)
         /\ \E f \in [DOMAIN Picked(s, K) -> K] :
              /\ \A n \in DOMAIN Picked(s, K) : Picked(s, K)[n] = s[f[n]]
              /\ \A i \in K : \E n \in DOMAIN Picked(s, K) : f[n] = i
              /\ \A m, n \in DOMAIN Picked(s, K) : m < n => f[m] < f[n]
<1>1. Facts!Picked(s, K) = Picked(s, K)
  BY DEF Facts!Picked, Facts!Ascending, Facts!Ranked, Facts!Cardinality, Facts!IsFiniteSet,
         Picked, Ascending, Ranked, Cardinality, IsFiniteSet
<1> DEFINE t == Facts!Picked(s, K)
<1>2. /\ t \in Seq(S)
      /\ \E f \in [DOMAIN t -> K] :
           /\ \A n \in DOMAIN t : t[n] = s[f[n]]
           /\ \A i \in K : \E n \in DOMAIN t : f[n] = i
           /\ \A m, n \in DOMAIN t : m < n => f[m] < f[n]
  BY Facts!PickedProperties
<1>3. t = Picked(s, K)
  BY <1>1
<1> HIDE DEF t
<1> QED
  BY <1>2, <1>3, Zenon

LEMMA LargestIn ==
  ASSUME NEW n \in Nat, NEW s \in SUBSET (1 .. n), s # {}
  PROVE  \E x \in s : \A y \in s : y <= x
BY Facts!MaxOf

LEMMA LeastIn ==
  ASSUME NEW n \in Nat, NEW s \in SUBSET (1 .. n), s # {}
  PROVE  \E x \in s : \A y \in s : x <= y
BY Facts!LeastOf

\* What is picked from a sequence without repetitions of a session has none.
LEMMA PickedRecords ==
  ASSUME NEW S, NEW s \in Seq(S), NEW K \in SUBSET DOMAIN s
  PROVE  /\ Picked(s, K) \in Seq(S)
         /\ ToSet(Picked(s, K)) = { s[i] : i \in K }
         /\ Distinct(s) => Distinct(Picked(s, K))
<1> DEFINE t == Picked(s, K)
<1>1. t \in Seq(S)
  BY PickedElements
<1>2. PICK f \in [DOMAIN t -> K] :
         /\ \A n \in DOMAIN t : t[n] = s[f[n]]
         /\ \A i \in K : \E n \in DOMAIN t : f[n] = i
         /\ \A m, n \in DOMAIN t : m < n => f[m] < f[n]
  BY PickedElements
<1> HIDE DEF t
<1>3. ToSet(t) = { s[i] : i \in K }
  BY <1>1, <1>2 DEF ToSet
<1>4. ASSUME Distinct(s) PROVE Distinct(t)
  <2> SUFFICES ASSUME NEW m \in DOMAIN t, NEW n \in DOMAIN t, t[m].claude = t[n].claude
               PROVE  m = n
    BY DEF Distinct
  <2>1. f[m] \in DOMAIN s /\ f[n] \in DOMAIN s /\ f[m] \in Nat
    OBVIOUS
  <2>2. f[m] = f[n]
    BY <1>2, <1>4, <2>1 DEF Distinct
  <2>3. m \in Nat /\ n \in Nat
    BY <1>1
  <2> QED
    BY <1>2, <2>1, <2>2, <2>3
<1> QED
  BY <1>1, <1>3, <1>4 DEF t

-----------------------------------------------------------------------------
(* The records.                                                             *)

Rec(c, p) == [ claude |-> c, pid |-> p, last |-> None ]
Promoted(r, p) == [ r EXCEPT !.pid = p ]
Expired(r) == [ r EXCEPT !.pid = None, !.last = r.pid ]

LEMMA RecordIs ==
  ASSUME sessions \in Seq(Records), Distinct(sessions), NEW r \in All
  PROVE  Tracked(r.claude) /\ Record(r.claude) = r
<1>1. PICK i \in DOMAIN sessions : sessions[i] = r
  BY DEF All, ToSet
<1>2. First(LAMBDA s : s.claude = r.claude) = {r}
  <2>1. \A k \in DOMAIN sessions : sessions[k].claude = r.claude <=> k = i
    BY <1>1 DEF Distinct
  <2>2. \A k \in 1 .. i - 1 : k \in DOMAIN sessions /\ k # i
    OBVIOUS
  <2> QED
    BY <1>1, <2>1, <2>2 DEF First
<1> QED
  BY <1>2 DEF Tracked, Record

LEMMA RecordOf ==
  ASSUME sessions \in Seq(Records), Distinct(sessions), NEW c, Tracked(c)
  PROVE  Record(c) \in All /\ Record(c).claude = c
BY RecordIs DEF Tracked

LEMMA RecordType ==
  ASSUME sessions \in Seq(Records), NEW r \in All
  PROVE  /\ r \in Records /\ r = [ claude |-> r.claude, pid |-> r.pid, last |-> r.last ]
         /\ r.claude \in Sids /\ r.pid \in Pids \cup {None} /\ r.last \in Pids \cup {None}
<1>1. r \in Records
  BY DEF All, ToSet
<1> QED
  BY <1>1 DEF Records

LEMMA ObservedOnIs ==
  ASSUME sessions \in Seq(Records), NEW p
  PROVE  /\ \A r \in ObservedOn(p) : r \in All /\ r.pid = p
         /\ ObservedOn(p) = {} => \A r \in All : r.pid # p
<1>1. \A r \in ObservedOn(p) : r \in All /\ r.pid = p
  BY DEF ObservedOn, First, All, ToSet
<1>2. ASSUME NEW r \in All, r.pid = p PROVE ObservedOn(p) # {}
  <2> DEFINE I == { i \in DOMAIN sessions : sessions[i].pid = p }
  <2>1. I \in SUBSET (1 .. Len(sessions)) /\ I # {} /\ Len(sessions) \in Nat
    BY <1>2 DEF All, ToSet
  <2>2. PICK i \in I : \A j \in I : i <= j
    <3> HIDE DEF I
    <3> QED
      BY <2>1, LeastIn
  <2>3. \A k \in 1 .. i - 1 : k \in DOMAIN sessions /\ ~ (i <= k)
    BY <2>1
  <2>4. sessions[i] \in ObservedOn(p)
    BY <2>2, <2>3 DEF ObservedOn, First
  <2> QED
    BY <2>4
<1> QED
  BY <1>1, <1>2

LEMMA WithoutIs ==
  ASSUME sessions \in Seq(Records), Distinct(sessions), NEW r
  PROVE  /\ Without(r) \in Seq(Records) /\ Distinct(Without(r))
         /\ ToSet(Without(r)) = All \ {r}
<1> DEFINE K == { i \in DOMAIN sessions : sessions[i] # r }
<1>1. { sessions[i] : i \in K } = All \ {r}
  BY DEF All, ToSet
<1>2. Without(r) = Picked(sessions, K)
  BY DEF Without
<1>3. K \in SUBSET DOMAIN sessions
  OBVIOUS
<1> HIDE DEF K
<1> QED
  BY <1>1, <1>2, <1>3, PickedRecords

LEMMA ObserveIs ==
  ASSUME NEW S \in Seq(Records), Distinct(S), NEW c \in Sids, NEW p \in Pids,
         \A r \in ToSet(S) : r.claude # c
  PROVE  /\ Observe(S, c, p) \in Seq(Records) /\ Distinct(Observe(S, c, p))
         /\ ToSet(Observe(S, c, p)) = ToSet(S) \cup {Rec(c, p)}
<1> DEFINE K == { i \in DOMAIN S : S[i].claude # c \/ S[i].pid = None }
           t == Picked(S, K)
<1>1. K = DOMAIN S
  BY DEF ToSet
<1>2. t \in Seq(Records) /\ Distinct(t) /\ ToSet(t) = ToSet(S)
  <2>1. { S[i] : i \in DOMAIN S } = ToSet(S)
    BY DEF ToSet
  <2> HIDE DEF K
  <2> QED
    BY <1>1, <2>1, PickedRecords
<1>3. Observe(S, c, p) = Append(t, Rec(c, p))
  BY DEF Observe, Rec
<1> HIDE DEF t
<1>4. Rec(c, p) \in Records /\ Rec(c, p).claude = c
  BY DEF Rec, Records
<1>5. \A i \in DOMAIN t : t[i].claude # c
  BY <1>2 DEF ToSet
<1>6. /\ Append(t, Rec(c, p)) \in Seq(Records)
      /\ DOMAIN Append(t, Rec(c, p)) = 1 .. Len(t) + 1
      /\ \A i \in DOMAIN t : Append(t, Rec(c, p))[i] = t[i]
      /\ Append(t, Rec(c, p))[Len(t) + 1] = Rec(c, p)
  BY <1>2, <1>4
<1>7. Distinct(Append(t, Rec(c, p)))
  BY <1>2, <1>4, <1>5, <1>6 DEF Distinct
<1>8. ToSet(Append(t, Rec(c, p))) = ToSet(t) \cup {Rec(c, p)}
  BY <1>2, <1>6 DEF ToSet
<1> QED
  BY <1>2, <1>3, <1>6, <1>7, <1>8

LEMMA PromotedIs ==
  ASSUME sessions \in Seq(Records), Distinct(sessions), NEW r \in All, NEW p \in Pids,
         NEW S, S = [ i \in DOMAIN sessions |-> IF sessions[i] = r THEN [ r EXCEPT !.pid = p ] ELSE sessions[i] ]
  PROVE  S \in Seq(Records) /\ Distinct(S) /\ ToSet(S) = (All \ {r}) \cup {Promoted(r, p)}
<1>1. r \in Records /\ Promoted(r, p) \in Records /\ Promoted(r, p).claude = r.claude
  BY RecordType DEF Promoted, Records
<1>2. S = [ i \in 1 .. Len(sessions) |-> IF sessions[i] = r THEN Promoted(r, p) ELSE sessions[i] ]
  BY DEF Promoted
<1>3. S \in Seq(Records) /\ DOMAIN S = DOMAIN sessions
  BY <1>1, <1>2
<1>4. Distinct(S)
  BY <1>1, <1>2, <1>3 DEF Distinct
<1>5. ToSet(S) = (All \ {r}) \cup {Promoted(r, p)}
  BY <1>1, <1>2, <1>3 DEF ToSet, All
<1> QED
  BY <1>3, <1>4, <1>5

LEMMA HistorifiedIs ==
  ASSUME sessions \in Seq(Records), Distinct(sessions), NEW R, \A r \in R : r.pid \in Pids
  PROVE  /\ Historified(R) \in Seq(Records) /\ Distinct(Historified(R))
         /\ ToSet(Historified(R)) = (All \ R) \cup { Expired(r) : r \in R \cap All }
<1> DEFINE S == Historified(R)
<1>1. S = [ i \in 1 .. Len(sessions) |-> IF sessions[i] \in R THEN Expired(sessions[i]) ELSE sessions[i] ]
  BY DEF Historified, Expired
<1> HIDE DEF S
<1>2. \A r \in All : r \in R => Expired(r) \in Records /\ Expired(r).claude = r.claude
  BY RecordType DEF Expired, Records
<1>3. \A i \in DOMAIN sessions : sessions[i] \in All /\ sessions[i] \in Records
  BY DEF All, ToSet
<1>4. S \in Seq(Records) /\ DOMAIN S = DOMAIN sessions
  BY <1>1, <1>2, <1>3
<1>5. \A i \in DOMAIN sessions : S[i].claude = sessions[i].claude
  BY <1>1, <1>2, <1>3
<1>6. Distinct(S)
  BY <1>4, <1>5 DEF Distinct
<1>7. ToSet(S) = (All \ R) \cup { Expired(r) : r \in R \cap All }
  BY <1>1, <1>3, <1>4 DEF ToSet, All
<1> QED
  BY <1>4, <1>6, <1>7 DEF S

-----------------------------------------------------------------------------
(* The journal.                                                             *)

\* The events that the log keeps: those that a lookup can reach.
Reached(log) ==
    { i \in DOMAIN log :
        \/ \A j \in i + 1 .. Len(log) : log[j].pid # log[i].pid
        \/ /\ log[i].event = "observe"
           /\ \A j \in i + 1 .. Len(log) : ~ (log[j].claude = log[i].claude /\ log[j].event = "observe")
        \/ /\ Closes(log[i])
           /\ \A j \in i + 1 .. Len(log) : ~ (log[j].claude = log[i].claude /\ Closes(log[j])) }

LEMMA LoggedIs ==
  ASSUME NEW events
  PROVE  Logged(events) = Picked(journal \o events, Reached(journal \o events))
BY Zenon DEF Logged, Reached

\* What is kept tells the same of every session.
LEMMA ReachedTells ==
  ASSUME NEW log \in Seq(Events)
  PROVE  LET kept == Picked(log, Reached(log))
         IN  /\ kept \in Seq(Events)
             /\ \A c \in Sids, p \in Pids : ObservedIn(log, c, p) => ObservedIn(kept, c, p)
             /\ \A c \in Sids : ClosedIn(log, c) => ClosedIn(kept, c)
             /\ ClearsFollowed(log) => ClearsFollowed(kept)
<1> DEFINE K == Reached(log)
           kept == Picked(log, K)
<1>0. K \in SUBSET DOMAIN log
  BY DEF Reached
<1>1. kept \in Seq(Events)
  BY <1>0, PickedElements
<1>2. PICK f \in [DOMAIN kept -> K] :
         /\ \A n \in DOMAIN kept : kept[n] = log[f[n]]
         /\ \A i \in K : \E n \in DOMAIN kept : f[n] = i
         /\ \A m, n \in DOMAIN kept : m < n => f[m] < f[n]
  BY <1>0, PickedElements
<1> HIDE DEF kept
<1>3. ASSUME NEW n \in DOMAIN kept, NEW i \in K, f[n] < i
      PROVE  \E m \in n + 1 .. Len(kept) : kept[m] = log[i]
  <2>1. PICK m \in DOMAIN kept : f[m] = i
    BY <1>2
  <2>2. m \in Nat /\ n \in Nat /\ m <= Len(kept) /\ Len(kept) \in Nat
    BY <1>1
  <2>3. f[n] \in Nat /\ f[m] \in Nat
    BY <1>0
  <2>4. ~ (m < n) /\ m # n
    BY <1>2, <1>3, <2>1, <2>3
  <2> QED
    BY <1>2, <2>1, <2>2, <2>4
<1>4. ASSUME NEW n \in DOMAIN kept, NEW m \in n + 1 .. Len(kept)
      PROVE  m \in DOMAIN kept /\ f[m] \in f[n] + 1 .. Len(log) /\ kept[m] = log[f[m]]
  <2>1. m \in DOMAIN kept /\ n < m
    BY <1>1
  <2>2. f[n] < f[m] /\ f[n] \in DOMAIN log /\ f[m] \in DOMAIN log
    BY <1>0, <1>2, <2>1
  <2> QED
    BY <1>2, <2>1, <2>2
<1>5. ASSUME NEW c \in Sids, NEW p \in Pids, ObservedIn(log, c, p) PROVE ObservedIn(kept, c, p)
  <2>1. PICK i \in DOMAIN log :
           /\ log[i] = Event("observe", p, c)
           /\ \A j \in i + 1 .. Len(log) : log[j].claude = c => log[j].event = "clear"
    BY <1>5 DEF ObservedIn
  <2>2. i \in K
    BY <2>1 DEF Reached, Event
  <2>3. PICK n \in DOMAIN kept : f[n] = i
    BY <1>2, <2>2
  <2>4. kept[n] = Event("observe", p, c)
    BY <1>2, <2>1, <2>3
  <2>5. \A m \in n + 1 .. Len(kept) : kept[m].claude = c => kept[m].event = "clear"
    BY <1>4, <2>1, <2>3
  <2> QED
    BY <2>4, <2>5 DEF ObservedIn
<1>6. ASSUME NEW c \in Sids, ClosedIn(log, c) PROVE ClosedIn(kept, c)
  <2> SUFFICES ASSUME NEW n \in DOMAIN kept, kept[n].event = "observe", kept[n].claude = c
               PROVE  \E m \in n + 1 .. Len(kept) : kept[m].claude = c /\ Closes(kept[m])
    BY DEF ClosedIn
  <2> DEFINE L == { j \in f[n] + 1 .. Len(log) : log[j].claude = c /\ Closes(log[j]) }
  <2>1. f[n] \in DOMAIN log /\ f[n] \in Nat /\ kept[n] = log[f[n]]
    BY <1>0, <1>2
  <2>2. L # {} /\ L \in SUBSET (1 .. Len(log)) /\ Len(log) \in Nat
    BY <1>6, <2>1 DEF ClosedIn
  <2>3. PICK j \in L : \A k \in L : k <= j
    <3> HIDE DEF L
    <3> QED
      BY <2>2, LargestIn
  <2>4. \A k \in j + 1 .. Len(log) : ~ (log[k].claude = c /\ Closes(log[k]))
    BY <2>1, <2>3
  <2>5. j \in K
    BY <2>1, <2>4 DEF Reached
  <2>6. f[n] < j /\ log[j].claude = c /\ Closes(log[j])
    BY <2>1
  <2> HIDE DEF K, L
  <2> QED
    BY <1>3, <2>5, <2>6
<1>7. ASSUME ClearsFollowed(log) PROVE ClearsFollowed(kept)
  <2> SUFFICES ASSUME NEW n \in DOMAIN kept, kept[n].event = "clear"
               PROVE  \E m \in n + 1 .. Len(kept) : kept[m].pid = kept[n].pid
    BY DEF ClearsFollowed
  <2> DEFINE L == { j \in f[n] + 1 .. Len(log) : log[j].pid = kept[n].pid }
  <2>1. f[n] \in DOMAIN log /\ f[n] \in Nat /\ kept[n] = log[f[n]]
    BY <1>0, <1>2
  <2>2. L # {} /\ L \in SUBSET (1 .. Len(log)) /\ Len(log) \in Nat
    BY <1>7, <2>1 DEF ClearsFollowed
  <2>3. PICK j \in L : \A k \in L : k <= j
    <3> HIDE DEF L
    <3> QED
      BY <2>2, LargestIn
  <2>4. \A k \in j + 1 .. Len(log) : log[k].pid # log[j].pid
    BY <2>1, <2>3
  <2>5. j \in K
    BY <2>1, <2>4 DEF Reached
  <2>6. f[n] < j /\ log[j].pid = kept[n].pid
    BY <2>1
  <2> HIDE DEF K, L
  <2> QED
    BY <1>3, <2>5, <2>6
<1> QED
  BY <1>1, <1>5, <1>6, <1>7 DEF kept

\* The log of a session, after events were appended that are not about it, or
\* that are.
LEMMA AddedTells ==
  ASSUME journal \in Seq(Events), NEW events \in Seq(Events)
  PROVE  LET log == Logged(events)
             About(k, c) == events[k].claude = c
         IN  /\ log \in Seq(Events)
             /\ \A c \in Sids, p \in Pids :
                  (/\ ObservedIn(journal, c, p)
                   /\ \A k \in DOMAIN events : About(k, c) => events[k].event = "clear")
                  => ObservedIn(log, c, p)
             /\ \A c \in Sids, p \in Pids : ObservedIn(events, c, p) => ObservedIn(log, c, p)
             /\ \A c \in Sids :
                  (/\ ClosedIn(journal, c) \/ \E k \in DOMAIN events : About(k, c) /\ Closes(events[k])
                   /\ \A k \in DOMAIN events : About(k, c) => events[k].event # "observe")
                  => ClosedIn(log, c)
             /\ (ClearsFollowed(journal) /\ ClearsFollowed(events)) => ClearsFollowed(log)
<1> DEFINE both == journal \o events
           M == Len(journal)
           N == Len(events)
<1>1. both \in Seq(Events) /\ Len(both) = M + N /\ M \in Nat /\ N \in Nat
  OBVIOUS
<1>2. /\ DOMAIN journal = 1 .. M /\ DOMAIN events = 1 .. N /\ DOMAIN both = 1 .. M + N
      /\ \A i \in 1 .. M : both[i] = journal[i]
      /\ \A k \in 1 .. N : both[M + k] = events[k]
  OBVIOUS
<1>3. \A i \in M + 1 .. M + N : i - M \in 1 .. N /\ both[i] = events[i - M]
  BY <1>1, <1>2
<1> HIDE DEF both, M, N
<1>4. ASSUME NEW c \in Sids, NEW p \in Pids, ObservedIn(journal, c, p),
             \A k \in DOMAIN events : events[k].claude = c => events[k].event = "clear"
      PROVE  ObservedIn(both, c, p)
  <2>1. PICK i \in 1 .. M : /\ journal[i] = Event("observe", p, c)
                            /\ \A j \in i + 1 .. M : journal[j].claude = c => journal[j].event = "clear"
    BY <1>2, <1>4 DEF ObservedIn, M
  <2>2. i \in 1 .. M + N /\ both[i] = Event("observe", p, c)
    BY <1>1, <1>2, <2>1
  <2>3. ASSUME NEW j \in i + 1 .. M + N, both[j].claude = c PROVE both[j].event = "clear"
    <3>1. CASE j <= M
      BY <1>1, <1>2, <2>1, <2>3, <3>1
    <3>2. CASE j > M
      <4>1. j \in M + 1 .. M + N
        BY <1>1, <2>3, <3>2
      <4> QED
        BY <1>2, <1>3, <1>4, <2>3, <4>1
    <3> QED
      BY <1>1, <3>1, <3>2
  <2> QED
    BY <1>1, <1>2, <2>2, <2>3 DEF ObservedIn
<1>5. ASSUME NEW c \in Sids, NEW p \in Pids, ObservedIn(events, c, p) PROVE ObservedIn(both, c, p)
  <2>1. PICK i \in 1 .. N : /\ events[i] = Event("observe", p, c)
                            /\ \A j \in i + 1 .. N : events[j].claude = c => events[j].event = "clear"
    BY <1>2, <1>5 DEF ObservedIn, N
  <2>2. M + i \in 1 .. M + N /\ both[M + i] = Event("observe", p, c)
    BY <1>1, <1>2, <2>1
  <2>3. ASSUME NEW j \in M + i + 1 .. M + N, both[j].claude = c PROVE both[j].event = "clear"
    <3>1. j \in M + 1 .. M + N /\ j - M \in i + 1 .. N
      BY <1>1, <2>1
    <3> QED
      BY <1>3, <2>1, <2>3, <3>1
  <2> QED
    BY <1>1, <1>2, <2>2, <2>3 DEF ObservedIn
<1>6. ASSUME NEW c \in Sids, \A k \in DOMAIN events : events[k].claude = c => events[k].event # "observe",
             ClosedIn(journal, c) \/ \E k \in DOMAIN events : events[k].claude = c /\ Closes(events[k])
      PROVE  ClosedIn(both, c)
  <2> SUFFICES ASSUME NEW i \in 1 .. M + N, both[i].event = "observe", both[i].claude = c
               PROVE  \E j \in i + 1 .. M + N : both[j].claude = c /\ Closes(both[j])
    BY <1>1, <1>2 DEF ClosedIn
  <2>1. i \in 1 .. M
    <3>1. i \notin M + 1 .. M + N
      BY <1>2, <1>3, <1>6
    <3> QED
      BY <1>1, <3>1
  <2>2. CASE ClosedIn(journal, c)
    <3>1. PICK j \in i + 1 .. M : journal[j].claude = c /\ Closes(journal[j])
      BY <1>2, <2>1, <2>2 DEF ClosedIn, M
    <3>2. j \in 1 .. M /\ j \in i + 1 .. M + N
      BY <1>1, <2>1
    <3> QED
      BY <1>2, <3>1, <3>2
  <2>3. CASE \E k \in DOMAIN events : events[k].claude = c /\ Closes(events[k])
    <3>1. PICK k \in 1 .. N : events[k].claude = c /\ Closes(events[k])
      BY <1>2, <2>3
    <3>2. M + k \in i + 1 .. M + N
      BY <1>1, <2>1
    <3> QED
      BY <1>2, <3>1, <3>2
  <2> QED
    BY <1>6, <2>2, <2>3
<1>7. ASSUME ClearsFollowed(journal), ClearsFollowed(events) PROVE ClearsFollowed(both)
  <2> SUFFICES ASSUME NEW i \in 1 .. M + N, both[i].event = "clear"
               PROVE  \E j \in i + 1 .. M + N : both[j].pid = both[i].pid
    BY <1>1, <1>2 DEF ClearsFollowed
  <2>1. CASE i <= M
    <3>1. PICK j \in i + 1 .. M : journal[j].pid = journal[i].pid
      BY <1>1, <1>2, <1>7, <2>1 DEF ClearsFollowed, M
    <3>2. i \in 1 .. M /\ j \in 1 .. M /\ j \in i + 1 .. M + N
      BY <1>1, <2>1
    <3> QED
      BY <1>2, <3>1, <3>2
  <2>2. CASE i > M
    <3>1. i \in M + 1 .. M + N /\ i - M \in 1 .. N
      BY <1>1, <2>2
    <3>2. PICK k \in (i - M) + 1 .. N : events[k].pid = events[i - M].pid
      BY <1>2, <1>3, <1>7, <3>1 DEF ClearsFollowed, N
    <3>3. k \in 1 .. N /\ M + k \in i + 1 .. M + N
      BY <1>1, <3>1
    <3> QED
      BY <1>2, <1>3, <3>1, <3>2, <3>3
  <2> QED
    BY <1>1, <2>1, <2>2
<1>8. Logged(events) = Picked(both, Reached(both))
  BY LoggedIs DEF both
<1>9. /\ Logged(events) \in Seq(Events)
      /\ \A c \in Sids, p \in Pids : ObservedIn(both, c, p) => ObservedIn(Logged(events), c, p)
      /\ \A c \in Sids : ClosedIn(both, c) => ClosedIn(Logged(events), c)
      /\ ClearsFollowed(both) => ClearsFollowed(Logged(events))
  BY <1>1, <1>8, ReachedTells
<1> QED
  BY <1>4, <1>5, <1>6, <1>7, <1>9

LEMMA EventType ==
  ASSUME NEW e \in {"observe", "historify", "clear", "pid-exited", "remove"},
         NEW p \in Pids, NEW c \in Sids
  PROVE  /\ Event(e, p, c) \in Events
         /\ Event(e, p, c).event = e /\ Event(e, p, c).pid = p /\ Event(e, p, c).claude = c
BY DEF Event, Events

\* The record r is removed.
LEMMA RemoveEventsAre ==
  ASSUME NEW r \in Records, r.pid = None => r.last # None
  PROVE  /\ RemoveEvents(r) \in Seq(Events) /\ RemoveEvents(r) # << >>
         /\ \A k \in DOMAIN RemoveEvents(r) :
              /\ RemoveEvents(r)[k].claude = r.claude /\ Closes(RemoveEvents(r)[k])
              /\ RemoveEvents(r)[k].event \notin {"observe", "clear"}
<1> DEFINE last == IF r.pid = None THEN r.last ELSE r.pid
           rm == Event("remove", last, r.claude)
<1>1. r.claude \in Sids /\ last \in Pids
  BY DEF Records
<1>2. rm \in Events /\ rm.claude = r.claude /\ rm.event = "remove"
  BY <1>1, EventType
<1>3. CASE r.pid = None
  <2>1. RemoveEvents(r) = << rm >>
    BY <1>3, <1>2 DEF RemoveEvents
  <2> HIDE DEF rm
  <2> QED
    BY <1>2, <2>1 DEF Closes
<1>4. CASE r.pid # None
  <2> DEFINE h == Event("historify", r.pid, r.claude)
  <2>1. h \in Events /\ h.claude = r.claude /\ h.event = "historify"
    BY <1>1, <1>4, EventType
  <2>2. RemoveEvents(r) = << h >> \o << rm >>
    BY <1>4 DEF RemoveEvents
  <2> HIDE DEF rm, h
  <2>3. /\ RemoveEvents(r) \in Seq(Events) /\ Len(RemoveEvents(r)) = 2
        /\ RemoveEvents(r)[1] = h /\ RemoveEvents(r)[2] = rm
    BY <1>2, <2>1, <2>2
  <2>4. \A k \in DOMAIN RemoveEvents(r) : RemoveEvents(r)[k] = h \/ RemoveEvents(r)[k] = rm
    BY <2>3
  <2>5. RemoveEvents(r) # << >>
    BY <2>3
  <2> QED
    BY <1>2, <2>1, <2>3, <2>4, <2>5 DEF Closes
<1> QED
  BY <1>3, <1>4

\* The record r makes room for session c on process p.
LEMMA ReplaceEventsAre ==
  ASSUME NEW r \in Records, r.pid = None => r.last # None, NEW c \in Sids, NEW p \in Pids,
         NEW before \in { << >>, << Event("clear", p, c) >> }
  PROVE  LET events == before \o RemoveEvents(r) \o << Event("observe", p, c) >>
         IN  /\ events \in Seq(Events)
             /\ \A k \in DOMAIN events : events[k].claude \in {c, r.claude}
             /\ ObservedIn(events, c, p) /\ ClearsFollowed(events)
<1> DEFINE obs == Event("observe", p, c)
           start == before \o RemoveEvents(r)
           events == start \o << obs >>
<1>1. obs \in Events /\ obs = Event("observe", p, c) /\ obs.event = "observe" /\ obs.pid = p /\ obs.claude = c
  BY EventType
<1> HIDE DEF obs
<1>2. /\ before \in Seq(Events)
      /\ \A k \in DOMAIN before : before[k].claude = c /\ before[k].event = "clear" /\ before[k].pid = p
  <2> DEFINE clr == Event("clear", p, c)
  <2>1. clr \in Events /\ clr.event = "clear" /\ clr.pid = p /\ clr.claude = c
    BY EventType
  <2>2. before = << >> \/ before = << clr >>
    OBVIOUS
  <2> HIDE DEF clr
  <2>3. CASE before = << >>
    BY <2>3
  <2>4. CASE before = << clr >>
    <3>1. << clr >> \in Seq(Events) /\ DOMAIN << clr >> = {1} /\ << clr >>[1] = clr
      BY <2>1
    <3> QED
      BY <2>1, <2>4, <3>1
  <2> QED
    BY <2>2, <2>3, <2>4
<1>3. /\ RemoveEvents(r) \in Seq(Events)
      /\ \A k \in DOMAIN RemoveEvents(r) :
           RemoveEvents(r)[k].claude = r.claude /\ RemoveEvents(r)[k].event \notin {"observe", "clear"}
  BY RemoveEventsAre
<1>4. /\ start \in Seq(Events)
      /\ \A k \in DOMAIN start :
           /\ start[k].claude \in {c, r.claude}
           /\ start[k].event = "clear" => start[k].pid = p
  <2>1. start \in Seq(Events)
    BY <1>2, <1>3
  <2>2. ASSUME NEW k \in DOMAIN start
        PROVE  \/ \E i \in DOMAIN before : start[k] = before[i]
               \/ \E i \in DOMAIN RemoveEvents(r) : start[k] = RemoveEvents(r)[i]
    <3>1. CASE k <= Len(before)
      BY <1>2, <1>3, <3>1
    <3>2. CASE k > Len(before)
      <4>1. k - Len(before) \in DOMAIN RemoveEvents(r) /\ start[k] = RemoveEvents(r)[k - Len(before)]
        BY <1>2, <1>3, <2>1, <3>2
      <4> QED
        BY <4>1
    <3> QED
      BY <1>2, <2>1, <3>1, <3>2
  <2> HIDE DEF start
  <2> QED
    BY <1>2, <1>3, <2>1, <2>2
<1> HIDE DEF start
<1>5. /\ events \in Seq(Events) /\ Len(events) = Len(start) + 1 /\ Len(start) \in Nat
      /\ \A k \in DOMAIN start : events[k] = start[k]
      /\ events[Len(start) + 1] = obs
      /\ \A k \in DOMAIN events : k # Len(start) + 1 => k \in DOMAIN start
  BY <1>1, <1>4
<1> HIDE DEF events
<1>6. DOMAIN events = 1 .. Len(start) + 1 /\ DOMAIN start = 1 .. Len(start)
  BY <1>4, <1>5
<1>7. ASSUME NEW k \in DOMAIN events
      PROVE  /\ events[k].claude \in {c, r.claude}
             /\ events[k].event = "clear" => k \in DOMAIN start /\ events[k].pid = p
  <2>1. CASE k = Len(start) + 1
    <3>1. events[k] = obs
      BY <1>5, <2>1
    <3> QED
      BY <1>1, <3>1
  <2>2. CASE k # Len(start) + 1
    <3>1. k \in DOMAIN start /\ events[k] = start[k]
      BY <1>5, <2>2
    <3>2. /\ start[k].claude \in {c, r.claude}
          /\ start[k].event = "clear" => start[k].pid = p
      BY <1>4, <3>1
    <3> QED
      BY <3>1, <3>2, Zenon
  <2> QED
    BY <2>1, <2>2
<1>8. ObservedIn(events, c, p)
  BY <1>1, <1>5, <1>6 DEF ObservedIn
<1>9. ClearsFollowed(events)
  <2> SUFFICES ASSUME NEW i \in DOMAIN events, events[i].event = "clear"
               PROVE  \E j \in i + 1 .. Len(events) : events[j].pid = events[i].pid
    BY DEF ClearsFollowed
  <2>1. i \in DOMAIN start /\ events[i].pid = p
    BY <1>7
  <2>2. Len(start) + 1 \in i + 1 .. Len(events)
    BY <1>5, <1>6, <2>1
  <2> QED
    BY <1>1, <1>5, <2>1, <2>2
<1> QED
  BY <1>5, <1>7, <1>8, <1>9 DEF events, start, obs

LEMMA ObserveEventIs ==
  ASSUME NEW c \in Sids, NEW p \in Pids
  PROVE  LET events == << Event("observe", p, c) >>
         IN  /\ events \in Seq(Events) /\ \A k \in DOMAIN events : events[k].claude = c
             /\ ObservedIn(events, c, p) /\ ClearsFollowed(events)
<1> DEFINE obs == Event("observe", p, c)
<1>1. obs \in Events /\ obs = Event("observe", p, c) /\ obs.event = "observe" /\ obs.pid = p /\ obs.claude = c
  BY EventType
<1> HIDE DEF obs
<1> QED
  BY <1>1 DEF ObservedIn, ClearsFollowed

LEMMA ExitEventsAre ==
  ASSUME sessions \in Seq(Records), NEW R, \A r \in R : r.pid \in Pids
  PROVE  LET events == ExitEvents(R)
         IN  /\ events \in Seq(Events)
             /\ \A k \in DOMAIN events :
                  /\ events[k].event \in {"historify", "pid-exited"}
                  /\ \E r \in R \cap All : events[k].claude = r.claude
             /\ \A r \in R \cap All : \E k \in DOMAIN events : events[k].claude = r.claude
<1> DEFINE K == { i \in DOMAIN sessions : sessions[i] \in R }
           exited == Picked(sessions, K)
           e(n) == LET r == exited[(n + 1) \div 2]
                   IN  Event(IF n % 2 = 1 THEN "historify" ELSE "pid-exited", r.pid, r.claude)
<1>1. exited \in Seq(Records) /\ ToSet(exited) = R \cap All
  <2>1. { sessions[i] : i \in K } = R \cap All
    BY DEF All, ToSet
  <2>2. K \in SUBSET DOMAIN sessions
    OBVIOUS
  <2> HIDE DEF K
  <2> QED
    BY <2>1, <2>2, PickedRecords
<1> HIDE DEF exited
<1>2. \A m \in DOMAIN exited : exited[m] \in R \cap All
  BY <1>1 DEF ToSet
<1>3. \A r \in R \cap All : \E m \in DOMAIN exited : exited[m] = r
  BY <1>1 DEF ToSet
<1>4. ExitEvents(R) = [ n \in 1 .. 2 * Len(exited) |-> e(n) ]
  BY DEF ExitEvents, exited, K
<1>5. Len(exited) \in Nat /\ DOMAIN exited = 1 .. Len(exited)
  BY <1>1
<1>6. ASSUME NEW n \in 1 .. 2 * Len(exited)
      PROVE  /\ e(n) \in Events /\ e(n).event \in {"historify", "pid-exited"}
             /\ \E r \in R \cap All : e(n).claude = r.claude
  <2>1. (n + 1) \div 2 \in DOMAIN exited
    BY <1>5
  <2> DEFINE r == exited[(n + 1) \div 2]
  <2>2. r \in R \cap All /\ r.pid \in Pids /\ r.claude \in Sids
    BY <1>2, <2>1, RecordType
  <2>3. e(n) = Event(IF n % 2 = 1 THEN "historify" ELSE "pid-exited", r.pid, r.claude)
    OBVIOUS
  <2> HIDE DEF r, e
  <2>4. (IF n % 2 = 1 THEN "historify" ELSE "pid-exited") \in {"historify", "pid-exited"}
    OBVIOUS
  <2> QED
    BY <2>2, <2>3, <2>4, EventType
<1>7. ASSUME NEW r \in R \cap All PROVE \E n \in 1 .. 2 * Len(exited) : e(n).claude = r.claude
  <2>1. PICK m \in DOMAIN exited : exited[m] = r
    BY <1>3
  <2>2. 2 * m \in 1 .. 2 * Len(exited) /\ (2 * m + 1) \div 2 = m
    BY <1>5
  <2>3. e(2 * m).claude = r.claude
    BY <2>1, <2>2 DEF Event
  <2> QED
    BY <2>2, <2>3
<1> HIDE DEF e
<1>8. 2 * Len(exited) \in Nat
  BY <1>5
<1> DEFINE events == ExitEvents(R)
<1>9. /\ DOMAIN events = 1 .. 2 * Len(exited)
      /\ \A n \in 1 .. 2 * Len(exited) : events[n] = e(n)
  BY <1>4
<1>10. \A n \in DOMAIN events :
         /\ events[n] \in Events /\ events[n].event \in {"historify", "pid-exited"}
         /\ \E r \in R \cap All : events[n].claude = r.claude
  <2> SUFFICES ASSUME NEW n \in 1 .. 2 * Len(exited)
               PROVE  /\ e(n) \in Events /\ e(n).event \in {"historify", "pid-exited"}
                      /\ \E r \in R \cap All : e(n).claude = r.claude
    BY <1>9, Zenon
  <2> QED
    BY <1>6
<1>11. \A r \in R \cap All : \E n \in DOMAIN events : events[n].claude = r.claude
  <2> HIDE DEF events
  <2> QED
    BY <1>7, <1>9
<1>12. events \in Seq(Events)
  <2>1. events = [ n \in 1 .. 2 * Len(exited) |-> events[n] ]
    BY <1>4, <1>9, Zenon
  <2> HIDE DEF events
  <2> QED
    BY <1>8, <1>9, <1>10, <2>1
<1> QED
  BY <1>10, <1>11, <1>12

-----------------------------------------------------------------------------
(* What happens to the records, and with them to the journal.               *)

\* The manager and the journal agree.
Agreed ==
    /\ sessions \in Seq(Records) /\ Distinct(sessions)
    /\ \A r \in All : r.pid = None => r.last # None
    /\ journal \in Seq(Events) /\ JournalOK

LEMMA SameRecord ==
  ASSUME Agreed, NEW r \in All, NEW s \in All, r.claude = s.claude
  PROVE  r = s
BY DEF Agreed, Distinct, All, ToSet

\* The log of a record that the events are not about.
LEMMA NotAbout ==
  ASSUME Agreed, NEW events \in Seq(Events), NEW r \in All,
         \A k \in DOMAIN events : events[k].claude # r.claude
  PROVE  Tells(Logged(events), r)
<1>1. r.claude \in Sids /\ r.pid \in Pids \cup {None}
  BY RecordType DEF Agreed
<1>2. Tells(journal, r) /\ journal \in Seq(Events)
  BY DEF Agreed, JournalOK
<1>3. CASE r.pid = None
  BY <1>1, <1>2, <1>3, AddedTells DEF Tells
<1>4. CASE r.pid # None
  BY <1>1, <1>2, <1>4, AddedTells DEF Tells
<1> QED
  BY <1>3, <1>4

LEMMA FollowedStill ==
  ASSUME Agreed, NEW events \in Seq(Events), ClearsFollowed(events)
  PROVE  Logged(events) \in Seq(Events) /\ ClearsFollowed(Logged(events))
BY AddedTells DEF Agreed, JournalOK

LEMMA ToldObserved ==
  ASSUME Agreed, NEW events \in Seq(Events), NEW r, r.claude \in Sids, r.pid \in Pids,
         ObservedIn(events, r.claude, r.pid), None \notin Pids
  PROVE  Tells(Logged(events), r)
<1>1. r.pid # None
  OBVIOUS
<1>2. journal \in Seq(Events)
  BY DEF Agreed
<1>3. ObservedIn(Logged(events), r.claude, r.pid)
  BY <1>2, AddedTells
<1> QED
  BY <1>1, <1>3 DEF Tells

LEMMA NoPid == None \notin Pids /\ None \notin Sids
BY BindingAssumption DEF BindingAssumption, None, Sids

LEMMA RecIs ==
  ASSUME NEW c \in Sids, NEW p \in Pids
  PROVE  /\ Rec(c, p) \in Records /\ Rec(c, p).claude = c /\ Rec(c, p).pid = p
         /\ Rec(c, p).last = None /\ Rec(c, p).pid # None
BY NoPid DEF Rec, Records

LEMMA DropsRecord ==
  ASSUME Agreed, NEW r \in All, sessions' = Without(r), journal' = Logged(RemoveEvents(r))
  PROVE  Agreed' /\ All' = All \ {r}
<1> DEFINE events == RemoveEvents(r)
<1>1. /\ sessions \in Seq(Records) /\ Distinct(sessions) /\ journal \in Seq(Events)
      /\ \A s \in All : s.pid = None => s.last # None
  BY DEF Agreed
<1>2. sessions' \in Seq(Records) /\ Distinct(sessions)' /\ All' = All \ {r}
  BY <1>1, WithoutIs DEF All, Distinct
<1>3. r \in Records /\ (r.pid = None => r.last # None)
  BY <1>1, RecordType
<1>4. /\ events \in Seq(Events)
      /\ \A k \in DOMAIN events : events[k].claude = r.claude /\ events[k].event \notin {"observe", "clear"}
  BY <1>3, RemoveEventsAre
<1> HIDE DEF events
<1>5. \A s \in All' : Tells(Logged(events), s)
  <2> SUFFICES ASSUME NEW s \in All, s # r PROVE Tells(Logged(events), s)
    BY <1>2
  <2>1. s.claude # r.claude
    BY SameRecord
  <2> QED
    BY <1>4, <2>1, NotAbout
<1>6. Logged(events) \in Seq(Events) /\ ClearsFollowed(Logged(events))
  <2>1. ClearsFollowed(events)
    BY <1>4 DEF ClearsFollowed
  <2> QED
    BY <1>4, <2>1, FollowedStill
<1>7. journal' = Logged(events)
  BY DEF events
<1>8. JournalOK'
  BY <1>5, <1>6, <1>7 DEF JournalOK
<1> QED
  BY <1>1, <1>2, <1>6, <1>7, <1>8 DEF Agreed

LEMMA StartsRecord ==
  ASSUME Agreed, NEW c \in Sids, NEW p \in Pids, ~ Tracked(c), StartObserving(c, p)
  PROVE  Agreed' /\ All' = All \cup {Rec(c, p)}
<1> DEFINE events == << Event("observe", p, c) >>
<1>1. /\ sessions \in Seq(Records) /\ Distinct(sessions) /\ journal \in Seq(Events)
      /\ \A s \in All : s.pid = None => s.last # None
  BY DEF Agreed
<1>2. sessions' = Observe(sessions, c, p) /\ journal' = Logged(events)
  BY DEF StartObserving
<1>3. sessions' \in Seq(Records) /\ Distinct(sessions)' /\ All' = All \cup {Rec(c, p)}
  <2>1. \A s \in ToSet(sessions) : s.claude # c
    BY DEF Tracked, All
  <2> QED
    BY <1>1, <1>2, <2>1, ObserveIs DEF All, Distinct
<1>4. /\ events \in Seq(Events) /\ \A k \in DOMAIN events : events[k].claude = c
      /\ ObservedIn(events, c, p) /\ ClearsFollowed(events)
  BY ObserveEventIs
<1> HIDE DEF events
<1>5. \A s \in All' : Tells(Logged(events), s)
  <2>1. ASSUME NEW s \in All PROVE Tells(Logged(events), s)
    <3>1. s.claude # c
      BY DEF Tracked
    <3> QED
      BY <1>4, <3>1, NotAbout
  <2>2. Tells(Logged(events), Rec(c, p))
    BY <1>4, RecIs, NoPid, ToldObserved
  <2> QED
    BY <1>3, <2>1, <2>2
<1>6. Logged(events) \in Seq(Events) /\ ClearsFollowed(Logged(events))
  BY <1>4, FollowedStill
<1>7. \A s \in All' : s.pid = None => s.last # None
  BY <1>1, <1>3, RecIs
<1>8. JournalOK'
  BY <1>2, <1>5, <1>6 DEF JournalOK
<1> QED
  BY <1>2, <1>3, <1>6, <1>7, <1>8 DEF Agreed

LEMMA ReplacesRecord ==
  ASSUME Agreed, NEW r \in All, NEW c \in Sids, NEW p \in Pids, ~ Tracked(c),
         NEW before \in { << >>, << Event("clear", p, c) >> },
         sessions' = Observe(Without(r), c, p),
         journal' = Logged(before \o RemoveEvents(r) \o << Event("observe", p, c) >>)
  PROVE  Agreed' /\ All' = (All \ {r}) \cup {Rec(c, p)}
<1> DEFINE events == before \o RemoveEvents(r) \o << Event("observe", p, c) >>
<1>1. /\ sessions \in Seq(Records) /\ Distinct(sessions) /\ journal \in Seq(Events)
      /\ \A s \in All : s.pid = None => s.last # None
  BY DEF Agreed
<1>2. sessions' \in Seq(Records) /\ Distinct(sessions)' /\ All' = (All \ {r}) \cup {Rec(c, p)}
  <2> DEFINE S == Without(r)
  <2>1. S \in Seq(Records) /\ Distinct(S) /\ ToSet(S) = All \ {r}
    BY <1>1, WithoutIs
  <2>2. \A s \in ToSet(S) : s.claude # c
    BY <2>1 DEF Tracked
  <2>3. sessions' = Observe(S, c, p)
    OBVIOUS
  <2> HIDE DEF S
  <2> QED
    BY <2>1, <2>2, <2>3, ObserveIs DEF All, Distinct
<1>3. r \in Records /\ (r.pid = None => r.last # None)
  BY <1>1, RecordType
<1>4. /\ events \in Seq(Events) /\ \A k \in DOMAIN events : events[k].claude \in {c, r.claude}
      /\ ObservedIn(events, c, p) /\ ClearsFollowed(events)
  BY <1>3, ReplaceEventsAre
<1>5. journal' = Logged(events)
  OBVIOUS
<1> HIDE DEF events
<1>6. \A s \in All' : Tells(Logged(events), s)
  <2>1. ASSUME NEW s \in All, s # r PROVE Tells(Logged(events), s)
    <3>1. s.claude # c
      BY DEF Tracked
    <3>2. s.claude # r.claude
      BY <2>1, SameRecord
    <3> QED
      BY <1>4, <3>1, <3>2, NotAbout
  <2>2. Tells(Logged(events), Rec(c, p))
    BY <1>4, RecIs, NoPid, ToldObserved
  <2> QED
    BY <1>2, <2>1, <2>2
<1>7. Logged(events) \in Seq(Events) /\ ClearsFollowed(Logged(events))
  BY <1>4, FollowedStill
<1>8. \A s \in All' : s.pid = None => s.last # None
  BY <1>1, <1>2, RecIs
<1>9. JournalOK'
  BY <1>5, <1>6, <1>7 DEF JournalOK
<1> QED
  BY <1>2, <1>5, <1>7, <1>8, <1>9 DEF Agreed

LEMMA PromotesRecord ==
  ASSUME Agreed, NEW r \in All, NEW p \in Pids, RePromote(r, p)
  PROVE  Agreed' /\ All' = (All \ {r}) \cup {Promoted(r, p)}
<1> DEFINE events == << Event("observe", p, r.claude) >>
<1>1. /\ sessions \in Seq(Records) /\ Distinct(sessions) /\ journal \in Seq(Events)
      /\ \A s \in All : s.pid = None => s.last # None
  BY DEF Agreed
<1>2. r \in Records /\ r.claude \in Sids
  BY <1>1, RecordType
<1>3. sessions' \in Seq(Records) /\ Distinct(sessions)' /\ All' = (All \ {r}) \cup {Promoted(r, p)}
  <2>1. sessions' = [ i \in DOMAIN sessions |->
                       IF sessions[i] = r THEN [ r EXCEPT !.pid = p ] ELSE sessions[i] ]
    BY DEF RePromote
  <2>2. /\ sessions' \in Seq(Records) /\ Distinct(sessions')
        /\ ToSet(sessions') = (All \ {r}) \cup {Promoted(r, p)}
    BY <1>1, <2>1, PromotedIs
  <2> QED
    BY <2>2 DEF All
<1>4. /\ events \in Seq(Events) /\ \A k \in DOMAIN events : events[k].claude = r.claude
      /\ ObservedIn(events, r.claude, p) /\ ClearsFollowed(events)
  BY <1>2, ObserveEventIs
<1>5. journal' = Logged(events)
  BY DEF RePromote
<1> HIDE DEF events
<1>6. Promoted(r, p).claude = r.claude /\ Promoted(r, p).pid = p /\ p # None
  BY <1>2, NoPid DEF Promoted, Records
<1>7. \A s \in All' : Tells(Logged(events), s)
  <2>1. ASSUME NEW s \in All, s # r PROVE Tells(Logged(events), s)
    <3>1. s.claude # r.claude
      BY <2>1, SameRecord
    <3> QED
      BY <1>4, <3>1, NotAbout
  <2>2. Tells(Logged(events), Promoted(r, p))
    BY <1>2, <1>4, <1>6, NoPid, ToldObserved
  <2> QED
    BY <1>3, <2>1, <2>2
<1>8. Logged(events) \in Seq(Events) /\ ClearsFollowed(Logged(events))
  BY <1>4, FollowedStill
<1>9. \A s \in All' : s.pid = None => s.last # None
  BY <1>1, <1>3, <1>6
<1>10. JournalOK'
  BY <1>5, <1>7, <1>8 DEF JournalOK
<1> QED
  BY <1>3, <1>5, <1>8, <1>9, <1>10 DEF Agreed

LEMMA ExpiresRecords ==
  ASSUME Agreed, sessions' = Historified(Dead), journal' = Logged(ExitEvents(Dead))
  PROVE  Agreed' /\ All' = (All \ Dead) \cup { Expired(r) : r \in Dead }
<1> DEFINE events == ExitEvents(Dead)
<1>1. /\ sessions \in Seq(Records) /\ Distinct(sessions) /\ journal \in Seq(Events)
      /\ \A s \in All : s.pid = None => s.last # None
  BY DEF Agreed
<1>2. Dead \subseteq All /\ (\A r \in Dead : r.pid \in Pids) /\ Dead \cap All = Dead
  BY <1>1, RecordType DEF Dead
<1>3. sessions' \in Seq(Records) /\ Distinct(sessions)'
      /\ All' = (All \ Dead) \cup { Expired(r) : r \in Dead }
  BY <1>1, <1>2, HistorifiedIs DEF All, Distinct
<1>4. /\ events \in Seq(Events)
      /\ \A k \in DOMAIN events :
           /\ events[k].event \in {"historify", "pid-exited"}
           /\ \E r \in Dead : events[k].claude = r.claude
      /\ \A r \in Dead : \E k \in DOMAIN events : events[k].claude = r.claude
  BY <1>1, <1>2, ExitEventsAre
<1>5. journal' = Logged(events)
  OBVIOUS
<1> HIDE DEF events
<1>6. \A s \in All' : Tells(Logged(events), s)
  <2>1. ASSUME NEW s \in All, s \notin Dead PROVE Tells(Logged(events), s)
    <3>1. \A r \in Dead : s.claude # r.claude
      BY <1>2, <2>1, SameRecord
    <3>2. \A k \in DOMAIN events : events[k].claude # s.claude
      BY <1>4, <3>1
    <3> QED
      BY <1>4, <3>2, NotAbout
  <2>2. ASSUME NEW r \in Dead PROVE Tells(Logged(events), Expired(r))
    <3>1. r \in Records /\ r.claude \in Sids
      BY <1>1, <1>2, RecordType
    <3>2. Expired(r).claude = r.claude /\ Expired(r).pid = None
      BY <3>1 DEF Expired, Records
    <3>3. \E k \in DOMAIN events : events[k].claude = r.claude /\ Closes(events[k])
      BY <1>4 DEF Closes
    <3>4. \A k \in DOMAIN events : events[k].event # "observe"
      BY <1>4
    <3>5. ClosedIn(Logged(events), r.claude)
      BY <1>1, <1>4, <3>1, <3>3, <3>4, AddedTells
    <3> QED
      BY <3>2, <3>5 DEF Tells
  <2> QED
    BY <1>3, <2>1, <2>2
<1>7. Logged(events) \in Seq(Events) /\ ClearsFollowed(Logged(events))
  <2>1. ClearsFollowed(events)
    BY <1>4 DEF ClearsFollowed
  <2> QED
    BY <1>4, <2>1, FollowedStill
<1>8. \A s \in All' : s.pid = None => s.last # None
  <2>1. \A r \in Dead : r \in Records /\ r.pid # None
    BY <1>1, <1>2, NoPid, RecordType
  <2>2. \A r \in Dead : Expired(r).last # None
    BY <2>1 DEF Expired, Records
  <2> QED
    BY <1>1, <1>3, <2>2
<1>9. JournalOK'
  BY <1>5, <1>6, <1>7 DEF JournalOK
<1> QED
  BY <1>3, <1>5, <1>7, <1>8, <1>9 DEF Agreed

-----------------------------------------------------------------------------
(* The properties follow from the invariant.                                *)

LEMMA InvAgrees ==
  ASSUME IInv
  PROVE  Agreed
BY DEF IInv, BindingTypeOK, RecordsOK, RecordOK, Agreed

LEMMA Values ==
  /\ Sids \subseteq Nat /\ 0 \notin Sids /\ None = 0
  /\ None \notin Pids /\ None \notin Sids
  /\ NotRunning \notin Sids /\ Exited \notin Sids /\ NotRunning # Exited
  /\ NotRunning \notin Pids /\ Exited \notin Pids /\ MaxSids \in Nat
  /\ \A p \in Pids : CwdOf[p] \in Cwds
BY BindingAssumption DEF BindingAssumption, None, Sids, NotRunning, Exited, Cwds

LEMMA MapIs ==
  ASSUME IInv
  PROVE  /\ \A c, q : q \in MapPid(c) => q \in Pids /\ c \in ran[q]
         /\ \A p \in Pids : LatestEntry(p) \subseteq ran[p]
<1>1. \A i \in DOMAIN mapFile : mapFile[i].pid \in Pids /\ mapFile[i].claude \in ran[mapFile[i].pid]
  <2>1. mapFile \in Seq(Entries) /\ MapOK
    BY DEF IInv, BindingTypeOK
  <2>2. \A i \in DOMAIN mapFile : mapFile[i] \in Entries
    BY <2>1
  <2> QED
    BY <2>1, <2>2 DEF Entries, MapOK
<1>2. ASSUME NEW c, NEW q \in MapPid(c) PROVE q \in Pids /\ c \in ran[q]
  BY <1>1 DEF MapPid
<1>3. ASSUME NEW p \in Pids PROVE LatestEntry(p) \subseteq ran[p]
  BY <1>1 DEF LatestEntry
<1> QED
  BY <1>2, <1>3

LEMMA RanIs ==
  ASSUME IInv, NEW p \in Pids
  PROVE  /\ \A c \in ran[p] : c \in Sids /\ c < nextSid
         /\ Alive(p) => runs[p] \in ran[p] /\ SidOf(p) \in ran[p] /\ pidJson[p] \in ran[p]
<1>1. \A c \in ran[p] : c \in Sids /\ c < nextSid
  BY DEF IInv, WorldOK
<1>2. ASSUME Alive(p)
      PROVE  runs[p] \in ran[p] /\ SidOf(p) \in ran[p] /\ pidJson[p] \in ran[p]
  <2>1. runs[p] # NotRunning
    BY <1>2, Values DEF Alive
  <2>2. runs[p] \in ran[p] /\ pidJson[p] \in ran[p]
    BY <1>2, <2>1 DEF IInv, WorldOK
  <2>3. LatestEntry(p) \subseteq ran[p]
    BY MapIs
  <2> QED
    BY <2>2, <2>3 DEF SidOf
<1> QED
  BY <1>1, <1>2

LEMMA InvRows ==
  ASSUME IInv
  PROVE  RowsAreTrue
<1> SUFFICES ASSUME NEW row \in View, row.pid # None
             PROVE  Family(row.session, row.pid)
  BY DEF RowsAreTrue, Family
<1>1. CASE row \in TrackedRows
  <2>1. PICK r \in All : row = Row(r.claude, r.pid)
    BY <1>1 DEF TrackedRows
  <2>2. RecordOK(r) /\ row.session = r.claude /\ row.pid = r.pid
    BY <2>1 DEF IInv, RecordsOK, Row
  <2> QED
    BY <2>2 DEF RecordOK
<1>2. CASE row \in AliveRows
  <2>1. PICK p \in Running : row = Row(SidOf(p), p)
    BY <1>2 DEF AliveRows
  <2>2. p \in Pids /\ Alive(p) /\ row.session = SidOf(p) /\ row.pid = p
    BY <2>1 DEF Running, Row
  <2>3. SidOf(p) \in ran[p]
    BY <2>2, RanIs
  <2> QED
    BY <2>2, <2>3 DEF Family
<1>3. CASE row \in HistoryRows
  <2>1. row.pid = None
    BY <1>3 DEF HistoryRows, Row
  <2> QED
    BY <2>1
<1> QED
  BY <1>1, <1>2, <1>3 DEF View

LEMMA InvBinding ==
  ASSUME IInv
  PROVE  OneBinding
BY DEF IInv, RecordsOK, Distinct, Single, OneBinding

\* The lookup finds the last observe.
LEMMA LookupFinds ==
  ASSUME journal \in Seq(Events), NEW c \in Sids, NEW i \in DOMAIN journal,
         journal[i].event = "observe", journal[i].claude = c,
         \A j \in i + 1 .. Len(journal) : ~ (journal[j].event = "observe" /\ journal[j].claude = c)
  PROVE  LastObserveForSessionId(c) = [ pid |-> journal[i].pid, claude |-> c, at |-> i ]
<1> DEFINE found == { j \in DOMAIN journal : journal[j].event = "observe" /\ journal[j].claude = c }
           last == CHOOSE j \in found : \A k \in found : k <= j
<1>1. i \in found /\ \A k \in found : k <= i
  OBVIOUS
<1>2. found \subseteq Nat
  OBVIOUS
<1>3. last = i
  <2> HIDE DEF found
  <2>1. last \in found /\ \A k \in found : k <= last
    BY <1>1
  <2> HIDE DEF last
  <2>2. last <= i /\ i <= last /\ last \in Nat /\ i \in Nat
    BY <1>1, <1>2, <2>1
  <2> QED
    BY <2>2
<1>4. found # {}
  BY <1>1
<1>5. LastObserveForSessionId(c) = [ pid |-> journal[last].pid, claude |-> journal[last].claude, at |-> last ]
  <2>1. LastObserveForSessionId(c) =
           IF found = {} THEN [pid |-> None, claude |-> None, at |-> 0]
           ELSE [ pid |-> journal[last].pid, claude |-> journal[last].claude, at |-> last ]
    BY Zenon DEF LastObserveForSessionId, LastObserve
  <2> HIDE DEF found, last
  <2> QED
    BY <1>4, <2>1
<1> HIDE DEF last
<1> QED
  BY <1>3, <1>5

LEMMA InvJournal ==
  ASSUME IInv
  PROVE  JournalAgrees
<1>1. journal \in Seq(Events) /\ sessions \in Seq(Records)
  BY DEF IInv, BindingTypeOK
<1>2. ASSUME NEW r \in All, r.pid # None
      PROVE  LET last == LastObserveForSessionId(r.claude)
             IN  last.pid = r.pid /\ ~ Superseded(last.at)
  <2>1. r.claude \in Sids /\ r.pid \in Pids
    BY <1>1, <1>2, RecordType
  <2>2. ObservedIn(journal, r.claude, r.pid)
    BY <1>2 DEF IInv, JournalOK, Tells
  <2>3. PICK i \in DOMAIN journal :
           /\ journal[i] = Event("observe", r.pid, r.claude)
           /\ \A j \in i + 1 .. Len(journal) : journal[j].claude = r.claude => journal[j].event = "clear"
    BY <2>2 DEF ObservedIn
  <2>4. journal[i].event = "observe" /\ journal[i].claude = r.claude /\ journal[i].pid = r.pid
    BY <2>1, <2>3, EventType
  <2>5. LastObserveForSessionId(r.claude) = [ pid |-> journal[i].pid, claude |-> r.claude, at |-> i ]
    BY <1>1, <2>1, <2>3, <2>4, LookupFinds
  <2>6. ~ Superseded(i)
    BY <2>3, <2>4 DEF Superseded, Closes
  <2> QED
    BY <2>4, <2>5, <2>6
<1>3. ASSUME NEW p \in Pids PROVE Rescuable(p) = {}
  <2> SUFFICES ASSUME NEW r \in All, r.pid = None, r.claude = LastObserveForPid(p)
               PROVE  FALSE
    BY DEF Rescuable, First, All, ToSet
  <2> DEFINE mine == { i \in DOMAIN journal : journal[i].pid = p }
             i == CHOOSE i \in mine : \A j \in mine : j <= i
  <2>1. r.claude \in Sids /\ r.claude # None
    BY <1>1, RecordType, Values
  <2> DEFINE found ==
           CASE journal[i].event = "observe" -> IF Superseded(i) THEN None ELSE journal[i].claude
             [] journal[i].event = "clear" -> LastObserveForSessionId(journal[i].claude).claude
             [] OTHER -> None
  <2>a. LastObserveForPid(p) = IF mine = {} THEN None ELSE found
    BY Zenon DEF LastObserveForPid
  <2>b. mine \in SUBSET (1 .. Len(journal)) /\ Len(journal) \in Nat
    BY <1>1
  <2>2. mine # {} /\ LastObserveForPid(p) = found
    <3> HIDE DEF mine, found
    <3> QED
      BY <2>1, <2>a
  <2>3. i \in mine /\ \A j \in mine : j <= i
    <3> HIDE DEF mine
    <3> QED
      BY <2>2, <2>b, LargestIn
  <2>4. LastObserveForPid(p) =
           CASE journal[i].event = "observe" -> IF Superseded(i) THEN None ELSE journal[i].claude
             [] journal[i].event = "clear" -> LastObserveForSessionId(journal[i].claude).claude
             [] OTHER -> None
    BY <2>2, Zenon
  <2> HIDE DEF i
  <2>5. i \in DOMAIN journal /\ journal[i].pid = p
    BY <2>3
  <2>6. journal[i].event # "clear"
    <3> SUFFICES ASSUME journal[i].event = "clear" PROVE FALSE
      OBVIOUS
    <3>1. PICK j \in i + 1 .. Len(journal) : journal[j].pid = journal[i].pid
      BY <2>5 DEF IInv, JournalOK, ClearsFollowed
    <3>2. j \in mine /\ ~ (j <= i)
      BY <1>1, <2>5, <3>1
    <3> QED
      BY <2>3, <3>2
  <2>7. journal[i].event = "observe" /\ ~ Superseded(i) /\ journal[i].claude = r.claude
    BY <2>1, <2>4, <2>6
  <2>8. ClosedIn(journal, r.claude)
    BY DEF IInv, JournalOK, Tells
  <2>9. Superseded(i)
    BY <2>5, <2>7, <2>8 DEF ClosedIn, Superseded
  <2> QED
    BY <2>7, <2>9
<1> QED
  BY <1>2, <1>3 DEF JournalAgrees

LEMMA InitInv ==
  ASSUME Init
  PROVE  IInv
<1>1. All = {}
  BY DEF Init, All, ToSet
<1>2. BindingTypeOK
  BY Values, BindingAssumption DEF Init, BindingTypeOK, Idle, Cwds, BindingAssumption, Sids, None
<1>3. WorldOK /\ HooksOK /\ DiskOK /\ MapOK
  BY Values DEF Init, WorldOK, HooksOK, DiskOK, MapOK, Alive
<1>4. RecordsOK /\ Single /\ JournalOK
  BY <1>1 DEF Init, RecordsOK, Single, JournalOK, Distinct, ClearsFollowed
<1>5. PendingOK /\ TickOK
  BY <1>1 DEF Init, PendingOK, TickOK, Idle
<1> QED
  BY <1>2, <1>3, <1>4, <1>5 DEF IInv

-----------------------------------------------------------------------------
(* Steps of Claude.                                                         *)

\* Terminals only become less alone, and what was of a terminal stays so.
LEMMA FamilyGrows ==
  ASSUME NEW p \in Pids, \A q \in Pids : ran[q] \subseteq ran'[q]
  PROVE  /\ Alone(p)' => Alone(p)
         /\ \A c : Family(c, p) => Family(c, p)'
<1>1. \A q \in Pids : Alone(q)' => Alone(q)
  BY DEF Alone
<1> QED
  BY <1>1 DEF Family

LEMMA BeginsIs ==
  ASSUME NEW p \in Pids, NEW c \in Sids, Begins(p, c)
  PROVE  /\ runs' = [runs EXCEPT ![p] = c] /\ ran' = [ran EXCEPT ![p] = @ \cup {c}]
         /\ UNCHANGED << disk, files, memory, tick, restarts, astray >>
BY Zenon DEF Begins

\* The daemon has not heard of it yet.
LEMMA UnseenKeeps ==
  ASSUME IInv, Quiet, UNCHANGED << memory, journal, tick, restarts, astray >>,
         \A q \in Pids : ran[q] \subseteq ran'[q],
         \A q \in Pids : /\ runs[q] = Exited => runs'[q] = Exited
                         /\ runs[q] # NotRunning => runs'[q] # NotRunning,
         \A r \in All : (r.pid \in Pids /\ Alone(r.pid)' /\ ran'[r.pid] = ran[r.pid])
                          => \A c : EndPending(r.pid, c) => EndPending(r.pid, c)',
         \A r \in All : (/\ r.pid \in Pids /\ Alone(r.pid)' /\ ran'[r.pid] # ran[r.pid]
                         /\ IsLatest(r.claude, r.pid) \/ EndPending(r.pid, r.claude))
                          => (IsLatest(r.claude, r.pid)' \/ EndPending(r.pid, r.claude)')
  PROVE  RecordsOK' /\ Single' /\ PendingOK' /\ JournalOK' /\ TickOK'
<1>0. sessions' = sessions /\ pendingClear' = pendingClear /\ All' = All
  BY DEF memory, All
<1>1. sessions \in Seq(Records) /\ pendingClear \in [Cwds -> Pids \cup {None}]
  BY DEF IInv, BindingTypeOK
<1>2. RecordsOK'
  <2>1. \A r \in All : RecordOK(r)'
    <3> SUFFICES ASSUME NEW r \in All PROVE RecordOK(r)'
      OBVIOUS
    <3>1. RecordOK(r) /\ r.pid \in Pids \cup {None} /\ r.last \in Pids \cup {None}
      BY <1>1, RecordType DEF IInv, RecordsOK
    <3> QED
      BY <3>1, FamilyGrows DEF RecordOK
  <2>2. Distinct(sessions)'
    BY <1>0 DEF IInv, RecordsOK, Distinct
  <2> QED
    BY <1>0, <2>1, <2>2 DEF RecordsOK
<1>3. Single'
  BY <1>0, FamilyGrows DEF IInv, Single
<1>4. PendingOK'
  <2> SUFFICES ASSUME NEW w \in Cwds, NEW p \in Pids, p = pendingClear[w]
               PROVE  /\ runs'[p] # NotRunning
                      /\ \/ CwdOf[p] = w
                         \/ ~ Alone(p)' /\ \A q \in Pids : CwdOf[q] = w => ~ Alone(q)'
                      /\ (Alone(p)' /\ p \notin astray) =>
                           \A r \in All : r.pid = p => IsLatest(r.claude, p)' \/ EndPending(p, r.claude)'
    <3>1. astray' = astray
      OBVIOUS
    <3> QED
      BY <1>0, <1>1, <3>1 DEF PendingOK
  <2>1. p \in Pids /\ p # None
    BY Values
  <2>2. /\ runs[p] # NotRunning
        /\ \/ CwdOf[p] = w
           \/ ~ Alone(p) /\ \A q \in Pids : CwdOf[q] = w => ~ Alone(q)
        /\ (Alone(p) /\ p \notin astray) =>
             \A r \in All : r.pid = p => IsLatest(r.claude, p) \/ EndPending(p, r.claude)
    BY <2>1 DEF IInv, PendingOK
  <2>3. CwdOf[p] = w \/ (~ Alone(p)' /\ \A q \in Pids : CwdOf[q] = w => ~ Alone(q)')
    BY <2>1, <2>2, FamilyGrows
  <2>4. ASSUME Alone(p)', p \notin astray, NEW r \in All, r.pid = p
        PROVE  IsLatest(r.claude, p)' \/ EndPending(p, r.claude)'
    <3>1. IsLatest(r.claude, p) \/ EndPending(p, r.claude)
      BY <2>1, <2>2, <2>4, FamilyGrows
    <3>2. CASE ran'[p] = ran[p]
      BY <2>1, <2>4, <3>1, <3>2 DEF IsLatest
    <3>3. CASE ran'[p] # ran[p]
      BY <2>1, <2>4, <3>1, <3>3
    <3> QED
      BY <3>2, <3>3
  <2>5. runs'[p] # NotRunning
    BY <2>1, <2>2
  <2> QED
    BY <2>3, <2>4, <2>5
<1>5. JournalOK'
  <2>1. ClearsFollowed(journal) /\ \A r \in All : Tells(journal, r)
    BY DEF IInv, JournalOK
  <2> QED
    BY <1>0, <2>1 DEF JournalOK
<1>6. TickOK'
  <2>1. tick.observe = {} /\ tick.step # "adopt"
    BY DEF Quiet, IInv, TickOK, Idle, Down
  <2> QED
    BY <1>0, <2>1 DEF IInv, TickOK
<1> QED
  BY <1>2, <1>3, <1>4, <1>5, <1>6

\* What a process is about to begin, and what it has begun.
LEMMA HookType ==
  ASSUME NEW c \in Sids, NEW source \in {"clear", "startup", "resume"}
  PROVE  /\ StartHook(c, source) \in Hooks /\ StartHook(c, source).claude = c
         /\ StartHook(c, source).event = "session_start" /\ StartHook(c, source).source = source
         /\ EndHook(c) \in Hooks /\ EndHook(c).claude = c /\ EndHook(c).event = "session_end"
BY DEF StartHook, EndHook, Hooks

LEMMA TypeIs ==
  ASSUME IInv
  PROVE  BindingTypeOK
BY DEF IInv

LEMMA EntryIs ==
  ASSUME IInv, NEW i \in DOMAIN mapFile
  PROVE  mapFile[i] \in Entries /\ mapFile[i].pid \in Pids /\ mapFile[i].claude \in Sids
<1>1. mapFile \in Seq(Entries)
  BY DEF IInv, BindingTypeOK
<1>2. mapFile[i] \in Entries
  BY <1>1
<1> QED
  BY <1>2 DEF Entries

LEMMA MapGrows ==
  ASSUME IInv, mapFile' = mapFile, \A q \in Pids : ran[q] \subseteq ran'[q]
  PROVE  MapOK'
BY EntryIs DEF IInv, MapOK

LEMMA StartsKeeps ==
  ASSUME IInv, NEW p \in Pids, Quiet, Starts(p)
  PROVE  IInv'
<1>0. PICK d : d = nextSid
  OBVIOUS
<1>1. d \in Sids /\ runs[p] = NotRunning /\ Begins(p, d) /\ nextSid' = d + 1
      /\ pidJson' = [pidJson EXCEPT ![p] = d]
      /\ hook' = [hook EXCEPT ![p] = << StartHook(d, "startup") >>]
  BY <1>0, TypeIs DEF Starts, BindingTypeOK, Sids
<1>2. /\ runs' = [runs EXCEPT ![p] = d] /\ ran' = [ran EXCEPT ![p] = @ \cup {d}]
      /\ UNCHANGED << disk, files, memory, tick, restarts, astray >>
  BY <1>1, BeginsIs
<1>3. BindingTypeOK
  BY TypeIs
<1>4. /\ ran[p] = {} /\ \A q \in Pids : \A e \in ran[q] : e \in Sids /\ e < d
  BY <1>0, <1>1 DEF IInv, WorldOK
<1>5. /\ ran'[p] = {d} /\ \A q \in Pids \ {p} : ran'[q] = ran[q]
      /\ runs'[p] = d /\ \A q \in Pids \ {p} : runs'[q] = runs[q]
      /\ pidJson'[p] = d /\ \A q \in Pids \ {p} : pidJson'[q] = pidJson[q]
      /\ hook'[p] = << StartHook(d, "startup") >> /\ \A q \in Pids \ {p} : hook'[q] = hook[q]
      /\ \A q \in Pids : ran[q] \subseteq ran'[q]
  BY <1>1, <1>2, <1>3, <1>4 DEF BindingTypeOK
<1>6. BindingTypeOK'
  <2>1. << StartHook(d, "startup") >> \in Seq(Hooks)
    BY <1>1, HookType
  <2> QED
    BY <1>0, <1>1, <1>2, <1>3, <2>1, Values DEF BindingTypeOK, files, memory, Sids
<1>7. WorldOK'
  <2> SUFFICES ASSUME NEW q \in Pids
               PROVE  /\ \A e \in ran'[q] : e \in Sids /\ e < nextSid'
                      /\ runs'[q] = NotRunning => ran'[q] = {} /\ hook'[q] = << >>
                      /\ runs'[q] # NotRunning => pidJson'[q] \in ran'[q]
                      /\ runs'[q] \in Sids => runs'[q] \in ran'[q] /\ \A e \in ran'[q] : e <= runs'[q]
                      /\ (runs'[q] \in Sids /\ runs'[q] = pidJson'[q]) => ran'[q] = {runs'[q]}
    BY DEF WorldOK, Alive, IsLatest
  <2>1. CASE q = p
    BY <1>1, <1>5, <2>1, Values
  <2>2. CASE q # p
    BY <1>0, <1>1, <1>4, <1>5, <2>2, Values DEF IInv, WorldOK, Alive, IsLatest
  <2> QED
    BY <2>1, <2>2
<1>8. HooksOK'
  <2> SUFFICES ASSUME NEW q \in Pids, NEW i \in DOMAIN hook'[q]
               PROVE  LET h1 == hook'[q][i]
                      IN  /\ h1.claude \in ran'[q]
                          /\ h1.event = "session_start" => \A e \in ran'[q] : e <= h1.claude
                          /\ (h1.event = "session_start" /\ h1.source = "resume") => ran'[q] = {h1.claude}
                          /\ h1.event = "session_end" =>
                               i = 1 /\ \A e \in ran'[q] : e > h1.claude => \A x \in ran'[q] : x <= e
    BY DEF HooksOK, IsLatest
  <2>1. CASE q = p
    <3>1. hook'[q][i] = StartHook(d, "startup")
      BY <1>5, <2>1
    <3> QED
      BY <1>1, <1>5, <2>1, <3>1, HookType, Values
  <2>2. CASE q # p
    BY <1>5, <2>2 DEF IInv, HooksOK, IsLatest
  <2> QED
    BY <2>1, <2>2
<1>9. DiskOK'
  <2>1. \A i \in DOMAIN disk : disk[i] # d
    BY <1>1, <1>4, Values DEF IInv, DiskOK
  <2>2. \A q \in Pids : \A i \in DOMAIN disk : disk[i] \in ran'[q] <=> disk[i] \in ran[q]
    BY <1>4, <1>5, <2>1
  <2> QED
    BY <1>2, <1>5, <2>2, FamilyGrows DEF IInv, DiskOK
<1>10. MapOK'
  BY <1>2, <1>5, MapGrows DEF files
<1>11. RecordsOK' /\ Single' /\ PendingOK' /\ JournalOK' /\ TickOK'
  <2>1. \A r \in All : (r.pid \in Pids /\ Alone(r.pid)') => r.pid # p
    <3> SUFFICES ASSUME NEW r \in All, r.pid = p, Alone(p)' PROVE FALSE
      OBVIOUS
    <3>1. Alone(p) /\ RecordOK(r) /\ r.pid # None
      BY <1>5, FamilyGrows, Values DEF IInv, RecordsOK
    <3> QED
      BY <1>4, <3>1 DEF RecordOK, Family
  <2>2. \A q \in Pids \ {p} : \A e : EndPending(q, e) => EndPending(q, e)'
    BY <1>5 DEF EndPending
  <2>3. \A q \in Pids : /\ runs[q] = Exited => runs'[q] = Exited
                        /\ runs[q] # NotRunning => runs'[q] # NotRunning
    BY <1>1, <1>5, Values
  <2>4. UNCHANGED << memory, journal, tick, restarts, astray >>
    BY <1>2 DEF files
  <2> QED
    BY <1>5, <2>1, <2>2, <2>3, <2>4, UnseenKeeps
<1> QED
  BY <1>6, <1>7, <1>8, <1>9, <1>10, <1>11 DEF IInv

LEMMA ResumesKeeps ==
  ASSUME IInv, NEW p \in Pids, NEW d \in Sids, Quiet, Resumes(p, d)
  PROVE  IInv'
<1>1. runs[p] = NotRunning /\ OnDisk(d) /\ Begins(p, d) /\ nextSid' = nextSid
      /\ pidJson' = [pidJson EXCEPT ![p] = d]
      /\ hook' = [hook EXCEPT ![p] = << StartHook(d, "resume") >>]
  BY DEF Resumes
<1>2. /\ runs' = [runs EXCEPT ![p] = d] /\ ran' = [ran EXCEPT ![p] = @ \cup {d}]
      /\ UNCHANGED << disk, files, memory, tick, restarts, astray >>
  BY <1>1, BeginsIs
<1>3. BindingTypeOK
  BY TypeIs
<1>4. /\ ran[p] = {} /\ \A q \in Pids : \A e \in ran[q] : e \in Sids /\ e < nextSid
  BY <1>1 DEF IInv, WorldOK
<1>5. /\ ran'[p] = {d} /\ \A q \in Pids \ {p} : ran'[q] = ran[q]
      /\ runs'[p] = d /\ \A q \in Pids \ {p} : runs'[q] = runs[q]
      /\ pidJson'[p] = d /\ \A q \in Pids \ {p} : pidJson'[q] = pidJson[q]
      /\ hook'[p] = << StartHook(d, "resume") >> /\ \A q \in Pids \ {p} : hook'[q] = hook[q]
      /\ \A q \in Pids : ran[q] \subseteq ran'[q]
  BY <1>1, <1>2, <1>3, <1>4 DEF BindingTypeOK
\* The session it resumes is on disk, so another process has run it.
<1>6. PICK o \in Pids : d \in ran[o]
  BY <1>1 DEF OnDisk, IInv, DiskOK
<1>7. o # p /\ d < nextSid /\ ~ Alone(p)'
  <2>1. o # p /\ d < nextSid
    BY <1>4, <1>6
  <2>2. d \in ran'[p] \cap ran'[o]
    BY <1>5, <1>6, <2>1
  <2> QED
    BY <2>1, <2>2 DEF Alone
<1>8. BindingTypeOK'
  <2>1. << StartHook(d, "resume") >> \in Seq(Hooks)
    BY HookType
  <2> QED
    BY <1>1, <1>2, <1>3, <2>1, Values DEF BindingTypeOK, files, memory
<1>9. WorldOK'
  <2> SUFFICES ASSUME NEW q \in Pids
               PROVE  /\ \A e \in ran'[q] : e \in Sids /\ e < nextSid'
                      /\ runs'[q] = NotRunning => ran'[q] = {} /\ hook'[q] = << >>
                      /\ runs'[q] # NotRunning => pidJson'[q] \in ran'[q]
                      /\ runs'[q] \in Sids => runs'[q] \in ran'[q] /\ \A e \in ran'[q] : e <= runs'[q]
                      /\ (runs'[q] \in Sids /\ runs'[q] = pidJson'[q]) => ran'[q] = {runs'[q]}
    BY DEF WorldOK, Alive, IsLatest
  <2>1. CASE q = p
    BY <1>1, <1>5, <1>7, <2>1, Values
  <2>2. CASE q # p
    BY <1>1, <1>4, <1>5, <2>2, Values DEF IInv, WorldOK, Alive, IsLatest
  <2> QED
    BY <2>1, <2>2
<1>10. HooksOK'
  <2> SUFFICES ASSUME NEW q \in Pids, NEW i \in DOMAIN hook'[q]
               PROVE  LET h1 == hook'[q][i]
                      IN  /\ h1.claude \in ran'[q]
                          /\ h1.event = "session_start" => \A e \in ran'[q] : e <= h1.claude
                          /\ (h1.event = "session_start" /\ h1.source = "resume") => ran'[q] = {h1.claude}
                          /\ h1.event = "session_end" =>
                               i = 1 /\ \A e \in ran'[q] : e > h1.claude => \A x \in ran'[q] : x <= e
    BY DEF HooksOK, IsLatest
  <2>1. CASE q = p
    <3>1. hook'[q][i] = StartHook(d, "resume")
      BY <1>5, <2>1
    <3> QED
      BY <1>5, <2>1, <3>1, HookType, Values
  <2>2. CASE q # p
    BY <1>5, <2>2 DEF IInv, HooksOK, IsLatest
  <2> QED
    BY <2>1, <2>2
<1>11. DiskOK'
  <2>1. disk' = disk
    BY <1>2
  <2>2. \A i \in DOMAIN disk : \E q \in Pids : disk[i] \in ran'[q]
    BY <1>5 DEF IInv, DiskOK
  <2>3. ASSUME NEW q \in Pids, Alone(q)', NEW i \in DOMAIN disk, NEW j \in DOMAIN disk,
               i < j, disk[i] \in ran'[q], disk[j] \in ran'[q]
        PROVE  disk[i] < disk[j]
    <3>1. q # p
      BY <1>7, <2>3
    <3> QED
      BY <1>5, <2>3, <3>1, FamilyGrows DEF IInv, DiskOK
  <2> QED
    BY <2>1, <2>2, <2>3 DEF DiskOK
<1>12. MapOK'
  BY <1>2, <1>5, MapGrows DEF files
<1>13. RecordsOK' /\ Single' /\ PendingOK' /\ JournalOK' /\ TickOK'
  <2>1. \A r \in All : (r.pid \in Pids /\ Alone(r.pid)') => r.pid # p
    BY <1>7
  <2>2. \A q \in Pids \ {p} : \A e : EndPending(q, e) => EndPending(q, e)'
    BY <1>5 DEF EndPending
  <2>3. \A q \in Pids : /\ runs[q] = Exited => runs'[q] = Exited
                        /\ runs[q] # NotRunning => runs'[q] # NotRunning
    BY <1>1, <1>5, Values
  <2>4. UNCHANGED << memory, journal, tick, restarts, astray >>
    BY <1>2 DEF files
  <2> QED
    BY <1>5, <2>1, <2>2, <2>3, <2>4, UnseenKeeps
<1> QED
  BY <1>8, <1>9, <1>10, <1>11, <1>12, <1>13 DEF IInv

LEMMA ClearsKeeps ==
  ASSUME IInv, NEW p \in Pids, Quiet, Clears(p)
  PROVE  IInv'
<1>0. PICK d, c : d = nextSid /\ c = runs[p]
  OBVIOUS
<1> DEFINE twoHooks == << EndHook(c), StartHook(d, "clear") >>
<1>1. d \in Sids /\ c \in Sids /\ runs[p] = c /\ hook[p] = << >> /\ Begins(p, d) /\ nextSid' = d + 1
      /\ pidJson' = pidJson
      /\ hook' = [hook EXCEPT ![p] = twoHooks]
  BY <1>0, TypeIs DEF Clears, BindingTypeOK, Sids, Alive
<1>2. /\ runs' = [runs EXCEPT ![p] = d] /\ ran' = [ran EXCEPT ![p] = @ \cup {d}]
      /\ UNCHANGED << disk, files, memory, tick, restarts, astray >>
  BY <1>1, BeginsIs
<1>3. BindingTypeOK
  BY TypeIs
<1>4. /\ \A q \in Pids : \A e \in ran[q] : e \in Sids /\ e < d
      /\ c \in ran[p] /\ (\A e \in ran[p] : e <= c) /\ pidJson[p] \in ran[p]
  BY <1>0, <1>1, Values DEF IInv, WorldOK, Alive, IsLatest
<1>13. /\ d \in Nat /\ c \in Nat /\ c < d
       /\ \A q \in Pids : \A e \in ran[q] : e \in Nat /\ e \in Sids /\ e < d /\ e < d + 1
       /\ \A e \in ran[p] : e <= c /\ e <= d
  <2>1. d \in Nat /\ c \in Nat /\ \A q \in Pids : \A e \in ran[q] : e \in Nat
    BY <1>1, <1>4, Values
  <2>2. \A q \in Pids : \A e \in ran[q] : e < d + 1
    BY <1>4, <2>1
  <2>3. \A e \in ran[p] : e <= d
    BY <1>4, <2>1
  <2> QED
    BY <1>4, <2>1, <2>2, <2>3
<1>5. /\ ran'[p] = ran[p] \cup {d} /\ \A q \in Pids \ {p} : ran'[q] = ran[q]
      /\ runs'[p] = d /\ \A q \in Pids \ {p} : runs'[q] = runs[q]
      /\ hook'[p] = twoHooks /\ \A q \in Pids \ {p} : hook'[q] = hook[q]
      /\ \A q \in Pids : ran[q] \subseteq ran'[q]
  BY <1>1, <1>2, <1>3, <1>4 DEF BindingTypeOK
<1>6. /\ twoHooks \in Seq(Hooks) /\ DOMAIN twoHooks = {1, 2}
      /\ twoHooks[1] = EndHook(c) /\ twoHooks[2] = StartHook(d, "clear")
  BY <1>1, HookType
<1> HIDE DEF twoHooks
<1>7. BindingTypeOK'
  BY <1>0, <1>1, <1>2, <1>3, <1>6, Values DEF BindingTypeOK, files, memory, Sids
<1>8. WorldOK'
  <2> SUFFICES ASSUME NEW q \in Pids
               PROVE  /\ \A e \in ran'[q] : e \in Sids /\ e < nextSid'
                      /\ runs'[q] = NotRunning => ran'[q] = {} /\ hook'[q] = << >>
                      /\ runs'[q] # NotRunning => pidJson'[q] \in ran'[q]
                      /\ runs'[q] \in Sids => runs'[q] \in ran'[q] /\ \A e \in ran'[q] : e <= runs'[q]
                      /\ (runs'[q] \in Sids /\ runs'[q] = pidJson'[q]) => ran'[q] = {runs'[q]}
    BY DEF WorldOK, Alive, IsLatest
  <2>1. CASE q = p
    <3>1. \A e \in ran'[q] : e \in Sids /\ e <= d /\ e < d + 1
      BY <1>1, <1>5, <1>13, <2>1
    <3>2. pidJson'[q] \in ran'[q] /\ pidJson'[q] # d
      BY <1>1, <1>4, <1>5, <1>13, <2>1
    <3> QED
      BY <1>1, <1>5, <2>1, <3>1, <3>2, Values
  <2>2. CASE q # p
    <3>1. /\ ran'[q] = ran[q] /\ runs'[q] = runs[q] /\ pidJson'[q] = pidJson[q] /\ hook'[q] = hook[q]
          /\ \A e \in ran[q] : e \in Sids /\ e < nextSid'
      BY <1>1, <1>5, <1>13, <2>2
    <3> QED
      BY <3>1 DEF IInv, WorldOK, Alive, IsLatest
  <2> QED
    BY <2>1, <2>2
<1>9. HooksOK'
  <2> SUFFICES ASSUME NEW q \in Pids, NEW i \in DOMAIN hook'[q]
               PROVE  LET h1 == hook'[q][i]
                      IN  /\ h1.claude \in ran'[q]
                          /\ h1.event = "session_start" => \A e \in ran'[q] : e <= h1.claude
                          /\ (h1.event = "session_start" /\ h1.source = "resume") => ran'[q] = {h1.claude}
                          /\ h1.event = "session_end" =>
                               i = 1 /\ \A e \in ran'[q] : e > h1.claude => \A x \in ran'[q] : x <= e
    BY DEF HooksOK, IsLatest
  <2>1. CASE q = p /\ i = 1
    <3>1. hook'[q][i] = EndHook(c)
      BY <1>5, <1>6, <2>1
    <3>2. \A e \in ran'[q] : e > c => e = d
      BY <1>5, <1>13, <2>1
    <3>3. \A x \in ran'[q] : x <= d
      BY <1>5, <1>13, <2>1
    <3>4. EndHook(c).claude = c /\ EndHook(c).event = "session_end"
      BY <1>1, HookType
    <3> QED
      BY <1>4, <1>5, <2>1, <3>1, <3>2, <3>3, <3>4
  <2>2. CASE q = p /\ i = 2
    <3>1. hook'[q][i] = StartHook(d, "clear")
      BY <1>5, <1>6, <2>2
    <3>2. \A x \in ran'[q] : x <= d
      BY <1>5, <1>13, <2>2
    <3> QED
      BY <1>1, <1>5, <2>2, <3>1, <3>2, HookType
  <2>3. CASE q # p
    BY <1>5, <2>3 DEF IInv, HooksOK, IsLatest
  <2>4. q = p => i \in {1, 2}
    BY <1>5, <1>6
  <2> QED
    BY <2>1, <2>2, <2>3, <2>4
<1>10. DiskOK'
  <2>1. \A i \in DOMAIN disk : disk[i] # d
    BY <1>1, <1>4, Values DEF IInv, DiskOK
  <2>2. \A q \in Pids : \A i \in DOMAIN disk : disk[i] \in ran'[q] <=> disk[i] \in ran[q]
    BY <1>4, <1>5, <2>1
  <2> QED
    BY <1>2, <1>5, <2>2, FamilyGrows DEF IInv, DiskOK
<1>11. MapOK'
  BY <1>2, <1>5, MapGrows DEF files
<1>12. RecordsOK' /\ Single' /\ PendingOK' /\ JournalOK' /\ TickOK'
  <2>1. \A q \in Pids : \A e : EndPending(q, e) => EndPending(q, e)'
    <3>1. \A e : ~ EndPending(p, e)
      BY <1>1 DEF EndPending
    <3> QED
      BY <1>5, <3>1 DEF EndPending
  <2>2. EndPending(p, c)'
    BY <1>1, <1>5, <1>6, HookType DEF EndPending
  <2>3. ASSUME NEW r \in All, r.pid \in Pids, Alone(r.pid)', ran'[r.pid] # ran[r.pid],
               IsLatest(r.claude, r.pid) \/ EndPending(r.pid, r.claude)
        PROVE  EndPending(r.pid, r.claude)'
    <3>1. r.pid = p
      BY <1>5, <2>3
    <3>2. Alone(p) /\ r.pid # None /\ RecordOK(r)
      BY <1>5, <2>3, <3>1, FamilyGrows, Values DEF IInv, RecordsOK
    <3>3. r.claude \in ran[p]
      BY <3>1, <3>2 DEF RecordOK, Family
    <3>4. IsLatest(r.claude, p)
      BY <1>1, <2>3, <3>1 DEF EndPending
    <3>5. r.claude = c
      <4>1. r.claude <= c /\ c <= r.claude
        BY <1>4, <3>3, <3>4 DEF IsLatest
      <4> QED
        BY <1>13, <3>3, <4>1
    <3> QED
      BY <2>2, <3>1, <3>5
  <2>4. \A q \in Pids : /\ runs[q] = Exited => runs'[q] = Exited
                        /\ runs[q] # NotRunning => runs'[q] # NotRunning
    BY <1>1, <1>5, Values
  <2>5. UNCHANGED << memory, journal, tick, restarts, astray >>
    BY <1>2 DEF files
  <2> QED
    BY <1>5, <2>1, <2>3, <2>4, <2>5, UnseenKeeps
<1> QED
  BY <1>7, <1>8, <1>9, <1>10, <1>11, <1>12 DEF IInv

LEMMA WritesKeeps ==
  ASSUME IInv, NEW p \in Pids, Quiet, Writes(p)
  PROVE  IInv'
<1>0. PICK c : c = runs[p]
  OBVIOUS
<1> DEFINE K == { i \in DOMAIN disk : disk[i] # c }
           t == Picked(disk, K)
<1>1. /\ c \in Sids /\ disk' = Append(t, c)
      /\ UNCHANGED << outside, files, memory, tick, restarts, astray >>
  BY <1>0 DEF Writes, Alive, Touched
<1>2. BindingTypeOK /\ c \in ran[p] /\ IsLatest(c, p)
  BY <1>0, <1>1, TypeIs DEF IInv, WorldOK, Alive
<1>3. PICK f \in [DOMAIN t -> K] :
         /\ \A n \in DOMAIN t : t[n] = disk[f[n]]
         /\ \A i \in K : \E n \in DOMAIN t : f[n] = i
         /\ \A m, n \in DOMAIN t : m < n => f[m] < f[n]
  BY <1>2, PickedElements DEF BindingTypeOK
<1>4. t \in Seq(Sids)
  BY <1>2, PickedElements DEF BindingTypeOK
<1> HIDE DEF t
<1>5. \A i \in DOMAIN t : t[i] \in Sids /\ f[i] \in DOMAIN disk /\ t[i] = disk[f[i]] /\ t[i] # c
  BY <1>3, <1>4
<1>6. /\ disk' \in Seq(Sids) /\ DOMAIN disk' = 1 .. Len(t) + 1 /\ Len(t) \in Nat
      /\ DOMAIN t = 1 .. Len(t)
      /\ disk'[Len(t) + 1] = c /\ \A i \in DOMAIN t : disk'[i] = t[i]
  BY <1>1, <1>4
<1>7. BindingTypeOK'
  BY <1>1, <1>2, <1>6 DEF BindingTypeOK, outside, files, memory
<1>8. WorldOK' /\ HooksOK' /\ MapOK'
  BY <1>1 DEF IInv, WorldOK, HooksOK, MapOK, Alive, IsLatest, outside, files
<1>9. DiskOK'
  <2>1. ran' = ran /\ \A q \in Pids : Alone(q)' <=> Alone(q)
    BY <1>1 DEF outside, Alone
  <2>2. \A i \in DOMAIN disk' : i \in DOMAIN t \/ i = Len(t) + 1
    BY <1>6
  <2>3. \A i \in DOMAIN disk' : \E q \in Pids : disk'[i] \in ran[q]
    BY <1>2, <1>5, <1>6, <2>2 DEF IInv, DiskOK
  <2>4. ASSUME NEW q \in Pids, Alone(q), NEW i \in DOMAIN disk', NEW j \in DOMAIN disk',
               i < j, disk'[i] \in ran[q], disk'[j] \in ran[q]
        PROVE  disk'[i] < disk'[j]
    <3>1. i \in DOMAIN t
      BY <1>6, <2>4
    <3>2. CASE j \in DOMAIN t
      <4>1. f[i] < f[j]
        BY <1>3, <2>4, <3>1, <3>2
      <4>2. /\ f[i] \in DOMAIN disk /\ f[j] \in DOMAIN disk
            /\ disk'[i] = disk[f[i]] /\ disk'[j] = disk[f[j]]
        BY <1>5, <1>6, <3>1, <3>2
      <4> QED
        BY <2>4, <4>1, <4>2 DEF IInv, DiskOK
    <3>3. CASE j = Len(t) + 1
      <4>1. disk'[j] = c /\ disk'[i] = t[i] /\ t[i] # c /\ t[i] \in Nat /\ c \in Nat
        BY <1>1, <1>5, <1>6, <3>1, <3>3, Values
      <4>2. q = p
        BY <1>2, <2>4, <4>1 DEF Alone
      <4>3. t[i] <= c
        BY <1>2, <2>4, <4>1, <4>2 DEF IsLatest
      <4> QED
        BY <4>1, <4>3
    <3> QED
      BY <2>2, <3>2, <3>3
  <2> QED
    BY <2>1, <2>3, <2>4 DEF DiskOK
<1>10. RecordsOK' /\ Single' /\ PendingOK' /\ JournalOK' /\ TickOK'
  <2>1. UNCHANGED << memory, journal, tick, restarts, astray >> /\ ran' = ran /\ runs' = runs /\ hook' = hook
    BY <1>1 DEF files, outside
  <2>2. \A q, e : EndPending(q, e) => EndPending(q, e)'
    BY <2>1 DEF EndPending
  <2> QED
    BY <2>1, <2>2, UnseenKeeps
<1> QED
  BY <1>7, <1>8, <1>9, <1>10 DEF IInv

LEMMA ExitsKeeps ==
  ASSUME IInv, NEW p \in Pids, Quiet, Exits(p)
  PROVE  IInv'
<1>1. /\ runs[p] \in Sids /\ runs' = [runs EXCEPT ![p] = Exited]
      /\ UNCHANGED << ran, pidJson, nextSid, hook, disk, files, memory, tick, restarts, astray >>
  BY DEF Exits, Alive
<1>2. BindingTypeOK
  BY TypeIs
<1>3. runs'[p] = Exited /\ \A q \in Pids \ {p} : runs'[q] = runs[q]
  BY <1>1, <1>2 DEF BindingTypeOK
<1>4. BindingTypeOK'
  BY <1>1, <1>2 DEF BindingTypeOK, files, memory
<1>5. WorldOK'
  <2> SUFFICES ASSUME NEW q \in Pids
               PROVE  /\ \A e \in ran[q] : e \in Sids /\ e < nextSid
                      /\ runs'[q] = NotRunning => ran[q] = {} /\ hook[q] = << >>
                      /\ runs'[q] # NotRunning => pidJson[q] \in ran[q]
                      /\ runs'[q] \in Sids => runs'[q] \in ran[q] /\ \A e \in ran[q] : e <= runs'[q]
                      /\ (runs'[q] \in Sids /\ runs'[q] = pidJson[q]) => ran[q] = {runs'[q]}
    BY <1>1 DEF WorldOK, Alive, IsLatest
  <2> QED
    BY <1>1, <1>3, Values DEF IInv, WorldOK, Alive, IsLatest
<1>6. HooksOK' /\ DiskOK' /\ MapOK'
  BY <1>1 DEF IInv, HooksOK, DiskOK, MapOK, IsLatest, Alone, files
<1>7. RecordsOK' /\ Single' /\ PendingOK' /\ JournalOK' /\ TickOK'
  <2>1. UNCHANGED << memory, journal, tick, restarts, astray >>
    BY <1>1 DEF files
  <2>2. \A q, e : EndPending(q, e) => EndPending(q, e)'
    BY <1>1 DEF EndPending
  <2>3. \A q \in Pids : /\ runs[q] = Exited => runs'[q] = Exited
                        /\ runs[q] # NotRunning => runs'[q] # NotRunning
    BY <1>3, Values
  <2> QED
    BY <1>1, <2>1, <2>2, <2>3, UnseenKeeps
<1> QED
  BY <1>4, <1>5, <1>6, <1>7 DEF IInv

\* A process has sent the first of its hooks.
LEMMA SentIs ==
  ASSUME IInv, NEW p \in Pids, Sent(p)
  PROVE  /\ hook[p][1] = Head(hook[p]) /\ Head(hook[p]) \in Hooks /\ 1 \in DOMAIN hook[p]
         /\ Head(hook[p]).claude \in ran[p] /\ runs[p] # NotRunning
         /\ hook' \in [Pids -> Seq(Hooks)] /\ HooksOK' /\ WorldOK'
         /\ UNCHANGED << runs, ran, pidJson, nextSid >>
         /\ \A q, c : EndPending(q, c) =>
              EndPending(q, c)' \/ (q = p /\ Head(hook[p]).event = "session_end" /\ Head(hook[p]).claude = c)
<1>1. /\ hook[p] # << >> /\ hook' = [hook EXCEPT ![p] = Tail(hook[p])]
      /\ UNCHANGED << runs, ran, pidJson, nextSid >>
  BY DEF Sent
<1>2. hook \in [Pids -> Seq(Hooks)]
  BY DEF IInv, BindingTypeOK
<1>3. /\ hook[p][1] = Head(hook[p]) /\ 1 \in DOMAIN hook[p] /\ hook[p][1] \in Hooks
      /\ Tail(hook[p]) \in Seq(Hooks)
      /\ \A i \in DOMAIN Tail(hook[p]) : i + 1 \in DOMAIN hook[p] /\ Tail(hook[p])[i] = hook[p][i + 1] /\ i + 1 # 1
  BY <1>1, <1>2
<1>4. hook'[p] = Tail(hook[p]) /\ \A q \in Pids \ {p} : hook'[q] = hook[q]
  BY <1>1, <1>2
<1>5. hook[p][1].claude \in ran[p]
  BY <1>3 DEF IInv, HooksOK
<1>6. runs[p] # NotRunning
  BY <1>1 DEF IInv, WorldOK
<1>7. HooksOK'
  <2> SUFFICES ASSUME NEW q \in Pids, NEW i \in DOMAIN hook'[q]
               PROVE  LET h1 == hook'[q][i]
                      IN  /\ h1.claude \in ran[q]
                          /\ h1.event = "session_start" => IsLatest(h1.claude, q)
                          /\ (h1.event = "session_start" /\ h1.source = "resume") => ran[q] = {h1.claude}
                          /\ h1.event = "session_end" =>
                               i = 1 /\ \A e \in ran[q] : e > h1.claude => IsLatest(e, q)
    BY <1>1 DEF HooksOK, IsLatest
  <2>1. CASE q = p
    <3>1. PICK k \in DOMAIN hook[p] : hook'[q][i] = hook[p][k] /\ k # 1
      BY <1>3, <1>4, <2>1
    <3> QED
      BY <2>1, <3>1 DEF IInv, HooksOK
  <2>2. CASE q # p
    BY <1>4, <2>2 DEF IInv, HooksOK
  <2> QED
    BY <2>1, <2>2
<1>8. WorldOK'
  <2>1. \A q \in Pids : runs[q] = NotRunning => hook'[q] = hook[q]
    BY <1>4, <1>6
  <2> QED
    BY <1>1, <2>1 DEF IInv, WorldOK, Alive, IsLatest
<1>9. ASSUME NEW q, NEW c, EndPending(q, c),
             ~ (q = p /\ Head(hook[p]).event = "session_end" /\ Head(hook[p]).claude = c)
      PROVE  EndPending(q, c)'
  <2>1. CASE q = p
    <3>1. PICK i \in DOMAIN hook[p] : hook[p][i].event = "session_end" /\ hook[p][i].claude = c
      BY <1>9, <2>1 DEF EndPending
    <3>2. i = 1
      BY <3>1 DEF IInv, HooksOK
    <3> QED
      BY <1>3, <1>9, <2>1, <3>1, <3>2
  <2>2. CASE q # p
    <3>1. hook'[q] = hook[q]
      BY <1>1, <1>2, <2>2
    <3> QED
      BY <1>9, <3>1 DEF EndPending
  <2> QED
    BY <2>1, <2>2
<1>10. hook' \in [Pids -> Seq(Hooks)]
  BY <1>1, <1>2, <1>3
<1> QED
  BY <1>1, <1>3, <1>5, <1>6, <1>7, <1>8, <1>9, <1>10

LEMMA WrittenIs ==
  ASSUME IInv, NEW c \in Sids, NEW p \in Pids, c \in ran[p]
  PROVE  /\ Written(c, p) \in Seq(Entries)
         /\ \A i \in DOMAIN Written(c, p) : Written(c, p)[i].claude \in ran[Written(c, p)[i].pid]
<1> DEFINE K == { i \in DOMAIN mapFile : mapFile[i].claude # c /\ Alive(mapFile[i].pid) }
           t == Picked(mapFile, K)
           e == [claude |-> c, pid |-> p]
<1>1. t \in Seq(Entries) /\ ToSet(t) = { mapFile[i] : i \in K }
  <2>1. mapFile \in Seq(Entries) /\ K \in SUBSET DOMAIN mapFile
    BY DEF IInv, BindingTypeOK
  <2> HIDE DEF K
  <2> QED
    BY <2>1, PickedRecords
<1>2. \A i \in DOMAIN t : t[i].claude \in ran[t[i].pid]
  <2>1. \A i \in DOMAIN t : \E k \in K : t[i] = mapFile[k]
    BY <1>1 DEF ToSet
  <2> QED
    BY <2>1 DEF IInv, MapOK
<1>3. Written(c, p) = Append(t, e)
  BY DEF Written
<1> HIDE DEF t
<1>4. e \in Entries /\ e.claude = c /\ e.pid = p
  BY DEF Entries
<1> HIDE DEF e
<1>5. /\ Append(t, e) \in Seq(Entries) /\ Append(t, e)[Len(t) + 1] = e
      /\ \A i \in DOMAIN Append(t, e) : i = Len(t) + 1 \/ (i \in DOMAIN t /\ Append(t, e)[i] = t[i])
  BY <1>1, <1>4
<1> QED
  BY <1>2, <1>3, <1>4, <1>5

LEMMA ScriptRunsKeeps ==
  ASSUME IInv, NEW p \in Pids, Quiet, ScriptRuns(p)
  PROVE  IInv'
<1> DEFINE h == Head(hook[p])
<1>1. /\ hook[p] # << >> /\ h.event = "session_start"
      /\ mapFile' = Written(h.claude, p)
      /\ hook' = [hook EXCEPT ![p] = IF @[1].source = "startup" THEN << >>
                                     ELSE [@ EXCEPT ![1].written = TRUE]]
      /\ UNCHANGED << runs, ran, pidJson, nextSid, disk, journal, memory, tick, restarts, astray >>
  BY DEF ScriptRuns
<1>2. BindingTypeOK
  BY TypeIs
<1>3. h = hook[p][1] /\ 1 \in DOMAIN hook[p] /\ h \in Hooks
  <2>1. hook[p] \in Seq(Hooks)
    BY <1>2 DEF BindingTypeOK
  <2> QED
    BY <1>1, <2>1
<1>4. h.claude \in ran[p] /\ h.claude \in Sids /\ runs[p] # NotRunning
  BY <1>1, <1>3 DEF IInv, HooksOK, WorldOK
<1>5. /\ hook'[p] \in Seq(Hooks)
      /\ \A i \in DOMAIN hook'[p] :
           /\ i \in DOMAIN hook[p] /\ hook'[p][i].claude = hook[p][i].claude
           /\ hook'[p][i].event = hook[p][i].event /\ hook'[p][i].source = hook[p][i].source
      /\ \A q \in Pids \ {p} : hook'[q] = hook[q]
  <2> DEFINE written == [hook[p] EXCEPT ![1].written = TRUE]
  <2>1. hook[p] \in Seq(Hooks)
    BY <1>2 DEF BindingTypeOK
  <2>2. [h EXCEPT !.written = TRUE] \in Hooks
    BY <1>3 DEF Hooks
  <2>3. /\ [h EXCEPT !.written = TRUE].claude = h.claude /\ [h EXCEPT !.written = TRUE].event = h.event
        /\ [h EXCEPT !.written = TRUE].source = h.source
    BY <1>3 DEF Hooks
  <2>4. /\ written \in Seq(Hooks) /\ DOMAIN written = DOMAIN hook[p]
        /\ \A i \in DOMAIN hook[p] : written[i] = IF i = 1 THEN [h EXCEPT !.written = TRUE] ELSE hook[p][i]
    BY <1>3, <2>1, <2>2
  <2> HIDE DEF h, written
  <2>5. \A i \in DOMAIN written :
           /\ written[i].claude = hook[p][i].claude
           /\ written[i].event = hook[p][i].event /\ written[i].source = hook[p][i].source
    BY <1>3, <2>3, <2>4
  <2>6. hook'[p] \in {<< >>, written} /\ \A q \in Pids \ {p} : hook'[q] = hook[q]
    BY <1>1, <1>2 DEF BindingTypeOK, written
  <2>7. CASE hook'[p] = << >>
    BY <2>6, <2>7
  <2>8. CASE hook'[p] = written
    BY <2>4, <2>5, <2>6, <2>8
  <2> QED
    BY <2>6, <2>7, <2>8
<1> HIDE DEF h
<1>6. BindingTypeOK'
  <2>1. mapFile' \in Seq(Entries)
    BY <1>1, <1>4, WrittenIs
  <2>2. hook' \in [Pids -> Seq(Hooks)]
    <3>1. \A q \in Pids : hook'[q] \in Seq(Hooks)
      BY <1>2, <1>5 DEF BindingTypeOK
    <3>2. hook' = [q \in Pids |-> hook'[q]]
      BY <1>1, <1>2 DEF BindingTypeOK
    <3> QED
      BY <3>1, <3>2
  <2> QED
    BY <1>1, <1>2, <2>1, <2>2 DEF BindingTypeOK, memory
<1>7. WorldOK'
  <2>1. \A q \in Pids : runs[q] = NotRunning => hook'[q] = hook[q]
    BY <1>4, <1>5
  <2> QED
    BY <1>1, <2>1 DEF IInv, WorldOK, Alive, IsLatest
<1>8. HooksOK'
  <2> SUFFICES ASSUME NEW q \in Pids, NEW i \in DOMAIN hook'[q]
               PROVE  LET h1 == hook'[q][i]
                      IN  /\ h1.claude \in ran[q]
                          /\ h1.event = "session_start" => IsLatest(h1.claude, q)
                          /\ (h1.event = "session_start" /\ h1.source = "resume") => ran[q] = {h1.claude}
                          /\ h1.event = "session_end" =>
                               i = 1 /\ \A e \in ran[q] : e > h1.claude => IsLatest(e, q)
    BY <1>1 DEF HooksOK, IsLatest
  <2>1. /\ i \in DOMAIN hook[q] /\ hook'[q][i].claude = hook[q][i].claude
        /\ hook'[q][i].event = hook[q][i].event /\ hook'[q][i].source = hook[q][i].source
    BY <1>5
  <2> QED
    BY <2>1 DEF IInv, HooksOK
<1>9. DiskOK'
  BY <1>1 DEF IInv, DiskOK, Alone
<1>10. MapOK'
  BY <1>1, <1>4, WrittenIs DEF MapOK
<1>11. RecordsOK' /\ Single' /\ PendingOK' /\ JournalOK' /\ TickOK'
  <2>1. \A q \in Pids : \A e : EndPending(q, e) => EndPending(q, e)'
    <3>1. \A e : ~ EndPending(p, e)
      <4> SUFFICES ASSUME NEW i \in DOMAIN hook[p], hook[p][i].event = "session_end" PROVE FALSE
        BY DEF EndPending
      <4>1. i = 1
        BY DEF IInv, HooksOK
      <4> QED
        BY <1>1, <1>3, <4>1
    <3> QED
      BY <1>5, <3>1 DEF EndPending
  <2> QED
    BY <1>1, <2>1, UnseenKeeps
<1> QED
  BY <1>6, <1>7, <1>8, <1>9, <1>10, <1>11 DEF IInv

LEMMA HookLostKeeps ==
  ASSUME IInv, NEW p \in Pids, HookLost(p)
  PROVE  IInv'
<1>1. /\ tick.step = "down" /\ Sent(p) /\ Quiet
      /\ UNCHANGED << disk, files, memory, tick, restarts, astray >>
  BY DEF HookLost, Quiet
<1>2. All = {}
  BY <1>1 DEF IInv, TickOK, All, ToSet
<1>3. /\ hook' \in [Pids -> Seq(Hooks)] /\ HooksOK' /\ WorldOK'
      /\ UNCHANGED << runs, ran, pidJson, nextSid >>
  BY <1>1, SentIs
<1>4. BindingTypeOK'
  BY <1>1, <1>3, TypeIs DEF BindingTypeOK, files, memory
<1>5. DiskOK' /\ MapOK'
  BY <1>1, <1>3 DEF IInv, DiskOK, MapOK, Alone, files
<1>6. RecordsOK' /\ Single' /\ PendingOK' /\ JournalOK' /\ TickOK'
  BY <1>1, <1>2, <1>3, UnseenKeeps DEF files
<1> QED
  BY <1>3, <1>4, <1>5, <1>6 DEF IInv

-----------------------------------------------------------------------------
(* Steps of the daemon.                                                     *)

\* They leave the processes as they are.
Apart == UNCHANGED << runs, ran, pidJson, nextSid, disk >>

\* What a record keeps: its process ran it.
LEMMA ApartIs ==
  ASSUME Apart
  PROVE  /\ \A p : Alone(p)' <=> Alone(p)
         /\ \A c, p : Family(c, p)' <=> Family(c, p)
         /\ \A c, p : IsLatest(c, p)' <=> IsLatest(c, p)
         /\ \A r : RecordOK(r)' <=> RecordOK(r)
         /\ \A p : Alive(p)' <=> Alive(p)
<1>1. \A p : Alone(p)' <=> Alone(p)
  BY DEF Apart, Alone
<1>2. \A c, p : Family(c, p)' <=> Family(c, p)
  BY <1>1 DEF Apart, Family
<1>3. \A r : RecordOK(r)' <=> RecordOK(r)
  BY <1>2 DEF Apart, RecordOK
<1> QED
  BY <1>1, <1>2, <1>3 DEF Apart, IsLatest, Alive

LEMMA OutsideKeeps ==
  ASSUME IInv, Apart, hook' = hook
  PROVE  WorldOK' /\ HooksOK' /\ DiskOK'
BY DEF IInv, Apart, WorldOK, HooksOK, DiskOK, Alone, Alive, IsLatest

\* A terminal on its own has one record still if it has no other than a new one.
Only(n) == (n.pid \in Pids \ astray /\ Alone(n.pid)) => \A s \in All : s.pid = n.pid => s = n

LEMMA RecordsAfter ==
  ASSUME IInv, Apart, Agreed', astray \subseteq astray',
         \A n \in All' : n \in All \/ (RecordOK(n) /\ Only(n)')
  PROVE  RecordsOK' /\ Single' /\ JournalOK'
<1>1. \A n \in All' : RecordOK(n)'
  BY ApartIs DEF IInv, RecordsOK
<1>2. Distinct(sessions)' /\ JournalOK'
  BY DEF Agreed
<1>3. ASSUME NEW r \in All', NEW s \in All', r.pid = s.pid, r.pid \in Pids \ astray', Alone(r.pid)'
      PROVE  r = s
  <2>1. CASE Only(r)'
    BY <1>3, <2>1 DEF Only
  <2>2. CASE Only(s)'
    BY <1>3, <2>2 DEF Only
  <2>3. CASE r \in All /\ s \in All
    BY <1>3, <2>3, ApartIs DEF IInv, Single
  <2> QED
    BY <2>1, <2>2, <2>3
<1> QED
  BY <1>1, <1>2, <1>3 DEF RecordsOK, Single

\* The information of a /clear of directory w is of process p.
PendingAt(w, p) ==
    /\ runs[p] # NotRunning
    /\ \/ CwdOf[p] = w
       \/ ~ Alone(p) /\ \A q \in Pids : CwdOf[q] = w => ~ Alone(q)
    /\ (Alone(p) /\ p \notin astray) =>
         \A r \in All : r.pid = p => IsLatest(r.claude, p) \/ EndPending(p, r.claude)

\* A new record is of the session that its terminal began last.
Latest(n) ==
    \A w \in Cwds :
        (/\ pendingClear[w] # None /\ pendingClear[w] = n.pid
         /\ Alone(n.pid) /\ n.pid \notin astray) => IsLatest(n.claude, n.pid)

LEMMA PendingAfter ==
  ASSUME IInv, Apart, astray \subseteq astray',
         \A w \in Cwds : \/ pendingClear'[w] \in {pendingClear[w], None}
                         \/ \E p : pendingClear'[w] = p /\ PendingAt(w, p)',
         \A r \in All' : EndPending(r.pid, r.claude) => EndPending(r.pid, r.claude)',
         \A n \in All' : n \in All \/ Latest(n)'
  PROVE  PendingOK'
<1> SUFFICES ASSUME NEW w \in Cwds, NEW p, p = pendingClear'[w], p # None
             PROVE  PendingAt(w, p)'
  BY DEF PendingOK, PendingAt
<1>1. CASE pendingClear[w] = p
  <2>1. PendingAt(w, p)
    BY <1>1 DEF IInv, PendingOK, PendingAt
  <2>2. ASSUME Alone(p), p \notin astray', NEW r \in All', r.pid = p
        PROVE  IsLatest(r.claude, p) \/ EndPending(p, r.claude)'
    <3>1. CASE r \in All
      BY <2>1, <2>2, <3>1 DEF PendingAt
    <3>2. CASE Latest(r)'
      BY <2>2, <3>2, ApartIs DEF Latest
    <3> QED
      BY <3>1, <3>2
  <2>3. runs'[p] # NotRunning
    BY <2>1 DEF PendingAt, Apart
  <2>4. CwdOf[p] = w \/ (~ Alone(p)' /\ \A q \in Pids : CwdOf[q] = w => ~ Alone(q)')
    BY <2>1, ApartIs DEF PendingAt
  <2>5. ASSUME Alone(p)', p \notin astray', NEW r \in All', r.pid = p
        PROVE  IsLatest(r.claude, p)' \/ EndPending(p, r.claude)'
    BY <2>2, <2>5, ApartIs
  <2> QED
    BY <2>3, <2>4, <2>5 DEF PendingAt
<1>2. CASE pendingClear[w] # p
  BY <1>2
<1> QED
  BY <1>1, <1>2

\* What makes a step of the daemon keep the invariant.
LEMMA DaemonKeeps ==
  ASSUME IInv, Apart, Agreed', astray \subseteq astray', astray' \subseteq Pids,
         hook' \in [Pids -> Seq(Hooks)], WorldOK', HooksOK', DiskOK',
         mapFile' \in Seq(Entries), MapOK', replaced' \subseteq Sids,
         pendingClear' \in [Cwds -> Pids \cup {None}], restarts' \in 0 .. MaxRestarts,
         tick' \in [ step : {"down", "idle", "adopt", "observe"}, boot : BOOLEAN,
                     adopt : SUBSET Sids, observe : SUBSET Pids ],
         TickOK',
         \A w \in Cwds : \/ pendingClear'[w] \in {pendingClear[w], None}
                         \/ \E p : pendingClear'[w] = p /\ PendingAt(w, p)',
         \A r \in All' : EndPending(r.pid, r.claude) => EndPending(r.pid, r.claude)',
         \A n \in All' : n \in All \/ (RecordOK(n) /\ Only(n)' /\ Latest(n)')
  PROVE  IInv'
<1>1. BindingTypeOK'
  BY TypeIs DEF BindingTypeOK, Apart, Agreed
<1>2. RecordsOK' /\ Single' /\ JournalOK'
  BY RecordsAfter
<1>3. PendingOK'
  BY PendingAfter
<1> QED
  BY <1>1, <1>2, <1>3 DEF IInv

LEMMA MapStays ==
  ASSUME IInv, Apart,
         mapFile' = mapFile \/ \E K \in SUBSET DOMAIN mapFile : mapFile' = Picked(mapFile, K)
  PROVE  mapFile' \in Seq(Entries) /\ MapOK'
<1>1. mapFile \in Seq(Entries) /\ MapOK /\ ran' = ran
  BY DEF IInv, BindingTypeOK, Apart
<1>2. CASE mapFile' = mapFile
  BY <1>1, <1>2 DEF MapOK
<1>3. ASSUME NEW K \in SUBSET DOMAIN mapFile, mapFile' = Picked(mapFile, K)
      PROVE  mapFile' \in Seq(Entries) /\ MapOK'
  <2>1. mapFile' \in Seq(Entries) /\ ToSet(mapFile') = { mapFile[i] : i \in K }
    BY <1>1, <1>3, PickedRecords
  <2>2. \A i \in DOMAIN mapFile' : \E k \in K : mapFile'[i] = mapFile[k]
    BY <2>1 DEF ToSet
  <2>3. \A i \in DOMAIN mapFile' : mapFile'[i].claude \in ran[mapFile'[i].pid]
    BY <1>1, <2>2 DEF MapOK
  <2> QED
    BY <1>1, <2>1, <2>3 DEF MapOK
<1> QED
  BY <1>2, <1>3

\* The records and the journal stay as they are.
LEMMA SameStays ==
  ASSUME IInv, sessions' = sessions, journal' = journal
  PROVE  Agreed' /\ All' = All
<1>1. Agreed
  BY InvAgrees
<1>2. All' = All
  BY DEF All
<1>3. JournalOK'
  BY <1>1, <1>2 DEF Agreed, JournalOK
<1> QED
  BY <1>1, <1>2, <1>3 DEF Agreed, Distinct

\* Values of the tick.
LEMMA IdleIs ==
  /\ Idle \in [ step : {"down", "idle", "adopt", "observe"}, boot : BOOLEAN,
                adopt : SUBSET Sids, observe : SUBSET Pids ]
  /\ Down \in [ step : {"down", "idle", "adopt", "observe"}, boot : BOOLEAN,
                adopt : SUBSET Sids, observe : SUBSET Pids ]
  /\ Idle.step = "idle" /\ Idle.observe = {} /\ Idle.adopt = {} /\ Down.step = "down" /\ Down.observe = {}
BY DEF Idle, Down

LEMMA IdleStays ==
  ASSUME IInv, Apart, tick.step = "idle", tick' = tick
  PROVE  TickOK'
<1>1. tick = Idle
  BY DEF IInv, TickOK
<1> QED
  BY <1>1, IdleIs DEF TickOK

LEMMA SessionEndKeeps ==
  ASSUME IInv, NEW p \in Pids, SessionEnd(p)
  PROVE  IInv'
<1>0. PICK c : c = Head(hook[p]).claude
  OBVIOUS
<1> DEFINE r == Record(c)
           w0 == CwdOf[p]
<1>1. /\ tick.step = "idle" /\ Sent(p) /\ Head(hook[p]).event = "session_end"
      /\ IF ~ Tracked(c) THEN UNCHANGED << journal, memory >>
         ELSE /\ pendingClear' = IF r.pid = None THEN pendingClear
                                 ELSE [pendingClear EXCEPT ![w0] = r.pid]
              /\ sessions' = Without(r)
              /\ journal' = Logged(RemoveEvents(r))
              /\ replaced' = replaced \cup {c}
      /\ UNCHANGED << disk, mapFile, tick, restarts, astray >>
  BY <1>0 DEF SessionEnd
<1>2. /\ c \in ran[p] /\ c \in Sids /\ runs[p] # NotRunning
      /\ hook' \in [Pids -> Seq(Hooks)] /\ HooksOK' /\ WorldOK' /\ Apart
      /\ \A q, e : (EndPending(q, e) /\ e # c) => EndPending(q, e)'
  <2>1. UNCHANGED << runs, ran, pidJson, nextSid >> /\ Head(hook[p]).claude \in ran[p]
    BY <1>1, SentIs
  <2>2. c \in Sids
    BY <1>0, <2>1, RanIs
  <2> QED
    BY <1>0, <1>1, <2>1, <2>2, SentIs DEF Apart
<1>3. BindingTypeOK /\ w0 \in Cwds
  BY TypeIs, Values
<1>4. DiskOK'
  BY <1>1, <1>2 DEF IInv, DiskOK, Apart, Alone
<1>5. mapFile' \in Seq(Entries) /\ MapOK' /\ TickOK'
  BY <1>1, <1>2, MapStays, IdleStays
<1> HIDE DEF r, w0
<1>6. CASE ~ Tracked(c)
  <2>1. UNCHANGED << journal, sessions, replaced, pendingClear >>
    BY <1>1, <1>6 DEF memory
  <2>2. Agreed' /\ All' = All
    BY <2>1, SameStays
  <2>3. \A s \in All' : EndPending(s.pid, s.claude) => EndPending(s.pid, s.claude)'
    BY <1>2, <1>6, <2>2 DEF Tracked
  <2> QED
    BY <1>1, <1>2, <1>3, <1>4, <1>5, <2>1, <2>2, <2>3, DaemonKeeps DEF BindingTypeOK
<1>7. CASE Tracked(c)
  <2>0. PICK q : q = r.pid
    OBVIOUS
  <2>1. r \in All /\ r.claude = c /\ RecordOK(r) /\ q \in Pids \cup {None}
    BY <1>3, <1>7, <2>0, RecordOf, RecordType DEF r, IInv, BindingTypeOK, RecordsOK
  <2>2. /\ pendingClear' = IF q = None THEN pendingClear ELSE [pendingClear EXCEPT ![w0] = q]
        /\ sessions' = Without(r) /\ journal' = Logged(RemoveEvents(r)) /\ replaced' = replaced \cup {c}
    BY <1>1, <1>7, <2>0
  <2>3. Agreed' /\ All' = All \ {r}
    BY <2>1, <2>2, InvAgrees, DropsRecord
  <2>4. \A s \in All' : EndPending(s.pid, s.claude) => EndPending(s.pid, s.claude)'
    BY <1>2, <2>1, <2>3, InvAgrees, SameRecord
  <2>5. ASSUME q # None PROVE PendingAt(w0, q)'
    <3>1. q \in Pids /\ Family(c, q) /\ runs[q] # NotRunning
      BY <2>0, <2>1, <2>5 DEF RecordOK
    <3>2. w0 = CwdOf[p]
      BY DEF w0
    <3>3. CwdOf[q] = w0 \/ (~ Alone(q) /\ \A x \in Pids : CwdOf[x] = w0 => ~ Alone(x))
      <4>1. CASE q = p
        BY <3>2, <4>1
      <4>2. CASE q # p
        <5>1. ~ Alone(q)
          BY <1>2, <3>1, <4>2 DEF Family, Alone
        <5>2. PICK o \in Pids : ~ Alone(o) /\ c \in ran[o]
          BY <3>1, <5>1 DEF Family
        <5>3. ~ Alone(p)
          BY <1>2, <5>2 DEF Alone
        <5>4. \A x \in Pids \ {p} : CwdOf[x] = w0 => ~ Alone(x)
          BY <3>2 DEF Alone
        <5> QED
          BY <5>1, <5>3, <5>4
      <4> QED
        BY <4>1, <4>2
    <3>4. ASSUME Alone(q), q \notin astray, NEW s \in All', s.pid = q
          PROVE  FALSE
      <4>1. s \in All /\ s # r
        BY <2>3, <3>4
      <4> QED
        BY <2>0, <2>1, <3>1, <3>4, <4>1 DEF IInv, Single
    <3>5. runs' = runs /\ astray' = astray /\ \A x \in Pids : Alone(x)' <=> Alone(x)
      BY <1>1, <1>2, ApartIs DEF Apart
    <3> QED
      BY <3>1, <3>3, <3>4, <3>5 DEF PendingAt
  <2>6. /\ pendingClear' \in [Cwds -> Pids \cup {None}]
        /\ \A w \in Cwds : \/ pendingClear'[w] \in {pendingClear[w], None}
                           \/ \E x : pendingClear'[w] = x /\ PendingAt(w, x)'
    <3>1. pendingClear \in [Cwds -> Pids \cup {None}]
      BY <1>3 DEF BindingTypeOK
    <3>2. CASE q = None
      BY <2>2, <3>1, <3>2
    <3>3. CASE q # None
      BY <1>3, <2>1, <2>2, <2>5, <3>1, <3>3
    <3> QED
      BY <3>2, <3>3
  <2>7. replaced' \subseteq Sids
    BY <1>2, <1>3, <2>2 DEF BindingTypeOK
  <2> QED
    BY <1>1, <1>2, <1>3, <1>4, <1>5, <2>3, <2>4, <2>6, <2>7, DaemonKeeps DEF BindingTypeOK
<1> QED
  BY <1>6, <1>7

LEMMA PendingClearExpiresKeeps ==
  ASSUME IInv, NEW w \in Cwds, PendingClearExpires(w)
  PROVE  IInv'
<1>1. /\ tick.step = "idle" /\ pendingClear' = [pendingClear EXCEPT ![w] = None]
      /\ UNCHANGED << outside, disk, files, sessions, replaced, tick, restarts, astray >>
  BY DEF PendingClearExpires
<1>2. BindingTypeOK
  BY TypeIs
<1>3. Apart /\ hook' = hook /\ mapFile' = mapFile /\ journal' = journal
  BY <1>1 DEF Apart, outside, files
<1>4. Agreed' /\ All' = All
  BY <1>1, <1>3, SameStays
<1>5. WorldOK' /\ HooksOK' /\ DiskOK' /\ mapFile' \in Seq(Entries) /\ MapOK' /\ TickOK'
  BY <1>1, <1>3, OutsideKeeps, MapStays, IdleStays
<1>6. \A r \in All' : EndPending(r.pid, r.claude) => EndPending(r.pid, r.claude)'
  BY <1>3 DEF EndPending
<1>7. /\ pendingClear' \in [Cwds -> Pids \cup {None}]
      /\ \A v \in Cwds : pendingClear'[v] \in {pendingClear[v], None}
  BY <1>1, <1>2 DEF BindingTypeOK
<1> QED
  BY <1>1, <1>2, <1>3, <1>4, <1>5, <1>6, <1>7, DaemonKeeps DEF BindingTypeOK

\* A record has the session c that its terminal q began last; another terminal
\* has begun it as well, or is q.
LEMMA NewRecord ==
  ASSUME IInv, Apart, astray \subseteq astray', NEW p \in Pids, NEW q \in Pids,
         NEW n \in Records, n.pid = q, n.last # None => Family(n.claude, n.last) /\ runs[n.last] = Exited,
         runs[q] # NotRunning, Family(n.claude, q),
         (Alone(q) /\ q \notin astray') => /\ \A s \in All' : s.pid = q => s = n
                                           /\ IsLatest(n.claude, q)
  PROVE  RecordOK(n) /\ Only(n)' /\ Latest(n)'
<1>1. RecordOK(n)
  BY Values DEF RecordOK
<1>2. Only(n)'
  BY ApartIs DEF Only
<1>3. Latest(n)'
  BY ApartIs DEF Latest
<1> QED
  BY <1>1, <1>2, <1>3

LEMMA PromotedRec ==
  ASSUME NEW r \in Records, NEW p \in Pids
  PROVE  /\ Promoted(r, p) \in Records /\ Promoted(r, p).claude = r.claude
         /\ Promoted(r, p).pid = p /\ Promoted(r, p).last = r.last
BY DEF Promoted, Records

\* The session c that p began last is observed on q, another terminal that ran
\* it or p itself: if p is on its own it has no other record.
LEMMA AfterClearKeeps ==
  ASSUME IInv, NEW p \in Pids, NEW c \in Sids, Apart, UNCHANGED << mapFile, tick, restarts, astray >>,
         tick.step = "idle", hook' \in [Pids -> Seq(Hooks)], HooksOK', WorldOK',
         c \in ran[p], IsLatest(c, p), \A e : ~ EndPending(p, e),
         \A q, e : EndPending(q, e) => EndPending(q, e)',
         ~ Tracked(c), AfterClear(c, CwdOf[p])
  PROVE  IInv'
<1>0. PICK w : w = CwdOf[p]
  OBVIOUS
<1>1. BindingTypeOK /\ w \in Cwds /\ Agreed /\ None \notin Pids
  BY <1>0, TypeIs, Values, InvAgrees
<1>2. DiskOK' /\ mapFile' \in Seq(Entries) /\ MapOK' /\ TickOK'
  <2>1. DiskOK'
    BY DEF IInv, DiskOK, Apart, Alone
  <2> QED
    BY <2>1, MapStays, IdleStays
<1>3. runs[p] # NotRunning
  BY DEF IInv, WorldOK
<1>4. CASE pendingClear[w] # None
  <2>0. PICK q : q = pendingClear[w]
    OBVIOUS
  <2>1. /\ StartObserving(c, q) /\ replaced' = replaced
        /\ pendingClear' = [pendingClear EXCEPT ![w] = None]
    BY <1>0, <1>4, <2>0 DEF AfterClear
  <2>2. q \in Pids
    BY <1>1, <1>4, <2>0 DEF BindingTypeOK
  <2>3. Agreed' /\ All' = All \cup {Rec(c, q)}
    BY <1>1, <2>1, <2>2, StartsRecord
  <2>4. PendingAt(w, q)
    BY <1>1, <1>4, <2>0 DEF IInv, PendingOK, PendingAt
  <2>5. Alone(q) => q = p
    BY <1>0, <2>2, <2>4 DEF PendingAt, Alone
  <2>6. Family(c, q)
    <3>1. CASE Alone(q)
      BY <2>5, <3>1 DEF Family
    <3>2. CASE ~ Alone(q)
      <4>1. ~ Alone(p)
        BY <1>0, <2>2, <2>4, <3>2 DEF PendingAt, Alone
      <4> QED
        BY <3>2, <4>1 DEF Family
    <3> QED
      BY <3>1, <3>2
  <2>7. ASSUME Alone(q), q \notin astray', NEW s \in All, s.pid = q
        PROVE  FALSE
    <3>1. q = p /\ q \notin astray
      BY <2>5, <2>7
    <3>2. IsLatest(s.claude, p)
      BY <2>4, <2>7, <3>1 DEF PendingAt
    <3>3. RecordOK(s) /\ s.pid # None
      BY <2>2, <2>7, Values DEF IInv, RecordsOK
    <3>4. s.claude \in ran[p]
      BY <2>7, <3>1, <3>3 DEF RecordOK, Family
    <3>5. s.claude <= c /\ c <= s.claude /\ s.claude \in Nat /\ c \in Nat
      BY <3>2, <3>4, RanIs, Values DEF IsLatest
    <3> QED
      BY <3>5 DEF Tracked
  <2>8. RecordOK(Rec(c, q)) /\ Only(Rec(c, q))' /\ Latest(Rec(c, q))'
    <3>1. /\ Rec(c, q) \in Records /\ Rec(c, q).claude = c /\ Rec(c, q).pid = q /\ Rec(c, q).last = None
      BY <2>2, RecIs
    <3>2. runs[q] # NotRunning
      BY <2>4 DEF PendingAt
    <3>3. (Alone(q) /\ q \notin astray') => /\ \A s \in All' : s.pid = q => s = Rec(c, q)
                                            /\ IsLatest(Rec(c, q).claude, q)
      BY <2>3, <2>5, <2>7, <3>1
    <3> QED
      BY <2>2, <2>6, <3>1, <3>2, <3>3, NewRecord
  <2>9. /\ pendingClear' \in [Cwds -> Pids \cup {None}]
        /\ \A v \in Cwds : pendingClear'[v] \in {pendingClear[v], None}
    BY <1>1, <2>1 DEF BindingTypeOK
  <2>10. \A n \in All' : n \in All \/ (RecordOK(n) /\ Only(n)' /\ Latest(n)')
    BY <2>3, <2>8
  <2> QED
    BY <1>1, <1>2, <2>1, <2>3, <2>9, <2>10, DaemonKeeps DEF BindingTypeOK
<1>5. CASE pendingClear[w] = None /\ Predecessor(c) = {}
  <2>1. UNCHANGED << sessions, journal, replaced, pendingClear >>
    BY <1>0, <1>5 DEF AfterClear
  <2>2. Agreed' /\ All' = All
    BY <2>1, SameStays
  <2> QED
    BY <1>1, <1>2, <2>1, <2>2, DaemonKeeps DEF BindingTypeOK
<1>6. CASE pendingClear[w] = None /\ Predecessor(c) # {}
  <2>1. PICK r \in Predecessor(c) : Replace(r, c, r.pid, << >>) /\ pendingClear' = pendingClear
    BY <1>0, <1>6 DEF AfterClear
  <2>2. PICK q \in MapPid(c) : r \in ObservedOn(q)
    BY DEF Predecessor
  <2>3. r \in All /\ r.pid = q /\ q \in Pids /\ c \in ran[q]
    BY <1>1, <2>2, ObservedOnIs, MapIs DEF BindingTypeOK
  <2>4. Agreed' /\ All' = (All \ {r}) \cup {Rec(c, q)}
    BY <1>1, <2>1, <2>3, ReplacesRecord DEF Replace
  <2>5. Alone(q) => q = p
    BY <2>3 DEF Alone
  <2>6. Family(c, q)
    BY <2>3 DEF Family
  <2>7. RecordOK(Rec(c, q)) /\ Only(Rec(c, q))' /\ Latest(Rec(c, q))'
    <3>1. /\ Rec(c, q) \in Records /\ Rec(c, q).claude = c /\ Rec(c, q).pid = q /\ Rec(c, q).last = None
      BY <2>3, RecIs
    <3>2. runs[q] # NotRunning
      BY <2>3 DEF IInv, WorldOK
    <3>3. (Alone(q) /\ q \notin astray') => /\ \A s \in All' : s.pid = q => s = Rec(c, q)
                                            /\ IsLatest(Rec(c, q).claude, q)
      <4>1. ASSUME Alone(q), q \notin astray', NEW s \in All \ {r}, s.pid = q PROVE FALSE
        BY <2>3, <4>1 DEF IInv, Single
      <4> QED
        BY <2>4, <2>5, <3>1, <4>1
    <3> QED
      BY <2>3, <2>6, <3>1, <3>2, <3>3, NewRecord
  <2>8. replaced' \subseteq Sids
    <3>1. r.claude \in Sids /\ replaced' = replaced \cup {r.claude}
      BY <1>1, <2>1, <2>3, RecordType DEF Replace, BindingTypeOK
    <3> QED
      BY <1>1, <3>1 DEF BindingTypeOK
  <2>9. \A n \in All' : n \in All \/ (RecordOK(n) /\ Only(n)' /\ Latest(n)')
    BY <2>4, <2>7
  <2> QED
    BY <1>1, <1>2, <2>1, <2>4, <2>8, <2>9, DaemonKeeps DEF BindingTypeOK
<1> QED
  BY <1>4, <1>5, <1>6

\* A session that one process resumed and no /clear replaced is promoted.
LEMMA AfterResumeKeeps ==
  ASSUME IInv, NEW p \in Pids, NEW c \in Sids, Apart, UNCHANGED << mapFile, tick, restarts, astray >>,
         tick.step = "idle", hook' \in [Pids -> Seq(Hooks)], HooksOK', WorldOK',
         ran[p] = {c}, IsLatest(c, p),
         \A q, e : EndPending(q, e) => EndPending(q, e)',
         AfterResume(c)
  PROVE  IInv'
<1>1. BindingTypeOK /\ Agreed /\ replaced' = replaced /\ pendingClear' = pendingClear
  BY TypeIs, InvAgrees DEF AfterResume
<1>2. DiskOK' /\ mapFile' \in Seq(Entries) /\ MapOK' /\ TickOK'
  <2>1. DiskOK'
    BY DEF IInv, DiskOK, Apart, Alone
  <2> QED
    BY <2>1, MapStays, IdleStays
<1>3. CASE UNCHANGED << sessions, journal >>
  <2>1. Agreed' /\ All' = All
    BY <1>3, SameStays
  <2> QED
    BY <1>1, <1>2, <2>1, DaemonKeeps DEF BindingTypeOK
<1>4. CASE ~ UNCHANGED << sessions, journal >>
  <2>0. PICK r : r = Record(c)
    OBVIOUS
  <2>1. PICK q \in MapPid(c) : Tracked(c) /\ r.pid = None /\ RePromote(r, q)
    BY <1>4, <2>0 DEF AfterResume
  <2>2. r \in All /\ r.claude = c /\ r \in Records /\ RecordOK(r)
    BY <1>1, <2>0, <2>1, RecordOf, RecordType DEF BindingTypeOK, IInv, RecordsOK
  <2>3. q \in Pids /\ c \in ran[q]
    BY MapIs
  <2>4. Agreed' /\ All' = (All \ {r}) \cup {Promoted(r, q)}
    BY <1>1, <2>1, <2>2, <2>3, PromotesRecord
  <2>5. RecordOK(Promoted(r, q)) /\ Only(Promoted(r, q))' /\ Latest(Promoted(r, q))'
    <3> DEFINE n == Promoted(r, q)
    <3>1. n \in Records /\ n.claude = c /\ n.pid = q /\ n.last = r.last
      BY <2>2, <2>3, PromotedRec
    <3>2. runs[q] # NotRunning
      BY <2>3 DEF IInv, WorldOK
    <3>3. Alone(q) => q = p
      BY <2>3 DEF Alone
    <3>4. ASSUME Alone(q), NEW s \in All \ {r}, s.pid = q PROVE FALSE
      <4>1. RecordOK(s) /\ s.pid # None
        BY <2>3, <3>4, Values DEF IInv, RecordsOK
      <4>2. s.claude = c
        BY <3>3, <3>4, <4>1 DEF RecordOK, Family
      <4> QED
        BY <1>1, <2>2, <3>4, <4>2, SameRecord
    <3>5. Family(c, q)
      BY <2>3 DEF Family
    <3>6. n.last # None => Family(n.claude, n.last) /\ runs[n.last] = Exited
      BY <2>2, <3>1 DEF RecordOK
    <3> HIDE DEF n
    <3>7. (Alone(q) /\ q \notin astray') => /\ \A s \in All' : s.pid = q => s = n
                                            /\ IsLatest(n.claude, q)
      BY <2>4, <3>1, <3>3, <3>4 DEF n
    <3>8. RecordOK(n) /\ Only(n)' /\ Latest(n)'
      BY <2>3, <3>1, <3>2, <3>5, <3>6, <3>7, NewRecord
    <3> QED
      BY <3>8 DEF n
  <2>6. \A n \in All' : n \in All \/ (RecordOK(n) /\ Only(n)' /\ Latest(n)')
    BY <2>4, <2>5
  <2> QED
    BY <1>1, <1>2, <2>4, <2>6, DaemonKeeps DEF BindingTypeOK
<1> QED
  BY <1>3, <1>4

LEMMA SessionStartKeeps ==
  ASSUME IInv, NEW p \in Pids, SessionStart(p)
  PROVE  IInv'
<1>0. PICK h : h = Head(hook[p])
  OBVIOUS
<1>1. /\ tick.step = "idle" /\ Sent(p) /\ h.event = "session_start"
      /\ UNCHANGED << disk, mapFile, tick, restarts, astray >>
  BY <1>0 DEF SessionStart
<1>2. \/ h.source = "resume" /\ AfterResume(h.claude)
      \/ h.source = "clear" /\ ~ Tracked(h.claude) /\ AfterClear(h.claude, CwdOf[p])
      \/ UNCHANGED << journal, memory >>
  BY <1>0 DEF SessionStart
<1>3. /\ hook[p][1] = h /\ 1 \in DOMAIN hook[p] /\ h.claude \in ran[p] /\ h.claude \in Sids
      /\ hook' \in [Pids -> Seq(Hooks)] /\ HooksOK' /\ WorldOK' /\ Apart
      /\ \A q, e : EndPending(q, e) => EndPending(q, e)'
  <2>1. /\ UNCHANGED << runs, ran, pidJson, nextSid >> /\ h.claude \in ran[p]
    BY <1>0, <1>1, SentIs
  <2>2. h.claude \in Sids
    BY <2>1, RanIs
  <2> QED
    BY <1>0, <1>1, <2>1, <2>2, SentIs DEF Apart
<1>4. IsLatest(h.claude, p) /\ (h.source = "resume" => ran[p] = {h.claude})
  BY <1>1, <1>3 DEF IInv, HooksOK
<1>5. \A e : ~ EndPending(p, e)
  <2> SUFFICES ASSUME NEW i \in DOMAIN hook[p], hook[p][i].event = "session_end" PROVE FALSE
    BY DEF EndPending
  <2>1. i = 1
    BY DEF IInv, HooksOK
  <2> QED
    BY <1>1, <1>3, <2>1
<1>6. CASE h.source = "resume" /\ AfterResume(h.claude)
  BY <1>1, <1>3, <1>4, <1>6, AfterResumeKeeps
<1>7. CASE h.source = "clear" /\ ~ Tracked(h.claude) /\ AfterClear(h.claude, CwdOf[p])
  BY <1>1, <1>3, <1>4, <1>5, <1>7, AfterClearKeeps
<1>8. CASE UNCHANGED << journal, memory >>
  <2>1. UNCHANGED << journal, sessions, replaced, pendingClear >> /\ BindingTypeOK
    BY <1>8, TypeIs DEF memory
  <2>2. Agreed' /\ All' = All
    BY <2>1, SameStays
  <2>3. DiskOK'
    BY <1>3 DEF IInv, DiskOK, Apart, Alone
  <2>4. mapFile' \in Seq(Entries) /\ MapOK' /\ TickOK'
    BY <1>1, <1>3, MapStays, IdleStays
  <2> QED
    BY <1>1, <1>3, <2>1, <2>2, <2>3, <2>4, DaemonKeeps DEF BindingTypeOK
<1> QED
  BY <1>2, <1>6, <1>7, <1>8

LEMMA TickBeginsKeeps ==
  ASSUME IInv, TickBegins
  PROVE  IInv'
<1>1. /\ sessions' = Historified(Dead) /\ journal' = Logged(ExitEvents(Dead))
      /\ mapFile' = CleanSessionMap({ r.pid : r \in Dead })
      /\ tick' = IF Running = {} THEN Idle
                 ELSE [ Idle EXCEPT !.step = "adopt", !.observe = Running,
                                    !.adopt = { r.claude : r \in { s \in ToSet(sessions') : s.pid # None } } ]
      /\ UNCHANGED << outside, disk, replaced, pendingClear, restarts, astray >>
  BY DEF TickBegins
<1>2. BindingTypeOK /\ Agreed /\ Apart /\ hook' = hook
  BY <1>1, TypeIs, InvAgrees DEF Apart, outside
<1>3. Agreed' /\ All' = (All \ Dead) \cup { Expired(r) : r \in Dead }
  BY <1>1, <1>2, ExpiresRecords
<1>4. WorldOK' /\ HooksOK' /\ DiskOK'
  BY <1>2, OutsideKeeps
<1>5. mapFile' \in Seq(Entries) /\ MapOK'
  <2>1. \E K \in SUBSET DOMAIN mapFile : mapFile' = Picked(mapFile, K)
    BY <1>1 DEF CleanSessionMap
  <2> QED
    BY <1>2, <2>1, MapStays
<1>6. /\ tick' \in [ step : {"down", "idle", "adopt", "observe"}, boot : BOOLEAN,
                     adopt : SUBSET Sids, observe : SUBSET Pids ]
      /\ TickOK'
  <2>1. CASE Running = {}
    <3>1. tick' = Idle
      BY <1>1, <2>1
    <3> QED
      BY <3>1, IdleIs DEF TickOK
  <2>2. CASE Running # {}
    <3> DEFINE cs == { r.claude : r \in { s \in All' : s.pid # None } }
    <3>1. cs \subseteq Sids /\ \A c \in cs : \E r \in All' : r.claude = c /\ r.pid # None
      <4>1. \A r \in All' : r.claude \in Sids
        <5>1. sessions' \in Seq(Records)
          BY <1>3 DEF Agreed
        <5>2. \A r \in All' : r \in Records
          BY <5>1 DEF All, ToSet
        <5> QED
          BY <5>2 DEF Records
      <4> QED
        BY <4>1
    <3>2. tick' = [ Idle EXCEPT !.step = "adopt", !.observe = Running, !.adopt = cs ]
      BY <1>1, <2>2 DEF All
    <3> HIDE DEF cs
    <3>3. /\ tick'.step = "adopt" /\ tick'.observe = Running /\ tick'.adopt = cs
          /\ tick' \in [ step : {"down", "idle", "adopt", "observe"}, boot : BOOLEAN,
                         adopt : SUBSET Sids, observe : SUBSET Pids ]
      BY <3>1, <3>2 DEF Idle, Running
    <3>4. \A p \in Running : Alive(p)'
      BY <1>2, ApartIs DEF Running
    <3> QED
      BY <3>1, <3>3, <3>4 DEF TickOK
  <2> QED
    BY <2>1, <2>2
<1>7. \A n \in All' : n \in All \/ (RecordOK(n) /\ Only(n)' /\ Latest(n)')
  <2> SUFFICES ASSUME NEW r \in Dead
               PROVE  RecordOK(Expired(r)) /\ Only(Expired(r))' /\ Latest(Expired(r))'
    BY <1>3
  <2>1. r \in All /\ r \in Records /\ r.pid \in Pids /\ r.pid # None /\ ~ Alive(r.pid) /\ RecordOK(r)
    BY <1>2, RecordType DEF BindingTypeOK, Dead, IInv, RecordsOK
  <2>2. Expired(r).pid = None /\ Expired(r).last = r.pid /\ Expired(r).claude = r.claude
    BY <2>1 DEF Expired, Records
  <2>3. runs[r.pid] = Exited
    BY <1>2, <2>1 DEF BindingTypeOK, RecordOK, Alive
  <2>4. RecordOK(Expired(r))
    BY <2>1, <2>2, <2>3 DEF RecordOK
  <2>5. Only(Expired(r))' /\ Latest(Expired(r))'
    BY <2>2, Values DEF Only, Latest
  <2> QED
    BY <2>4, <2>5
<1>8. \A r \in All' : EndPending(r.pid, r.claude) => EndPending(r.pid, r.claude)'
  BY <1>2 DEF EndPending
<1> QED
  BY <1>1, <1>2, <1>3, <1>4, <1>5, <1>6, <1>7, <1>8, DaemonKeeps DEF BindingTypeOK

\* A newer transcript of a terminal on its own is of the session that it began
\* last, if a SessionEnd came or is still to come for the record it takes over.
LEMMA AdoptsKeeps ==
  ASSUME IInv, NEW c \in Sids, Adopts(c)
  PROVE  IInv'
<1>0. PICK r : r = Record(c)
  OBVIOUS
<1>1. PICK d \in Adoptable(r) : Replace(r, d, r.pid, << Event("clear", r.pid, d) >>)
  BY <1>0 DEF Adopts
<1>2. /\ tick.step = "adopt" /\ c \in tick.adopt
      /\ tick' = [tick EXCEPT !.adopt = @ \ {c}]
      /\ UNCHANGED << outside, disk, mapFile, pendingClear, restarts, astray >>
  BY DEF Adopts
<1>3. BindingTypeOK /\ Agreed /\ Apart /\ hook' = hook
  BY <1>2, TypeIs, InvAgrees DEF Apart, outside
<1>4. PICK q : q = r.pid
  OBVIOUS
<1>5. r \in All /\ r.claude = c /\ q \in Pids /\ RecordOK(r) /\ q # None
  <2>1. PICK s \in All : s.claude = c /\ s.pid # None
    BY <1>2 DEF IInv, TickOK
  <2>2. r = s
    BY <1>0, <1>3, <2>1, RecordIs DEF Agreed
  <2> QED
    BY <1>3, <1>4, <2>1, <2>2, RecordType DEF BindingTypeOK, IInv, RecordsOK
<1>6. d \in Sids /\ Newer(d, c) /\ ~ Tracked(d) /\ MapPid(d) = {q}
  BY <1>4, <1>5 DEF Adoptable
<1>7. d \in ran[q] /\ runs[q] # NotRunning
  <2>1. q \in MapPid(d)
    BY <1>6
  <2> QED
    BY <1>5, <2>1, MapIs DEF RecordOK, IInv, WorldOK
<1>8. Agreed' /\ All' = (All \ {r}) \cup {Rec(d, q)}
  BY <1>1, <1>3, <1>4, <1>5, <1>6, ReplacesRecord DEF Replace
<1>9. WorldOK' /\ HooksOK' /\ DiskOK' /\ mapFile' \in Seq(Entries) /\ MapOK'
  BY <1>2, <1>3, OutsideKeeps, MapStays
<1>10. /\ tick' \in [ step : {"down", "idle", "adopt", "observe"}, boot : BOOLEAN,
                     adopt : SUBSET Sids, observe : SUBSET Pids ]
       /\ TickOK'
  <2>1. /\ tick'.step = "adopt" /\ tick'.observe = tick.observe /\ tick'.adopt = tick.adopt \ {c}
        /\ tick' \in [ step : {"down", "idle", "adopt", "observe"}, boot : BOOLEAN,
                       adopt : SUBSET Sids, observe : SUBSET Pids ]
    BY <1>2, <1>3 DEF BindingTypeOK
  <2>2. \A p \in tick.observe : Alive(p)'
    BY <1>3, ApartIs DEF IInv, TickOK
  <2>3. ASSUME NEW e \in tick.adopt \ {c} PROVE \E s \in All' : s.claude = e /\ s.pid # None
    <3>1. PICK s \in All : s.claude = e /\ s.pid # None
      BY <1>2 DEF IInv, TickOK
    <3> QED
      BY <1>5, <1>8, <3>1
  <2> QED
    BY <2>1, <2>2, <2>3 DEF TickOK
<1>11. RecordOK(Rec(d, q)) /\ Only(Rec(d, q))' /\ Latest(Rec(d, q))'
  <2> DEFINE n == Rec(d, q)
  <2>1. n \in Records /\ n.claude = d /\ n.pid = q /\ n.last = None
    BY <1>5, <1>6, RecIs
  <2>2. n \in Records /\ RecordOK(n)
    BY <1>5, <1>7, <2>1 DEF RecordOK, Family
  <2>3. ASSUME Alone(q), q \notin astray, NEW s \in All \ {r}, s.pid = q PROVE FALSE
    BY <1>4, <1>5, <2>3 DEF IInv, Single
  <2>4. Only(n)'
    <3>1. All' = (All \ {r}) \cup {n}
      BY <1>8
    <3> HIDE DEF n
    <3> QED
      BY <1>2, <2>1, <2>3, <3>1, ApartIs, <1>3 DEF Only
  <2>5. ASSUME NEW w \in Cwds, pendingClear[w] = q, Alone(q), q \notin astray
        PROVE  IsLatest(d, q)
    <3>1. IsLatest(c, q) \/ EndPending(q, c)
      BY <1>4, <1>5, <2>5 DEF IInv, PendingOK
    <3>2. c \in ran[q] /\ c \in Nat /\ d \in Nat
      BY <1>4, <1>5, <1>6, <2>5, Values DEF RecordOK, Family
    <3>3. c < d
      BY <1>5, <1>6, <1>7, <2>5, <3>2 DEF Newer, IInv, DiskOK
    <3>4. ~ IsLatest(c, q)
      BY <1>7, <3>2, <3>3 DEF IsLatest
    <3>5. PICK i \in DOMAIN hook[q] : hook[q][i].event = "session_end" /\ hook[q][i].claude = c
      BY <3>1, <3>4 DEF EndPending
    <3> QED
      BY <1>5, <1>7, <3>2, <3>3, <3>5 DEF IInv, HooksOK
  <2>6. Latest(n)'
    <3> HIDE DEF n
    <3> QED
      BY <1>2, <1>3, <2>1, <2>5, ApartIs DEF Latest
  <2> QED
    BY <2>2, <2>4, <2>6
<1>12. replaced' \subseteq Sids
  BY <1>1, <1>3, <1>5 DEF Replace, BindingTypeOK
<1>13. \A s \in All' : EndPending(s.pid, s.claude) => EndPending(s.pid, s.claude)'
  BY <1>3 DEF EndPending
<1>14. \A n \in All' : n \in All \/ (RecordOK(n) /\ Only(n)' /\ Latest(n)')
  BY <1>8, <1>11
<1> QED
  BY <1>2, <1>3, <1>8, <1>9, <1>10, <1>12, <1>13, <1>14, DaemonKeeps DEF BindingTypeOK

LEMMA CrashesKeeps ==
  ASSUME IInv, Crashes
  PROVE  IInv'
<1>1. /\ restarts < MaxRestarts /\ restarts' = restarts + 1
      /\ sessions' = << >> /\ replaced' = {} /\ pendingClear' = [w \in Cwds |-> None]
      /\ tick' = Down
      /\ UNCHANGED << outside, disk, files, astray >>
  BY DEF Crashes
<1>2. BindingTypeOK /\ Agreed /\ Apart /\ hook' = hook /\ mapFile' = mapFile /\ journal' = journal
  BY <1>1, TypeIs, InvAgrees DEF Apart, outside, files
<1>3. All' = {}
  BY <1>1 DEF All, ToSet
<1>4. Agreed'
  <2>1. JournalOK'
    BY <1>2, <1>3 DEF Agreed, JournalOK
  <2> QED
    BY <1>1, <1>2, <1>3, <2>1 DEF Agreed, Distinct
<1>5. WorldOK' /\ HooksOK' /\ DiskOK' /\ mapFile' \in Seq(Entries) /\ MapOK'
  BY <1>2, OutsideKeeps, MapStays
<1>6. TickOK'
  BY <1>1, IdleIs DEF TickOK, Down
<1>7. restarts' \in 0 .. MaxRestarts
  BY <1>1, <1>2, BindingAssumption DEF BindingTypeOK, BindingAssumption
<1>8. /\ pendingClear' \in [Cwds -> Pids \cup {None}]
      /\ \A w \in Cwds : pendingClear'[w] \in {pendingClear[w], None}
  BY <1>1
<1> QED
  BY <1>1, <1>2, <1>3, <1>4, <1>5, <1>6, <1>7, <1>8, IdleIs, DaemonKeeps DEF BindingTypeOK

LEMMA BootsKeeps ==
  ASSUME IInv, Boots
  PROVE  IInv'
<1>1. /\ tick' = [ Idle EXCEPT !.step = "observe", !.boot = TRUE, !.observe = Running ]
      /\ UNCHANGED << outside, disk, files, memory, restarts, astray >>
  BY DEF Boots
<1>2. /\ BindingTypeOK /\ Apart /\ hook' = hook /\ mapFile' = mapFile
      /\ UNCHANGED << journal, sessions, replaced, pendingClear >>
  BY <1>1, TypeIs DEF Apart, outside, files, memory
<1>3. Agreed' /\ All' = All
  BY <1>2, SameStays
<1>4. WorldOK' /\ HooksOK' /\ DiskOK' /\ mapFile' \in Seq(Entries) /\ MapOK'
  BY <1>2, OutsideKeeps, MapStays
<1>5. /\ tick'.step = "observe" /\ tick'.observe = Running
      /\ tick' \in [ step : {"down", "idle", "adopt", "observe"}, boot : BOOLEAN,
                     adopt : SUBSET Sids, observe : SUBSET Pids ]
  BY <1>1 DEF Idle, Running
<1>6. TickOK'
  <2>1. \A p \in Running : Alive(p)'
    BY <1>2, ApartIs DEF Running
  <2> QED
    BY <1>5, <2>1 DEF TickOK
<1>7. \A r \in All' : EndPending(r.pid, r.claude) => EndPending(r.pid, r.claude)'
  BY <1>2 DEF EndPending
<1> QED
  BY <1>1, <1>2, <1>3, <1>4, <1>5, <1>6, <1>7, DaemonKeeps DEF BindingTypeOK

LEMMA BootEndsKeeps ==
  ASSUME IInv, BootEnds
  PROVE  IInv'
<1>1. /\ mapFile' = GcSessionMap(mapFile) /\ tick' = Idle
      /\ UNCHANGED << outside, disk, journal, memory, restarts, astray >>
  BY DEF BootEnds
<1>2. /\ BindingTypeOK /\ Apart /\ hook' = hook
      /\ UNCHANGED << journal, sessions, replaced, pendingClear >>
  BY <1>1, TypeIs DEF Apart, outside, memory
<1>3. Agreed' /\ All' = All
  BY <1>2, SameStays
<1>4. WorldOK' /\ HooksOK' /\ DiskOK'
  BY <1>2, OutsideKeeps
<1>5. mapFile' \in Seq(Entries) /\ MapOK'
  <2>1. \E K \in SUBSET DOMAIN mapFile : mapFile' = Picked(mapFile, K)
    BY <1>1 DEF GcSessionMap
  <2> QED
    BY <1>2, <2>1, MapStays
<1>6. TickOK'
  BY <1>1, IdleIs DEF TickOK
<1>7. \A r \in All' : EndPending(r.pid, r.claude) => EndPending(r.pid, r.claude)'
  BY <1>2 DEF EndPending
<1> QED
  BY <1>1, <1>2, <1>3, <1>4, <1>5, <1>6, <1>7, IdleIs, DaemonKeeps DEF BindingTypeOK

\* A process that still runs the session it began with has begun no other, so
\* a second record of it would be of the same session.
LEMMA SendMessageKeeps ==
  ASSUME IInv, NEW c \in Sids, NEW p \in Pids, SendMessage(c, p)
  PROVE  IInv'
<1>1. /\ tick.step = "idle" /\ ~ Tracked(c) /\ Alive(p) /\ pidJson[p] = c
      /\ StartObserving(c, p)
      /\ astray' = IF runs[p] = c THEN astray ELSE astray \cup {p}
      /\ UNCHANGED << outside, disk, mapFile, replaced, pendingClear, tick, restarts >>
  BY DEF SendMessage
<1>2. /\ BindingTypeOK /\ Agreed /\ Apart /\ hook' = hook
  BY <1>1, TypeIs, InvAgrees DEF Apart, outside
<1>3. Agreed' /\ All' = All \cup {Rec(c, p)}
  BY <1>1, <1>2, StartsRecord
<1>4. WorldOK' /\ HooksOK' /\ DiskOK' /\ mapFile' \in Seq(Entries) /\ MapOK' /\ TickOK'
  BY <1>1, <1>2, OutsideKeeps, MapStays, IdleStays
<1>5. c \in ran[p] /\ runs[p] # NotRunning /\ astray \subseteq astray' /\ astray' \subseteq Pids
  BY <1>1, <1>2, RanIs, Values DEF Alive, BindingTypeOK
<1>6. RecordOK(Rec(c, p)) /\ Only(Rec(c, p))' /\ Latest(Rec(c, p))'
  <2>1. /\ Rec(c, p) \in Records /\ Rec(c, p).claude = c /\ Rec(c, p).pid = p /\ Rec(c, p).last = None
    BY RecIs
  <2>2. Family(c, p)
    BY <1>5 DEF Family
  <2>3. ASSUME Alone(p), p \notin astray' PROVE ran[p] = {c}
    BY <1>1, <2>3 DEF IInv, WorldOK
  <2>4. ASSUME Alone(p), p \notin astray', NEW s \in All, s.pid = p PROVE FALSE
    <3>1. RecordOK(s) /\ s.pid # None
      BY <2>4, Values DEF IInv, RecordsOK
    <3>2. s.claude = c
      BY <2>3, <2>4, <3>1 DEF RecordOK, Family
    <3> QED
      BY <1>1, <3>2 DEF Tracked
  <2>5. ASSUME Alone(p), p \notin astray' PROVE IsLatest(c, p)
    BY <2>3, <2>5, Values DEF IsLatest
  <2> QED
    BY <1>3, <1>5, <2>1, <2>2, <2>4, <2>5, <1>2, NewRecord
<1>7. \A r \in All' : EndPending(r.pid, r.claude) => EndPending(r.pid, r.claude)'
  BY <1>2 DEF EndPending
<1>8. \A n \in All' : n \in All \/ (RecordOK(n) /\ Only(n)' /\ Latest(n)')
  BY <1>3, <1>6
<1> QED
  BY <1>1, <1>2, <1>3, <1>4, <1>5, <1>7, <1>8, DaemonKeeps DEF BindingTypeOK

\* A record of p, and if p is on its own the only one.
Sole(n, p) ==
    /\ n.pid = p /\ RecordOK(n)
    /\ (Alone(p) /\ p \notin astray) => \A s \in All' : s.pid = p => s = n

\* The records of other processes stay.
Kept(p) == \A s \in All : s.pid \in Pids \ {p} => s \in All'

\* If p has a new record in the middle of a /clear, then of the session that it
\* runs, or it goes astray.
LEMMA ObservesRest ==
  ASSUME IInv, NEW p \in Pids, tick.step # "idle", p \in tick.observe, Apart, hook' = hook,
         UNCHANGED << pendingClear, restarts >>,
         tick' = IF tick.observe = {p} /\ ~ tick.boot THEN Idle
                 ELSE [tick EXCEPT !.step = "observe", !.observe = @ \ {p}],
         astray' = IF pendingClear[CwdOf[p]] = p
                      /\ \E r \in ToSet(sessions') \ All : r.pid = p /\ r.claude # runs[p]
                   THEN astray \cup {p} ELSE astray,
         Agreed', replaced' \subseteq Sids,
         mapFile' = mapFile \/ \E K \in SUBSET DOMAIN mapFile : mapFile' = Picked(mapFile, K),
         \A n \in All' : n \in All \/ Sole(n, p)
  PROVE  IInv'
<1>1. BindingTypeOK /\ Alive(p) /\ runs[p] \in ran[p] /\ IsLatest(runs[p], p) /\ p # None
  BY TypeIs, Values DEF IInv, TickOK, WorldOK
<1>2. WorldOK' /\ HooksOK' /\ DiskOK' /\ mapFile' \in Seq(Entries) /\ MapOK'
  BY OutsideKeeps, MapStays
<1>3. astray \subseteq astray' /\ astray' \subseteq Pids
  BY <1>1 DEF BindingTypeOK
<1>4. /\ tick' \in [ step : {"down", "idle", "adopt", "observe"}, boot : BOOLEAN,
                     adopt : SUBSET Sids, observe : SUBSET Pids ]
      /\ TickOK'
  <2>1. CASE tick' = Idle
    BY <2>1, IdleIs DEF TickOK
  <2>2. CASE tick' = [tick EXCEPT !.step = "observe", !.observe = @ \ {p}]
    <3>1. /\ tick'.step = "observe" /\ tick'.observe = tick.observe \ {p}
          /\ tick' \in [ step : {"down", "idle", "adopt", "observe"}, boot : BOOLEAN,
                         adopt : SUBSET Sids, observe : SUBSET Pids ]
      BY <1>1, <2>2 DEF BindingTypeOK
    <3>2. \A q \in tick.observe : Alive(q)'
      BY ApartIs DEF IInv, TickOK
    <3> QED
      BY <3>1, <3>2 DEF TickOK
  <2> QED
    BY <2>1, <2>2
<1>5. ASSUME NEW n \in All', n \notin All PROVE RecordOK(n) /\ Only(n)' /\ Latest(n)'
  <2>1. Sole(n, p)
    BY <1>5
  <2>2. Only(n)'
    BY <1>3, <2>1, ApartIs DEF Sole, Only
  <2>3. ASSUME NEW w \in Cwds, pendingClear[w] = p, Alone(p), p \notin astray'
        PROVE  n.claude = runs[p]
    <3>1. CwdOf[p] = w
      BY <1>1, <2>3 DEF IInv, PendingOK
    <3>2. n \in ToSet(sessions') \ All /\ n.pid = p
      BY <1>5, <2>1 DEF Sole, All
    <3> QED
      BY <2>3, <3>1, <3>2
  <2>4. Latest(n)'
    <3>1. n.pid = p
      BY <2>1 DEF Sole
    <3>2. pendingClear' = pendingClear /\ (Alone(p)' <=> Alone(p))
      BY ApartIs
    <3>3. n.claude = runs[p] => IsLatest(n.claude, p)'
      BY <1>1, ApartIs
    <3> QED
      BY <2>3, <3>1, <3>2, <3>3 DEF Latest
  <2> QED
    BY <2>1, <2>2, <2>4 DEF Sole
<1>6. \A r \in All' : EndPending(r.pid, r.claude) => EndPending(r.pid, r.claude)'
  BY DEF EndPending
<1> QED
  BY <1>1, <1>2, <1>3, <1>4, <1>5, <1>6, DaemonKeeps DEF BindingTypeOK

\* The record that p gets beside those of other processes.
LEMMA SoleRecord ==
  ASSUME IInv, NEW p \in Pids, Alive(p), NEW c \in ran[p],
         \/ All' = All \cup {Rec(c, p)} /\ \A s \in All : s.pid # p
         \/ \E r \in All : r.pid = p /\ All' = (All \ {r}) \cup {Rec(c, p)}
  PROVE  \A n \in All' : n \in All \/ Sole(n, p)
<1>1. c \in Sids /\ runs[p] # NotRunning /\ Family(c, p)
  BY RanIs, Values DEF Alive, Family
<1>2. /\ Rec(c, p).claude = c /\ Rec(c, p).pid = p /\ Rec(c, p).last = None
  BY <1>1, RecIs
<1>3. RecordOK(Rec(c, p))
  BY <1>1, <1>2, Values DEF RecordOK
<1>4. ASSUME Alone(p), p \notin astray, NEW s \in All', s.pid = p
      PROVE  s = Rec(c, p)
  <2>1. CASE All' = All \cup {Rec(c, p)} /\ \A t \in All : t.pid # p
    BY <1>4, <2>1
  <2>2. ASSUME NEW r \in All, r.pid = p, All' = (All \ {r}) \cup {Rec(c, p)}
        PROVE  s = Rec(c, p)
    BY <1>4, <2>2 DEF IInv, Single
  <2> QED
    BY <2>1, <2>2
<1>5. Sole(Rec(c, p), p)
  BY <1>2, <1>3, <1>4 DEF Sole
<1> QED
  BY <1>5

LEMMA SidOfIs ==
  ASSUME IInv, NEW p \in Pids, Alive(p)
  PROVE  /\ SidOf(p) \in ran[p] /\ SidOf(p) \in Sids
         /\ replaced \subseteq Replaced(p) /\ Replaced(p) \subseteq Sids
<1>1. SidOf(p) \in ran[p] /\ SidOf(p) \in Sids /\ pidJson[p] \in Sids
  BY RanIs
<1> QED
  BY <1>1, TypeIs DEF BindingTypeOK, Replaced

\* A record in HISTORY is promoted only where p is not on its own: the process
\* it was observed on before has exited, and both ran its session.
LEMMA ObservesKnownIs ==
  ASSUME IInv, NEW p \in Pids, Alive(p), Apart, ObservesKnown(p)
  PROVE  /\ Agreed' /\ Kept(p) /\ \A n \in All' : n \in All \/ Sole(n, p)
         /\ replaced \subseteq replaced' /\ replaced' \subseteq Sids /\ mapFile' = mapFile
<1>0. PICK c : c = SidOf(p)
  OBVIOUS
<1>1. PICK r : r = Record(c)
  OBVIOUS
<1>2. /\ Tracked(c) /\ replaced' = Replaced(p) /\ mapFile' = mapFile
      /\ IF r.pid = None /\ OnDisk(r.claude) THEN RePromote(r, p) ELSE UNCHANGED << sessions, journal >>
  BY <1>0, <1>1 DEF ObservesKnown, NothingToDo
<1>3. c \in ran[p] /\ c \in Sids /\ replaced \subseteq Replaced(p) /\ Replaced(p) \subseteq Sids
  BY <1>0, SidOfIs
<1>4. Agreed /\ BindingTypeOK
  BY TypeIs, InvAgrees
<1>5. CASE UNCHANGED << sessions, journal >>
  BY <1>2, <1>3, <1>5, SameStays DEF Kept
<1>6. CASE r.pid = None /\ RePromote(r, p)
  <2>1. r \in All /\ r.claude = c /\ r \in Records /\ RecordOK(r) /\ r.last \in Pids \cup {None}
    BY <1>1, <1>2, <1>4, RecordOf, RecordType DEF BindingTypeOK, IInv, RecordsOK
  <2>2. Agreed' /\ All' = (All \ {r}) \cup {Promoted(r, p)}
    BY <1>4, <1>6, <2>1, PromotesRecord
  <2>3. /\ Promoted(r, p).claude = c /\ Promoted(r, p).pid = p /\ Promoted(r, p).last = r.last
    BY <2>1, PromotedRec
  <2>4. r.last \in Pids /\ Family(c, r.last) /\ r.last # p
    <3>1. r.last \in Pids /\ Family(c, r.last) /\ runs[r.last] = Exited
      BY <1>6, <2>1 DEF RecordOK
    <3> QED
      BY <3>1, Values DEF Alive
  <2>5. ~ Alone(p)
    BY <1>3, <2>4 DEF Family, Alone
  <2>6. RecordOK(Promoted(r, p))
    <3>1. runs[p] # NotRunning /\ Family(c, p)
      BY <1>3, Values DEF Alive, Family
    <3> QED
      BY <1>6, <2>1, <2>3, <3>1, Values DEF RecordOK
  <2>7. Sole(Promoted(r, p), p)
    BY <2>3, <2>5, <2>6 DEF Sole
  <2>8. Kept(p)
    BY <1>6, <2>2, Values DEF Kept
  <2> QED
    BY <1>2, <1>3, <2>2, <2>7, <2>8
<1> QED
  BY <1>2, <1>5, <1>6

LEMMA ObservesChangedIs ==
  ASSUME IInv, NEW p \in Pids, Alive(p), Apart, ObservesChanged(p)
  PROVE  /\ Agreed' /\ Kept(p) /\ \A n \in All' : n \in All \/ Sole(n, p)
         /\ replaced \subseteq replaced' /\ replaced' \subseteq Sids /\ mapFile' = mapFile
<1>0. PICK c : c = SidOf(p)
  OBVIOUS
<1>1. /\ c \in ran[p] /\ c \in Sids /\ ~ Tracked(c) /\ mapFile' = mapFile
      /\ replaced \subseteq Replaced(p) /\ Replaced(p) \subseteq Sids
  BY <1>0, SidOfIs DEF ObservesChanged
<1>2. Agreed /\ BindingTypeOK
  BY TypeIs, InvAgrees
<1>3. CASE UNCHANGED << sessions, journal >> /\ replaced' = Replaced(p)
  BY <1>1, <1>3, SameStays DEF Kept
<1>4. CASE ~ (UNCHANGED << sessions, journal >> /\ replaced' = Replaced(p))
  <2>1. PICK r \in ObservedOn(p) :
              /\ sessions' = Observe(Without(r), c, p)
              /\ journal' = Logged(RemoveEvents(r) \o << Event("observe", p, c) >>)
              /\ replaced' = Replaced(p) \cup {r.claude}
    BY <1>0, <1>4 DEF ObservesChanged, NothingToDo
  <2>2. r \in All /\ r.pid = p /\ r \in Records /\ r.claude \in Sids
    BY <1>2, <2>1, ObservedOnIs, RecordType DEF BindingTypeOK
  <2>3. << >> \o RemoveEvents(r) = RemoveEvents(r)
    <3>1. RemoveEvents(r) \in Seq(Events)
      BY <1>2, <2>2, RemoveEventsAre DEF Agreed
    <3> QED
      BY <3>1, ConcatEmptySeq
  <2>4. journal' = Logged(<< >> \o RemoveEvents(r) \o << Event("observe", p, c) >>)
    BY <2>1, <2>3
  <2>5. Agreed' /\ All' = (All \ {r}) \cup {Rec(c, p)}
    BY <1>1, <1>2, <2>1, <2>2, <2>4, ReplacesRecord
  <2>6. \A n \in All' : n \in All \/ Sole(n, p)
    BY <1>1, <2>2, <2>5, SoleRecord
  <2>7. Kept(p)
    BY <2>2, <2>5 DEF Kept
  <2> QED
    BY <1>1, <2>1, <2>2, <2>5, <2>6, <2>7
<1> QED
  BY <1>3, <1>4

\* A record of process p is started where it has none.
LEMMA StartsSole ==
  ASSUME IInv, NEW p \in Pids, Alive(p), NEW c \in ran[p], ~ Tracked(c), ObservedOn(p) = {},
         StartObserving(c, p)
  PROVE  Agreed' /\ Kept(p) /\ Rec(c, p) \in All' /\ \A n \in All' : n \in All \/ Sole(n, p)
<1>1. c \in Sids /\ Agreed /\ sessions \in Seq(Records)
  BY RanIs, InvAgrees, TypeIs DEF BindingTypeOK
<1>2. Agreed' /\ All' = All \cup {Rec(c, p)}
  BY <1>1, StartsRecord
<1>3. \A s \in All : s.pid # p
  BY <1>1, ObservedOnIs
<1> QED
  BY <1>2, <1>3, SoleRecord DEF Kept

LEMMA ObservesReplacedIs ==
  ASSUME IInv, NEW p \in Pids, Alive(p), Apart, ObservesReplaced(p)
  PROVE  /\ Agreed' /\ Kept(p) /\ \A n \in All' : n \in All \/ Sole(n, p)
         /\ replaced \subseteq replaced' /\ replaced' \subseteq Sids
         /\ \E K \in SUBSET DOMAIN mapFile : mapFile' = Picked(mapFile, K)
<1>1. /\ ObservedOn(p) = {} /\ replaced' = Replaced(p) /\ Recovers(p, Replaced(p))
      /\ \E K \in SUBSET DOMAIN mapFile : mapFile' = Picked(mapFile, K)
  BY DEF ObservesReplaced, RemoveEntries
<1>2. replaced \subseteq replaced' /\ replaced' \subseteq Sids
  BY <1>1, SidOfIs
<1>3. CASE UNCHANGED << sessions, journal >>
  BY <1>1, <1>2, <1>3, SameStays DEF Kept
<1>4. ASSUME NEW c \in Corrected(p, Replaced(p)), StartObserving(c, p)
      PROVE  Agreed' /\ Kept(p) /\ \A n \in All' : n \in All \/ Sole(n, p)
  <2>1. MapPid(c) = {p} /\ ~ Tracked(c)
    BY DEF Corrected, Eligible
  <2>2. p \in MapPid(c)
    BY <2>1
  <2>3. c \in ran[p]
    BY <2>2, MapIs
  <2> QED
    BY <1>1, <1>4, <2>1, <2>3, StartsSole
<1> QED
  BY <1>1, <1>2, <1>3, <1>4 DEF Recovers

\* The journal has no record to rescue.
LEMMA ObservesNewIs ==
  ASSUME IInv, NEW p \in Pids, Alive(p), Apart, ObservesNew(p)
  PROVE  /\ Agreed' /\ Kept(p) /\ \A n \in All' : n \in All \/ Sole(n, p)
         /\ replaced \subseteq replaced' /\ replaced' \subseteq Sids /\ mapFile' = mapFile
<1>1. /\ ~ Tracked(SidOf(p)) /\ ObservedOn(p) = {} /\ replaced' = Replaced(p) /\ mapFile' = mapFile
  BY DEF ObservesNew
<1>2. SidOf(p) \in ran[p] /\ replaced \subseteq replaced' /\ replaced' \subseteq Sids
  BY <1>1, SidOfIs
<1>3. Rescuable(p) = {}
  BY InvJournal DEF JournalAgrees
<1>4. CASE StartObserving(SidOf(p), p)
  BY <1>1, <1>2, <1>4, StartsSole
<1>5. CASE UNCHANGED << sessions, journal >>
  BY <1>1, <1>2, <1>5, SameStays DEF Kept
<1> QED
  BY <1>1, <1>2, <1>3, <1>4, <1>5 DEF ObservesNew, NothingToDo

LEMMA ObservesIs ==
  ASSUME IInv, NEW p \in Pids, Observes(p)
  PROVE  IInv' /\ Apart /\ Alive(p) /\ Kept(p) /\ replaced \subseteq replaced'
<1>1. /\ tick.step # "idle" /\ p \in tick.observe
      /\ tick' = IF tick.observe = {p} /\ ~ tick.boot THEN Idle
                 ELSE [tick EXCEPT !.step = "observe", !.observe = @ \ {p}]
      /\ astray' = IF pendingClear[CwdOf[p]] = p
                      /\ \E r \in ToSet(sessions') \ All : r.pid = p /\ r.claude # runs[p]
                   THEN astray \cup {p} ELSE astray
      /\ UNCHANGED << outside, disk, pendingClear, restarts >>
  BY DEF Observes
<1>2. ObservesKnown(p) \/ ObservesChanged(p) \/ ObservesReplaced(p) \/ ObservesNew(p)
  BY DEF Observes
<1>3. Apart /\ hook' = hook /\ UNCHANGED << pendingClear, restarts >>
  BY <1>1 DEF Apart, outside
<1>4. Alive(p)
  BY <1>1 DEF IInv, TickOK
<1>5. /\ Agreed' /\ Kept(p) /\ replaced \subseteq replaced' /\ replaced' \subseteq Sids
      /\ \A n \in All' : n \in All \/ Sole(n, p)
      /\ mapFile' = mapFile \/ \E K \in SUBSET DOMAIN mapFile : mapFile' = Picked(mapFile, K)
  BY <1>2, <1>3, <1>4, ObservesKnownIs, ObservesChangedIs, ObservesReplacedIs, ObservesNewIs
<1>6. IInv'
  BY <1>1, <1>3, <1>5, ObservesRest
<1> QED
  BY <1>3, <1>4, <1>5, <1>6

-----------------------------------------------------------------------------
(* The theorems.                                                            *)

LEMMA StutterKeeps ==
  ASSUME IInv, UNCHANGED vars
  PROVE  IInv'
<1>1. /\ Apart /\ hook' = hook /\ mapFile' = mapFile /\ tick' = tick
      /\ UNCHANGED << journal, sessions, replaced, pendingClear, restarts, astray >>
  BY DEF vars, outside, files, memory, Apart
<1>2. Agreed' /\ All' = All /\ BindingTypeOK
  BY <1>1, SameStays, TypeIs
<1>3. WorldOK' /\ HooksOK' /\ DiskOK' /\ mapFile' \in Seq(Entries) /\ MapOK'
  BY <1>1, OutsideKeeps, MapStays
<1>4. TickOK'
  BY <1>1, <1>2, ApartIs DEF IInv, TickOK
<1>5. \A r \in All' : EndPending(r.pid, r.claude) => EndPending(r.pid, r.claude)'
  BY <1>1 DEF EndPending
<1> QED
  BY <1>1, <1>2, <1>3, <1>4, <1>5, DaemonKeeps DEF BindingTypeOK

LEMMA StepKeeps ==
  ASSUME IInv, Step
  PROVE  IInv'
BY TickBeginsKeeps, BootEndsKeeps, BootsKeeps, AdoptsKeeps, ObservesIs DEF Step

LEMMA ProcessKeeps ==
  ASSUME IInv, Quiet, NEW p \in Pids, Process(p)
  PROVE  IInv'
BY StartsKeeps, ResumesKeeps, ClearsKeeps, WritesKeeps, ExitsKeeps, ScriptRunsKeeps, HookLostKeeps
   DEF Process

LEMMA NextKeeps ==
  ASSUME IInv, [Next]_vars
  PROVE  IInv'
<1>1. CASE Step
  BY <1>1, StepKeeps
<1>2. CASE Quiet /\ \E p \in Pids : Process(p) \/ SessionEnd(p) \/ SessionStart(p)
  BY <1>2, ProcessKeeps, SessionEndKeeps, SessionStartKeeps
<1>3. CASE \E w \in Cwds : PendingClearExpires(w)
  BY <1>3, PendingClearExpiresKeeps
<1>4. CASE \E c \in Sids, p \in Pids : SendMessage(c, p)
  BY <1>4, SendMessageKeeps
<1>5. CASE Crashes
  BY <1>5, CrashesKeeps
<1>6. CASE UNCHANGED vars
  BY <1>6, StutterKeeps
<1> QED
  BY <1>1, <1>2, <1>3, <1>4, <1>5, <1>6 DEF Next

\* The inductive invariant: what the processes did, what their hooks, their
\* transcripts, session-map.json and the journal tell of it, and what the
\* daemon made of it, fit together in every reachable state.
THEOREM BindingInvariant == Spec => []IInv
<1>1. Init => IInv
  BY InitInv
<1>2. IInv /\ [Next]_vars => IInv'
  BY NextKeeps
<1> QED
  BY <1>1, <1>2, PTL DEF Spec

\* The type invariant: what the pass, the hook handlers and the commands store
\* has the shape that the others expect of it.
THEOREM BindingTypeCorrect == Spec => []BindingTypeOK
<1>1. IInv => BindingTypeOK
  BY TypeIs
<1> QED
  BY <1>1, BindingInvariant, PTL

\* A session has one record, and a terminal on its own is observed for one
\* session unless it goes astray: whatever hooks, passes, messages and restarts
\* come in between, in handlers and a pass that do not know of each other.
THEOREM SessionsHaveOneBinding == Spec => []OneBinding
<1>1. IInv => OneBinding
  BY InvBinding
<1> QED
  BY <1>1, BindingInvariant, PTL

\* The list never shows a session on a terminal on its own that did not run
\* there, nor one that did elsewhere: buildMergedSessionView over the records,
\* session-map.json and <pid>.json, however old these are.
THEOREM RowsTellTheTruth == Spec => []RowsAreTrue
<1>1. IInv => RowsAreTrue
  BY InvRows
<1> QED
  BY <1>1, BindingInvariant, PTL

\* binding-journal.ndjson tells of every record what the manager holds, and so
\* the rescue of a record through the journal never finds one.
THEOREM JournalTellsTheRecords == Spec => []JournalAgrees
<1>1. IInv => JournalAgrees
  BY InvJournal
<1> QED
  BY <1>1, BindingInvariant, PTL

-----------------------------------------------------------------------------
(* A pass shows what runs.                                                  *)

\* What a pass has made of a process that it has been through: a record of the
\* session that runs, unless that was replaced or the map does not name it.
Shown(p) == \E r \in All : r.claude = runs[p] /\ r.pid = p
Settled(p) == Alone(p) => \/ runs[p] \in replaced
                          \/ Shown(p)
                          \/ runs[p] \notin LatestEntry(p)

PassOK ==
    /\ tick.boot => tick.step = "observe"
    /\ tick.step = "adopt" => tick.observe = Running
    /\ tick.step = "observe" => \A p \in Running \ tick.observe : Settled(p)

\* What is removed from the map, if it is not of process p, makes no other
\* entry the latest of p.
LEMMA EntriesPicked ==
  ASSUME mapFile \in Seq(Entries), NEW K \in SUBSET DOMAIN mapFile, mapFile' = Picked(mapFile, K),
         disk' = disk, NEW p,
         \A i \in DOMAIN mapFile : (mapFile[i].pid = p /\ OnDisk(mapFile[i].claude)) => i \in K
  PROVE  LatestEntry(p)' \subseteq LatestEntry(p)
<1>1. /\ mapFile' \in Seq(Entries)
      /\ \E f \in [DOMAIN mapFile' -> K] :
           /\ \A n \in DOMAIN mapFile' : mapFile'[n] = mapFile[f[n]]
           /\ \A i \in K : \E n \in DOMAIN mapFile' : f[n] = i
           /\ \A m, n \in DOMAIN mapFile' : m < n => f[m] < f[n]
  BY PickedElements
<1>2. PICK f \in [DOMAIN mapFile' -> K] :
           /\ \A n \in DOMAIN mapFile' : mapFile'[n] = mapFile[f[n]]
           /\ \A i \in K : \E n \in DOMAIN mapFile' : f[n] = i
           /\ \A m, n \in DOMAIN mapFile' : m < n => f[m] < f[n]
  BY <1>1
<1>3. \A c : OnDisk(c)' <=> OnDisk(c)
  BY DEF OnDisk
<1>4. SUFFICES ASSUME NEW n \in DOMAIN mapFile', mapFile'[n].pid = p, OnDisk(mapFile'[n].claude),
                      \A k \in n + 1 .. Len(mapFile') :
                          ~ (mapFile'[k].pid = p /\ OnDisk(mapFile'[k].claude))
               PROVE  mapFile'[n].claude \in LatestEntry(p)
  BY <1>3 DEF LatestEntry
<1> DEFINE i == f[n]
<1>5. i \in K /\ i \in DOMAIN mapFile /\ mapFile'[n] = mapFile[i]
  BY <1>2
<1>6. ASSUME NEW k \in i + 1 .. Len(mapFile), mapFile[k].pid = p, OnDisk(mapFile[k].claude)
      PROVE  FALSE
  <2>1. k \in DOMAIN mapFile /\ k > i /\ i \in Nat
    BY <1>5
  <2>2. k \in K
    BY <1>6, <2>1
  <2>3. PICK m \in DOMAIN mapFile' : f[m] = k
    BY <1>2, <2>2
  <2>4. m \in Nat /\ n \in Nat /\ m <= Len(mapFile') /\ Len(mapFile') \in Nat
    <3>1. DOMAIN mapFile' = 1 .. Len(mapFile') /\ Len(mapFile') \in Nat
      BY <1>1
    <3> QED
      BY <3>1
  <2>5. ~ (m < n) /\ m # n
    BY <1>2, <2>1, <2>3
  <2>6. m \in n + 1 .. Len(mapFile')
    BY <2>4, <2>5
  <2>7. mapFile'[m] = mapFile[k]
    BY <1>2, <2>3
  <2> QED
    BY <1>4, <1>6, <2>6, <2>7
<1> QED
  BY <1>4, <1>5, <1>6 DEF LatestEntry

\* A process has at most one latest entry.
LEMMA LatestIsOne ==
  ASSUME IInv, NEW p \in Pids, NEW c \in LatestEntry(p)
  PROVE  SidOf(p) = c /\ OnDisk(c) /\ c \in ran[p] /\ c \in Sids
<1>1. mapFile \in Seq(Entries)
  BY TypeIs DEF BindingTypeOK
<1>2. ASSUME NEW d \in LatestEntry(p) PROVE d = c
  <2>1. PICK i \in DOMAIN mapFile :
          /\ mapFile[i].claude = c /\ mapFile[i].pid = p /\ OnDisk(c)
          /\ \A k \in i + 1 .. Len(mapFile) : ~ (mapFile[k].pid = p /\ OnDisk(mapFile[k].claude))
    BY DEF LatestEntry
  <2>2. PICK j \in DOMAIN mapFile :
          /\ mapFile[j].claude = d /\ mapFile[j].pid = p /\ OnDisk(d)
          /\ \A k \in j + 1 .. Len(mapFile) : ~ (mapFile[k].pid = p /\ OnDisk(mapFile[k].claude))
    BY DEF LatestEntry
  <2>3. i \in 1 .. Len(mapFile) /\ j \in 1 .. Len(mapFile) /\ Len(mapFile) \in Nat
    BY <1>1
  <2>4. ~ (i < j) /\ ~ (j < i)
    BY <2>1, <2>2, <2>3
  <2> QED
    BY <2>1, <2>2, <2>3, <2>4
<1>3. LatestEntry(p) = {c}
  BY <1>2
<1>4. SidOf(p) = c
  BY <1>3 DEF SidOf
<1>5. OnDisk(c)
  BY DEF LatestEntry
<1>6. c \in ran[p] /\ c \in Sids
  BY MapIs, RanIs
<1> QED
  BY <1>4, <1>5, <1>6

\* The newest session of the map that may be recovered is one session.
LEMMA CorrectedIsOne ==
  ASSUME IInv, NEW p \in Pids, NEW gone, NEW c \in Corrected(p, gone), NEW d \in Corrected(p, gone)
  PROVE  c = d
<1>1. mapFile \in Seq(Entries)
  BY TypeIs DEF BindingTypeOK
<1>2. MapPid(c) = {p} /\ MapPid(d) = {p} /\ Position(c) <= Position(d) /\ Position(d) <= Position(c)
  BY DEF Corrected, Eligible
<1>3. ASSUME NEW e, MapPid(e) = {p}
      PROVE  Position(e) \in DOMAIN mapFile /\ mapFile[Position(e)].claude = e
  <2>1. \E i \in DOMAIN mapFile : mapFile[i].claude = e
    BY <1>3 DEF MapPid
  <2> QED
    BY <2>1 DEF Position
<1>4. Position(c) \in Nat /\ Position(d) \in Nat
  BY <1>1, <1>2, <1>3
<1>5. Position(c) = Position(d)
  BY <1>2, <1>4
<1> QED
  BY <1>2, <1>3, <1>5

\* The process that a step of the pass goes through.
LEMMA SettledObserved ==
  ASSUME IInv, NEW p \in Pids, Observes(p)
  PROVE  Settled(p)'
<1>0. PICK c : c = runs[p]
  OBVIOUS
<1>1. IInv' /\ Apart /\ Alive(p)
  BY ObservesIs
<1>2. BindingTypeOK /\ Agreed /\ runs'[p] = c /\ c \in ran[p] /\ c \in Sids
  BY <1>0, <1>1, TypeIs, InvAgrees, RanIs DEF Apart
<1>3. SUFFICES ASSUME Alone(p), c \notin replaced', c \in LatestEntry(p)'
               PROVE  Shown(p)'
  BY <1>1, <1>2, ApartIs DEF Settled
<1>4. SUFFICES \E r \in All' : r.claude = c /\ r.pid = p
  BY <1>2 DEF Shown
<1>5. ASSUME ObservesReplaced(p)
      PROVE  \E r \in All' : r.claude = c /\ r.pid = p
  <2> DEFINE S == Stale(p, Replaced(p))
             K == { i \in DOMAIN mapFile : mapFile[i].claude \notin S }
  <2>1. /\ ObservedOn(p) = {} /\ Recovers(p, Replaced(p)) /\ mapFile' = Picked(mapFile, K)
        /\ replaced' = Replaced(p)
    BY <1>5 DEF ObservesReplaced, RemoveEntries
  <2>2. PICK n \in DOMAIN mapFile' : mapFile'[n].claude = c /\ mapFile'[n].pid = p /\ OnDisk(c)'
    BY <1>3 DEF LatestEntry
  <2>3. PICK i \in K : mapFile'[n] = mapFile[i]
    <3>1. mapFile \in Seq(Entries) /\ K \in SUBSET DOMAIN mapFile
      BY <1>2 DEF BindingTypeOK
    <3> HIDE DEF K
    <3> QED
      BY <2>1, <3>1, PickedElements
  <2>4. i \in DOMAIN mapFile /\ mapFile[i].claude = c /\ mapFile[i].pid = p /\ c \notin S
    BY <2>2, <2>3
  <2>5. MapPid(c) = {p}
    <3>1. p \in MapPid(c)
      BY <2>4 DEF MapPid
    <3>2. \A q \in MapPid(c) : q = p
      BY <1>2, <1>3, MapIs DEF Alone
    <3> QED
      BY <3>1, <3>2
  <2>6. c \in Corrected(p, Replaced(p))
    BY <1>2, <2>4, <2>5 DEF Stale
  <2>7. OnDisk(c)
    BY <1>1, <2>2 DEF OnDisk, Apart
  <2>8. PICK d \in Corrected(p, Replaced(p)) : StartObserving(d, p)
    BY <2>1, <2>6, <2>7 DEF Recovers
  <2>9. d = c
    BY <2>6, CorrectedIsOne
  <2>10. ~ Tracked(c)
    BY <2>6 DEF Corrected, Eligible
  <2>11. Rec(c, p) \in All'
    BY <1>1, <1>2, <2>1, <2>8, <2>9, <2>10, StartsSole
  <2> QED
    BY <1>2, <2>11, RecIs
<1>6. ASSUME ObservesKnown(p) \/ ObservesChanged(p) \/ ObservesNew(p)
      PROVE  SidOf(p) = c /\ OnDisk(c) /\ mapFile' = mapFile /\ replaced' \subseteq Sids
             /\ c \notin Replaced(p)
  <2>1. mapFile' = mapFile /\ replaced' \subseteq Sids
    BY <1>1, <1>6, ObservesKnownIs, ObservesChangedIs, ObservesNewIs
  <2>2. c \in LatestEntry(p)
    BY <1>1, <1>3, <2>1 DEF LatestEntry, OnDisk, Apart
  <2>3. Replaced(p) \subseteq replaced'
    <3>1. CASE ObservesKnown(p)
      BY <3>1 DEF ObservesKnown
    <3>2. CASE ObservesChanged(p)
      BY <3>2 DEF ObservesChanged
    <3>3. CASE ObservesNew(p)
      BY <3>3 DEF ObservesNew
    <3> QED
      BY <1>6, <3>1, <3>2, <3>3
  <2> QED
    BY <1>3, <2>1, <2>2, <2>3, LatestIsOne
<1>7. ASSUME ObservesKnown(p)
      PROVE  \E r \in All' : r.claude = c /\ r.pid = p
  <2>1. SidOf(p) = c /\ OnDisk(c)
    BY <1>6, <1>7
  <2>2. PICK r : r = Record(c)
    OBVIOUS
  <2>3. Tracked(c) /\ IF r.pid = None /\ OnDisk(r.claude) THEN RePromote(r, p)
                      ELSE UNCHANGED << sessions, journal >>
    BY <1>7, <2>1, <2>2 DEF ObservesKnown, NothingToDo
  <2>4. r \in All /\ r.claude = c /\ r \in Records /\ RecordOK(r) /\ r.pid \in Pids \cup {None}
    BY <1>2, <2>2, <2>3, RecordOf, RecordType DEF BindingTypeOK, IInv, RecordsOK
  <2>5. CASE r.pid = None
    <3>1. Promoted(r, p) \in All'
      BY <1>2, <2>1, <2>3, <2>4, <2>5, PromotesRecord
    <3> QED
      BY <2>4, <3>1, PromotedRec
  <2>6. CASE r.pid # None
    <3>1. Family(c, r.pid) /\ r.pid \in Pids
      BY <2>4, <2>6 DEF RecordOK
    <3>2. r.pid = p
      BY <1>2, <1>3, <3>1 DEF Family, Alone
    <3>3. All' = All
      BY <2>3, <2>6 DEF All
    <3> QED
      BY <2>4, <3>2, <3>3
  <2> QED
    BY <2>5, <2>6
<1>8. ASSUME ObservesChanged(p)
      PROVE  \E r \in All' : r.claude = c /\ r.pid = p
  <2>1. SidOf(p) = c /\ OnDisk(c) /\ c \notin Replaced(p)
    BY <1>6, <1>8
  <2>2. PICK r \in ObservedOn(p) :
              /\ sessions' = Observe(Without(r), c, p)
              /\ journal' = Logged(RemoveEvents(r) \o << Event("observe", p, c) >>)
    BY <1>8, <2>1 DEF ObservesChanged
  <2>3. sessions' = Append(Picked(Without(r), { i \in DOMAIN Without(r) :
              Without(r)[i].claude # c \/ Without(r)[i].pid = None }), Rec(c, p))
    BY <2>2 DEF Observe, Rec
  <2>4. Without(r) \in Seq(Records) /\ Rec(c, p) \in Records
    BY <1>2, WithoutIs, RecIs DEF Agreed
  <2> DEFINE K == { i \in DOMAIN Without(r) : Without(r)[i].claude # c \/ Without(r)[i].pid = None }
             t == Picked(Without(r), K)
  <2>5. t \in Seq(Records)
    <3>1. K \in SUBSET DOMAIN Without(r)
      OBVIOUS
    <3> HIDE DEF K
    <3> QED
      BY <2>4, <3>1, PickedElements
  <2>6. sessions' = Append(t, Rec(c, p))
    BY <2>3
  <2> HIDE DEF t
  <2>7. Rec(c, p) \in All'
    <3>1. Len(t) + 1 \in DOMAIN Append(t, Rec(c, p)) /\ Append(t, Rec(c, p))[Len(t) + 1] = Rec(c, p)
      BY <2>4, <2>5
    <3> QED
      BY <2>6, <3>1 DEF All, ToSet
  <2> QED
    BY <1>2, <2>7, RecIs
<1>9. ASSUME ObservesNew(p)
      PROVE  \E r \in All' : r.claude = c /\ r.pid = p
  <2>1. SidOf(p) = c /\ OnDisk(c)
    BY <1>6, <1>9
  <2>2. ~ Tracked(c) /\ ObservedOn(p) = {} /\ StartObserving(c, p)
    BY <1>9, <2>1 DEF ObservesNew
  <2>3. Rec(c, p) \in All'
    BY <1>1, <1>2, <2>2, StartsSole
  <2> QED
    BY <1>2, <2>3, RecIs
<1> QED
  BY <1>5, <1>7, <1>8, <1>9 DEF Observes

\* What a step of the pass for process q leaves as it is.
LEMMA SettledStill ==
  ASSUME IInv, NEW p \in Pids, NEW q \in Pids, p # q, Observes(q), Settled(p)
  PROVE  Settled(p)'
<1>0. PICK c : c = runs[p]
  OBVIOUS
<1>1. Apart /\ Alive(q) /\ Kept(q) /\ replaced \subseteq replaced' /\ runs'[p] = c
  BY <1>0, ObservesIs DEF Apart
<1>2. LatestEntry(p)' \subseteq LatestEntry(p)
  <2>1. CASE mapFile' = mapFile
    BY <1>1, <2>1 DEF LatestEntry, OnDisk, Apart
  <2>2. CASE ObservesReplaced(q)
    <3> DEFINE S == Stale(q, Replaced(q))
               K == { i \in DOMAIN mapFile : mapFile[i].claude \notin S }
    <3>1. mapFile' = Picked(mapFile, K)
      BY <2>2 DEF ObservesReplaced, RemoveEntries
    <3>2. ASSUME NEW i \in DOMAIN mapFile, mapFile[i].pid = p
          PROVE  i \in K
      <4>1. p \in MapPid(mapFile[i].claude)
        BY <3>2 DEF MapPid
      <4>2. MapPid(mapFile[i].claude) # {q}
        BY <4>1
      <4>3. mapFile[i].claude \notin S
        BY <4>2 DEF Stale
      <4> QED
        BY <4>3
    <3>3. mapFile \in Seq(Entries) /\ disk' = disk /\ K \in SUBSET DOMAIN mapFile
      BY <1>1, TypeIs DEF BindingTypeOK, Apart
    <3> HIDE DEF K
    <3> QED
      BY <3>1, <3>2, <3>3, EntriesPicked
  <2>3. mapFile' = mapFile \/ ObservesReplaced(q)
    BY <1>1, ObservesKnownIs, ObservesChangedIs, ObservesNewIs DEF Observes
  <2> QED
    BY <2>1, <2>2, <2>3
<1>3. SUFFICES ASSUME Alone(p), c \notin replaced', c \in LatestEntry(p)'
               PROVE  Shown(p)'
  BY <1>1, ApartIs DEF Settled
<1>4. PICK r \in All : r.claude = c /\ r.pid = p
  BY <1>0, <1>1, <1>2, <1>3 DEF Settled, Shown
<1>5. r \in All'
  BY <1>1, <1>4 DEF Kept
<1> QED
  BY <1>1, <1>4, <1>5 DEF Shown

LEMMA ObservesPass ==
  ASSUME IInv, PassOK, NEW p \in Pids, Observes(p)
  PROVE  /\ \A q \in Running' : q \in tick.observe \ {p} \/ Settled(q)'
         /\ Running' = Running /\ tick.step \in {"adopt", "observe"}
<1>1. Apart /\ Alive(p) /\ tick.step # "idle" /\ p \in tick.observe
  BY ObservesIs DEF Observes
<1>2. Running' = Running
  BY <1>1, ApartIs DEF Running
<1>3. tick.step \in {"adopt", "observe"}
  BY <1>1, TypeIs, IdleIs DEF BindingTypeOK, IInv, TickOK
<1>4. ASSUME NEW q \in Running, q \notin tick.observe \ {p}
      PROVE  Settled(q)'
  <2>1. q \in Pids
    BY DEF Running
  <2>2. CASE q = p
    BY <2>2, SettledObserved
  <2>3. CASE q # p
    <3>1. tick.step = "observe" /\ q \in Running \ tick.observe
      BY <1>3, <1>4, <2>3 DEF PassOK
    <3>2. Settled(q)
      BY <3>1 DEF PassOK
    <3> QED
      BY <2>1, <2>3, <3>2, SettledStill
  <2> QED
    BY <2>2, <2>3
<1> QED
  BY <1>2, <1>3, <1>4

LEMMA IdlePass ==
  /\ Idle.step = "idle" /\ ~ Idle.boot /\ Down.step = "down" /\ ~ Down.boot
BY DEF Idle, Down

LEMMA PassKeeps ==
  ASSUME IInv, PassOK, [Next]_vars
  PROVE  PassOK'
<1>1. CASE tick' = tick /\ (Quiet \/ UNCHANGED vars)
  <2>1. CASE Quiet
    BY <1>1, <2>1 DEF PassOK, Quiet
  <2>2. CASE UNCHANGED vars
    BY <2>2 DEF vars, outside, files, memory, PassOK, Running, Alive, Settled, Alone, Shown, All,
                LatestEntry, OnDisk
  <2> QED
    BY <1>1, <2>1, <2>2
<1>2. CASE tick' \in {Idle, Down}
  BY <1>2, IdlePass DEF PassOK
<1>3. CASE TickBegins
  <2>1. /\ Running' = Running
        /\ tick' = IF Running = {} THEN Idle
                   ELSE [ Idle EXCEPT !.step = "adopt", !.observe = Running,
                                      !.adopt = { r.claude : r \in { s \in ToSet(sessions') : s.pid # None } } ]
    BY <1>3 DEF TickBegins, outside, Running, Alive
  <2>2. CASE Running = {}
    BY <1>2, <2>1, <2>2
  <2>3. CASE Running # {}
    <3>1. tick'.step = "adopt" /\ ~ tick'.boot /\ tick'.observe = Running
      BY <2>1, <2>3 DEF Idle
    <3> QED
      BY <2>1, <3>1 DEF PassOK
  <2> QED
    BY <2>2, <2>3
<1>4. CASE Boots
  <2>1. tick' = [ Idle EXCEPT !.step = "observe", !.boot = TRUE, !.observe = Running ] /\ Running' = Running
    BY <1>4 DEF Boots, outside, Running, Alive
  <2>2. tick'.step = "observe" /\ tick'.observe = Running
    BY <2>1 DEF Idle
  <2> QED
    BY <2>1, <2>2 DEF PassOK
<1>5. ASSUME NEW c \in Sids, Adopts(c)
      PROVE  PassOK'
  <2>1. tick.step = "adopt" /\ tick' = [tick EXCEPT !.adopt = @ \ {c}] /\ Running' = Running
    BY <1>5 DEF Adopts, outside, Running, Alive
  <2>2. tick'.step = "adopt" /\ tick'.boot = tick.boot /\ tick'.observe = tick.observe
    BY <2>1, TypeIs DEF BindingTypeOK
  <2> QED
    BY <2>1, <2>2 DEF PassOK
<1>6. ASSUME NEW p \in Pids, Observes(p)
      PROVE  PassOK'
  <2>1. tick' = IF tick.observe = {p} /\ ~ tick.boot THEN Idle
                ELSE [tick EXCEPT !.step = "observe", !.observe = @ \ {p}]
    BY <1>6 DEF Observes
  <2>2. CASE tick' = Idle
    BY <1>2, <2>2
  <2>3. CASE tick' = [tick EXCEPT !.step = "observe", !.observe = @ \ {p}]
    <3>1. tick'.step = "observe" /\ tick'.observe = tick.observe \ {p}
      BY <2>3, TypeIs DEF BindingTypeOK
    <3>2. \A q \in Running' \ tick'.observe : Settled(q)'
      BY <1>6, <3>1, ObservesPass
    <3> QED
      BY <3>1, <3>2 DEF PassOK
  <2> QED
    BY <2>1, <2>2, <2>3
<1>7. CASE BootEnds \/ Crashes
  BY <1>2, <1>7 DEF BootEnds, Crashes
<1>8. ASSUME Quiet, NEW p \in Pids, Process(p) \/ SessionEnd(p) \/ SessionStart(p)
      PROVE  tick' = tick
  <2>1. \A c : Begins(p, c) => tick' = tick
    BY Zenon DEF Begins
  <2> QED
    BY <1>8, <2>1 DEF Process, Starts, Resumes, Clears, Writes, Exits, ScriptRuns, HookLost,
                      SessionEnd, SessionStart
<1>9. ASSUME NEW w, PendingClearExpires(w)
      PROVE  Quiet /\ tick' = tick
  BY <1>9 DEF PendingClearExpires, Quiet
<1>10. ASSUME NEW c, NEW p, SendMessage(c, p)
       PROVE  Quiet /\ tick' = tick
  BY <1>10 DEF SendMessage, Quiet
<1>11. CASE UNCHANGED vars
  BY <1>1, <1>11 DEF vars
<1> QED
  BY <1>1, <1>3, <1>4, <1>5, <1>6, <1>7, <1>8, <1>9, <1>10, <1>11 DEF Next, Step

\* At the end of the pass nothing is left to observe.
LEMMA PassEnds ==
  ASSUME IInv, PassOK, [Next]_vars, tick.step \notin {"idle", "down"}, tick' = Idle
  PROVE  \A p \in Running' : Settled(p)'
<1>1. tick' # tick
  BY IdlePass
<1>2. ASSUME NEW p \in Pids, Observes(p)
      PROVE  \A q \in Running' : Settled(q)'
  <2>1. tick.observe \ {p} = {}
    <3>1. tick' = IF tick.observe = {p} /\ ~ tick.boot THEN Idle
                  ELSE [tick EXCEPT !.step = "observe", !.observe = @ \ {p}]
      BY <1>2 DEF Observes
    <3>2. tick' # [tick EXCEPT !.step = "observe", !.observe = @ \ {p}]
      BY TypeIs, IdlePass DEF BindingTypeOK
    <3> QED
      BY <3>1, <3>2
  <2> QED
    BY <1>2, <2>1, ObservesPass
<1>3. CASE BootEnds
  <2> DEFINE K == { i \in DOMAIN mapFile : Alive(mapFile[i].pid) /\ OnDisk(mapFile[i].claude) }
  <2>1. /\ tick.boot /\ tick.observe = {} /\ mapFile' = Picked(mapFile, K)
        /\ UNCHANGED << outside, disk, memory >>
    BY <1>3 DEF BootEnds, GcSessionMap
  <2>2. SUFFICES ASSUME NEW p \in Running PROVE Settled(p)'
    BY <2>1 DEF Running, Alive, outside
  <2>3. Settled(p)
    BY <2>1, <2>2 DEF PassOK
  <2>4. LatestEntry(p)' \subseteq LatestEntry(p)
    <3>1. mapFile \in Seq(Entries) /\ disk' = disk /\ K \in SUBSET DOMAIN mapFile
      BY <2>1, TypeIs DEF BindingTypeOK
    <3>2. \A i \in DOMAIN mapFile : (mapFile[i].pid = p /\ OnDisk(mapFile[i].claude)) => i \in K
      BY <2>2 DEF Running
    <3> HIDE DEF K
    <3> QED
      BY <2>1, <3>1, <3>2, EntriesPicked
  <2>5. /\ runs' = runs /\ replaced' = replaced /\ (Shown(p)' <=> Shown(p)) /\ (Alone(p)' <=> Alone(p))
    BY <2>1 DEF outside, memory, Shown, All, Alone
  <2> QED
    BY <2>3, <2>4, <2>5 DEF Settled
<1>4. ~ TickBegins /\ ~ Boots /\ ~ Crashes
  <2>1. ~ TickBegins
    BY DEF TickBegins
  <2>2. ~ Boots
    BY DEF Boots
  <2>3. ~ Crashes
    BY IdlePass DEF Crashes
  <2> QED
    BY <2>1, <2>2, <2>3
<1>5. \A c \in Sids : ~ Adopts(c)
  <2> SUFFICES ASSUME NEW c \in Sids, Adopts(c) PROVE FALSE
    OBVIOUS
  <2>1. tick.step = "adopt" /\ tick' = [tick EXCEPT !.adopt = @ \ {c}]
    BY DEF Adopts
  <2>2. tick'.step = "adopt"
    BY <2>1, TypeIs DEF BindingTypeOK
  <2> QED
    BY <2>2, IdlePass
<1>6. ~ Quiet
  BY DEF Quiet
<1>7. \A w : ~ PendingClearExpires(w)
  BY DEF PendingClearExpires
<1>8. \A c, p : ~ SendMessage(c, p)
  BY DEF SendMessage
<1>9. ~ UNCHANGED vars
  BY <1>1 DEF vars
<1> QED
  BY <1>2, <1>3, <1>4, <1>5, <1>6, <1>7, <1>8, <1>9 DEF Next, Step

\* One pass shows every process that is owed its row with the session it runs,
\* whichever hooks were lost and whatever a restart made the daemon forget:
\* discoverAndObserveSessions goes through each process, and what it does for
\* one undoes nothing for those before.
THEOREM OnePassIsEnough == Spec => PassShowsRunning
<1>1. Init => PassOK
  BY IdlePass DEF Init, PassOK
<1>2. IInv /\ PassOK /\ [Next]_vars => PassOK'
  BY PassKeeps
<1>3. ASSUME IInv, PassOK, [Next]_vars
      PROVE  (tick.step \notin {"idle", "down"} /\ tick' = Idle) =>
                 \A p \in Pids : Owed(p)' => (Row(runs[p], p) \in View)'
  <2> SUFFICES ASSUME tick.step \notin {"idle", "down"}, tick' = Idle, NEW p \in Pids, Owed(p)'
               PROVE  (Row(runs[p], p) \in View)'
    OBVIOUS
  <2>1. p \in Running' /\ Alone(p)' /\ LatestEntry(p)' = {runs'[p]} /\ runs'[p] \notin replaced'
    BY DEF Owed, Running
  <2>2. Settled(p)'
    BY <1>3, <2>1, PassEnds
  <2>3. Shown(p)'
    BY <2>1, <2>2 DEF Settled
  <2>4. \E r \in All' : r.claude = runs'[p] /\ r.pid = p
    BY <2>3 DEF Shown
  <2> QED
    BY <2>4 DEF View, TrackedRows, Row
<1>4. IInv /\ PassOK /\ [Next]_vars =>
        [(tick.step \notin {"idle", "down"} /\ tick' = Idle) =>
             \A p \in Pids : Owed(p)' => (Row(runs[p], p) \in View)']_vars
  BY <1>3
<1> QED
  BY <1>1, <1>2, <1>4, BindingInvariant, PTL DEF Spec, PassShowsRunning
=============================================================================
