--------------------------- MODULE HubSessionProofs ---------------------------
(***************************************************************************)
(* Theorems about the sessions of the hub, for any sessions, drafts,       *)
(* requests and limits: what a shared clear leaves in their queues, what   *)
(* they are told of it and how it is counted; and that they are offered    *)
(* every clip, in order and once, and told of the gaps.                    *)
(***************************************************************************)
EXTENDS HubCoreProofs

----------------------------------------------------------------------------
(* The elements of queues.                                                 *)

Elements(q) == {q[i] : i \in DOMAIN q}

LEMMA ElementsOfConcat ==
  ASSUME NEW S, NEW q \in Seq(S), NEW r \in Seq(S)
  PROVE  Elements(q \o r) = Elements(q) \cup Elements(r)
<1>1. /\ Len(q) \in Nat /\ Len(r) \in Nat
      /\ DOMAIN q = 1..Len(q) /\ DOMAIN r = 1..Len(r) /\ DOMAIN (q \o r) = 1..Len(q) + Len(r)
      /\ \A i \in 1..Len(q) : (q \o r)[i] = q[i]
      /\ \A i \in 1..Len(r) : (q \o r)[Len(q) + i] = r[i]
  OBVIOUS
<1>2. ASSUME NEW e \in Elements(q \o r)  PROVE e \in Elements(q) \cup Elements(r)
  <2>1. PICK i \in 1..Len(q) + Len(r) : e = (q \o r)[i]
    BY <1>1 DEF Elements
  <2>2. CASE i \in 1..Len(q)
    BY <1>1, <2>1, <2>2 DEF Elements
  <2>3. CASE i \notin 1..Len(q)
    <3>1. i - Len(q) \in 1..Len(r) /\ Len(q) + (i - Len(q)) = i
      BY <1>1, <2>3
    <3> QED
      BY <1>1, <2>1, <3>1 DEF Elements
  <2> QED
    BY <2>2, <2>3
<1>3. Elements(q) \subseteq Elements(q \o r)
  BY <1>1 DEF Elements
<1>4. ASSUME NEW i \in 1..Len(r)  PROVE r[i] \in Elements(q \o r)
  <2>1. Len(q) + i \in 1..Len(q) + Len(r)
    BY <1>1
  <2> QED
    BY <1>1, <2>1 DEF Elements
<1>5. Elements(r) \subseteq Elements(q \o r)
  BY <1>1, <1>4 DEF Elements
<1> QED
  BY <1>2, <1>3, <1>5

LEMMA ElementsTyped == ASSUME NEW S, NEW q \in Seq(S)  PROVE Elements(q) \subseteq S
<1>1. DOMAIN q = 1..Len(q) /\ \A i \in 1..Len(q) : q[i] \in S
  OBVIOUS
<1> QED
  BY <1>1 DEF Elements

LEMMA ElementsOfFew == Elements(<<>>) = {} /\ \A e : Elements(<<e>>) = {e}
BY DEF Elements

LEMMA ElementsOfAppend ==
  ASSUME NEW S, NEW q \in Seq(S), NEW e \in S
  PROVE  Elements(Append(q, e)) = Elements(q) \cup {e}
<1>1. /\ Len(q) \in Nat /\ DOMAIN q = 1..Len(q) /\ DOMAIN Append(q, e) = 1..Len(q) + 1
      /\ \A i \in 1..Len(q) : Append(q, e)[i] = q[i]
      /\ Append(q, e)[Len(q) + 1] = e
  OBVIOUS
<1> QED
  BY <1>1 DEF Elements

LEMMA ElementsOfTail ==
  ASSUME NEW S, NEW q \in Seq(S), q # <<>>
  PROVE  Elements(q) = {Head(q)} \cup Elements(Tail(q))
<1>1. /\ Len(q) \in Nat \ {0} /\ DOMAIN q = 1..Len(q) /\ DOMAIN Tail(q) = 1..Len(q) - 1
      /\ Head(q) = q[1] /\ \A i \in 1..Len(q) - 1 : Tail(q)[i] = q[i + 1]
  OBVIOUS
<1>2. Elements(q) \subseteq {Head(q)} \cup Elements(Tail(q))
  <2>1. ASSUME NEW i \in 1..Len(q)  PROVE q[i] \in {Head(q)} \cup Elements(Tail(q))
    <3>1. CASE i = 1
      BY <1>1, <3>1
    <3>2. CASE i # 1
      <4>1. i - 1 \in 1..Len(q) - 1 /\ Tail(q)[i - 1] = q[i]
        BY <1>1, <3>2
      <4> QED
        BY <1>1, <4>1 DEF Elements
    <3> QED
      BY <3>1, <3>2
  <2> QED
    BY <1>1, <2>1 DEF Elements
<1>3. \A i \in 1..Len(q) - 1 : i + 1 \in 1..Len(q)
  BY <1>1
<1>4. {Head(q)} \cup Elements(Tail(q)) \subseteq Elements(q)
  BY <1>1, <1>3 DEF Elements
<1> QED
  BY <1>2, <1>4

LEMMA ElementsOfSubsequence ==
  ASSUME NEW S, NEW q \in Seq(S), NEW K, K \subseteq DOMAIN q
  PROVE  Subsequence(q, K) \in Seq(S) /\ Elements(Subsequence(q, K)) = {q[k] : k \in K}
<1>1. /\ Subsequence(q, K) \in Seq(S) /\ DOMAIN Subsequence(q, K) = 1..Cardinality(K)
      /\ \A j \in 1..Cardinality(K) : Nth(K, j) \in K /\ Subsequence(q, K)[j] = q[Nth(K, j)]
      /\ \A k \in K : \E j \in 1..Cardinality(K) : Subsequence(q, K)[j] = q[k]
  BY SubsequenceElements DEF Subsequence
<1>2. Elements(Subsequence(q, K)) = {Subsequence(q, K)[j] : j \in 1..Cardinality(K)}
  BY <1>1 DEF Elements
<1>3. {Subsequence(q, K)[j] : j \in 1..Cardinality(K)} \subseteq {q[k] : k \in K}
  BY <1>1
<1>4. {q[k] : k \in K} \subseteq {Subsequence(q, K)[j] : j \in 1..Cardinality(K)}
  BY <1>1
<1> QED
  BY <1>1, <1>2, <1>3, <1>4

----------------------------------------------------------------------------
(* Queues with and without the end of a resume or the notice of a clear.   *)

NoEnd(q)    == \A e \in Elements(q) : e.kind # "resume_complete"
NoNotice(q) == \A e \in Elements(q) : e.kind # "clear_notice"

(* A queue holds the end of at most one resume.                            *)
EndsOnce(q) ==
  \A i, j \in DOMAIN q :
    q[i].kind = "resume_complete" /\ q[j].kind = "resume_complete" => i = j

LEMMA EndsOnceIfNever == ASSUME NEW q, NoEnd(q)  PROVE EndsOnce(q)
BY DEF NoEnd, EndsOnce, Elements

LEMMA SingleEvent ==
  ASSUME NEW e \in Event, NEW q, q = <<e>>
  PROVE  q \in Seq(Event) /\ Elements(q) = {e} /\ EndsOnce(q)
<1>1. q \in Seq(Event)
  OBVIOUS
<1>2. Elements(q) = {e}
  BY ElementsOfFew
<1>3. EndsOnce(q)
  BY DEF EndsOnce
<1> QED
  BY <1>1, <1>2, <1>3

LEMMA EndsOnceConcat ==
  ASSUME NEW S, NEW q \in Seq(S), NEW r \in Seq(S),
         \/ NoEnd(q) /\ EndsOnce(r)
         \/ EndsOnce(q) /\ NoEnd(r)
  PROVE  EndsOnce(q \o r)
<1>1. /\ Len(q) \in Nat /\ Len(r) \in Nat
      /\ DOMAIN q = 1..Len(q) /\ DOMAIN r = 1..Len(r) /\ DOMAIN (q \o r) = 1..Len(q) + Len(r)
      /\ \A i \in 1..Len(q) : (q \o r)[i] = q[i]
      /\ \A i \in 1..Len(q) + Len(r) :
           i \notin 1..Len(q) => i - Len(q) \in 1..Len(r) /\ (q \o r)[i] = r[i - Len(q)]
  OBVIOUS
<1> SUFFICES ASSUME NEW i \in 1..Len(q) + Len(r), NEW j \in 1..Len(q) + Len(r),
                    (q \o r)[i].kind = "resume_complete", (q \o r)[j].kind = "resume_complete"
             PROVE  i = j
  BY <1>1 DEF EndsOnce
<1>2. CASE NoEnd(q) /\ EndsOnce(r)
  <2>1. i \notin 1..Len(q) /\ j \notin 1..Len(q)
    BY <1>1, <1>2 DEF NoEnd, Elements
  <2>2. i - Len(q) = j - Len(q)
    BY <1>1, <1>2, <2>1 DEF EndsOnce
  <2> QED
    BY <1>1, <2>2
<1>3. CASE EndsOnce(q) /\ NoEnd(r)
  <2>1. i \in 1..Len(q) /\ j \in 1..Len(q)
    BY <1>1, <1>3 DEF NoEnd, Elements
  <2> QED
    BY <1>1, <1>3, <2>1 DEF EndsOnce
<1> QED
  BY <1>2, <1>3

LEMMA EndsOnceTail ==
  ASSUME NEW S, NEW q \in Seq(S), q # <<>>, EndsOnce(q)
  PROVE  EndsOnce(Tail(q)) /\ (Head(q).kind = "resume_complete" => NoEnd(Tail(q)))
<1>1. /\ Len(q) \in Nat \ {0} /\ DOMAIN q = 1..Len(q) /\ DOMAIN Tail(q) = 1..Len(q) - 1
      /\ Head(q) = q[1]
      /\ \A i \in 1..Len(q) - 1 : Tail(q)[i] = q[i + 1] /\ i + 1 \in 1..Len(q) /\ i + 1 # 1
  OBVIOUS
<1>2. EndsOnce(Tail(q))
  <2> SUFFICES ASSUME NEW i \in 1..Len(q) - 1, NEW j \in 1..Len(q) - 1,
                      Tail(q)[i].kind = "resume_complete", Tail(q)[j].kind = "resume_complete"
               PROVE  i = j
    BY <1>1 DEF EndsOnce
  <2>1. i + 1 = j + 1
    BY <1>1 DEF EndsOnce
  <2> QED
    BY <2>1
<1>3. ASSUME Head(q).kind = "resume_complete"  PROVE NoEnd(Tail(q))
  <2>1. \A i \in 1..Len(q) - 1 : q[i + 1].kind # "resume_complete"
    BY <1>1, <1>3 DEF EndsOnce
  <2> QED
    BY <1>1, <2>1 DEF NoEnd, Elements
<1> QED
  BY <1>2, <1>3

----------------------------------------------------------------------------
(* What a clear leaves behind, as an inductive invariant.                  *)

RowsCurrent == \A c \in clips : c.gen = clear_generation /\ c.draft.gen = clear_generation

ReceiptsCount ==
  /\ \A g \in 2..clear_generation : \E x \in receipts : x.committed = g /\ x.expected = g - 1
  /\ \A x, y \in receipts : x.request = y.request \/ x.committed = y.committed => x = y
  /\ \A x \in receipts : x.committed \in 2..clear_generation

(* A clip or a part of a replay is of the hub's generation.                *)
Current(e) ==
  /\ IsClip(e) => e.clip.gen = clear_generation
  /\ IsReplay(e) /\ ~IsClip(e) => e.gen = clear_generation

(* What is said of a clear was committed.                                  *)
Vouched(e) ==
  e.kind \in {"clear_accepted", "clear_notice"} =>
    \E x \in receipts : x.request = e.request /\ x.committed = e.gen /\ x.through = e.through

HoldsCurrent(s) ==
  /\ \A e \in Elements(queue[s]) : Current(e) /\ Vouched(e)
  /\ \A c \in Elements(buffered[s]) : c.gen = clear_generation

(* Where a session's worker can be in each phase, and what its queue can   *)
(* hold: the end of a resume only while it replays, and the notice of a    *)
(* clear only once the clear has left it behind.                           *)
PhaseFits(s) ==
  /\ phase[s] = "closed" => queue[s] = <<>>
  /\ phase[s] \in {"AwaitResume", "Replaying", "Live"} =>
       generation[s] = clear_generation /\ worker[s] # "closing" /\ NoNotice(queue[s])
  /\ phase[s] # "Replaying" => NoEnd(queue[s])
  /\ worker[s] = "completing" => phase[s] \in {"Replaying", "Stale"} /\ NoEnd(queue[s])
  /\ EndsOnce(queue[s])
  /\ phase[s] = "Stale" =>
       \/ worker[s] \in {"completing", "closing"}
       \/ \E e \in Elements(queue[s]) : e.kind = "clear_notice" /\ e.gen = clear_generation

Sound(s) == HoldsCurrent(s) /\ PhaseFits(s)

ClearInv == RowsCurrent /\ ReceiptsCount /\ \A s \in Sessions : Sound(s)

----------------------------------------------------------------------------
(* Sessions that a step leaves alone, empties or adds answers to.          *)

SessionSame(t) ==
  /\ queue'[t] = queue[t] /\ buffered'[t] = buffered[t]
  /\ phase'[t] = phase[t] /\ generation'[t] = generation[t] /\ worker'[t] = worker[t]

LEMMA SameIsSound ==
  ASSUME NEW t \in Sessions, Sound(t), SessionSame(t), UNCHANGED clear_generation,
         receipts \subseteq receipts'
  PROVE  Sound(t)'
<1>1. HoldsCurrent(t)'
  BY DEF Sound, HoldsCurrent, SessionSame, Current, Vouched
<1>2. PhaseFits(t)'
  BY DEF Sound, PhaseFits, SessionSame, NoEnd, NoNotice, EndsOnce
<1> QED
  BY <1>1, <1>2 DEF Sound

LEMMA EmptyIsSound ==
  ASSUME NEW t \in Sessions, queue'[t] = <<>>, buffered'[t] = <<>>, worker'[t] = "awaiting_resume",
         \/ phase'[t] = "closed"
         \/ phase'[t] = "AwaitResume" /\ generation'[t] = clear_generation'
  PROVE  Sound(t)'
<1>1. Elements(queue'[t]) = {} /\ Elements(buffered'[t]) = {}
  BY ElementsOfFew
<1>2. NoEnd(queue'[t]) /\ NoNotice(queue'[t]) /\ EndsOnce(queue'[t])
  BY <1>1, EndsOnceIfNever DEF NoEnd, NoNotice
<1> QED
  BY <1>1, <1>2 DEF Sound, HoldsCurrent, PhaseFits

LEMMA LongerIsSound ==
  ASSUME TypeOK, NEW t \in Sessions, Sound(t), phase[t] # "closed", NEW r \in Seq(Event),
         \A e \in Elements(r) : Current(e) /\ Vouched(e)'
                                /\ e.kind \notin {"resume_complete", "clear_notice"},
         queue'[t] = queue[t] \o r,
         \A c \in Elements(buffered'[t]) : c.gen = clear_generation,
         phase'[t] = phase[t], generation'[t] = generation[t], worker'[t] = worker[t],
         UNCHANGED clear_generation, receipts \subseteq receipts'
  PROVE  Sound(t)'
<1>1. queue[t] \in Seq(Event)
  BY DEF TypeOK
<1>2. Elements(queue'[t]) = Elements(queue[t]) \cup Elements(r)
  BY <1>1, ElementsOfConcat
<1>3. NoEnd(r) /\ NoNotice(r)
  BY DEF NoEnd, NoNotice
<1>4. EndsOnce(queue'[t])
  BY <1>1, <1>3, EndsOnceConcat DEF Sound, PhaseFits
<1>5. \A e \in Elements(queue[t]) : Current(e) /\ Vouched(e)'
  BY DEF Sound, HoldsCurrent, Vouched
<1>6. \A e \in Elements(queue'[t]) : Current(e)' /\ Vouched(e)'
  BY <1>2, <1>5 DEF Current
<1>7. HoldsCurrent(t)'
  BY <1>6 DEF HoldsCurrent
<1>8. PhaseFits(t)'
  BY <1>2, <1>3, <1>4 DEF Sound, PhaseFits, NoEnd, NoNotice
<1> QED
  BY <1>7, <1>8 DEF Sound

----------------------------------------------------------------------------
(* The tables.                                                             *)

LEMMA TablesStep ==
  ASSUME TypeOK, RowsCurrent, ReceiptsCount, [Next]_vars
  PROVE  RowsCurrent' /\ ReceiptsCount' /\ clear_generation' \in Nat
<1>0. clear_generation \in Nat \ {0} /\ \A x \in receipts : x.committed \in Nat
  BY ConstantTypes DEF TypeOK, Receipt
<1>1. CASE UNCHANGED database
  BY <1>0, <1>1 DEF database, meta, RowsCurrent, ReceiptsCount
<1>2. CASE ApplyRetention
  <2>1. clips' \subseteq clips /\ UNCHANGED <<clear_generation, receipts>>
    BY <1>2, TrimTakes DEF ApplyRetention, TrimTransaction
  <2> QED
    BY <1>0, <2>1 DEF RowsCurrent, ReceiptsCount
<1>3. ASSUME NEW s \in Sessions, NEW d \in Drafts, d.gen = clear_generation, AcceptNew(s, d)
      PROVE  RowsCurrent' /\ ReceiptsCount' /\ clear_generation' \in Nat
  <2> DEFINE c == NewClip(s, d)
  <2>1. PersistPublish(c) /\ c.gen = clear_generation /\ c.draft = d
    BY <1>3 DEF AcceptNew, NewClip
  <2> HIDE DEF c
  <2>2. clips' \subseteq clips \cup {c} /\ UNCHANGED <<clear_generation, receipts>>
    BY <2>1, TrimTakes DEF PersistPublish, TrimTransaction
  <2>3. RowsCurrent'
    BY <1>3, <2>1, <2>2 DEF RowsCurrent
  <2> QED
    BY <1>0, <2>2, <2>3 DEF ReceiptsCount
<1>4. ASSUME NEW s \in Sessions, NEW r \in Requests, NEW g \in 1..GenerationMax,
             ~HasReceipt(r), g = clear_generation, CommitClear(s, r, g)
      PROVE  RowsCurrent' /\ ReceiptsCount' /\ clear_generation' \in Nat
  <2> DEFINE x == [request |-> r, expected |-> g, committed |-> clear_generation + 1,
                   through |-> cursor_high_water]
  <2>1. clips' = {} /\ clear_generation' = clear_generation + 1 /\ receipts' = receipts \cup {x}
    BY <1>4 DEF CommitClear
  <2>2. x.request = r /\ x.committed = clear_generation + 1 /\ x.expected = clear_generation
    BY <1>4
  <2>3. \A y \in receipts : y.request # r /\ y.committed # clear_generation + 1
    BY <1>0, <1>4 DEF HasReceipt, ReceiptsCount
  <2> HIDE DEF x
  <2>4. \A n \in 2..clear_generation' : \E y \in receipts' : y.committed = n /\ y.expected = n - 1
    <3> SUFFICES ASSUME NEW n \in 2..clear_generation'
                 PROVE  \E y \in receipts' : y.committed = n /\ y.expected = n - 1
      OBVIOUS
    <3>1. CASE n = clear_generation + 1
      BY <1>0, <2>1, <2>2, <3>1
    <3>2. CASE n # clear_generation + 1
      <4>1. n \in 2..clear_generation
        BY <1>0, <2>1, <3>2
      <4> QED
        BY <2>1, <4>1 DEF ReceiptsCount
    <3> QED
      BY <3>1, <3>2
  <2>5. \A y, z \in receipts' : y.request = z.request \/ y.committed = z.committed => y = z
    BY <2>1, <2>2, <2>3 DEF ReceiptsCount
  <2>6. \A y \in receipts' : y.committed \in 2..clear_generation'
    BY <1>0, <2>1, <2>2 DEF ReceiptsCount
  <2>7. RowsCurrent' /\ clear_generation' \in Nat
    BY <1>0, <2>1 DEF RowsCurrent
  <2> QED
    BY <2>4, <2>5, <2>6, <2>7 DEF ReceiptsCount
<1>5. CASE RestartOnFreshDatabase
  BY <1>5 DEF RestartOnFreshDatabase, RowsCurrent, ReceiptsCount
<1>6. DatabaseStep
  BY DatabaseSteps
<1> QED
  BY <1>1, <1>2, <1>3, <1>4, <1>5, <1>6 DEF DatabaseStep

----------------------------------------------------------------------------
(* Sessions that open, close and resume.                                   *)

LEMMA OpenIsSound ==
  ASSUME Open, NEW t \in Sessions
  PROVE  Sound(t)'
BY EmptyIsSound DEF Open, AllSessions

LEMMA ResetIsSound ==
  ASSUME TypeOK, ClearInv, NEW s \in Sessions, OpenSession(s) \/ CloseSession(s), NEW t \in Sessions
  PROVE  Sound(t)'
<1>1. PICK p \in {"closed", "AwaitResume"}, g \in 0..GenerationMax :
        ResetSession(s, p, g) /\ (p = "AwaitResume" => g = clear_generation)
  <2>1. clear_generation \in 0..GenerationMax /\ 0 \in 0..GenerationMax
    BY ConstantTypes DEF TypeOK
  <2> QED
    BY <2>1 DEF OpenSession, CloseSession
<1>2. UNCHANGED <<clear_generation, receipts>>
  BY <1>1 DEF ResetSession, database, meta
<1>3. CASE t = s
  BY <1>1, <1>2, <1>3, EmptyIsSound DEF ResetSession, TypeOK
<1>4. CASE t # s
  <2>1. SessionSame(t)
    BY <1>1, <1>4 DEF ResetSession, SessionSame, TypeOK
  <2> QED
    BY <1>2, <2>1, SameIsSound DEF ClearInv
<1> QED
  BY <1>3, <1>4

(* A replay is queued behind nothing that a replay would contradict.       *)
LEMMA BeginResumeIsSound ==
  ASSUME TypeOK, ClearInv, NEW s \in Sessions, NEW known \in Contexts, NEW after \in 0..CursorMax,
         BeginResume(s, known, after), NEW t \in Sessions
  PROVE  Sound(t)'
<1>1. clips' \subseteq clips /\ UNCHANGED <<clear_generation, receipts>>
  BY TrimTakes DEF BeginResume, ApplyRetention, TrimTransaction
<1>2. CASE UNCHANGED sessionVars
  <2>1. SessionSame(t)
    BY <1>2 DEF sessionVars, offers, SessionSame
  <2> QED
    BY <1>1, <2>1, SameIsSound DEF ClearInv
<1>3. CASE StartReplay(s, StatusOf(known, after), after)
  <2> DEFINE status == StatusOf(known, after)
             from   == IF status \in {"Gap", "Complete"} THEN after ELSE NoCursor
             missed == RowsFrom(from)
             start  == [kind |-> "resume_started", status |-> status,
                        gen |-> clear_generation, after |-> after,
                        boundary |-> cursor_high_water, lost |-> lost_through_cursor']
             end    == [kind |-> "resume_complete", gen |-> clear_generation,
                        boundary |-> cursor_high_water]
             first  == <<start>>
             last   == <<end>>
             most   == queue[s] \o first \o Replay(missed)
  <2>1. /\ phase' = [phase EXCEPT ![s] = "Replaying"]
        /\ generation' = [generation EXCEPT ![s] = clear_generation]
        /\ queue' = [queue EXCEPT ![s] = most \o last]
        /\ worker' = [worker EXCEPT ![s] = "looping"]
        /\ buffered' = buffered
    BY <1>3 DEF StartReplay
  <2>2. missed \subseteq clips /\ missed \subseteq Clip
    BY <1>1, RowsFromTakes DEF TypeOK
  <2>3. start \in Event /\ end \in Event
    <3>1. lost_through_cursor' \in 0..CursorMax
      BY TypeStep, TypeBeginResume DEF TypeOK
    <3> QED
      BY <3>1, EventTypes, StatusOfType DEF TypeOK
  <2>4. /\ Replay(missed) \in Seq(Event)
        /\ \A e \in Elements(Replay(missed)) : e.kind = "resume_clip" /\ e.clip \in missed
    <3>1. Replay(missed) \in Seq([kind : {"resume_clip"}, clip : missed])
      BY <2>2, ReplayLists
    <3>2. [kind : {"resume_clip"}, clip : missed] \subseteq Event
      BY <2>2, EventTypes
    <3>3. Replay(missed) \in Seq(Event)
      BY <3>1, <3>2, SeqMonotonic
    <3>4. \A e \in Elements(Replay(missed)) : e \in [kind : {"resume_clip"}, clip : missed]
      BY <3>1, ElementsTyped
    <3>5. \A e \in [kind : {"resume_clip"}, clip : missed] :
            e.kind = "resume_clip" /\ e.clip \in missed
      OBVIOUS
    <3> QED
      BY <3>3, <3>4, <3>5
  <2>5. start.kind = "resume_started" /\ start.gen = clear_generation
    OBVIOUS
  <2>6. end.kind = "resume_complete" /\ end.gen = clear_generation
    OBVIOUS
  <2>7. queue[s] \in Seq(Event)
    BY DEF TypeOK
  <2>8. /\ phase[s] = "AwaitResume"
        /\ \A e \in Elements(queue[s]) : e.kind \in {"live", "clear_notice"}
    BY DEF BeginResume, Reading, Elements
  <2> HIDE DEF status, from, missed, start, end
  <2>9. /\ first \in Seq(Event) /\ Elements(first) = {start}
        /\ last \in Seq(Event) /\ Elements(last) = {end} /\ EndsOnce(last)
    <3>1. first = <<start>> /\ last = <<end>>
      OBVIOUS
    <3> HIDE DEF first, last
    <3> QED
      BY <2>3, <3>1, SingleEvent
  <2> HIDE DEF first, last
  <2>10. /\ most \in Seq(Event)
         /\ Elements(most) = Elements(queue[s]) \cup {start} \cup Elements(Replay(missed))
         /\ Elements(most \o last) = Elements(most) \cup {end}
    <3>1. queue[s] \o first \in Seq(Event)
      BY <2>7, <2>9
    <3>2. Elements(queue[s] \o first) = Elements(queue[s]) \cup {start}
      BY <2>7, <2>9, ElementsOfConcat
    <3>3. most \in Seq(Event)
      BY <2>4, <3>1
    <3>4. Elements(most) = Elements(queue[s] \o first) \cup Elements(Replay(missed))
      BY <2>4, <3>1, ElementsOfConcat
    <3> HIDE DEF most
    <3>5. Elements(most \o last) = Elements(most) \cup {end}
      BY <2>9, <3>3, ElementsOfConcat
    <3> QED
      BY <3>2, <3>3, <3>4, <3>5
  <2>11. NoNotice(queue[s])
    BY <2>8 DEF ClearInv, Sound, PhaseFits
  <2>12. NoEnd(most)
    BY <2>4, <2>5, <2>8, <2>10 DEF NoEnd
  <2>13. EndsOnce(most \o last)
    <3> HIDE DEF most
    <3> QED
      BY <2>9, <2>10, <2>12, EndsOnceConcat
  <2>14. \A e \in Elements(most \o last) : Current(e) /\ Vouched(e)
    <3>1. Current(start) /\ Vouched(start) /\ Current(end) /\ Vouched(end)
      BY <2>5, <2>6 DEF Current, Vouched, IsClip, IsReplay
    <3>2. \A e \in Elements(Replay(missed)) : Current(e) /\ Vouched(e)
      BY <2>2, <2>4 DEF ClearInv, RowsCurrent, Current, Vouched, IsClip
    <3>3. \A e \in Elements(queue[s]) : Current(e) /\ Vouched(e)
      BY DEF ClearInv, Sound, HoldsCurrent
    <3> HIDE DEF most
    <3> QED
      BY <2>10, <3>1, <3>2, <3>3
  <2>15. NoNotice(most \o last)
    BY <2>4, <2>5, <2>6, <2>10, <2>11 DEF NoNotice
  <2> HIDE DEF most
  <2>16. CASE t = s
    <3>1. /\ queue'[s] = most \o last /\ phase'[s] = "Replaying" /\ worker'[s] = "looping"
          /\ generation'[s] = clear_generation /\ buffered'[s] = buffered[s]
      BY <2>1 DEF TypeOK
    <3>2. HoldsCurrent(s)'
      BY <1>1, <2>14, <3>1 DEF ClearInv, Sound, HoldsCurrent, Current, Vouched
    <3>3. PhaseFits(s)'
      BY <1>1, <2>13, <2>15, <3>1 DEF PhaseFits
    <3> QED
      BY <2>16, <3>2, <3>3 DEF Sound
  <2>17. CASE t # s
    <3>1. SessionSame(t)
      BY <2>1, <2>17 DEF SessionSame, TypeOK
    <3> QED
      BY <1>1, <3>1, SameIsSound DEF ClearInv
  <2> QED
    BY <2>16, <2>17
<1> QED
  BY <1>2, <1>3 DEF BeginResume

(* What waited for the end of the replay is queued behind it.              *)
LEMMA CompleteResumeIsSound ==
  ASSUME TypeOK, ClearInv, NEW s \in Sessions, CompleteResume(s), NEW t \in Sessions
  PROVE  Sound(t)'
<1>1. UNCHANGED <<clear_generation, receipts>>
  BY DEF CompleteResume, database, meta
<1>2. /\ phase[s] \in {"Replaying", "Stale"} /\ NoEnd(queue[s])
      /\ phase[s] = "Replaying" => generation[s] = clear_generation /\ NoNotice(queue[s])
  BY DEF CompleteResume, ClearInv, Sound, PhaseFits
<1>3. CASE phase[s] = "Replaying" /\ generation[s] = clear_generation
  <2> DEFINE live == [i \in DOMAIN buffered[s] |-> [kind |-> "live", clip |-> buffered[s][i]]]
  <2>1. /\ queue' = [queue EXCEPT ![s] = queue[s] \o live]
        /\ buffered' = [buffered EXCEPT ![s] = <<>>]
        /\ phase' = [phase EXCEPT ![s] = "Live"]
        /\ worker' = [worker EXCEPT ![s] = "looping"]
        /\ UNCHANGED generation
    BY <1>3 DEF CompleteResume, BufferedAfterHandover
  <2>2. buffered[s] \in Seq(Clip) /\ queue[s] \in Seq(Event)
    BY DEF TypeOK
  <2>3. /\ Len(buffered[s]) \in Nat /\ DOMAIN buffered[s] = 1..Len(buffered[s])
        /\ \A i \in DOMAIN buffered[s] : buffered[s][i] \in Clip
    BY <2>2
  <2>4. live \in Seq(Event)
    <3>1. live \in [1..Len(buffered[s]) -> Event]
      BY <2>3, EventTypes
    <3> QED
      BY <2>3, <3>1, FunctionIsSequence
  <2>5. \A e \in Elements(live) : e.kind = "live" /\ e.clip \in Elements(buffered[s])
    <3>1. DOMAIN live = DOMAIN buffered[s]
      OBVIOUS
    <3>2. \A i \in DOMAIN buffered[s] : live[i].kind = "live" /\ live[i].clip = buffered[s][i]
      OBVIOUS
    <3> HIDE DEF live
    <3> QED
      BY <3>1, <3>2 DEF Elements
  <2> HIDE DEF live
  <2>6. Elements(queue[s] \o live) = Elements(queue[s]) \cup Elements(live)
    BY <2>2, <2>4, ElementsOfConcat
  <2>7. NoEnd(queue[s] \o live) /\ NoNotice(queue[s] \o live)
    BY <1>2, <1>3, <2>5, <2>6 DEF NoEnd, NoNotice
  <2>8. \A e \in Elements(live) : Current(e) /\ Vouched(e)
    BY <2>5 DEF ClearInv, Sound, HoldsCurrent, Current, Vouched, IsClip
  <2>9. CASE t = s
    <3>1. /\ queue'[s] = queue[s] \o live /\ buffered'[s] = <<>> /\ phase'[s] = "Live"
          /\ worker'[s] = "looping" /\ generation'[s] = generation[s]
      BY <2>1 DEF TypeOK
    <3>2. HoldsCurrent(s)'
      BY <1>1, <2>6, <2>8, <3>1, ElementsOfFew
         DEF ClearInv, Sound, HoldsCurrent, Current, Vouched
    <3>3. PhaseFits(s)'
      BY <1>1, <1>3, <2>7, <3>1, EndsOnceIfNever DEF PhaseFits
    <3> QED
      BY <2>9, <3>2, <3>3 DEF Sound
  <2>10. CASE t # s
    <3>1. SessionSame(t)
      BY <2>1, <2>10 DEF SessionSame, TypeOK
    <3> QED
      BY <1>1, <3>1, SameIsSound DEF ClearInv
  <2> QED
    BY <2>9, <2>10
<1>4. CASE ~(phase[s] = "Replaying" /\ generation[s] = clear_generation)
  <2>1. /\ worker' = [worker EXCEPT ![s] = "closing"]
        /\ UNCHANGED <<phase, generation, queue, buffered>>
    BY <1>4 DEF CompleteResume, offers
  <2>2. phase[s] = "Stale"
    BY <1>2, <1>4
  <2>3. CASE t = s
    <3>1. worker'[s] = "closing"
      BY <2>1 DEF TypeOK
    <3>2. HoldsCurrent(s)'
      BY <1>1, <2>1 DEF ClearInv, Sound, HoldsCurrent, Current, Vouched
    <3>3. PhaseFits(s)'
      BY <1>1, <2>1, <2>2, <3>1 DEF ClearInv, Sound, PhaseFits, NoEnd, EndsOnce
    <3> QED
      BY <2>3, <3>2, <3>3 DEF Sound
  <2>4. CASE t # s
    <3>1. SessionSame(t)
      BY <2>1, <2>4 DEF SessionSame, TypeOK
    <3> QED
      BY <1>1, <3>1, SameIsSound DEF ClearInv
  <2> QED
    BY <2>3, <2>4
<1> QED
  BY <1>3, <1>4

(* Only a session that was left behind writes a notice, and it closes.     *)
LEMMA WriteNextEventIsSound ==
  ASSUME TypeOK, ClearInv, NEW s \in Sessions, WriteNextEvent(s), NEW t \in Sessions
  PROVE  Sound(t)'
<1> DEFINE e == Head(queue[s])
<1>1. UNCHANGED <<clear_generation, receipts>>
  BY DEF WriteNextEvent, database, meta
<1>2. /\ worker[s] \in {"awaiting_resume", "looping"}
      /\ queue[s] # <<>> /\ queue[s] \in Seq(Event)
      /\ worker' = [worker EXCEPT ![s] = WorkerAfter(e)]
      /\ queue' = [queue EXCEPT ![s] = Tail(queue[s])]
      /\ UNCHANGED <<phase, generation, buffered>>
  BY DEF WriteNextEvent, HasNextEvent, NextEvent, Complete, TypeOK
<1>3. Elements(queue[s]) = {e} \cup Elements(Tail(queue[s]))
  BY <1>2, ElementsOfTail
<1>4. /\ EndsOnce(Tail(queue[s]))
      /\ e.kind = "resume_complete" => NoEnd(Tail(queue[s]))
  BY <1>2, EndsOnceTail DEF ClearInv, Sound, PhaseFits
<1> HIDE DEF e
<1>5. CASE t = s
  <2>1. queue'[s] = Tail(queue[s]) /\ worker'[s] = WorkerAfter(e)
    BY <1>2 DEF TypeOK
  <2>2. HoldsCurrent(s)'
    BY <1>1, <1>2, <1>3, <2>1 DEF ClearInv, Sound, HoldsCurrent, Current, Vouched
  <2>3. PhaseFits(s)'
    <3>1. PhaseFits(s) /\ phase'[s] = phase[s] /\ generation'[s] = generation[s]
      BY <1>2 DEF ClearInv, Sound
    <3>2. phase[s] # "closed"
      BY <1>2, <3>1 DEF PhaseFits
    <3>3. phase[s] \in {"AwaitResume", "Replaying", "Live"} =>
            e.kind # "clear_notice" /\ NoNotice(Tail(queue[s]))
      BY <1>3, <3>1 DEF PhaseFits, NoNotice
    <3>4. phase[s] # "Replaying" => e.kind # "resume_complete" /\ NoEnd(Tail(queue[s]))
      BY <1>3, <3>1 DEF PhaseFits, NoEnd
    <3>5. phase[s] = "Stale" =>
            \/ e.kind = "clear_notice"
            \/ \E x \in Elements(Tail(queue[s])) :
                 x.kind = "clear_notice" /\ x.gen = clear_generation
      BY <1>2, <1>3, <3>1 DEF PhaseFits
    <3>6. /\ worker'[s] = "closing" <=> e.kind = "clear_notice"
          /\ worker'[s] = "completing" <=> e.kind = "resume_complete"
      BY <2>1 DEF WorkerAfter
    <3>7. phase[s] \in {"closed", "AwaitResume", "Replaying", "Live", "Stale"}
      BY DEF TypeOK
    <3> QED
      BY <1>1, <1>4, <2>1, <3>1, <3>2, <3>3, <3>4, <3>5, <3>6, <3>7 DEF PhaseFits
  <2> QED
    BY <1>5, <2>2, <2>3 DEF Sound
<1>6. CASE t # s
  <2>1. SessionSame(t)
    BY <1>2, <1>6 DEF SessionSame, TypeOK
  <2> QED
    BY <1>1, <2>1, SameIsSound DEF ClearInv
<1> QED
  BY <1>5, <1>6

----------------------------------------------------------------------------
(* Publish and clear.                                                      *)

(* A session is answered a publish or a clear that was carried out.        *)
LEMMA AnswerIsSound ==
  ASSUME TypeOK, ClearInv, NEW s \in Sessions, phase[s] # "closed", NEW e \in Event,
         e.kind \in {"publish_accepted", "clear_accepted"}, Vouched(e),
         queue' = [queue EXCEPT ![s] = Append(queue[s], e)],
         UNCHANGED <<clear_generation, receipts, phase, generation, buffered, worker>>,
         NEW t \in Sessions
  PROVE  Sound(t)'
<1> DEFINE r == <<e>>
<1>1. r = <<e>>
  OBVIOUS
<1> HIDE DEF r
<1>2. r \in Seq(Event) /\ Elements(r) = {e}
  BY <1>1, SingleEvent
<1>3. CASE t = s
  <2>1. queue'[s] = queue[s] \o r
    <3>1. queue'[s] = Append(queue[s], e) /\ queue[s] \in Seq(Event)
      BY DEF TypeOK
    <3> QED
      BY <1>1, <3>1, AppendIsConcat
  <2>2. Current(e) /\ Vouched(e)'
    BY DEF Current, Vouched, IsClip, IsReplay
  <2>3. \A c \in Elements(buffered'[s]) : c.gen = clear_generation
    BY DEF ClearInv, Sound, HoldsCurrent
  <2> QED
    BY <1>2, <1>3, <2>1, <2>2, <2>3, LongerIsSound DEF ClearInv
<1>4. CASE t # s
  <2>1. SessionSame(t)
    BY <1>4 DEF SessionSame, TypeOK
  <2> QED
    BY <2>1, SameIsSound DEF ClearInv
<1> QED
  BY <1>3, <1>4

LEMMA EventsAssociate ==
  ASSUME NEW q \in Seq(Event), NEW r \in Seq(Event), NEW u \in Seq(Event)
  PROVE  (q \o r) \o u = q \o (r \o u)
OBVIOUS

(* A new clip goes to the sessions of its generation.                      *)
LEMMA EnqueueIsSound ==
  ASSUME TypeOK, ClearInv, NEW s \in Sessions, phase[s] = "Live", NEW c \in Clip,
         c.gen = clear_generation, NEW e \in Event, e.kind = "publish_accepted",
         EnqueueClip(s, c, e),
         UNCHANGED <<clear_generation, receipts, phase, generation, worker>>, NEW t \in Sessions
  PROVE  Sound(t)'
<1> DEFINE live  == [kind |-> "live", clip |-> c]
           told  == IF t = s THEN <<e>> ELSE <<>>
           offer == IF Offers(t, c) THEN <<live>> ELSE <<>>
<1>1. live \in Event /\ Current(live) /\ Vouched(live)' /\ live.kind = "live"
  BY EventTypes DEF Current, Vouched, IsClip
<1>2. Current(e) /\ Vouched(e)'
  BY DEF Current, Vouched, IsClip, IsReplay
<1>3. queue'[t] = queue[t] \o told \o offer /\ queue[t] \in Seq(Event)
  BY DEF EnqueueClip, TypeOK
<1>4. buffered'[t] = IF Buffers(t, c) THEN Append(buffered[t], c) ELSE buffered[t]
  BY DEF EnqueueClip
<1> HIDE DEF live
<1>5. told \in Seq(Event) /\ \A x \in Elements(told) : x = e
  <2>1. CASE t = s
    <3>1. told = <<e>>
      BY <2>1
    <3> HIDE DEF told
    <3> QED
      BY <3>1, SingleEvent
  <2>2. CASE t # s
    BY <2>2, ElementsOfFew
  <2> QED
    BY <2>1, <2>2
<1>6. offer \in Seq(Event) /\ \A x \in Elements(offer) : x = live
  <2>1. CASE Offers(t, c)
    <3>1. offer = <<live>>
      BY <2>1
    <3> HIDE DEF offer
    <3> QED
      BY <1>1, <3>1, SingleEvent
  <2>2. CASE ~Offers(t, c)
    BY <2>2, ElementsOfFew
  <2> QED
    BY <2>1, <2>2
<1>7. \A x \in Elements(buffered'[t]) : x.gen = clear_generation
  <2>1. buffered[t] \in Seq(Clip) /\ \A x \in Elements(buffered[t]) : x.gen = clear_generation
    BY DEF TypeOK, ClearInv, Sound, HoldsCurrent
  <2>2. Elements(Append(buffered[t], c)) = Elements(buffered[t]) \cup {c}
    BY <2>1, ElementsOfAppend
  <2> QED
    BY <1>4, <2>1, <2>2
<1>8. CASE phase[t] = "closed"
  <2>1. told = <<>> /\ offer = <<>> /\ buffered'[t] = buffered[t]
    BY <1>4, <1>8 DEF Offers, Buffers
  <2> HIDE DEF told, offer
  <2>2. queue'[t] = queue[t]
    BY <1>3, <2>1
  <2>3. SessionSame(t)
    BY <2>1, <2>2 DEF SessionSame
  <2> QED
    BY <2>3, SameIsSound DEF ClearInv
<1>9. CASE phase[t] # "closed"
  <2> DEFINE r == told \o offer
  <2> HIDE DEF told, offer
  <2>1. r \in Seq(Event) /\ Elements(r) = Elements(told) \cup Elements(offer)
    BY <1>5, <1>6, ElementsOfConcat
  <2>2. queue'[t] = queue[t] \o r
    <3>1. queue[t] \in Seq(Event) /\ told \in Seq(Event) /\ offer \in Seq(Event)
      BY <1>3, <1>5, <1>6
    <3>2. (queue[t] \o told) \o offer = queue[t] \o (told \o offer)
      BY <3>1, EventsAssociate
    <3> QED
      BY <1>3, <3>2
  <2> HIDE DEF r
  <2>3. \A x \in Elements(r) : /\ Current(x) /\ Vouched(x)'
                               /\ x.kind \notin {"resume_complete", "clear_notice"}
    BY <1>1, <1>2, <1>5, <1>6, <2>1
  <2> QED
    BY <1>7, <1>9, <2>1, <2>2, <2>3, LongerIsSound DEF ClearInv
<1> QED
  BY <1>8, <1>9

LEMMA PublishIsSound ==
  ASSUME TypeOK, ClearInv, NEW s \in Sessions, NEW d \in Drafts, Publish(s, d), NEW t \in Sessions
  PROVE  Sound(t)'
<1>1. UNCHANGED <<phase, generation, worker>> /\ phase[s] = "Live"
  BY DEF Publish, PreflightPublish, RequireLiveSession
<1>2. CASE AcceptDuplicate(s, d)
  <2>1. PICK c \in Retained(clips) :
          /\ queue' = [queue EXCEPT ![s] = Append(queue[s],
               [kind |-> "publish_accepted", id |-> d.id, cursor |-> c.cursor,
                duplicate |-> TRUE])]
          /\ UNCHANGED <<database, buffered>>
    BY <1>2 DEF AcceptDuplicate, ClipByMessageId
  <2> DEFINE e == [kind |-> "publish_accepted", id |-> d.id, cursor |-> c.cursor,
                   duplicate |-> TRUE]
  <2>2. e \in Event
    <3>1. c.cursor \in Cursors
      BY DEF Retained, TypeOK, Clip
    <3> QED
      BY <3>1, ConstantTypes, EventTypes
  <2>3. e.kind = "publish_accepted" /\ Vouched(e)
    BY DEF Vouched
  <2>4. queue' = [queue EXCEPT ![s] = Append(queue[s], e)]
    BY <2>1
  <2>5. UNCHANGED <<clear_generation, receipts, phase, generation, buffered, worker>>
    BY <1>1, <2>1 DEF database, meta
  <2> HIDE DEF e
  <2> QED
    BY <1>1, <2>2, <2>3, <2>4, <2>5, AnswerIsSound
<1>3. CASE AcceptNew(s, d)
  <2> DEFINE c == NewClip(s, d)
             e == [kind |-> "publish_accepted", id |-> d.id, cursor |-> c.cursor,
                   duplicate |-> FALSE]
  <2>1. PersistPublish(c) /\ EnqueueClip(s, c, e) /\ CursorLeft
    BY <1>3 DEF AcceptNew, NewClip
  <2>2. c \in Clip /\ c.gen = clear_generation
    BY <2>1, NewClipType DEF NewClip
  <2>3. e \in Event /\ e.kind = "publish_accepted"
    <3>1. c.cursor \in Cursors
      BY <2>2 DEF Clip
    <3> QED
      BY <3>1, ConstantTypes, EventTypes
  <2>4. UNCHANGED <<clear_generation, receipts>>
    BY <2>1 DEF PersistPublish
  <2> HIDE DEF c, e
  <2> QED
    BY <1>1, <2>1, <2>2, <2>3, <2>4, EnqueueIsSound
<1>4. CASE ExhaustCursor
  <2>1. SessionSame(t) /\ UNCHANGED <<clear_generation, receipts>>
    BY <1>1, <1>4 DEF ExhaustCursor, database, meta, offers, SessionSame
  <2> QED
    BY <2>1, SameIsSound DEF ClearInv
<1> QED
  BY <1>2, <1>3, <1>4 DEF Publish

(* Nothing that the clear took from the history stays in a queue, and      *)
(* every session that was open is told.                                    *)
LEMMA RetractIsSound ==
  ASSUME TypeOK, ClearInv, NEW s \in Sessions, NEW next \in Nat, next = clear_generation + 1,
         NEW accepted \in Event, accepted.kind = "clear_accepted", Vouched(accepted)',
         NEW notice \in Event, notice.kind = "clear_notice", notice.gen = next, Vouched(notice)',
         Retract(s, next, accepted, notice), clear_generation' = next, receipts \subseteq receipts',
         UNCHANGED <<generation, worker>>, NEW t \in Sessions
  PROVE  Sound(t)'
<1> DEFINE stay  == {i \in DOMAIN queue[t] : Stays(queue[t][i], next)}
           kept  == Subsequence(queue[t], stay)
           told  == IF t = s THEN <<accepted>> ELSE <<>>
           last  == <<notice>>
           most  == kept \o told
           still == {i \in DOMAIN buffered[t] : buffered[t][i].gen >= next}
<1>1. /\ queue'[t] = IF IsTold(t) THEN most \o last ELSE queue[t]
      /\ buffered'[t] = Subsequence(buffered[t], still)
      /\ phase'[t] = IF IsTold(t) THEN "Stale" ELSE phase[t]
  BY DEF Retract
<1>2. queue[t] \in Seq(Event) /\ buffered[t] \in Seq(Clip)
  BY DEF TypeOK
<1>3. clear_generation \in Nat /\ next > clear_generation
  BY DEF TypeOK
<1>4. Elements(buffered'[t]) = {}
  <2>1. \A i \in DOMAIN buffered[t] : buffered[t][i].gen = clear_generation
    BY DEF ClearInv, Sound, HoldsCurrent, Elements
  <2>2. still = {}
    BY <1>3, <2>1
  <2>3. still \subseteq DOMAIN buffered[t]
    OBVIOUS
  <2> HIDE DEF still
  <2> QED
    BY <1>1, <1>2, <2>2, <2>3, ElementsOfSubsequence
<1>5. CASE ~IsTold(t)
  <2>1. phase[t] = "closed" /\ phase'[t] = "closed" /\ queue'[t] = queue[t]
    BY <1>1, <1>5 DEF IsTold
  <2>2. queue'[t] = <<>> /\ worker'[t] # "completing"
    BY <2>1 DEF ClearInv, Sound, PhaseFits
  <2>3. Elements(queue'[t]) = {}
    BY <2>2, ElementsOfFew
  <2>4. NoEnd(queue'[t]) /\ EndsOnce(queue'[t])
    BY <2>3, EndsOnceIfNever DEF NoEnd
  <2> QED
    BY <1>4, <2>1, <2>2, <2>3, <2>4 DEF Sound, HoldsCurrent, PhaseFits
<1>6. CASE IsTold(t)
  <2>1. stay \subseteq DOMAIN queue[t] /\ \A i \in stay : Stays(queue[t][i], next)
    OBVIOUS
  <2> HIDE DEF stay
  <2>2. kept \in Seq(Event) /\ Elements(kept) = {queue[t][i] : i \in stay}
    <3>1. kept = Subsequence(queue[t], stay)
      OBVIOUS
    <3> HIDE DEF kept
    <3> QED
      BY <1>2, <2>1, <3>1, ElementsOfSubsequence
  <2>3. ASSUME NEW i \in stay
        PROVE  ~IsClip(queue[t][i]) /\ ~IsReplay(queue[t][i]) /\ Vouched(queue[t][i])
    <3>1. Stays(queue[t][i], next) /\ Current(queue[t][i]) /\ Vouched(queue[t][i])
      BY <2>1 DEF ClearInv, Sound, HoldsCurrent, Elements
    <3> QED
      BY <1>3, <3>1 DEF Stays, Current
  <2>4. \A e \in Elements(kept) : ~IsClip(e) /\ ~IsReplay(e) /\ Vouched(e)'
    BY <2>2, <2>3 DEF Vouched
  <2>5. told \in Seq(Event) /\ \A e \in Elements(told) : e = accepted
    <3>1. CASE t = s
      <4>1. told = <<accepted>>
        BY <3>1
      <4> HIDE DEF told
      <4> QED
        BY <4>1, SingleEvent
    <3>2. CASE t # s
      BY <3>2, ElementsOfFew
    <3> QED
      BY <3>1, <3>2
  <2>6. last \in Seq(Event) /\ Elements(last) = {notice}
    <3>1. last = <<notice>>
      OBVIOUS
    <3> HIDE DEF last
    <3> QED
      BY <3>1, SingleEvent
  <2> HIDE DEF kept, told, last
  <2>7. most \in Seq(Event) /\ Elements(most) = Elements(kept) \cup Elements(told)
    BY <2>2, <2>5, ElementsOfConcat
  <2> HIDE DEF most
  <2>8. Elements(queue'[t]) = Elements(kept) \cup Elements(told) \cup {notice}
    <3>1. Elements(most \o last) = Elements(most) \cup Elements(last)
      BY <2>6, <2>7, ElementsOfConcat
    <3> QED
      BY <1>1, <1>6, <2>6, <2>7, <3>1
  <2>9. /\ ~IsClip(accepted) /\ ~IsReplay(accepted)
        /\ ~IsClip(notice) /\ ~IsReplay(notice)
    BY DEF IsClip, IsReplay
  <2>10. \A e \in Elements(queue'[t]) : Vouched(e)' /\ ~IsClip(e) /\ ~IsReplay(e)
    BY <2>4, <2>5, <2>8, <2>9
  <2>11. HoldsCurrent(t)'
    BY <1>4, <2>10 DEF HoldsCurrent, Current
  <2>12. NoEnd(queue'[t])
    BY <2>10 DEF NoEnd, IsReplay
  <2>13. PhaseFits(t)'
    BY <1>1, <1>6, <2>8, <2>12, EndsOnceIfNever DEF PhaseFits
  <2> QED
    BY <2>11, <2>13 DEF Sound
<1> QED
  BY <1>5, <1>6

LEMMA CommitClearIsSound ==
  ASSUME TypeOK, ClearInv, NEW s \in Sessions, NEW r \in Requests, NEW g \in 1..GenerationMax,
         CommitClear(s, r, g), UNCHANGED <<generation, worker>>, NEW t \in Sessions
  PROVE  Sound(t)'
<1> PICK next \in 1..GenerationMax : next = clear_generation + 1
  BY ConstantTypes DEF CommitClear, TypeOK
<1> PICK through \in 0..CursorMax : through = cursor_high_water
  BY DEF TypeOK
<1> DEFINE receipt  == [request |-> r, expected |-> g, committed |-> next, through |-> through]
           accepted == [kind |-> "clear_accepted", request |-> r, gen |-> next,
                        through |-> through, duplicate |-> FALSE]
           notice   == [kind |-> "clear_notice", request |-> r, gen |-> next,
                        through |-> through]
<1>1. /\ clear_generation' = next /\ receipts' = receipts \cup {receipt}
      /\ Retract(s, next, accepted, notice)
  BY DEF CommitClear
<1>2. accepted \in Event /\ notice \in Event
  BY EventTypes
<1>3. /\ receipt \in receipts'
      /\ receipt.request = r /\ receipt.committed = next /\ receipt.through = through
      /\ accepted.request = r /\ accepted.gen = next /\ accepted.through = through
      /\ notice.request = r /\ notice.gen = next /\ notice.through = through
  BY <1>1
<1>4. accepted.kind = "clear_accepted" /\ notice.kind = "clear_notice" /\ notice.gen = next
  OBVIOUS
<1> HIDE DEF receipt, accepted, notice
<1>5. receipts \subseteq receipts' /\ next \in Nat
  BY <1>1, ConstantTypes
<1>6. Vouched(accepted)' /\ Vouched(notice)'
  BY <1>3 DEF Vouched
<1> QED
  BY <1>1, <1>2, <1>4, <1>5, <1>6, RetractIsSound

LEMMA ClearHistoryIsSound ==
  ASSUME TypeOK, ClearInv, NEW s \in Sessions, NEW r \in Requests, NEW g \in 1..GenerationMax,
         ClearHistory(s, r, g), NEW t \in Sessions
  PROVE  Sound(t)'
<1>1. UNCHANGED <<generation, worker>> /\ phase[s] # "closed"
  BY DEF ClearHistory, Reading
<1>2. CASE ClearAgain(s, r, g)
  <2>1. PICK x \in receipts :
          /\ x.request = r
          /\ queue' = [queue EXCEPT ![s] = Append(queue[s],
               [kind |-> "clear_accepted", request |-> r, gen |-> x.committed,
                through |-> x.through, duplicate |-> TRUE])]
          /\ UNCHANGED <<database, phase, buffered>>
    BY <1>2 DEF ClearAgain
  <2> DEFINE e == [kind |-> "clear_accepted", request |-> r, gen |-> x.committed,
                   through |-> x.through, duplicate |-> TRUE]
  <2>2. e \in Event
    <3>1. x.committed \in 1..GenerationMax /\ x.through \in 0..CursorMax
      BY DEF TypeOK, Receipt
    <3> QED
      BY <3>1, EventTypes
  <2>3. e.kind = "clear_accepted" /\ Vouched(e)
    BY <2>1 DEF Vouched
  <2>4. queue' = [queue EXCEPT ![s] = Append(queue[s], e)]
    BY <2>1
  <2>5. UNCHANGED <<clear_generation, receipts, phase, generation, buffered, worker>>
    BY <1>1, <2>1 DEF database, meta
  <2> HIDE DEF e
  <2> QED
    BY <1>1, <2>2, <2>3, <2>4, <2>5, AnswerIsSound
<1>3. CASE CommitClear(s, r, g)
  BY <1>1, <1>3, CommitClearIsSound
<1>4. CASE ExhaustGeneration
  <2>1. SessionSame(t) /\ UNCHANGED <<clear_generation, receipts>>
    BY <1>1, <1>4 DEF ExhaustGeneration, database, meta, SessionSame
  <2> QED
    BY <2>1, SameIsSound DEF ClearInv
<1> QED
  BY <1>2, <1>3, <1>4 DEF ClearHistory

----------------------------------------------------------------------------
(* The theorems about the clear.                                           *)

LEMMA ClearInit == Init => ClearInv
<1> SUFFICES ASSUME Init  PROVE ClearInv
  OBVIOUS
<1>1. RowsCurrent /\ ReceiptsCount
  BY DEF Init, RowsCurrent, ReceiptsCount
<1>2. ASSUME NEW s \in Sessions  PROVE Sound(s)
  <2>1. /\ queue[s] = <<>> /\ buffered[s] = <<>> /\ phase[s] = "closed"
        /\ worker[s] = "awaiting_resume"
    BY DEF Init, AllSessions
  <2>2. Elements(queue[s]) = {} /\ Elements(buffered[s]) = {}
    BY <2>1, ElementsOfFew
  <2>3. NoEnd(queue[s]) /\ EndsOnce(queue[s])
    BY <2>2, EndsOnceIfNever DEF NoEnd
  <2> QED
    BY <2>1, <2>2, <2>3 DEF Sound, HoldsCurrent, PhaseFits
<1> QED
  BY <1>1, <1>2 DEF ClearInv

LEMMA ClearStep == TypeOK /\ ClearInv /\ [Next]_vars => ClearInv'
<1> SUFFICES ASSUME TypeOK, ClearInv, [Next]_vars  PROVE ClearInv'
  OBVIOUS
<1>1. RowsCurrent' /\ ReceiptsCount'
  BY TablesStep DEF ClearInv
<1>2. ASSUME NEW t \in Sessions  PROVE Sound(t)'
  <2>1. CASE Restart \/ RestartOnFreshDatabase
    BY <2>1, OpenIsSound DEF Restart, RestartOnFreshDatabase
  <2>2. ASSUME UNCHANGED <<clear_generation, receipts, phase, generation, queue, buffered, worker>>
        PROVE  Sound(t)'
    BY <2>2, SameIsSound DEF SessionSame, ClearInv
  <2>3. CASE RetainedSourcePeerIds
    BY <2>2, <2>3 DEF RetainedSourcePeerIds, ApplyRetention, sessionVars, offers
  <2>4. CASE ClockMoves
    BY <2>2, <2>4 DEF ClockMoves, database, meta, sessionVars, offers
  <2>5. ASSUME NEW s \in Sessions, OpenSession(s) \/ CloseSession(s)  PROVE Sound(t)'
    BY <2>5, ResetIsSound
  <2>6. ASSUME NEW s \in Sessions, NEW known \in Contexts, NEW after \in 0..CursorMax,
               BeginResume(s, known, after)
        PROVE  Sound(t)'
    BY <2>6, BeginResumeIsSound
  <2>7. ASSUME NEW s \in Sessions, CompleteResume(s)  PROVE Sound(t)'
    BY <2>7, CompleteResumeIsSound
  <2>8. ASSUME NEW s \in Sessions, WriteNextEvent(s)  PROVE Sound(t)'
    BY <2>8, WriteNextEventIsSound
  <2>9. ASSUME NEW s \in Sessions, NEW d \in Drafts, Publish(s, d)  PROVE Sound(t)'
    BY <2>9, PublishIsSound
  <2>10. ASSUME NEW s \in Sessions, NEW cursor \in Cursors, Acknowledge(s, cursor)
         PROVE  Sound(t)'
    BY <2>2, <2>10 DEF Acknowledge, database, meta, offers
  <2>11. ASSUME NEW s \in Sessions, NEW r \in Requests, NEW g \in 1..GenerationMax,
                ClearHistory(s, r, g)
         PROVE  Sound(t)'
    BY <2>11, ClearHistoryIsSound
  <2>12. CASE UNCHANGED vars
    BY <2>2, <2>12 DEF vars, database, meta, sessionVars, offers
  <2> QED
    BY <2>1, <2>3, <2>4, <2>5, <2>6, <2>7, <2>8, <2>9, <2>10, <2>11, <2>12 DEF Next
<1> QED
  BY <1>1, <1>2 DEF ClearInv

LEMMA ClearHolds == Spec => [](TypeOK /\ ClearInv)
BY TypeInit, TypeStep, ClearInit, ClearStep, PTL DEF Spec

(* What a session has yet to write are clips of its queue and its buffer.  *)
LEMMA PendingClips ==
  ASSUME TypeOK, NEW s \in Sessions, NEW i \in DOMAIN Pending(s)
  PROVE  \/ Pending(s)[i] \in Elements(buffered[s])
         \/ \E e \in Elements(queue[s]) : IsClip(e) /\ Pending(s)[i] = e.clip
<1> DEFINE K     == {j \in DOMAIN queue[s] : IsClip(queue[s][j])}
           q     == Subsequence(queue[s], K)
           clipped == [j \in DOMAIN q |-> q[j].clip]
<1>1. queue[s] \in Seq(Event) /\ buffered[s] \in Seq(Clip)
  BY DEF TypeOK
<1>2. K \subseteq DOMAIN queue[s] /\ \A k \in K : IsClip(queue[s][k])
  OBVIOUS
<1>3. Pending(s) = clipped \o buffered[s]
  BY DEF Pending
<1> HIDE DEF K
<1>4. q \in Seq(Event) /\ Elements(q) = {queue[s][k] : k \in K}
  <2>1. q = Subsequence(queue[s], K)
    OBVIOUS
  <2> HIDE DEF q
  <2> QED
    BY <1>1, <1>2, <2>1, ElementsOfSubsequence
<1> HIDE DEF q
<1>5. \A e \in Elements(q) : e \in Elements(queue[s]) /\ IsClip(e) /\ e \in Event
  BY <1>1, <1>2, <1>4, ElementsTyped DEF Elements
<1>6. Len(q) \in Nat /\ DOMAIN q = 1..Len(q) /\ \A j \in DOMAIN q : q[j] \in Elements(q)
  BY <1>4 DEF Elements
<1>7. clipped \in Seq(Clip)
  <2>1. clipped \in [1..Len(q) -> Clip]
    BY <1>5, <1>6, ClipOfEvent
  <2> QED
    BY <1>6, <2>1, FunctionIsSequence
<1>8. \A c \in Elements(clipped) : \E e \in Elements(q) : c = e.clip
  <2>1. DOMAIN clipped = DOMAIN q /\ \A j \in DOMAIN q : clipped[j] = q[j].clip
    OBVIOUS
  <2> HIDE DEF clipped
  <2> QED
    BY <1>6, <2>1 DEF Elements
<1> HIDE DEF clipped
<1>9. Elements(Pending(s)) = Elements(clipped) \cup Elements(buffered[s])
  BY <1>1, <1>3, <1>7, ElementsOfConcat
<1>10. Pending(s)[i] \in Elements(Pending(s))
  BY DEF Elements
<1> QED
  BY <1>5, <1>8, <1>9, <1>10

(* Whatever was queued when a session cleared the history, and whatever    *)
(* comes after: no queue holds a clip or a part of a replay of an older    *)
(* generation, and no row of the history is of one (clear_history,         *)
(* compare_generation).                                                    *)
THEOREM NoClearedClipEverOffered == Spec => []NoClearedClipOffered
<1>1. TypeOK /\ ClearInv => NoClearedClipOffered
  <2> SUFFICES ASSUME TypeOK, ClearInv  PROVE NoClearedClipOffered
    OBVIOUS
  <2>1. ASSUME NEW s \in Sessions, NEW i \in DOMAIN Pending(s)
        PROVE  Pending(s)[i].gen = clear_generation
    BY <2>1, PendingClips DEF ClearInv, Sound, HoldsCurrent, Current
  <2>2. ASSUME NEW s \in Sessions, NEW i \in DOMAIN queue[s],
               IsReplay(queue[s][i]) /\ ~IsClip(queue[s][i])
        PROVE  queue[s][i].gen = clear_generation
    BY <2>2 DEF ClearInv, Sound, HoldsCurrent, Current, Elements
  <2> QED
    BY <2>1, <2>2 DEF NoClearedClipOffered, ClearInv, RowsCurrent
<1> QED
  BY <1>1, ClearHolds, PTL

(* The hub's generation counts the clears that were committed, one for     *)
(* each request however often it is repeated, and whoever is told of a     *)
(* clear is told what its receipt says (clear_history, clear_receipts).    *)
THEOREM ClearsAreCountedOnce == Spec => []OneGenerationPerClear
<1>1. ClearInv => OneGenerationPerClear
  <2> SUFFICES ASSUME ClearInv  PROVE OneGenerationPerClear
    OBVIOUS
  <2>1. ASSUME NEW s \in Sessions, NEW i \in DOMAIN queue[s]  PROVE Vouched(queue[s][i])
    BY DEF ClearInv, Sound, HoldsCurrent, Elements
  <2> QED
    BY <2>1 DEF OneGenerationPerClear, ClearInv, ReceiptsCount, Vouched
<1> QED
  BY <1>1, ClearHolds, PTL

(* A clear leaves no session behind unnoticed: a session that is stale has *)
(* the notice in its queue or a worker that will end it, and every other   *)
(* session is of the hub's generation (clear_history, write_next_event,    *)
(* complete_resume).                                                       *)
THEOREM LeftBehindAlwaysTold == Spec => []LeftBehindIsTold
<1>1. TypeOK /\ ClearInv => LeftBehindIsTold
  <2> SUFFICES ASSUME TypeOK, ClearInv, NEW s \in Sessions
               PROVE  CASE phase[s] = "closed" -> TRUE
                        [] phase[s] = "Stale"  ->
                             \/ worker[s] \in {"completing", "closing"}
                             \/ \E i \in DOMAIN queue[s] :
                                  /\ queue[s][i].kind = "clear_notice"
                                  /\ queue[s][i].gen = clear_generation
                        [] OTHER -> generation[s] = clear_generation /\ worker[s] # "closing"
    BY DEF LeftBehindIsTold
  <2>1. phase[s] \in {"closed", "AwaitResume", "Replaying", "Live", "Stale"} /\ PhaseFits(s)
    BY DEF TypeOK, ClearInv, Sound
  <2>2. CASE phase[s] = "Stale"
    BY <2>1, <2>2 DEF PhaseFits, Elements
  <2>3. CASE phase[s] # "Stale"
    BY <2>1, <2>3 DEF PhaseFits
  <2> QED
    BY <2>2, <2>3
<1> QED
  BY <1>1, ClearHolds, PTL

----------------------------------------------------------------------------
(* What sessions are offered, as an inductive invariant.                   *)

(* The clips among the events of q are in the order of their cursors.      *)
AscendingClips(q) ==
  \A i, j \in DOMAIN q :
    i < j /\ IsClip(q[i]) /\ IsClip(q[j]) => q[i].clip.cursor < q[j].clip.cursor

Ascending(q) == \A i, j \in DOMAIN q : i < j => q[i].cursor < q[j].cursor

ClipsIn(q)  == {e.clip : e \in {x \in Elements(q) : IsClip(x)}}
Queued(s)   == ClipsIn(queue[s])
Held(s)     == Elements(buffered[s])
Written(s)  == {resumed_after[s]} \cup delivered[s]

(* A session writes the clips of its queue, then those of its buffer, all  *)
(* of them newer than what it has written.                                 *)
InOrder(s) ==
  /\ AscendingClips(queue[s])
  /\ Ascending(buffered[s])
  /\ \A c \in Queued(s), d \in Held(s) : c.cursor < d.cursor
  /\ \A k \in Written(s), c \in Queued(s) \cup Held(s) : k < c.cursor

(* No session knows of a cursor the hub has yet to assign.                 *)
Assigned(s) ==
  /\ \A k \in Written(s) : k <= cursor_high_water
  /\ \A c \in Queued(s) \cup Held(s) : c.cursor <= cursor_high_water

Offered(s) == Written(s) \cup {c.cursor : c \in Queued(s)}

Resumed(s) == phase[s] \in {"Replaying", "Live"}

(* The newest clip offered, which leaves what is held back out.            *)
HighestFits(s) ==
  /\ Resumed(s) => highest[s] \in Offered(s) /\ \A k \in Offered(s) : k <= highest[s]
  /\ acknowledged[s] <= highest[s]

(* Clips are held back only while a replay lasts, and a session that has   *)
(* not resumed or was left behind by a clear has none.                     *)
OffersFitPhase(s) ==
  /\ phase[s] # "Replaying" => buffered[s] = <<>>
  /\ ~Resumed(s) => Queued(s) = {}
  /\ phase[s] \in {"closed", "AwaitResume"} => delivered[s] = {} /\ acknowledged[s] = NoCursor

AllOffered(s) ==
  Resumed(s) => \A c \in clips : \/ c.cursor <= resumed_after[s]
                                 \/ c.cursor \in delivered[s]
                                 \/ c \in Queued(s) \cup Held(s)

ReplayedIn(q) == {e.clip.cursor : e \in {x \in Elements(q) : x.kind = "resume_clip"}}

(* What the start of a replay says is true of the replay behind it.        *)
Truthful(e, q) ==
  e.kind = "resume_started" /\ e.after # NoCursor =>
    /\ e.status = "Complete" => (e.after + 1..e.boundary) \ ReplayedIn(q) = {}
    /\ e.status = "Gap"      => (e.after + 1..e.boundary) \ ReplayedIn(q) # {}

StartsFirst(q) == \A i \in DOMAIN q : q[i].kind = "resume_started" => i = 1

StartIsTrue(s) ==
  StartsFirst(queue[s]) /\ \A e \in Elements(queue[s]) : Truthful(e, queue[s])

Offering(s) ==
  /\ InOrder(s)
  /\ Assigned(s)
  /\ HighestFits(s)
  /\ OffersFitPhase(s)
  /\ AllOffered(s)
  /\ StartIsTrue(s)

RowsDiffer == \A c, d \in clips : c.cursor = d.cursor => c = d

(* The cursor that is told as lost was a row's, and its row is gone.       *)
LostIsGone == lost_through_cursor <= cursor_high_water /\ ~RowAt(lost_through_cursor)

OfferInv == RowsDiffer /\ LostIsGone /\ \A s \in Sessions : Offering(s)

LEMMA SeqElement == ASSUME NEW S, NEW q \in Seq(S), NEW j \in DOMAIN q  PROVE q[j] \in S
OBVIOUS

LEMMA EmptyIfNoElements == ASSUME NEW S, NEW q \in Seq(S), Elements(q) = {}  PROVE q = <<>>
<1>1. Len(q) \in Nat /\ DOMAIN q = 1..Len(q) /\ q \in Seq(S)
  OBVIOUS
<1>2. Len(q) = 0
  <2>1. 1 \notin DOMAIN q
    BY DEF Elements
  <2> QED
    BY <1>1, <2>1
<1> QED
  BY <1>1, <1>2

LEMMA ClipsInConcat ==
  ASSUME NEW q \in Seq(Event), NEW r \in Seq(Event)
  PROVE  /\ ClipsIn(q \o r) = ClipsIn(q) \cup ClipsIn(r)
         /\ ReplayedIn(q \o r) = ReplayedIn(q) \cup ReplayedIn(r)
<1>1. Elements(q \o r) = Elements(q) \cup Elements(r)
  BY ElementsOfConcat
<1> QED
  BY <1>1 DEF ClipsIn, ReplayedIn

LEMMA ClipsInType ==
  ASSUME NEW q \in Seq(Event)
  PROVE  ClipsIn(q) \subseteq Clip /\ \A c \in ClipsIn(q) : c.cursor \in Nat
<1>1. \A e \in Elements(q) : IsClip(e) => e.clip \in Clip
  BY ElementsTyped, ClipOfEvent
<1> QED
  BY <1>1 DEF ClipsIn, Clip, Cursors

(* The clips of what follows are newer than those of what comes before.    *)
LEMMA AscendingConcat ==
  ASSUME NEW q \in Seq(Event), NEW r \in Seq(Event), AscendingClips(q), AscendingClips(r),
         \A c \in ClipsIn(q), d \in ClipsIn(r) : c.cursor < d.cursor
  PROVE  AscendingClips(q \o r)
<1>1. /\ Len(q) \in Nat /\ Len(r) \in Nat
      /\ DOMAIN q = 1..Len(q) /\ DOMAIN r = 1..Len(r) /\ DOMAIN (q \o r) = 1..Len(q) + Len(r)
      /\ \A i \in 1..Len(q) : (q \o r)[i] = q[i]
      /\ \A i \in 1..Len(q) + Len(r) :
           i \notin 1..Len(q) => i - Len(q) \in 1..Len(r) /\ (q \o r)[i] = r[i - Len(q)]
  OBVIOUS
<1> SUFFICES ASSUME NEW i \in 1..Len(q) + Len(r), NEW j \in 1..Len(q) + Len(r), i < j,
                    IsClip((q \o r)[i]), IsClip((q \o r)[j])
             PROVE  (q \o r)[i].clip.cursor < (q \o r)[j].clip.cursor
  BY <1>1 DEF AscendingClips
<1>2. CASE i \in 1..Len(q) /\ j \in 1..Len(q)
  BY <1>1, <1>2 DEF AscendingClips
<1>3. CASE i \in 1..Len(q) /\ j \notin 1..Len(q)
  <2>1. q[i].clip \in ClipsIn(q) /\ r[j - Len(q)].clip \in ClipsIn(r)
    BY <1>1, <1>3 DEF ClipsIn, Elements
  <2> QED
    BY <1>1, <1>3, <2>1
<1>4. CASE i \notin 1..Len(q) /\ j \notin 1..Len(q)
  <2>1. i - Len(q) < j - Len(q)
    BY <1>1
  <2> QED
    BY <1>1, <1>4, <2>1 DEF AscendingClips
<1>5. i \notin 1..Len(q) => j \notin 1..Len(q)
  BY <1>1
<1> QED
  BY <1>2, <1>3, <1>4, <1>5

LEMMA AscendingTail ==
  ASSUME NEW q \in Seq(Event), q # <<>>, AscendingClips(q)
  PROVE  /\ AscendingClips(Tail(q))
         /\ IsClip(Head(q)) => \A c \in ClipsIn(Tail(q)) : Head(q).clip.cursor < c.cursor
<1>1. /\ Len(q) \in Nat \ {0} /\ DOMAIN q = 1..Len(q) /\ DOMAIN Tail(q) = 1..Len(q) - 1
      /\ Head(q) = q[1] /\ 1 \in 1..Len(q)
      /\ \A i \in 1..Len(q) - 1 : Tail(q)[i] = q[i + 1] /\ i + 1 \in 1..Len(q) /\ 1 < i + 1
  OBVIOUS
<1>2. \A i, j \in 1..Len(q) - 1 : i < j => i + 1 < j + 1
  BY <1>1
<1>3. AscendingClips(Tail(q))
  BY <1>1, <1>2 DEF AscendingClips
<1>4. ASSUME IsClip(Head(q)), NEW c \in ClipsIn(Tail(q))
      PROVE  Head(q).clip.cursor < c.cursor
  <2>1. PICK i \in 1..Len(q) - 1 : IsClip(Tail(q)[i]) /\ c = Tail(q)[i].clip
    BY <1>1 DEF ClipsIn, Elements
  <2> QED
    BY <1>1, <1>4, <2>1 DEF AscendingClips
<1> QED
  BY <1>3, <1>4

LEMMA AscendingIfNone == ASSUME NEW q, ClipsIn(q) = {}  PROVE AscendingClips(q)
BY DEF AscendingClips, ClipsIn, Elements

LEMMA AscendingAppend ==
  ASSUME NEW q \in Seq(Clip), Ascending(q), NEW c \in Clip,
         \A d \in Elements(q) : d.cursor < c.cursor
  PROVE  Ascending(Append(q, c))
<1>1. /\ Len(q) \in Nat /\ DOMAIN q = 1..Len(q) /\ DOMAIN Append(q, c) = 1..Len(q) + 1
      /\ \A i \in 1..Len(q) : Append(q, c)[i] = q[i] /\ q[i] \in Elements(q)
      /\ Append(q, c)[Len(q) + 1] = c
  BY DEF Elements
<1> SUFFICES ASSUME NEW i \in 1..Len(q) + 1, NEW j \in 1..Len(q) + 1, i < j
             PROVE  Append(q, c)[i].cursor < Append(q, c)[j].cursor
  BY <1>1 DEF Ascending
<1>2. CASE j \in 1..Len(q)
  BY <1>1, <1>2 DEF Ascending
<1>3. CASE j \notin 1..Len(q)
  <2>1. i \in 1..Len(q) /\ j = Len(q) + 1
    BY <1>1, <1>3
  <2> QED
    BY <1>1, <2>1
<1> QED
  BY <1>2, <1>3

(* The live clips that the buffer becomes.                                 *)
LEMMA HandoverKeepsOrder ==
  ASSUME NEW q \in Seq(Clip), Ascending(q), NEW live,
         live = [i \in DOMAIN q |-> [kind |-> "live", clip |-> q[i]]]
  PROVE  /\ live \in Seq(Event)
         /\ AscendingClips(live)
         /\ ClipsIn(live) = Elements(q) /\ ReplayedIn(live) = {}
         /\ \A e \in Elements(live) : e.kind = "live"
<1>1. /\ Len(q) \in Nat /\ DOMAIN q = 1..Len(q)
      /\ \A i \in DOMAIN q : q[i] \in Clip
  OBVIOUS
<1>2. live \in Seq(Event)
  <2>1. live \in [1..Len(q) -> Event]
    BY <1>1, EventTypes
  <2> QED
    BY <1>1, <2>1, FunctionIsSequence
<1>3. /\ DOMAIN live = DOMAIN q
      /\ \A i \in DOMAIN q : live[i].kind = "live" /\ live[i].clip = q[i]
  OBVIOUS
<1>4. AscendingClips(live)
  BY <1>3 DEF AscendingClips, Ascending
<1>5. \A e \in Elements(live) : e.kind = "live"
  BY <1>3 DEF Elements
<1>6. ClipsIn(live) = Elements(q)
  <2>1. \A e \in Elements(live) : IsClip(e)
    BY <1>5 DEF IsClip
  <2>2. ClipsIn(live) = {e.clip : e \in Elements(live)}
    BY <2>1 DEF ClipsIn
  <2> QED
    BY <1>3, <2>2 DEF Elements
<1>7. ReplayedIn(live) = {}
  BY <1>5 DEF ReplayedIn
<1> QED
  BY <1>2, <1>4, <1>5, <1>6, <1>7

(* The start of a replay stays first when events are queued behind it, and *)
(* is not seen again when it leaves.                                       *)
LEMMA StartsFirstConcat ==
  ASSUME NEW q \in Seq(Event), NEW r \in Seq(Event),
         \/ q = <<>> /\ StartsFirst(r)
         \/ StartsFirst(q) /\ \A e \in Elements(r) : e.kind # "resume_started"
  PROVE  StartsFirst(q \o r)
<1>1. CASE q = <<>>
  <2>1. q \o r = r
    BY <1>1
  <2>2. (\A e \in Elements(r) : e.kind # "resume_started") => StartsFirst(r)
    BY DEF StartsFirst, Elements
  <2> QED
    BY <2>1, <2>2
<1>2. CASE q # <<>>
  <2>1. /\ Len(q) \in Nat /\ Len(r) \in Nat
        /\ DOMAIN q = 1..Len(q) /\ DOMAIN r = 1..Len(r) /\ DOMAIN (q \o r) = 1..Len(q) + Len(r)
        /\ \A i \in 1..Len(q) : (q \o r)[i] = q[i]
        /\ \A i \in 1..Len(q) + Len(r) :
             i \notin 1..Len(q) => i - Len(q) \in 1..Len(r) /\ (q \o r)[i] = r[i - Len(q)]
    OBVIOUS
  <2> QED
    BY <1>2, <2>1 DEF StartsFirst, Elements
<1> QED
  BY <1>1, <1>2

LEMMA StartsFirstTail ==
  ASSUME NEW q \in Seq(Event), q # <<>>, StartsFirst(q)
  PROVE  StartsFirst(Tail(q)) /\ \A e \in Elements(Tail(q)) : e.kind # "resume_started"
<1>1. /\ Len(q) \in Nat \ {0} /\ DOMAIN q = 1..Len(q) /\ DOMAIN Tail(q) = 1..Len(q) - 1
      /\ \A i \in 1..Len(q) - 1 : Tail(q)[i] = q[i + 1] /\ i + 1 \in 1..Len(q) /\ i + 1 # 1
  OBVIOUS
<1> QED
  BY <1>1 DEF StartsFirst, Elements

(* A replay lists the rows it is of, one for each cursor and in order.     *)
LEMMA ReplayIsInOrder ==
  ASSUME NEW S, S \subseteq Clip, \A c, d \in S : c.cursor = d.cursor => c = d
  PROVE  /\ Replay(S) \in Seq(Event)
         /\ AscendingClips(Replay(S))
         /\ ClipsIn(Replay(S)) = S
         /\ ReplayedIn(Replay(S)) = {c.cursor : c \in S}
         /\ \A e \in Elements(Replay(S)) : e.kind = "resume_clip"
<1> DEFINE K == {c.cursor : c \in S}
           q == Replay(S)
<1>1. K \subseteq 0..CursorMax /\ CursorMax \in Nat
  BY ConstantTypes DEF Clip, Cursors
<1>2. /\ q \in Seq([kind : {"resume_clip"}, clip : S])
      /\ Len(q) = Cardinality(K)
      /\ \A j \in 1..Cardinality(K) : q[j].clip.cursor = Nth(K, j)
  BY ReplayLists
<1>3. /\ \A i, j \in 1..Cardinality(K) : i < j => Nth(K, i) < Nth(K, j)
      /\ \A k \in K : \E j \in 1..Cardinality(K) : Nth(K, j) = k
  BY <1>1, NthLists
<1>4. [kind : {"resume_clip"}, clip : S] \subseteq Event
  BY EventTypes
<1>5. q \in Seq(Event)
  BY <1>2, <1>4, SeqMonotonic
<1> HIDE DEF q
<1>6. DOMAIN q = 1..Cardinality(K)
  BY <1>2
<1>7. ASSUME NEW j \in DOMAIN q  PROVE q[j].kind = "resume_clip" /\ q[j].clip \in S
  <2>1. q[j] \in [kind : {"resume_clip"}, clip : S]
    BY <1>2, SeqElement
  <2> QED
    BY <2>1
<1>8. AscendingClips(q)
  BY <1>2, <1>3, <1>6 DEF AscendingClips
<1>9. \A e \in Elements(q) : e.kind = "resume_clip" /\ e.clip \in S
  BY <1>7 DEF Elements
<1>10. ClipsIn(q) = S
  <2>1. ClipsIn(q) \subseteq S
    BY <1>9 DEF ClipsIn
  <2>2. ASSUME NEW c \in S  PROVE c \in ClipsIn(q)
    <3>1. PICK j \in 1..Cardinality(K) : Nth(K, j) = c.cursor
      BY <1>3
    <3>2. q[j].clip = c
      BY <1>2, <1>6, <1>7, <3>1
    <3> QED
      BY <1>6, <1>7, <3>2 DEF ClipsIn, Elements, IsClip
  <2> QED
    BY <2>1, <2>2
<1>11. ReplayedIn(q) = {c.cursor : c \in ClipsIn(q)}
  <2>1. ReplayedIn(q) = {e.clip.cursor : e \in Elements(q)}
    BY <1>9 DEF ReplayedIn
  <2>2. ClipsIn(q) = {e.clip : e \in Elements(q)}
    BY <1>9 DEF ClipsIn, IsClip
  <2> QED
    BY <2>1, <2>2
<1> QED
  BY <1>5, <1>8, <1>9, <1>10, <1>11 DEF q

----------------------------------------------------------------------------
(* What a session has yet to write, read from its queue and its buffer.    *)

LEMMA PendingParts ==
  ASSUME TypeOK, NEW s \in Sessions, InOrder(s)
  PROVE  /\ Pending(s) \in Seq(Clip)
         /\ Ascending(Pending(s))
         /\ Elements(Pending(s)) = Queued(s) \cup Held(s)
<1> DEFINE K       == {j \in DOMAIN queue[s] : IsClip(queue[s][j])}
           q       == Subsequence(queue[s], K)
           clipped == [j \in DOMAIN q |-> q[j].clip]
<1>1. queue[s] \in Seq(Event) /\ buffered[s] \in Seq(Clip)
  BY DEF TypeOK
<1>2. K \subseteq DOMAIN queue[s] /\ \A k \in K : IsClip(queue[s][k])
  OBVIOUS
<1>3. \A e \in Elements(queue[s]) : IsClip(e) => \E k \in K : e = queue[s][k]
  BY DEF Elements
<1>4. Pending(s) = clipped \o buffered[s]
  BY DEF Pending
<1> HIDE DEF K
<1>5. /\ q \in Seq(Event) /\ Elements(q) = {queue[s][k] : k \in K}
      /\ DOMAIN q = 1..Cardinality(K)
      /\ \A j \in 1..Cardinality(K) : Nth(K, j) \in K /\ q[j] = queue[s][Nth(K, j)]
  <2>1. q = Subsequence(queue[s], K)
    OBVIOUS
  <2> HIDE DEF q
  <2>2. q \in Seq(Event) /\ Elements(q) = {queue[s][k] : k \in K}
    BY <1>1, <1>2, <2>1, ElementsOfSubsequence
  <2>3. /\ Len(q) = Cardinality(K)
        /\ \A j \in 1..Cardinality(K) : Nth(K, j) \in K /\ q[j] = queue[s][Nth(K, j)]
    BY <1>1, <1>2, <2>1, SubsequenceElements
  <2> QED
    BY <2>2, <2>3
<1>6. \A i, j \in 1..Cardinality(K) : i < j => Nth(K, i) < Nth(K, j)
  <2>1. Len(queue[s]) \in Nat /\ K \subseteq 0..Len(queue[s])
    BY <1>1, <1>2
  <2> QED
    BY <2>1, NthLists
<1> HIDE DEF q
<1>7. \A j \in DOMAIN q : IsClip(q[j]) /\ q[j] \in Event /\ q[j].clip \in Clip
  BY <1>1, <1>2, <1>5, ClipOfEvent
<1>8. \A i, j \in DOMAIN q : i < j => q[i].clip.cursor < q[j].clip.cursor
  BY <1>2, <1>5, <1>6 DEF InOrder, AscendingClips
<1>9. /\ DOMAIN clipped = DOMAIN q /\ \A j \in DOMAIN q : clipped[j] = q[j].clip
      /\ clipped \in Seq(Clip)
  <2>1. Len(q) \in Nat /\ DOMAIN q = 1..Len(q)
    BY <1>5
  <2>2. clipped \in [1..Len(q) -> Clip]
    BY <1>7, <2>1
  <2> QED
    BY <2>1, <2>2, FunctionIsSequence
<1> HIDE DEF clipped
<1>10. Elements(clipped) = Queued(s)
  <2>1. Elements(clipped) = {q[j].clip : j \in DOMAIN q}
    BY <1>9 DEF Elements
  <2>2. {q[j].clip : j \in DOMAIN q} = {e.clip : e \in Elements(q)}
    BY DEF Elements
  <2>3. Elements(q) = {e \in Elements(queue[s]) : IsClip(e)}
    BY <1>2, <1>3, <1>5 DEF Elements
  <2> QED
    BY <2>1, <2>2, <2>3 DEF Queued, ClipsIn
<1>11. Elements(Pending(s)) = Queued(s) \cup Held(s)
  BY <1>1, <1>4, <1>9, <1>10, ElementsOfConcat DEF Held
<1>12. Ascending(Pending(s))
  <2> DEFINE b == buffered[s]
  <2>1. /\ Len(clipped) \in Nat /\ Len(b) \in Nat
        /\ DOMAIN clipped = 1..Len(clipped) /\ DOMAIN b = 1..Len(b)
        /\ DOMAIN (clipped \o b) = 1..Len(clipped) + Len(b)
        /\ \A i \in 1..Len(clipped) : (clipped \o b)[i] = clipped[i]
        /\ \A i \in 1..Len(clipped) + Len(b) :
             i \notin 1..Len(clipped) =>
               i - Len(clipped) \in 1..Len(b) /\ (clipped \o b)[i] = b[i - Len(clipped)]
    BY <1>1, <1>9
  <2>2. \A i, j \in 1..Len(clipped) : i < j => clipped[i].cursor < clipped[j].cursor
    BY <1>8, <1>9, <2>1
  <2>3. \A i, j \in 1..Len(b) : i < j => b[i].cursor < b[j].cursor
    BY <2>1 DEF InOrder, Ascending
  <2>4. \A i \in 1..Len(clipped), j \in 1..Len(b) : clipped[i].cursor < b[j].cursor
    BY <1>10, <2>1 DEF InOrder, Held, Elements
  <2> HIDE DEF b
  <2>5. \A i, j \in 1..Len(clipped) + Len(b) :
          i < j => (clipped \o b)[i].cursor < (clipped \o b)[j].cursor
    <3> SUFFICES ASSUME NEW i \in 1..Len(clipped) + Len(b), NEW j \in 1..Len(clipped) + Len(b),
                        i < j
                 PROVE  (clipped \o b)[i].cursor < (clipped \o b)[j].cursor
      OBVIOUS
    <3>1. CASE j \in 1..Len(clipped)
      BY <2>1, <2>2, <3>1
    <3>2. CASE i \in 1..Len(clipped) /\ j \notin 1..Len(clipped)
      BY <2>1, <2>4, <3>2
    <3>3. CASE i \notin 1..Len(clipped) /\ j \notin 1..Len(clipped)
      <4>1. i - Len(clipped) < j - Len(clipped)
        BY <2>1
      <4> QED
        BY <2>1, <2>3, <3>3, <4>1
    <3> QED
      BY <2>1, <3>1, <3>2, <3>3
  <2>6. Pending(s) = clipped \o b /\ DOMAIN (clipped \o b) = 1..Len(clipped) + Len(b)
    BY <1>4, <2>1 DEF b
  <2> QED
    BY <2>5, <2>6 DEF Ascending
<1>13. Pending(s) \in Seq(Clip)
  BY <1>1, <1>4, <1>9
<1> QED
  BY <1>11, <1>12, <1>13

----------------------------------------------------------------------------
(* The invariant gives the properties.                                     *)

LEMMA HighestIsMax ==
  ASSUME NEW n \in Nat, NEW T, T \subseteq 0..n, NEW m \in T, \A k \in T : k <= m
  PROVE  m = Max(T)
<1>1. Max(T) \in T /\ \A y \in T : y <= Max(T)
  BY MaxIsLargest
<1>2. m \in 0..n /\ Max(T) \in 0..n /\ Max(T) <= m /\ m <= Max(T)
  BY <1>1
<1> QED
  BY <1>2

LEMMA OffersAreInOrder == TypeOK /\ OfferInv => OffersInOrder
<1> SUFFICES ASSUME TypeOK, OfferInv  PROVE OffersInOrder
  OBVIOUS
<1>1. ASSUME NEW s \in Sessions
      PROVE  /\ DOMAIN Pending(s) = 1..Len(Pending(s))
             /\ {Pending(s)[i].cursor : i \in DOMAIN Pending(s)}
                  = {c.cursor : c \in Queued(s) \cup Held(s)}
             /\ \A i \in DOMAIN Pending(s) : Pending(s)[i] \in Queued(s) \cup Held(s)
             /\ Ascending(Pending(s))
             /\ \A c \in Queued(s) \cup Held(s) : c.cursor \in 0..CursorMax
  <2>1. /\ Pending(s) \in Seq(Clip) /\ Ascending(Pending(s))
        /\ Elements(Pending(s)) = Queued(s) \cup Held(s)
    BY PendingParts DEF OfferInv, Offering
  <2>2. {Pending(s)[i].cursor : i \in DOMAIN Pending(s)} = {c.cursor : c \in Elements(Pending(s))}
    BY DEF Elements
  <2>3. Elements(Pending(s)) \subseteq Clip
    BY <2>1, ElementsTyped
  <2>4. \A c \in Clip : c.cursor \in 0..CursorMax
    BY ConstantTypes DEF Clip, Cursors
  <2>5. DOMAIN Pending(s) = 1..Len(Pending(s))
    BY <2>1
  <2>6. \A i \in DOMAIN Pending(s) : Pending(s)[i] \in Elements(Pending(s))
    BY DEF Elements
  <2> QED
    BY <2>1, <2>2, <2>3, <2>4, <2>5, <2>6
<1>2. ASSUME NEW s \in Sessions, phase[s] = "Live"
      PROVE  highest[s] = Max({resumed_after[s]} \cup delivered[s]
                              \cup {Pending(s)[i].cursor : i \in DOMAIN Pending(s)})
  <2> DEFINE T == {resumed_after[s]} \cup delivered[s]
                  \cup {Pending(s)[i].cursor : i \in DOMAIN Pending(s)}
  <2>1. Held(s) = {}
    BY <1>2, ElementsOfFew DEF OfferInv, Offering, OffersFitPhase, Held
  <2>2. T = Offered(s)
    BY <1>1, <2>1 DEF Offered, Written
  <2>3. T \subseteq 0..CursorMax /\ CursorMax \in Nat
    BY <1>1, ConstantTypes DEF TypeOK, Cursors
  <2>4. highest[s] \in T /\ \A k \in T : k <= highest[s]
    BY <1>2, <2>2 DEF OfferInv, Offering, HighestFits, Resumed
  <2> HIDE DEF T
  <2>5. highest[s] = Max(T)
    BY <2>3, <2>4, HighestIsMax
  <2> QED
    BY <2>5 DEF T
<1>3. HighestIsNewestOffered
  BY <1>2 DEF HighestIsNewestOffered, OfferInv, Offering, HighestFits
<1>4. ASSUME NEW s \in Sessions
      PROVE  /\ \A i, j \in DOMAIN Pending(s) : i < j => Pending(s)[i].cursor < Pending(s)[j].cursor
             /\ \A i \in DOMAIN Pending(s), k \in delivered[s] \cup {resumed_after[s]} :
                  k < Pending(s)[i].cursor
  BY <1>1 DEF Ascending, OfferInv, Offering, InOrder, Written
<1> QED
  BY <1>3, <1>4 DEF OffersInOrder

LEMMA AllIsOffered == TypeOK /\ OfferInv => NothingSkipped
<1> SUFFICES ASSUME TypeOK, OfferInv, NEW s \in Sessions, Resumed(s), NEW c \in clips
             PROVE  \/ c.cursor <= resumed_after[s]
                    \/ c.cursor \in delivered[s]
                    \/ \E i \in DOMAIN Pending(s) : Pending(s)[i] = c
  BY DEF NothingSkipped, Resumed
<1>1. Elements(Pending(s)) = Queued(s) \cup Held(s)
  BY PendingParts DEF OfferInv, Offering
<1> QED
  BY <1>1 DEF OfferInv, Offering, AllOffered, Elements

LEMMA GapsAreTold == OfferInv => GapIffMissed
<1> SUFFICES ASSUME OfferInv, NEW s \in Sessions, NEW i \in DOMAIN queue[s],
                    queue[s][i].kind = "resume_started" /\ queue[s][i].after # NoCursor
             PROVE  LET e == queue[s][i]
                        replayed == {queue[s][j].clip.cursor : j \in
                                       {j \in DOMAIN queue[s] : queue[s][j].kind = "resume_clip"}}
                        missed   == (e.after + 1..e.boundary) \ replayed
                    IN  /\ e.status = "Complete" => missed = {}
                        /\ e.status = "Gap"      => missed # {}
  BY DEF GapIffMissed
<1>1. {queue[s][j].clip.cursor : j \in {j \in DOMAIN queue[s] : queue[s][j].kind = "resume_clip"}}
        = ReplayedIn(queue[s])
  BY DEF ReplayedIn, Elements
<1>2. Truthful(queue[s][i], queue[s])
  BY DEF OfferInv, Offering, StartIsTrue, Elements
<1> QED
  BY <1>1, <1>2 DEF Truthful

----------------------------------------------------------------------------
(* The rows: one for each cursor, and none for the cursor told as lost.    *)

LEMMA TrimLosesLast ==
  ASSUME TypeOK, NEW S, S \subseteq Clip, \A c, d \in S : c.cursor = d.cursor => c = d,
         NEW n \in 0..CursorMax, lost_through_cursor <= n, \A c \in S : c.cursor <= n,
         \A c \in S : c.cursor # lost_through_cursor,
         TrimTransaction(S)
  PROVE  /\ \A c, d \in clips' : c.cursor = d.cursor => c = d
         /\ lost_through_cursor' <= n
         /\ \A c \in clips' : c.cursor # lost_through_cursor'
<1> DEFINE gone == S \ Trim(S)
           T    == {lost_through_cursor} \cup {c.cursor : c \in gone}
<1>1. clips' = Trim(S) /\ lost_through_cursor' = Max(T)
  BY DEF TrimTransaction, LostAfter
<1>2. Trim(S) \subseteq S
  BY TrimTakes
<1>3. T \subseteq 0..CursorMax /\ T # {}
  BY ConstantTypes DEF TypeOK, Clip, Cursors
<1>4. Max(T) \in T
  BY <1>3, ConstantTypes, MaxIsLargest
<1>5. CASE Max(T) = lost_through_cursor
  BY <1>1, <1>2, <1>5
<1>6. CASE Max(T) # lost_through_cursor
  <2>1. PICK g \in gone : Max(T) = g.cursor
    BY <1>4, <1>6
  <2>2. g \in S /\ g \notin Trim(S)
    BY <2>1
  <2> QED
    BY <1>1, <1>2, <2>1, <2>2
<1> QED
  BY <1>5, <1>6

LEMMA RowsStepOffers ==
  ASSUME TypeOK, RowsAssigned, RowsDiffer, LostIsGone, [Next]_vars
  PROVE  RowsDiffer' /\ LostIsGone'
<1>0. /\ cursor_high_water \in 0..CursorMax /\ clips \subseteq Clip
      /\ \A c \in clips : c.cursor \in Nat
  BY DEF TypeOK, Clip, Cursors
<1>1. CASE UNCHANGED database
  BY <1>1 DEF database, meta, RowsDiffer, LostIsGone, RowAt
<1>2. CASE ApplyRetention
  <2>1. TrimTransaction(clips) /\ cursor_high_water' = cursor_high_water
    BY <1>2 DEF ApplyRetention
  <2>2. \A c, d \in clips : c.cursor = d.cursor => c = d
    BY DEF RowsDiffer
  <2>3. \A c \in clips : c.cursor <= cursor_high_water /\ c.cursor # lost_through_cursor
    BY DEF RowsAssigned, LostIsGone, RowAt
  <2>4. lost_through_cursor <= cursor_high_water
    BY DEF LostIsGone
  <2>5. /\ \A c, d \in clips' : c.cursor = d.cursor => c = d
        /\ lost_through_cursor' <= cursor_high_water
        /\ \A c \in clips' : c.cursor # lost_through_cursor'
    BY <1>0, <2>1, <2>2, <2>3, <2>4, TrimLosesLast
  <2> QED
    BY <2>1, <2>5 DEF RowsDiffer, LostIsGone, RowAt
<1>3. ASSUME NEW s \in Sessions, NEW d \in Drafts, AcceptNew(s, d)
      PROVE  RowsDiffer' /\ LostIsGone'
  <2> DEFINE c == NewClip(s, d)
             S == clips \cup {c}
  <2>1. /\ PersistPublish(c) /\ c \in Clip /\ c.cursor = cursor_high_water + 1
        /\ cursor_high_water + 1 \in 0..CursorMax
    BY <1>3, NewClipType, ConstantTypes DEF AcceptNew, NewClip, Cursors
  <2> HIDE DEF c
  <2>2. TrimTransaction(S) /\ cursor_high_water' = cursor_high_water + 1 /\ S \subseteq Clip
    BY <1>0, <2>1 DEF PersistPublish
  <2>3. /\ \A x \in clips : x.cursor <= cursor_high_water /\ x.cursor # lost_through_cursor
        /\ lost_through_cursor <= cursor_high_water /\ lost_through_cursor \in Nat
    BY DEF RowsAssigned, LostIsGone, RowAt, TypeOK
  <2>4. \A x \in S : x.cursor <= cursor_high_water + 1 /\ x.cursor # lost_through_cursor
    BY <1>0, <2>1, <2>3
  <2>5. \A x, y \in S : x.cursor = y.cursor => x = y
    BY <1>0, <2>1, <2>3 DEF RowsDiffer
  <2>6. lost_through_cursor <= cursor_high_water + 1
    BY <1>0, <2>3
  <2> HIDE DEF S
  <2>7. /\ \A x, y \in clips' : x.cursor = y.cursor => x = y
        /\ lost_through_cursor' <= cursor_high_water + 1
        /\ \A x \in clips' : x.cursor # lost_through_cursor'
    BY <2>1, <2>2, <2>4, <2>5, <2>6, TrimLosesLast
  <2> QED
    BY <2>2, <2>7 DEF RowsDiffer, LostIsGone, RowAt
<1>4. ASSUME NEW s \in Sessions, NEW r \in Requests, NEW g \in 1..GenerationMax,
             CommitClear(s, r, g)
      PROVE  RowsDiffer' /\ LostIsGone'
  BY <1>0, <1>4 DEF CommitClear, RowsDiffer, LostIsGone, RowAt
<1>5. CASE RestartOnFreshDatabase
  BY <1>5 DEF RestartOnFreshDatabase, RowsDiffer, LostIsGone, RowAt, NoCursor
<1> QED
  BY <1>1, <1>2, <1>3, <1>4, <1>5, DatabaseSteps DEF DatabaseStep

----------------------------------------------------------------------------
(* Sessions that a step leaves alone, empties, answers or ends.            *)

OffersSame(t) ==
  /\ phase'[t] = phase[t] /\ queue'[t] = queue[t] /\ buffered'[t] = buffered[t]
  /\ highest'[t] = highest[t] /\ acknowledged'[t] = acknowledged[t]
  /\ resumed_after'[t] = resumed_after[t] /\ delivered'[t] = delivered[t]

(* What is known of the cursors of a session.                              *)
LEMMA CursorTypes ==
  ASSUME TypeOK, NEW t \in Sessions
  PROVE  /\ Written(t) \subseteq 0..CursorMax
         /\ Queued(t) \subseteq Clip /\ Held(t) \subseteq Clip
         /\ \A k \in Written(t) : k \in Nat
         /\ \A c \in Queued(t) \cup Held(t) : c.cursor \in Nat
         /\ \A k \in Offered(t) : k \in Nat
         /\ highest[t] \in Nat /\ acknowledged[t] \in Nat /\ cursor_high_water \in Nat
         /\ resumed_after[t] \in Nat
<1>1. queue[t] \in Seq(Event) /\ buffered[t] \in Seq(Clip)
  BY DEF TypeOK
<1>2. Queued(t) \subseteq Clip /\ Held(t) \subseteq Clip
  BY <1>1, ClipsInType, ElementsTyped DEF Queued, Held
<1>3. Written(t) \subseteq 0..CursorMax /\ \A k \in Written(t) : k \in Nat
  BY ConstantTypes DEF Written, TypeOK, Cursors
<1>4. \A c \in Clip : c.cursor \in Nat
  BY DEF Clip, Cursors
<1> QED
  BY <1>2, <1>3, <1>4 DEF TypeOK, Offered

LEMMA SameOffering ==
  ASSUME TypeOK, NEW t \in Sessions, Offering(t), OffersSame(t),
         cursor_high_water' \in Nat, cursor_high_water <= cursor_high_water',
         Resumed(t) => clips' \subseteq clips
  PROVE  Offering(t)'
<1>1. /\ Queued(t)' = Queued(t) /\ Held(t)' = Held(t) /\ Written(t)' = Written(t)
      /\ Offered(t)' = Offered(t)
      /\ Resumed(t)' = Resumed(t)
  BY DEF OffersSame, Queued, Held, Written, Offered, Resumed
<1>2. InOrder(t)'
  BY <1>1 DEF Offering, InOrder, OffersSame
<1>3. Assigned(t)'
  BY <1>1, CursorTypes DEF Offering, Assigned
<1>4. HighestFits(t)'
  BY <1>1 DEF Offering, HighestFits, OffersSame
<1>5. OffersFitPhase(t)'
  BY <1>1 DEF Offering, OffersFitPhase, OffersSame
<1>6. AllOffered(t)'
  BY <1>1 DEF Offering, AllOffered, OffersSame
<1>7. StartIsTrue(t)'
  BY DEF Offering, StartIsTrue, OffersSame
<1> QED
  BY <1>2, <1>3, <1>4, <1>5, <1>6, <1>7 DEF Offering

LEMMA EmptyOffering ==
  ASSUME NEW t \in Sessions, queue'[t] = <<>>, buffered'[t] = <<>>, delivered'[t] = {},
         highest'[t] = NoCursor, acknowledged'[t] = NoCursor, resumed_after'[t] = NoCursor,
         phase'[t] \in {"closed", "AwaitResume"}, cursor_high_water' \in Nat
  PROVE  Offering(t)'
<1>1. Elements(queue'[t]) = {} /\ Elements(buffered'[t]) = {}
  BY ElementsOfFew
<1>2. /\ Queued(t)' = {} /\ Held(t)' = {} /\ Written(t)' = {0} /\ ~Resumed(t)'
  BY <1>1 DEF Queued, ClipsIn, Held, Written, Resumed, NoCursor
<1>3. AscendingClips(queue'[t]) /\ Ascending(buffered'[t]) /\ StartsFirst(queue'[t])
  BY <1>1 DEF AscendingClips, Ascending, StartsFirst, Elements
<1>4. InOrder(t)'
  BY <1>2, <1>3 DEF InOrder
<1>5. Assigned(t)' /\ HighestFits(t)' /\ OffersFitPhase(t)' /\ AllOffered(t)'
  BY <1>2 DEF Assigned, HighestFits, OffersFitPhase, AllOffered, NoCursor
<1>6. StartIsTrue(t)'
  BY <1>1, <1>3 DEF StartIsTrue
<1> QED
  BY <1>4, <1>5, <1>6 DEF Offering

(* An answer changes nothing of what is offered.                           *)
LEMMA AnswerOffering ==
  ASSUME TypeOK, OfferInv, NEW s \in Sessions, NEW e \in Event,
         e.kind \in {"publish_accepted", "clear_accepted"},
         queue' = [queue EXCEPT ![s] = Append(queue[s], e)],
         UNCHANGED <<cursor_high_water, clips, phase, buffered, highest, acknowledged,
                     resumed_after, delivered>>,
         NEW t \in Sessions
  PROVE  Offering(t)'
<1>0. Offering(t) /\ cursor_high_water \in Nat /\ queue[s] \in Seq(Event)
  BY DEF OfferInv, TypeOK
<1>1. CASE t # s
  <2>1. OffersSame(t)
    BY <1>1 DEF OffersSame, TypeOK
  <2> QED
    BY <1>0, <2>1, SameOffering
<1>2. CASE t = s
  <2> DEFINE r == <<e>>
  <2>1. r = <<e>>
    OBVIOUS
  <2> HIDE DEF r
  <2>2. r \in Seq(Event) /\ Elements(r) = {e}
    BY <2>1, SingleEvent
  <2>3. queue'[s] = queue[s] \o r
    <3>1. queue'[s] = Append(queue[s], e)
      BY DEF TypeOK
    <3> QED
      BY <1>0, <2>1, <3>1, AppendIsConcat
  <2>4. ClipsIn(r) = {} /\ ReplayedIn(r) = {}
    BY <2>2 DEF ClipsIn, ReplayedIn, IsClip
  <2>5. /\ ClipsIn(queue[s] \o r) = ClipsIn(queue[s])
        /\ ReplayedIn(queue[s] \o r) = ReplayedIn(queue[s])
    <3>1. /\ ClipsIn(queue[s] \o r) = ClipsIn(queue[s]) \cup ClipsIn(r)
          /\ ReplayedIn(queue[s] \o r) = ReplayedIn(queue[s]) \cup ReplayedIn(r)
      BY <1>0, <2>2, ClipsInConcat
    <3> QED
      BY <2>4, <3>1
  <2>6. /\ Queued(s)' = Queued(s) /\ Held(s)' = Held(s) /\ Written(s)' = Written(s)
        /\ Offered(s)' = Offered(s)
        /\ Resumed(s)' = Resumed(s)
    BY <2>3, <2>5 DEF Queued, Held, Written, Offered, Resumed
  <2>7. InOrder(s)'
    <3>1. AscendingClips(queue[s] \o r)
      BY <1>0, <1>2, <2>2, <2>4, AscendingIfNone, AscendingConcat DEF Offering, InOrder
    <3> QED
      BY <1>0, <1>2, <2>3, <2>6, <3>1 DEF Offering, InOrder
  <2>8. Assigned(s)' /\ HighestFits(s)' /\ OffersFitPhase(s)' /\ AllOffered(s)'
    BY <1>0, <1>2, <2>6 DEF Offering, Assigned, HighestFits, OffersFitPhase, AllOffered
  <2>9. StartIsTrue(s)'
    <3>1. StartsFirst(queue[s] \o r)
      BY <1>0, <1>2, <2>2, StartsFirstConcat DEF Offering, StartIsTrue
    <3>2. Elements(queue[s] \o r) = Elements(queue[s]) \cup {e}
      BY <1>0, <2>2, ElementsOfConcat
    <3>3. \A x \in Elements(queue[s] \o r) : Truthful(x, queue[s] \o r)
      BY <1>0, <1>2, <2>5, <3>2 DEF Offering, StartIsTrue, Truthful
    <3> QED
      BY <2>3, <3>1, <3>3 DEF StartIsTrue
  <2> QED
    BY <1>2, <2>7, <2>8, <2>9 DEF Offering
<1> QED
  BY <1>1, <1>2

LEMMA ResetOffering ==
  ASSUME TypeOK, OfferInv, NEW s \in Sessions, OpenSession(s) \/ CloseSession(s), NEW t \in Sessions
  PROVE  Offering(t)'
<1>1. PICK p \in {"closed", "AwaitResume"}, g \in 0..GenerationMax : ResetSession(s, p, g)
  <2>1. clear_generation \in 0..GenerationMax /\ 0 \in 0..GenerationMax
    BY ConstantTypes DEF TypeOK
  <2> QED
    BY <2>1 DEF OpenSession, CloseSession
<1>2. UNCHANGED <<clips, cursor_high_water>> /\ cursor_high_water \in Nat
  BY <1>1 DEF ResetSession, database, meta, TypeOK
<1>3. CASE t = s
  BY <1>1, <1>2, <1>3, EmptyOffering DEF ResetSession, TypeOK
<1>4. CASE t # s
  <2>1. OffersSame(t)
    BY <1>1, <1>4 DEF ResetSession, OffersSame, TypeOK
  <2> QED
    BY <1>2, <2>1, SameOffering DEF OfferInv
<1> QED
  BY <1>3, <1>4

LEMMA AcknowledgeOffering ==
  ASSUME TypeOK, OfferInv, NEW s \in Sessions, NEW cursor \in Cursors, Acknowledge(s, cursor),
         NEW t \in Sessions
  PROVE  Offering(t)'
<1>1. /\ UNCHANGED <<clips, cursor_high_water, phase, queue, buffered, highest, resumed_after,
                     delivered>>
      /\ acknowledged' = [acknowledged EXCEPT ![s] = cursor]
      /\ cursor <= highest[s] /\ Resumed(s)
  BY DEF Acknowledge, database, meta, offers, Resumed
<1>2. Offering(t) /\ cursor_high_water \in Nat
  BY DEF OfferInv, TypeOK
<1>3. CASE t = s
  <2>1. acknowledged'[s] = cursor
    BY <1>1 DEF TypeOK
  <2>2. /\ Queued(s)' = Queued(s) /\ Held(s)' = Held(s) /\ Written(s)' = Written(s)
        /\ Offered(s)' = Offered(s)
        /\ Resumed(s)' = Resumed(s)
    BY <1>1 DEF Queued, Held, Written, Offered, Resumed
  <2>3. phase[s] \notin {"closed", "AwaitResume"}
    BY <1>1 DEF Resumed
  <2>4. InOrder(s)' /\ Assigned(s)' /\ AllOffered(s)' /\ StartIsTrue(s)'
    BY <1>1, <1>2, <1>3, <2>2 DEF Offering, InOrder, Assigned, AllOffered, StartIsTrue
  <2>5. HighestFits(s)' /\ OffersFitPhase(s)'
    BY <1>1, <1>2, <1>3, <2>1, <2>2, <2>3 DEF Offering, HighestFits, OffersFitPhase
  <2> QED
    BY <1>3, <2>4, <2>5 DEF Offering
<1>4. CASE t # s
  <2>1. OffersSame(t)
    BY <1>1, <1>4 DEF OffersSame, TypeOK
  <2> QED
    BY <1>1, <1>2, <2>1, SameOffering
<1> QED
  BY <1>3, <1>4

----------------------------------------------------------------------------
(* Writing, and the end of a replay.                                       *)

LEMMA ClipsInTail ==
  ASSUME NEW q \in Seq(Event), q # <<>>
  PROVE  /\ IsClip(Head(q)) => ClipsIn(q) = {Head(q).clip} \cup ClipsIn(Tail(q))
         /\ ~IsClip(Head(q)) => ClipsIn(q) = ClipsIn(Tail(q))
<1>1. Elements(q) = {Head(q)} \cup Elements(Tail(q))
  BY ElementsOfTail
<1> DEFINE h == Head(q)
           T == Elements(Tail(q))
<1> HIDE DEF h, T
<1>2. ASSUME IsClip(h)
      PROVE  {e.clip : e \in {x \in {h} \cup T : IsClip(x)}}
               = {h.clip} \cup {e.clip : e \in {x \in T : IsClip(x)}}
  BY <1>2, Zenon
<1>3. ASSUME ~IsClip(h)
      PROVE  {x \in {h} \cup T : IsClip(x)} = {x \in T : IsClip(x)}
  BY <1>3
<1> QED
  BY <1>1, <1>2, <1>3 DEF ClipsIn, h, T

LEMMA WriteOffering ==
  ASSUME TypeOK, OfferInv, NEW s \in Sessions, WriteNextEvent(s), NEW t \in Sessions
  PROVE  Offering(t)'
<1> DEFINE e == Head(queue[s])
<1>1. /\ UNCHANGED <<clips, cursor_high_water, phase, buffered, highest, acknowledged,
                     resumed_after>>
      /\ queue[s] \in Seq(Event) /\ queue[s] # <<>>
      /\ queue' = [queue EXCEPT ![s] = Tail(queue[s])]
      /\ delivered' = [delivered EXCEPT ![s] =
           IF IsClip(e) THEN delivered[s] \cup {e.clip.cursor} ELSE delivered[s]]
  BY DEF WriteNextEvent, HasNextEvent, NextEvent, Complete, TypeOK, database, meta
<1>2. Offering(t) /\ Offering(s) /\ cursor_high_water \in Nat
  BY DEF OfferInv, TypeOK
<1>3. CASE t # s
  <2>1. OffersSame(t)
    BY <1>1, <1>3 DEF OffersSame, TypeOK
  <2> QED
    BY <1>1, <1>2, <2>1, SameOffering
<1>4. CASE t = s
  <2>1. /\ queue'[s] = Tail(queue[s])
        /\ delivered'[s] = IF IsClip(e) THEN delivered[s] \cup {e.clip.cursor} ELSE delivered[s]
    BY <1>1 DEF TypeOK
  <2>2. /\ IsClip(e) => Queued(s) = {e.clip} \cup Queued(s)'
        /\ ~IsClip(e) => Queued(s) = Queued(s)'
    BY <1>1, <2>1, ClipsInTail DEF Queued
  <2>3. /\ AscendingClips(Tail(queue[s]))
        /\ IsClip(e) => \A c \in Queued(s)' : e.clip.cursor < c.cursor
    BY <1>1, <1>2, <2>1, AscendingTail DEF Queued, Offering, InOrder
  <2>4. /\ StartsFirst(Tail(queue[s]))
        /\ \A x \in Elements(Tail(queue[s])) : x.kind # "resume_started"
    BY <1>1, <1>2, StartsFirstTail DEF Offering, StartIsTrue
  <2> HIDE DEF e
  <2>5. /\ IsClip(e) => Written(s)' = Written(s) \cup {e.clip.cursor}
        /\ ~IsClip(e) => Written(s)' = Written(s)
        /\ Held(s)' = Held(s) /\ Resumed(s)' = Resumed(s)
    BY <1>1, <2>1 DEF Written, Held, Resumed
  <2>6. Offered(s)' = Offered(s)
    BY <2>2, <2>5 DEF Offered
  <2>7. InOrder(s)'
    <3>1. \A k \in Written(s)', c \in Queued(s)' \cup Held(s)' : k < c.cursor
      BY <1>2, <2>2, <2>3, <2>5 DEF Offering, InOrder
    <3>2. \A c \in Queued(s)', d \in Held(s)' : c.cursor < d.cursor
      BY <1>2, <2>2, <2>5 DEF Offering, InOrder
    <3> QED
      BY <1>1, <1>2, <2>1, <2>3, <3>1, <3>2 DEF Offering, InOrder
  <2>8. Assigned(s)'
    BY <1>1, <1>2, <2>2, <2>5 DEF Offering, Assigned
  <2>9. HighestFits(s)'
    BY <1>1, <1>2, <2>5, <2>6 DEF Offering, HighestFits
  <2>10. OffersFitPhase(s)'
    BY <1>1, <1>2, <2>1, <2>2, <2>5 DEF Offering, OffersFitPhase, Resumed
  <2>11. AllOffered(s)'
    BY <1>1, <1>2, <2>1, <2>2, <2>5 DEF Offering, AllOffered
  <2>12. StartIsTrue(s)'
    BY <2>1, <2>4 DEF StartIsTrue, Truthful
  <2> QED
    BY <1>4, <2>7, <2>8, <2>9, <2>10, <2>11, <2>12 DEF Offering
<1> QED
  BY <1>3, <1>4

(* The last of a sequence of clips in order is the newest.                 *)
LEMMA LastIsNewest ==
  ASSUME NEW q \in Seq(Clip), q # <<>>, Ascending(q)
  PROVE  q[Len(q)] \in Elements(q) /\ \A c \in Elements(q) : c.cursor <= q[Len(q)].cursor
<1>1. /\ Len(q) \in Nat \ {0} /\ DOMAIN q = 1..Len(q)
      /\ \A i \in 1..Len(q) : q[i] \in Clip
  BY SeqElement
<1>2. \A i \in 1..Len(q) : q[i].cursor \in Nat
  BY <1>1 DEF Clip, Cursors
<1>3. ASSUME NEW n \in Nat \ {0}, NEW i \in 1..n  PROVE n \in 1..n /\ (i = n \/ i < n)
  OBVIOUS
<1>4. ASSUME NEW i \in 1..Len(q)  PROVE q[i].cursor <= q[Len(q)].cursor
  <2>1. Len(q) \in 1..Len(q) /\ (i = Len(q) \/ i < Len(q))
    BY <1>1, <1>3
  <2>2. CASE i = Len(q)
    BY <1>2, <2>1, <2>2
  <2>3. CASE i < Len(q)
    <3>1. q[i].cursor < q[Len(q)].cursor
      BY <1>1, <2>1, <2>3 DEF Ascending
    <3> QED
      BY <1>2, <2>1, <3>1
  <2> QED
    BY <2>1, <2>2, <2>3
<1> QED
  BY <1>1, <1>4 DEF Elements

(* What was held back follows the replay, and is the newest from then on.  *)
LEMMA CompleteOffering ==
  ASSUME TypeOK, ClearInv, OfferInv, NEW s \in Sessions, CompleteResume(s), NEW t \in Sessions
  PROVE  Offering(t)'
<1>1. UNCHANGED <<clips, cursor_high_water, acknowledged, resumed_after, delivered>>
  BY DEF CompleteResume, database, meta
<1>2. /\ Offering(t) /\ Offering(s) /\ cursor_high_water \in Nat
      /\ queue[s] \in Seq(Event) /\ buffered[s] \in Seq(Clip)
  BY DEF OfferInv, TypeOK
<1>3. CASE phase[s] = "Replaying" /\ generation[s] = clear_generation
  <2> DEFINE live == [i \in DOMAIN buffered[s] |-> [kind |-> "live", clip |-> buffered[s][i]]]
  <2>1. /\ queue' = [queue EXCEPT ![s] = queue[s] \o live]
        /\ highest' = [highest EXCEPT ![s] = HighestAfterHandover(s)]
        /\ buffered' = [buffered EXCEPT ![s] = <<>>]
        /\ phase' = [phase EXCEPT ![s] = "Live"]
    BY <1>3 DEF CompleteResume, BufferedAfterHandover
  <2>2. /\ live \in Seq(Event) /\ AscendingClips(live)
        /\ ClipsIn(live) = Held(s) /\ ReplayedIn(live) = {}
        /\ \A e \in Elements(live) : e.kind = "live"
    <3>1. live = [i \in DOMAIN buffered[s] |-> [kind |-> "live", clip |-> buffered[s][i]]]
      OBVIOUS
    <3> HIDE DEF live
    <3>2. Ascending(buffered[s])
      BY <1>2 DEF Offering, InOrder
    <3> QED
      BY <1>2, <3>1, <3>2, HandoverKeepsOrder DEF Held
  <2> HIDE DEF live
  <2>3. CASE t # s
    <3>1. OffersSame(t)
      BY <1>1, <2>1, <2>3 DEF OffersSame, TypeOK
    <3> QED
      BY <1>1, <1>2, <3>1, SameOffering
  <2>4. CASE t = s
    <3>1. /\ queue'[s] = queue[s] \o live /\ buffered'[s] = <<>> /\ phase'[s] = "Live"
          /\ highest'[s] = HighestAfterHandover(s)
      BY <2>1 DEF TypeOK
    <3>2. /\ ClipsIn(queue[s] \o live) = ClipsIn(queue[s]) \cup Held(s)
          /\ ReplayedIn(queue[s] \o live) = ReplayedIn(queue[s])
      <4>1. /\ ClipsIn(queue[s] \o live) = ClipsIn(queue[s]) \cup ClipsIn(live)
            /\ ReplayedIn(queue[s] \o live) = ReplayedIn(queue[s]) \cup ReplayedIn(live)
        BY <1>2, <2>2, ClipsInConcat
      <4> QED
        BY <2>2, <4>1
    <3>3. /\ Queued(s)' = Queued(s) \cup Held(s) /\ Held(s)' = {} /\ Written(s)' = Written(s)
          /\ Resumed(s) /\ Resumed(s)'
      BY <1>1, <1>3, <3>1, <3>2, ElementsOfFew DEF Queued, Held, Written, Resumed
    <3>4. InOrder(s)'
      <4>1. AscendingClips(queue[s] \o live)
        BY <1>2, <2>2, AscendingConcat DEF Offering, InOrder, Queued
      <4>2. Ascending(buffered'[s])
        BY <3>1 DEF Ascending
      <4> QED
        BY <1>2, <3>1, <3>3, <4>1, <4>2 DEF Offering, InOrder
    <3>5. Assigned(s)'
      BY <1>1, <1>2, <3>3 DEF Offering, Assigned
    <3>6. HighestFits(s)'
      <4>1. Offered(s)' = Offered(s) \cup {c.cursor : c \in Held(s)}
        BY <3>3 DEF Offered
      <4>2. /\ highest[s] \in Offered(s) /\ \A k \in Offered(s) : k <= highest[s]
            /\ acknowledged[s] <= highest[s]
        BY <1>2, <3>3 DEF Offering, HighestFits
      <4>3. CASE buffered[s] = <<>>
        <5>1. Held(s) = {} /\ highest'[s] = highest[s]
          BY <3>1, <4>3, ElementsOfFew DEF Held, HighestAfterHandover
        <5> QED
          BY <1>1, <4>1, <4>2, <5>1 DEF HighestFits
      <4>4. CASE buffered[s] # <<>>
        <5> DEFINE last == buffered[s][Len(buffered[s])]
        <5>1. last \in Held(s) /\ \A c \in Held(s) : c.cursor <= last.cursor
          BY <1>2, <4>4, LastIsNewest DEF Offering, InOrder, Held
        <5>2. highest'[s] = last.cursor
          BY <3>1, <4>4 DEF HighestAfterHandover
        <5> HIDE DEF last
        <5>3. \A k \in Offered(s) : k < last.cursor
          BY <1>2, <5>1 DEF Offered, Offering, InOrder
        <5>4. last.cursor \in Nat /\ (\A k \in Offered(s) : k \in Nat) /\ acknowledged[s] \in Nat
          BY <5>1, CursorTypes
        <5>5. acknowledged[s] <= last.cursor
          BY <4>2, <5>3, <5>4
        <5>6. \A k \in Offered(s)' : k <= last.cursor
          BY <4>1, <5>1, <5>3, <5>4
        <5>7. last.cursor \in Offered(s)'
          BY <4>1, <5>1
        <5> QED
          BY <1>1, <5>2, <5>5, <5>6, <5>7 DEF HighestFits
      <4> QED
        BY <4>3, <4>4
    <3>7. OffersFitPhase(s)'
      BY <3>1, <3>3 DEF OffersFitPhase
    <3>8. AllOffered(s)'
      BY <1>1, <1>2, <3>3 DEF Offering, AllOffered
    <3>9. StartIsTrue(s)'
      <4>1. Elements(queue[s] \o live) = Elements(queue[s]) \cup Elements(live)
        BY <1>2, <2>2, ElementsOfConcat
      <4>2. StartsFirst(queue[s] \o live)
        BY <1>2, <2>2, StartsFirstConcat DEF Offering, StartIsTrue
      <4>3. \A x \in Elements(queue[s] \o live) : Truthful(x, queue[s] \o live)
        BY <1>2, <2>2, <3>2, <4>1 DEF Offering, StartIsTrue, Truthful
      <4> QED
        BY <3>1, <4>2, <4>3 DEF StartIsTrue
    <3> QED
      BY <2>4, <3>4, <3>5, <3>6, <3>7, <3>8, <3>9 DEF Offering
  <2> QED
    BY <2>3, <2>4
<1>4. CASE ~(phase[s] = "Replaying" /\ generation[s] = clear_generation)
  <2>1. OffersSame(t)
    BY <1>1, <1>4 DEF CompleteResume, offers, OffersSame
  <2> QED
    BY <1>1, <1>2, <2>1, SameOffering
<1> QED
  BY <1>3, <1>4

----------------------------------------------------------------------------
(* The start of a replay.                                                  *)

(* "Complete" and "Gap" say where the client's cursor lies.                *)
LEMMA StatusTells ==
  ASSUME NEW known \in Contexts, NEW after
  PROVE  /\ StatusOf(known, after) = "Complete" => ~Behind(after)
         /\ StatusOf(known, after) = "Gap" => Behind(after)
<1>1. CASE known = NoContext
  BY <1>1 DEF StatusOf, NoContext
<1>2. CASE known # NoContext
  <2>1. known \in [epoch : 1..EpochMax, gen : 1..GenerationMax]
    BY <1>2 DEF Contexts
  <2>2. CASE known.gen # clear_generation
    BY <2>2, <1>2 DEF StatusOf
  <2>3. CASE known.gen = clear_generation /\ known.epoch # history_epoch
    BY <2>3, <1>2 DEF StatusOf
  <2>4. CASE known.gen = clear_generation /\ known.epoch = history_epoch
    <3>1. known = [epoch |-> history_epoch, gen |-> clear_generation]
      BY <2>1, <2>4
    <3> QED
      BY <3>1, <2>4, <1>2 DEF StatusOf
  <2> QED
    BY <2>2, <2>3, <2>4
<1> QED
  BY <1>1, <1>2

(* The rows a replay is made of are all there are after its cursor.        *)
LEMMA ReplayCovers ==
  ASSUME TypeOK', LossIsRemembered', LostIsGone', UNCHANGED cursor_high_water,
         NEW after \in 1..cursor_high_water
  PROVE  /\ ~Behind(after) =>
              (after + 1..cursor_high_water) \ {c.cursor : c \in RowsFrom(after)} = {}
         /\ Behind(after) =>
              (after + 1..cursor_high_water) \ {c.cursor : c \in RowsFrom(after)} # {}
<1>1. /\ cursor_high_water \in Nat /\ lost_through_cursor' \in Nat
      /\ lost_through_cursor' <= cursor_high_water
  BY DEF TypeOK, LostIsGone
<1>2. ASSUME ~Behind(after), NEW k \in after + 1..cursor_high_water
      PROVE  k \in {c.cursor : c \in RowsFrom(after)}
  <2>1. k \in 1..cursor_high_water /\ after < k /\ after >= lost_through_cursor'
    BY <1>1, <1>2 DEF Behind, NoCursor
  <2>2. \E c \in clips' : c.cursor = k
    BY <1>1, <2>1 DEF LossIsRemembered, RowAt
  <2> QED
    BY <2>1, <2>2 DEF RowsFrom
<1>3. ASSUME Behind(after)
      PROVE  lost_through_cursor'
               \in (after + 1..cursor_high_water) \ {c.cursor : c \in RowsFrom(after)}
  <2>1. lost_through_cursor' \in after + 1..cursor_high_water
    BY <1>1, <1>3 DEF Behind
  <2>2. \A c \in clips' : c.cursor # lost_through_cursor'
    BY DEF LostIsGone, RowAt
  <2> QED
    BY <2>1, <2>2 DEF RowsFrom
<1> QED
  BY <1>2, <1>3

LEMMA BeginOffering ==
  ASSUME TypeOK, ClearInv, OfferInv, LossIsRemembered', RowsAssigned', LostIsGone', RowsDiffer',
         NEW s \in Sessions, NEW known \in Contexts, NEW after \in 0..CursorMax,
         BeginResume(s, known, after), NEW t \in Sessions
  PROVE  Offering(t)'
<1>0. TypeOK'
  BY TypeBeginResume, TypeStep DEF Next
<1>1. /\ clips' \subseteq clips /\ UNCHANGED <<clear_generation, cursor_high_water>>
      /\ clips' \subseteq Clip /\ cursor_high_water \in 0..CursorMax
  BY TrimTakes DEF BeginResume, ApplyRetention, TrimTransaction, TypeOK
<1>2. Offering(t) /\ Offering(s) /\ cursor_high_water \in Nat
  BY DEF OfferInv, TypeOK
<1>3. CASE UNCHANGED sessionVars
  <2>1. OffersSame(t)
    BY <1>3 DEF sessionVars, offers, OffersSame
  <2> QED
    BY <1>1, <1>2, <2>1, SameOffering
<1>4. CASE after <= cursor_high_water /\ StartReplay(s, StatusOf(known, after), after)
  <2> DEFINE status == StatusOf(known, after)
             from   == IF status \in {"Gap", "Complete"} THEN after ELSE NoCursor
             missed == RowsFrom(from)
             start  == [kind |-> "resume_started", status |-> status,
                        gen |-> clear_generation, after |-> after,
                        boundary |-> cursor_high_water, lost |-> lost_through_cursor']
             end    == [kind |-> "resume_complete", gen |-> clear_generation,
                        boundary |-> cursor_high_water]
             first  == <<start>>
             replay == Replay(missed)
             last   == <<end>>
             most   == first \o replay
             all    == most \o last
             T      == {from} \cup {c.cursor : c \in missed}
  <2>1. /\ phase' = [phase EXCEPT ![s] = "Replaying"]
        /\ queue' = [queue EXCEPT ![s] = queue[s] \o first \o replay \o last]
        /\ highest' = [highest EXCEPT ![s] = Max(T)]
        /\ resumed_after' = [resumed_after EXCEPT ![s] = from]
        /\ UNCHANGED <<buffered, acknowledged, delivered>>
    BY <1>4 DEF StartReplay
  <2>2. missed = {c \in clips' : from < c.cursor /\ c.cursor <= cursor_high_water}
    BY <1>1 DEF RowsFrom
  <2>3. from \in 0..CursorMax /\ from <= cursor_high_water
    <3>1. from \in {after, 0}
      BY DEF NoCursor
    <3> HIDE DEF from
    <3> QED
      BY <1>2, <1>4, <3>1, ConstantTypes
  <2>4. start \in Event /\ end \in Event /\ start.kind = "resume_started" /\ ~IsClip(start)
        /\ end.kind = "resume_complete" /\ ~IsClip(end)
    <3>1. lost_through_cursor' \in 0..CursorMax
      BY <1>0 DEF TypeOK
    <3> QED
      BY <3>1, EventTypes, StatusOfType DEF TypeOK, IsClip
  <2>5. /\ start.after = after /\ start.status = status /\ start.boundary = cursor_high_water
        /\ status \in {"Gap", "Complete"} => from = after
        /\ status = "Complete" => ~Behind(after)
        /\ status = "Gap" => Behind(after)
    BY StatusTells
  <2>6. /\ phase[s] = "AwaitResume"
        /\ \A e \in Elements(queue[s]) : e.kind \in {"live", "clear_notice"}
    BY DEF BeginResume, Reading, Elements
  <2> HIDE DEF status, from, missed, start, end, T
  <2>7. queue[s] = <<>> /\ buffered[s] = <<>> /\ delivered[s] = {} /\ acknowledged[s] = NoCursor
    <3>1. Queued(s) = {}
      BY <1>2, <2>6 DEF Offering, OffersFitPhase, Resumed
    <3>2. \A e \in Elements(queue[s]) : ~IsClip(e)
      BY <3>1 DEF Queued, ClipsIn
    <3>3. NoNotice(queue[s])
      BY <2>6 DEF ClearInv, Sound, PhaseFits
    <3>4. Elements(queue[s]) = {}
      BY <2>6, <3>2, <3>3 DEF NoNotice, IsClip
    <3>5. queue[s] \in Seq(Event)
      BY DEF TypeOK
    <3>6. queue[s] = <<>>
      BY <3>4, <3>5, EmptyIfNoElements
    <3> QED
      BY <1>2, <2>6, <3>6 DEF Offering, OffersFitPhase
  <2>8. missed \subseteq Clip /\ \A c, d \in missed : c.cursor = d.cursor => c = d
    BY <1>1, <2>2 DEF RowsDiffer
  <2>9. /\ replay \in Seq(Event) /\ AscendingClips(replay) /\ ClipsIn(replay) = missed
        /\ ReplayedIn(replay) = {c.cursor : c \in missed}
        /\ \A e \in Elements(replay) : e.kind = "resume_clip"
    BY <2>8, ReplayIsInOrder
  <2>10. /\ first \in Seq(Event) /\ Elements(first) = {start} /\ StartsFirst(first)
         /\ last \in Seq(Event) /\ Elements(last) = {end}
    <3>1. first = <<start>> /\ last = <<end>>
      OBVIOUS
    <3>2. StartsFirst(first)
      BY <3>1 DEF StartsFirst
    <3> HIDE DEF first, last
    <3> QED
      BY <2>4, <3>1, <3>2, SingleEvent
  <2>11. /\ ClipsIn(first) = {} /\ ReplayedIn(first) = {}
         /\ ClipsIn(last) = {} /\ ReplayedIn(last) = {}
    BY <2>4, <2>10 DEF ClipsIn, ReplayedIn, IsClip
  <2> HIDE DEF first, last, replay
  <2>12. /\ most \in Seq(Event) /\ Elements(most) = {start} \cup Elements(replay)
         /\ ClipsIn(most) = missed /\ ReplayedIn(most) = {c.cursor : c \in missed}
         /\ AscendingClips(most) /\ StartsFirst(most)
    <3>1. most \in Seq(Event)
      BY <2>9, <2>10
    <3>2. Elements(most) = Elements(first) \cup Elements(replay)
      BY <2>9, <2>10, ElementsOfConcat
    <3>3. ClipsIn(most) = ClipsIn(first) \cup ClipsIn(replay)
          /\ ReplayedIn(most) = ReplayedIn(first) \cup ReplayedIn(replay)
      BY <2>9, <2>10, ClipsInConcat
    <3>4. AscendingClips(most)
      BY <2>9, <2>10, <2>11, AscendingIfNone, AscendingConcat
    <3>5. StartsFirst(most)
      BY <2>9, <2>10, StartsFirstConcat
    <3> QED
      BY <2>9, <2>10, <2>11, <3>1, <3>2, <3>3, <3>4, <3>5
  <2> HIDE DEF most
  <2>13. /\ all \in Seq(Event) /\ Elements(all) = {start} \cup Elements(replay) \cup {end}
         /\ ClipsIn(all) = missed /\ ReplayedIn(all) = {c.cursor : c \in missed}
         /\ AscendingClips(all) /\ StartsFirst(all)
    <3>1. all \in Seq(Event)
      BY <2>10, <2>12
    <3>2. Elements(all) = Elements(most) \cup Elements(last)
      BY <2>10, <2>12, ElementsOfConcat
    <3>3. ClipsIn(all) = ClipsIn(most) \cup ClipsIn(last)
          /\ ReplayedIn(all) = ReplayedIn(most) \cup ReplayedIn(last)
      BY <2>10, <2>12, ClipsInConcat
    <3>4. AscendingClips(all)
      BY <2>10, <2>11, <2>12, AscendingIfNone, AscendingConcat
    <3>5. StartsFirst(all)
      BY <2>4, <2>10, <2>12, StartsFirstConcat
    <3> QED
      BY <2>10, <2>11, <2>12, <3>1, <3>2, <3>3, <3>4, <3>5
  <2>14. CASE t # s
    <3>1. OffersSame(t)
      BY <2>1, <2>14 DEF OffersSame, TypeOK
    <3> QED
      BY <1>1, <1>2, <3>1, SameOffering
  <2>15. CASE t = s
    <3>1. /\ queue'[s] = all /\ phase'[s] = "Replaying" /\ highest'[s] = Max(T)
          /\ resumed_after'[s] = from /\ buffered'[s] = <<>> /\ delivered'[s] = {}
          /\ acknowledged'[s] = NoCursor
      <4>1. queue'[s] = ((queue[s] \o first) \o replay) \o last
        BY <2>1 DEF TypeOK
      <4>2. queue[s] \o first = first
        BY <2>7, <2>10
      <4>3. queue'[s] = all
        BY <4>1, <4>2 DEF most
      <4> QED
        BY <2>1, <2>7, <4>3 DEF TypeOK
    <3> HIDE DEF all
    <3>2. /\ Queued(s)' = missed /\ Held(s)' = {} /\ Written(s)' = {from} /\ Resumed(s)'
          /\ Offered(s)' = T
      BY <2>13, <3>1, ElementsOfFew DEF Queued, Held, Written, Resumed, Offered, T
    <3>3. \A c \in missed : from < c.cursor /\ c.cursor <= cursor_high_water
      BY <2>2
    <3>4. InOrder(s)'
      <4>1. Ascending(buffered'[s])
        BY <3>1 DEF Ascending
      <4> QED
        BY <2>13, <3>1, <3>2, <3>3, <4>1 DEF InOrder
    <3>5. Assigned(s)'
      BY <1>1, <2>3, <3>2, <3>3 DEF Assigned
    <3>6. HighestFits(s)'
      <4>1. T \subseteq 0..CursorMax /\ T # {}
        BY <2>3, <2>8, ConstantTypes DEF T, Clip, Cursors
      <4>2. Max(T) \in T /\ \A k \in T : k <= Max(T)
        BY <4>1, ConstantTypes, MaxIsLargest
      <4>3. Max(T) \in Nat
        <5>1. \A k \in T : k \in Nat
          BY <4>1, ConstantTypes
        <5> QED
          BY <4>2, <5>1, Zenon
      <4>4. NoCursor <= Max(T)
        BY <4>3 DEF NoCursor
      <4> QED
        BY <3>1, <3>2, <4>2, <4>4 DEF HighestFits
    <3>7. OffersFitPhase(s)'
      BY <3>1, <3>2 DEF OffersFitPhase
    <3>8. AllOffered(s)'
      <4>1. from \in Nat /\ \A c \in clips' : c.cursor \in Nat
        BY <1>1, <2>3 DEF Clip, Cursors
      <4>2. \A c \in clips' : c.cursor <= cursor_high_water
        BY <1>1 DEF RowsAssigned
      <4>3. \A c \in clips' : c.cursor <= from \/ c \in missed
        BY <2>2, <4>1, <4>2
      <4> QED
        BY <3>1, <3>2, <4>3 DEF AllOffered
    <3>9. StartIsTrue(s)'
      <4>1. Truthful(start, all)
        <5>1. CASE after = NoCursor \/ status \notin {"Gap", "Complete"}
          BY <2>5, <5>1 DEF Truthful
        <5>2. CASE after # NoCursor /\ status \in {"Gap", "Complete"}
          <6>1. missed = RowsFrom(after)
            BY <2>5, <5>2 DEF missed
          <6>2. after \in 1..cursor_high_water
            BY <1>2, <1>4, <5>2 DEF NoCursor
          <6>3. /\ ~Behind(after) =>
                     (after + 1..cursor_high_water) \ {c.cursor : c \in missed} = {}
                /\ Behind(after) =>
                     (after + 1..cursor_high_water) \ {c.cursor : c \in missed} # {}
            BY <1>0, <1>1, <6>1, <6>2, ReplayCovers
          <6> QED
            BY <2>5, <2>13, <6>3 DEF Truthful
        <5> QED
          BY <5>1, <5>2
      <4>2. \A e \in Elements(all) : e = start \/ e.kind # "resume_started"
        BY <2>4, <2>9, <2>13
      <4>3. \A e \in Elements(all) : Truthful(e, all)
        BY <4>1, <4>2 DEF Truthful
      <4> QED
        BY <2>13, <3>1, <4>3 DEF StartIsTrue
    <3> QED
      BY <2>15, <3>4, <3>5, <3>6, <3>7, <3>8, <3>9 DEF Offering
  <2> QED
    BY <2>14, <2>15
<1>5. after \in Int /\ cursor_high_water \in Int
  BY <1>2
<1> QED
  BY <1>3, <1>4, <1>5 DEF BeginResume

----------------------------------------------------------------------------
(* Publish and clear.                                                      *)

(* A new clip is newer than all that a session knows, and every session    *)
(* that has resumed is offered it or holds it back.                        *)
LEMMA NewClipOffering ==
  ASSUME TypeOK, ClearInv, OfferInv, NEW s \in Sessions, phase[s] = "Live", NEW c \in Clip,
         c.gen = clear_generation, c.cursor = cursor_high_water + 1,
         NEW e \in Event, e.kind = "publish_accepted", EnqueueClip(s, c, e),
         cursor_high_water' = cursor_high_water + 1, clips' \subseteq clips \cup {c},
         UNCHANGED <<phase, acknowledged, resumed_after, delivered>>, NEW t \in Sessions
  PROVE  Offering(t)'
<1> DEFINE live  == [kind |-> "live", clip |-> c]
           told  == IF t = s THEN <<e>> ELSE <<>>
           offer == IF Offers(t, c) THEN <<live>> ELSE <<>>
           q     == queue[t] \o told
<1>0. /\ Offering(t) /\ queue[t] \in Seq(Event) /\ buffered[t] \in Seq(Clip)
      /\ cursor_high_water \in Nat /\ cursor_high_water' \in Nat
  BY DEF OfferInv, TypeOK
<1>1. live \in Event /\ live.kind = "live" /\ live.clip = c /\ IsClip(live)
  BY EventTypes DEF IsClip
<1>2. queue'[t] = q \o offer
  BY DEF EnqueueClip
<1>3. /\ buffered'[t] = IF Buffers(t, c) THEN Append(buffered[t], c) ELSE buffered[t]
      /\ highest'[t] = IF Offers(t, c) THEN c.cursor ELSE highest[t]
  BY DEF EnqueueClip
<1>4. /\ Offers(t, c) <=> phase[t] = "Live"
      /\ Buffers(t, c) <=> phase[t] = "Replaying"
  BY DEF Offers, Buffers, ClearInv, Sound, PhaseFits
<1> HIDE DEF live
<1>5. told \in Seq(Event) /\ \A x \in Elements(told) : x = e
  <2>1. CASE t = s
    <3>1. told = <<e>>
      BY <2>1
    <3> HIDE DEF told
    <3> QED
      BY <3>1, SingleEvent
  <2>2. CASE t # s
    BY <2>2, ElementsOfFew
  <2> QED
    BY <2>1, <2>2
<1>6. offer \in Seq(Event) /\ Elements(offer) = IF Offers(t, c) THEN {live} ELSE {}
  <2>1. CASE Offers(t, c)
    <3>1. offer = <<live>>
      BY <2>1
    <3> HIDE DEF offer
    <3> QED
      BY <1>1, <2>1, <3>1, SingleEvent
  <2>2. CASE ~Offers(t, c)
    BY <2>2, ElementsOfFew
  <2> QED
    BY <2>1, <2>2
<1>7. t # s => told = <<>>
  OBVIOUS
<1>8. ~Offers(t, c) => offer = <<>>
  OBVIOUS
<1>9. Offers(t, c) => AscendingClips(offer)
  <2> SUFFICES ASSUME Offers(t, c)  PROVE AscendingClips(offer)
    OBVIOUS
  <2>1. DOMAIN offer = {1}
    OBVIOUS
  <2> HIDE DEF offer
  <2> QED
    BY <2>1 DEF AscendingClips
<1> HIDE DEF told, offer
<1>10. /\ q \in Seq(Event) /\ ClipsIn(q) = Queued(t) /\ ReplayedIn(q) = ReplayedIn(queue[t])
       /\ AscendingClips(q) /\ StartsFirst(q)
       /\ Elements(q) = Elements(queue[t]) \cup Elements(told)
  <2>1. ClipsIn(told) = {} /\ ReplayedIn(told) = {}
    BY <1>5 DEF ClipsIn, ReplayedIn, IsClip
  <2>2. /\ ClipsIn(q) = ClipsIn(queue[t]) \cup ClipsIn(told)
        /\ ReplayedIn(q) = ReplayedIn(queue[t]) \cup ReplayedIn(told)
    BY <1>0, <1>5, ClipsInConcat
  <2>3. AscendingClips(q)
    BY <1>0, <1>5, <2>1, AscendingIfNone, AscendingConcat DEF Offering, InOrder
  <2>4. StartsFirst(q)
    BY <1>0, <1>5, StartsFirstConcat DEF Offering, StartIsTrue
  <2>5. Elements(q) = Elements(queue[t]) \cup Elements(told)
    BY <1>0, <1>5, ElementsOfConcat
  <2>6. q \in Seq(Event)
    BY <1>0, <1>5
  <2> QED
    BY <2>1, <2>2, <2>3, <2>4, <2>5, <2>6 DEF Queued
<1> HIDE DEF q
<1>11. \A x \in Elements(q \o offer) : x.kind = "resume_started" => x \in Elements(queue[t])
  <2>1. Elements(q \o offer) = Elements(q) \cup Elements(offer)
    BY <1>6, <1>10, ElementsOfConcat
  <2> QED
    BY <1>1, <1>5, <1>6, <1>10, <2>1
<1>12. /\ \A k \in Written(t) : k \in Nat /\ k < c.cursor
       /\ \A x \in Queued(t) \cup Held(t) : x.cursor \in Nat /\ x.cursor < c.cursor
       /\ highest[t] \in Nat /\ acknowledged[t] \in Nat
  BY <1>0, CursorTypes DEF Offering, Assigned
<1>13. Written(t)' = Written(t) /\ Resumed(t)' = Resumed(t)
  BY DEF Written, Resumed
<1>14. CASE phase[t] = "Live"
  <2>1. ClipsIn(offer) = {c} /\ ReplayedIn(offer) = {}
    BY <1>1, <1>4, <1>6, <1>14 DEF ClipsIn, ReplayedIn
  <2>2. /\ ClipsIn(q \o offer) = Queued(t) \cup {c}
        /\ ReplayedIn(q \o offer) = ReplayedIn(queue[t])
    <3>1. /\ ClipsIn(q \o offer) = ClipsIn(q) \cup ClipsIn(offer)
          /\ ReplayedIn(q \o offer) = ReplayedIn(q) \cup ReplayedIn(offer)
      BY <1>6, <1>10, ClipsInConcat
    <3> QED
      BY <1>10, <2>1, <3>1
  <2>3. AscendingClips(q \o offer)
    BY <1>4, <1>6, <1>9, <1>10, <1>12, <1>14, <2>1, AscendingConcat
  <2>4. StartsFirst(q \o offer)
    BY <1>1, <1>6, <1>10, StartsFirstConcat
  <2>5. /\ buffered'[t] = buffered[t] /\ buffered[t] = <<>> /\ highest'[t] = c.cursor
        /\ Held(t) = {}
    BY <1>0, <1>3, <1>4, <1>14, ElementsOfFew DEF Offering, OffersFitPhase, Held
  <2>6. /\ Queued(t)' = Queued(t) \cup {c} /\ Held(t)' = {}
        /\ Offered(t)' = Offered(t) \cup {c.cursor}
    BY <1>2, <1>13, <2>2, <2>5, ElementsOfFew DEF Queued, Held, Offered
  <2>7. InOrder(t)'
    BY <1>0, <1>2, <1>12, <1>13, <2>3, <2>5, <2>6 DEF Offering, InOrder
  <2>8. Assigned(t)'
    BY <1>0, <1>12, <1>13, <2>6 DEF Offering, Assigned
  <2>9. HighestFits(t)'
    <3>1. \A k \in Offered(t)' : k <= c.cursor
      BY <1>12, <2>6 DEF Offered, Clip, Cursors
    <3>2. acknowledged[t] <= c.cursor
      <4>1. highest[t] \in Offered(t) /\ acknowledged[t] <= highest[t]
        BY <1>0, <1>14 DEF Offering, HighestFits, Resumed
      <4>2. highest[t] < c.cursor
        BY <1>12, <4>1 DEF Offered
      <4> QED
        BY <1>12, <4>1, <4>2 DEF Clip, Cursors
    <3> QED
      BY <2>5, <2>6, <3>1, <3>2 DEF HighestFits
  <2>10. OffersFitPhase(t)'
    BY <1>13, <1>14, <2>5 DEF OffersFitPhase, Resumed
  <2>11. AllOffered(t)'
    BY <1>0, <1>13, <2>5, <2>6 DEF Offering, AllOffered
  <2>12. StartIsTrue(t)'
    BY <1>0, <1>2, <1>11, <2>2, <2>4 DEF Offering, StartIsTrue, Truthful
  <2> QED
    BY <2>7, <2>8, <2>9, <2>10, <2>11, <2>12 DEF Offering
<1>15. CASE phase[t] # "Live"
  <2>1. queue'[t] = queue[t] /\ highest'[t] = highest[t]
    <3>1. told = <<>> /\ offer = <<>>
      BY <1>4, <1>7, <1>8, <1>15
    <3> QED
      BY <1>0, <1>2, <1>3, <1>4, <1>15, <3>1 DEF q
  <2>2. CASE phase[t] # "Replaying"
    <3>1. OffersSame(t) /\ ~Resumed(t)
      BY <1>3, <1>4, <1>15, <2>1, <2>2 DEF OffersSame, Resumed
    <3> QED
      BY <1>0, <3>1, SameOffering
  <2>3. CASE phase[t] = "Replaying"
    <3>1. buffered'[t] = Append(buffered[t], c)
      BY <1>3, <1>4, <2>3
    <3>2. Held(t)' = Held(t) \cup {c} /\ Queued(t)' = Queued(t) /\ Offered(t)' = Offered(t)
      BY <1>0, <1>13, <2>1, <3>1, ElementsOfAppend DEF Held, Queued, Offered
    <3>3. Ascending(buffered'[t])
      BY <1>0, <1>12, <3>1, AscendingAppend DEF Offering, InOrder, Held
    <3>4. InOrder(t)'
      BY <1>0, <1>12, <1>13, <2>1, <3>2, <3>3 DEF Offering, InOrder
    <3>5. Assigned(t)'
      BY <1>0, <1>12, <1>13, <3>2 DEF Offering, Assigned
    <3>6. HighestFits(t)' /\ OffersFitPhase(t)'
      BY <1>0, <1>13, <2>1, <2>3, <3>2 DEF Offering, HighestFits, OffersFitPhase, Resumed
    <3>7. AllOffered(t)'
      BY <1>0, <1>13, <3>2 DEF Offering, AllOffered
    <3>8. StartIsTrue(t)'
      BY <1>0, <2>1 DEF Offering, StartIsTrue
    <3> QED
      BY <3>4, <3>5, <3>6, <3>7, <3>8 DEF Offering
  <2> QED
    BY <2>2, <2>3
<1> QED
  BY <1>14, <1>15

LEMMA PublishOffering ==
  ASSUME TypeOK, ClearInv, OfferInv, NEW s \in Sessions, NEW d \in Drafts, Publish(s, d),
         NEW t \in Sessions
  PROVE  Offering(t)'
<1>1. UNCHANGED <<phase, acknowledged, resumed_after, delivered>> /\ phase[s] = "Live"
  BY DEF Publish, PreflightPublish, RequireLiveSession
<1>2. CASE AcceptDuplicate(s, d)
  <2>1. PICK c \in Retained(clips) :
          /\ queue' = [queue EXCEPT ![s] = Append(queue[s],
               [kind |-> "publish_accepted", id |-> d.id, cursor |-> c.cursor,
                duplicate |-> TRUE])]
          /\ UNCHANGED <<database, buffered, highest>>
    BY <1>2 DEF AcceptDuplicate, ClipByMessageId
  <2> DEFINE e == [kind |-> "publish_accepted", id |-> d.id, cursor |-> c.cursor,
                   duplicate |-> TRUE]
  <2>2. e \in Event
    <3>1. c.cursor \in Cursors
      BY DEF Retained, TypeOK, Clip
    <3> QED
      BY <3>1, ConstantTypes, EventTypes
  <2>3. e.kind = "publish_accepted"
    OBVIOUS
  <2>4. queue' = [queue EXCEPT ![s] = Append(queue[s], e)]
    BY <2>1
  <2>5. UNCHANGED <<cursor_high_water, clips, phase, buffered, highest, acknowledged,
                    resumed_after, delivered>>
    BY <1>1, <2>1 DEF database, meta
  <2> HIDE DEF e
  <2> QED
    BY <2>2, <2>3, <2>4, <2>5, AnswerOffering
<1>3. CASE AcceptNew(s, d)
  <2> DEFINE c == NewClip(s, d)
             e == [kind |-> "publish_accepted", id |-> d.id, cursor |-> c.cursor,
                   duplicate |-> FALSE]
  <2>1. PersistPublish(c) /\ EnqueueClip(s, c, e) /\ CursorLeft
    BY <1>3 DEF AcceptNew, NewClip
  <2>2. c \in Clip /\ c.gen = clear_generation /\ c.cursor = cursor_high_water + 1
    BY <2>1, NewClipType DEF NewClip
  <2>3. e \in Event /\ e.kind = "publish_accepted"
    <3>1. c.cursor \in Cursors
      BY <2>2 DEF Clip
    <3> QED
      BY <3>1, ConstantTypes, EventTypes
  <2> HIDE DEF c, e
  <2>4. cursor_high_water' = cursor_high_water + 1 /\ clips' \subseteq clips \cup {c}
    BY <2>1, <2>2, TrimTakes DEF PersistPublish, TrimTransaction
  <2> QED
    BY <1>1, <2>1, <2>2, <2>3, <2>4, NewClipOffering
<1>4. CASE ExhaustCursor
  <2>1. OffersSame(t) /\ UNCHANGED <<clips, cursor_high_water>>
    BY <1>1, <1>4 DEF ExhaustCursor, database, meta, offers, OffersSame
  <2>2. Offering(t) /\ cursor_high_water \in Nat
    BY DEF OfferInv, TypeOK
  <2> QED
    BY <2>1, <2>2, SameOffering
<1> QED
  BY <1>2, <1>3, <1>4 DEF Publish

(* What is left in a queue was there, but for what is said of the clear.   *)
LEMMA RetractTakes ==
  ASSUME TypeOK, NEW s \in Sessions, NEW gen, NEW accepted \in Event, NEW notice \in Event,
         Retract(s, gen, accepted, notice), NEW t \in Sessions
  PROVE  Elements(queue'[t]) \subseteq Elements(queue[t]) \cup {accepted, notice}
<1> DEFINE stay == {i \in DOMAIN queue[t] : Stays(queue[t][i], gen)}
           kept == Subsequence(queue[t], stay)
           told == IF t = s THEN <<accepted>> ELSE <<>>
           last == <<notice>>
           most == kept \o told
<1>1. queue'[t] = IF IsTold(t) THEN most \o last ELSE queue[t]
  BY DEF Retract
<1>2. queue[t] \in Seq(Event) /\ stay \subseteq DOMAIN queue[t]
  BY DEF TypeOK
<1> HIDE DEF stay
<1>3. kept \in Seq(Event) /\ Elements(kept) \subseteq Elements(queue[t])
  <2>1. kept \in Seq(Event) /\ Elements(kept) = {queue[t][i] : i \in stay}
    BY <1>2, ElementsOfSubsequence
  <2> QED
    BY <1>2, <2>1 DEF Elements
<1>4. told \in Seq(Event) /\ Elements(told) \subseteq {accepted}
  <2>1. CASE t = s
    <3>1. told = <<accepted>>
      BY <2>1
    <3> HIDE DEF told
    <3> QED
      BY <3>1, SingleEvent
  <2>2. CASE t # s
    BY <2>2, ElementsOfFew
  <2> QED
    BY <2>1, <2>2
<1>5. last \in Seq(Event) /\ Elements(last) = {notice}
  <2>1. last = <<notice>>
    OBVIOUS
  <2> HIDE DEF last
  <2> QED
    BY <2>1, SingleEvent
<1> HIDE DEF kept, told, last
<1>6. most \in Seq(Event) /\ Elements(most) = Elements(kept) \cup Elements(told)
  BY <1>3, <1>4, ElementsOfConcat
<1> HIDE DEF most
<1>7. Elements(most \o last) = Elements(most) \cup Elements(last)
  BY <1>5, <1>6, ElementsOfConcat
<1>8. Elements(most \o last) \subseteq Elements(queue[t]) \cup {accepted, notice}
  BY <1>3, <1>4, <1>5, <1>6, <1>7
<1> QED
  BY <1>1, <1>8

(* A clear leaves no clip and no start of a replay in any queue.           *)
LEMMA CommitOffering ==
  ASSUME TypeOK, TypeOK', ClearInv, ClearInv', OfferInv, NEW s \in Sessions, NEW r \in Requests,
         NEW g \in 1..GenerationMax, CommitClear(s, r, g),
         UNCHANGED <<highest, acknowledged, resumed_after, delivered>>, NEW t \in Sessions
  PROVE  Offering(t)'
<1>0. /\ Offering(t) /\ queue[t] \in Seq(Event) /\ queue'[t] \in Seq(Event)
      /\ buffered[t] \in Seq(Clip) /\ buffered'[t] \in Seq(Clip)
      /\ clear_generation \in Nat /\ cursor_high_water \in Nat
  BY DEF OfferInv, TypeOK
<1> PICK next \in 1..GenerationMax : next = clear_generation + 1
  BY ConstantTypes DEF CommitClear, TypeOK
<1> DEFINE accepted == [kind |-> "clear_accepted", request |-> r, gen |-> next,
                        through |-> cursor_high_water, duplicate |-> FALSE]
           notice   == [kind |-> "clear_notice", request |-> r, gen |-> next,
                        through |-> cursor_high_water]
<1>1. /\ clips' = {} /\ clear_generation' = next /\ UNCHANGED cursor_high_water
      /\ Retract(s, next, accepted, notice)
  BY DEF CommitClear
<1>2. accepted \in Event /\ notice \in Event
  BY EventTypes DEF TypeOK
<1>3. ~IsClip(accepted) /\ ~IsReplay(accepted) /\ ~IsClip(notice) /\ ~IsReplay(notice)
  BY DEF IsClip, IsReplay
<1> HIDE DEF accepted, notice
<1>4. Elements(queue'[t]) \subseteq Elements(queue[t]) \cup {accepted, notice}
  BY <1>1, <1>2, RetractTakes
<1>5. ASSUME NEW e \in Elements(queue'[t])  PROVE ~IsClip(e) /\ ~IsReplay(e)
  <2>1. CASE e \in Elements(queue[t])
    <3>1. Current(e)
      BY <2>1 DEF ClearInv, Sound, HoldsCurrent
    <3>2. Current(e)'
      BY DEF ClearInv, Sound, HoldsCurrent
    <3>3. clear_generation' # clear_generation
      BY <1>0, <1>1
    <3> QED
      BY <3>1, <3>2, <3>3 DEF Current
  <2> QED
    BY <1>3, <1>4, <2>1
<1>6. Held(t)' = {}
  <2>1. \A c \in Elements(buffered[t]) : c.gen = clear_generation
    BY DEF ClearInv, Sound, HoldsCurrent
  <2>2. \A c \in Elements(buffered'[t]) : c.gen = next
    BY <1>1 DEF ClearInv, Sound, HoldsCurrent
  <2>3. Elements(buffered'[t]) \subseteq Elements(buffered[t])
    <3> DEFINE still == {i \in DOMAIN buffered[t] : buffered[t][i].gen >= next}
    <3>1. buffered'[t] = Subsequence(buffered[t], still) /\ still \subseteq DOMAIN buffered[t]
      BY <1>1 DEF Retract
    <3> HIDE DEF still
    <3>2. Elements(buffered'[t]) = {buffered[t][i] : i \in still}
      BY <1>0, <3>1, ElementsOfSubsequence
    <3> QED
      BY <3>1, <3>2 DEF Elements
  <2> QED
    BY <1>0, <2>1, <2>2, <2>3 DEF Held
<1>7. /\ Queued(t)' = {} /\ ~Resumed(t)' /\ Written(t)' = Written(t)
      /\ phase'[t] \in {"closed", "AwaitResume"} => phase'[t] = phase[t]
  <2>1. Queued(t)' = {}
    BY <1>5 DEF Queued, ClipsIn
  <2>2. /\ phase'[t] = IF phase[t] # "closed" THEN "Stale" ELSE phase[t]
        /\ Written(t)' = Written(t)
    BY <1>1 DEF Retract, IsTold, Written
  <2> QED
    BY <2>1, <2>2 DEF Resumed
<1>8. buffered'[t] = <<>>
  BY <1>0, <1>6, EmptyIfNoElements DEF Held
<1>9. InOrder(t)'
  <2>1. AscendingClips(queue'[t]) /\ Ascending(buffered'[t])
    BY <1>5, <1>8 DEF AscendingClips, Ascending, Elements
  <2> QED
    BY <1>6, <1>7, <2>1 DEF InOrder
<1>10. Assigned(t)'
  BY <1>0, <1>1, <1>6, <1>7 DEF Offering, Assigned
<1>11. HighestFits(t)' /\ OffersFitPhase(t)' /\ AllOffered(t)'
  BY <1>0, <1>7, <1>8 DEF Offering, HighestFits, OffersFitPhase, AllOffered
<1>12. StartIsTrue(t)'
  BY <1>5 DEF StartIsTrue, StartsFirst, Truthful, IsReplay, Elements
<1> QED
  BY <1>9, <1>10, <1>11, <1>12 DEF Offering

LEMMA ClearOffering ==
  ASSUME TypeOK, TypeOK', ClearInv, ClearInv', OfferInv, NEW s \in Sessions, NEW r \in Requests,
         NEW g \in 1..GenerationMax, ClearHistory(s, r, g), NEW t \in Sessions
  PROVE  Offering(t)'
<1>1. UNCHANGED <<highest, acknowledged, resumed_after, delivered>>
  BY DEF ClearHistory
<1>2. CASE ClearAgain(s, r, g)
  <2>1. PICK x \in receipts :
          /\ queue' = [queue EXCEPT ![s] = Append(queue[s],
               [kind |-> "clear_accepted", request |-> r, gen |-> x.committed,
                through |-> x.through, duplicate |-> TRUE])]
          /\ UNCHANGED <<database, phase, buffered>>
    BY <1>2 DEF ClearAgain
  <2> DEFINE e == [kind |-> "clear_accepted", request |-> r, gen |-> x.committed,
                   through |-> x.through, duplicate |-> TRUE]
  <2>2. e \in Event
    <3>1. x.committed \in 1..GenerationMax /\ x.through \in 0..CursorMax
      BY DEF TypeOK, Receipt
    <3> QED
      BY <3>1, EventTypes
  <2>3. e.kind = "clear_accepted"
    OBVIOUS
  <2>4. queue' = [queue EXCEPT ![s] = Append(queue[s], e)]
    BY <2>1
  <2>5. UNCHANGED <<cursor_high_water, clips, phase, buffered, highest, acknowledged,
                    resumed_after, delivered>>
    BY <1>1, <2>1 DEF database, meta
  <2> HIDE DEF e
  <2> QED
    BY <2>2, <2>3, <2>4, <2>5, AnswerOffering
<1>3. CASE CommitClear(s, r, g)
  BY <1>1, <1>3, CommitOffering
<1>4. CASE ExhaustGeneration
  <2>1. OffersSame(t) /\ UNCHANGED <<clips, cursor_high_water>>
    BY <1>1, <1>4 DEF ExhaustGeneration, database, meta, OffersSame
  <2>2. Offering(t) /\ cursor_high_water \in Nat
    BY DEF OfferInv, TypeOK
  <2> QED
    BY <2>1, <2>2, SameOffering
<1> QED
  BY <1>2, <1>3, <1>4 DEF ClearHistory

----------------------------------------------------------------------------
(* The theorems about what is offered.                                     *)

HubInv == TypeOK /\ RowsAssigned /\ LossIsRemembered /\ ClearInv /\ OfferInv

LEMMA OfferInit == Init => RowsAssigned /\ LossIsRemembered /\ OfferInv
<1> SUFFICES ASSUME Init  PROVE RowsAssigned /\ LossIsRemembered /\ OfferInv
  OBVIOUS
<1>1. RowsAssigned /\ LossIsRemembered /\ RowsDiffer /\ LostIsGone
  BY DEF Init, RowsAssigned, LossIsRemembered, RowsDiffer, LostIsGone, RowAt, NoCursor
<1>2. ASSUME NEW t \in Sessions  PROVE Offering(t)
  <2>1. /\ queue[t] = <<>> /\ buffered[t] = <<>> /\ delivered[t] = {} /\ highest[t] = NoCursor
        /\ acknowledged[t] = NoCursor /\ resumed_after[t] = NoCursor /\ phase[t] = "closed"
        /\ cursor_high_water = 0
    BY DEF Init, AllSessions
  <2>2. Elements(queue[t]) = {} /\ Elements(buffered[t]) = {}
    BY <2>1, ElementsOfFew
  <2>3. Queued(t) = {} /\ Held(t) = {} /\ Written(t) = {0} /\ ~Resumed(t)
    BY <2>1, <2>2 DEF Queued, ClipsIn, Held, Written, Resumed, NoCursor
  <2>4. AscendingClips(queue[t]) /\ Ascending(buffered[t]) /\ StartsFirst(queue[t])
    BY <2>2 DEF AscendingClips, Ascending, StartsFirst, Elements
  <2> QED
    BY <2>1, <2>2, <2>3, <2>4
       DEF Offering, InOrder, Assigned, HighestFits, OffersFitPhase, AllOffered, StartIsTrue,
           NoCursor
<1> QED
  BY <1>1, <1>2 DEF OfferInv

LEMMA OfferStep == HubInv /\ [Next]_vars => HubInv'
<1> SUFFICES ASSUME HubInv, [Next]_vars  PROVE HubInv'
  OBVIOUS
<1> USE DEF HubInv
<1>1. TypeOK' /\ RowsAssigned' /\ LossIsRemembered' /\ ClearInv'
  BY TypeStep, RowsStep, LossStep, ClearStep
<1>2. RowsDiffer' /\ LostIsGone'
  BY RowsStepOffers DEF OfferInv
<1>3. cursor_high_water \in Nat /\ cursor_high_water' \in Nat
  BY <1>1 DEF TypeOK
<1>4. ASSUME NEW t \in Sessions  PROVE Offering(t)'
  <2>1. CASE Restart \/ RestartOnFreshDatabase
    BY <1>3, <2>1, EmptyOffering DEF Restart, RestartOnFreshDatabase, Open, AllSessions
  <2>2. ASSUME clips' \subseteq clips,
               UNCHANGED <<cursor_high_water, phase, queue, buffered, highest, acknowledged,
                           resumed_after, delivered>>
        PROVE  Offering(t)'
    BY <1>3, <2>2, SameOffering DEF OffersSame, OfferInv
  <2>3. CASE RetainedSourcePeerIds
    BY <2>2, <2>3, TrimTakes
       DEF RetainedSourcePeerIds, ApplyRetention, TrimTransaction, sessionVars, offers
  <2>4. CASE ClockMoves
    BY <2>2, <2>4 DEF ClockMoves, database, meta, sessionVars, offers
  <2>5. ASSUME NEW s \in Sessions, OpenSession(s) \/ CloseSession(s)  PROVE Offering(t)'
    BY <2>5, ResetOffering
  <2>6. ASSUME NEW s \in Sessions, NEW known \in Contexts, NEW after \in 0..CursorMax,
               BeginResume(s, known, after)
        PROVE  Offering(t)'
    BY <1>1, <1>2, <2>6, BeginOffering
  <2>7. ASSUME NEW s \in Sessions, CompleteResume(s)  PROVE Offering(t)'
    BY <2>7, CompleteOffering
  <2>8. ASSUME NEW s \in Sessions, WriteNextEvent(s)  PROVE Offering(t)'
    BY <2>8, WriteOffering
  <2>9. ASSUME NEW s \in Sessions, NEW d \in Drafts, Publish(s, d)  PROVE Offering(t)'
    BY <2>9, PublishOffering
  <2>10. ASSUME NEW s \in Sessions, NEW cursor \in Cursors, Acknowledge(s, cursor)
         PROVE  Offering(t)'
    BY <2>10, AcknowledgeOffering
  <2>11. ASSUME NEW s \in Sessions, NEW r \in Requests, NEW g \in 1..GenerationMax,
                ClearHistory(s, r, g)
         PROVE  Offering(t)'
    BY <1>1, <2>11, ClearOffering
  <2>12. CASE UNCHANGED vars
    BY <2>2, <2>12 DEF vars, database, meta, sessionVars, offers
  <2> QED
    BY <2>1, <2>3, <2>4, <2>5, <2>6, <2>7, <2>8, <2>9, <2>10, <2>11, <2>12 DEF Next
<1> QED
  BY <1>1, <1>2, <1>4 DEF OfferInv

LEMMA OfferHolds == Spec => []HubInv
<1>1. Init => HubInv
  BY TypeInit, ClearInit, OfferInit DEF HubInv
<1> QED
  BY <1>1, OfferStep, PTL DEF Spec

(* Every session writes the clips in the order of their cursors and none   *)
(* twice, across the handover of what was held back while it replayed, and *)
(* the newest clip offered is what it may acknowledge (begin_resume,       *)
(* enqueue_clip, complete_resume).                                         *)
THEOREM OffersAlwaysInOrder == Spec => []OffersInOrder
<1>1. HubInv => OffersInOrder
  BY OffersAreInOrder DEF HubInv
<1> QED
  BY <1>1, OfferHolds, PTL

(* A session that resumed has been offered, or is still to be, every clip  *)
(* after its cursor that can be read: none falls between the end of its    *)
(* replay and the first live clip (begin_resume, enqueue_clip,             *)
(* complete_resume).                                                       *)
THEOREM NothingEverSkipped == Spec => []NothingSkipped
<1>1. HubInv => NothingSkipped
  BY AllIsOffered DEF HubInv
<1> QED
  BY <1>1, OfferHolds, PTL

(* A client that resumes from a cursor is told "Gap" when a clip after it  *)
(* is missing from the replay and "Complete" when none is, whatever was    *)
(* trimmed, cleared or expired, and in whatever order (begin_resume).      *)
THEOREM GapAlwaysIffMissed == Spec => []GapIffMissed
<1>1. HubInv => GapIffMissed
  BY GapsAreTold DEF HubInv
<1> QED
  BY <1>1, OfferHolds, PTL
=============================================================================
