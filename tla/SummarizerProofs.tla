-------------------------- MODULE SummarizerProofs --------------------------
(* Proofs about the chunk summarizer, for every number of ingestions,       *)
(* batches and prompts.                                                     *)
EXTENDS Summarizer, SequenceTheorems, TLAPS

PlainOK == /\ loaded \in BOOLEAN
           /\ kind \in [Callers -> Kinds]
           /\ batch \in [Callers -> 1..Batches]
           /\ spoiled \in [Callers -> BOOLEAN]
           /\ shifted \in [Callers -> BOOLEAN]
           /\ cut \in BOOLEAN
LockOK == /\ lock \in Callers \cup {Nobody}
          /\ pc \in [Callers -> Places]
          /\ \A c \in Callers : pc[c] \in Holding <=> lock = c
QueueOK == queue \in Seq(Callers)
ThreadsOK == thread \in [Callers -> Thread]
GivenOK == given \in [Callers -> SUBSET {"own", "other", "words"}]

\* TypeOK in the parts that the proofs treat one at a time.
LEMMA TypeParts == TypeOK <=> PlainOK /\ LockOK /\ QueueOK /\ ThreadsOK /\ GivenOK
  BY DEF TypeOK, PlainOK, LockOK, QueueOK, ThreadsOK, GivenOK

\* Only a caller that holds the lock to generate has a thread.
Quiet == \A c \in Callers : pc[c] # "generating" => thread[c] = Idle

\* The results of a thread stand where their prompts stand, `up' being
\* whether the model is in memory, unless they are `off' by those a failed
\* decoding left behind.  A thread that started over with results in `out',
\* and is not off, can produce nothing but blanks.
Lined(t, up, off) ==
    /\ off \/ \A i \in DOMAIN t.out : t.out[i] \in {0, i}
    /\ t.phase = "decode" => Len(t.out) < Size
    /\ t.phase = "sequential" => /\ t.tried < Size
                                 /\ Len(t.out) >= t.tried
                                 /\ up => off \/ Len(t.out) = t.tried
    /\ t.phase = "done" => Len(t.out) >= Size

ThreadsLined == \A c \in Callers : Lined(thread[c], loaded, shifted[c])

\* The inductive invariant.
Sound == TypeOK /\ Quiet /\ ThreadsLined /\ OwnSummaries

\* The two threads a caller starts from are lined up.
LEMMA FreshThreads ==
    /\ Idle \in Thread /\ Submitted \in Thread
    /\ \A up, off : Lined(Idle, up, off) /\ Lined(Submitted, up, off)
<1>1. Size \in Nat \ {0} /\ <<>> \in Seq(0..Size)
  BY SummarizerAssumption
<1>2. Idle \in Thread /\ Submitted \in Thread
  BY <1>1 DEF Idle, Submitted, Thread
<1>3. ASSUME NEW up, NEW off PROVE Lined(Idle, up, off) /\ Lined(Submitted, up, off)
  BY <1>1 DEF Lined, Idle, Submitted
<1>. QED  BY <1>2, <1>3

\* What is known of the sequence of a thread.
LEMMA OutIsSequence ==
    ASSUME NEW t \in Thread
    PROVE  /\ t.out \in Seq(0..Size)
           /\ Len(t.out) \in Nat /\ DOMAIN t.out = 1..Len(t.out)
           /\ t.tried \in 0..Size
           /\ t.phase \in {"none", "batch", "decode", "sequential", "done"}
<1>1. t.out \in Seq(0..Size) /\ t.tried \in 0..Size
      /\ t.phase \in {"none", "batch", "decode", "sequential", "done"}
  BY DEF Thread
<1>. QED  BY <1>1, LenProperties

\* Appending to the results adds one, and a prompt's number in its place, or
\* a blank, keeps the line.
LEMMA AppendedInLine ==
    ASSUME NEW t \in Thread, NEW e \in 0..Size
    PROVE  /\ Append(t.out, e) \in Seq(0..Size)
           /\ Len(Append(t.out, e)) = Len(t.out) + 1
           /\ (\A i \in DOMAIN t.out : t.out[i] \in {0, i}) /\ e \in {0, Len(t.out) + 1}
                => \A i \in DOMAIN Append(t.out, e) : Append(t.out, e)[i] \in {0, i}
<1>1. t.out \in Seq(0..Size) /\ Len(t.out) \in Nat /\ DOMAIN t.out = 1..Len(t.out)
  BY OutIsSequence
<1>2. /\ Append(t.out, e) \in Seq(0..Size)
      /\ Len(Append(t.out, e)) = Len(t.out) + 1
      /\ DOMAIN Append(t.out, e) = 1..(Len(t.out) + 1)
      /\ \A i \in 1..Len(t.out) : Append(t.out, e)[i] = t.out[i]
      /\ Append(t.out, e)[Len(t.out) + 1] = e
  BY <1>1
<1>3. ASSUME NEW i \in DOMAIN Append(t.out, e), e \in {0, Len(t.out) + 1},
             \A j \in DOMAIN t.out : t.out[j] \in {0, j}
      PROVE  Append(t.out, e)[i] \in {0, i}
  <2>1. CASE i = Len(t.out) + 1
    BY <1>2, <1>3, <2>1
  <2>2. CASE i # Len(t.out) + 1
    BY <1>1, <1>2, <1>3, <2>2
  <2>. QED  BY <2>1, <2>2
<1>. QED  BY <1>2, <1>3

-----------------------------------------------------------------------------
(* The simple variables, the lock and the queue.                           *)

\* What unload() leaves is of the right kind.
LEMMA UnloadTyped ==
    ASSUME NEW history \in [Callers -> BOOLEAN], Unload(history)
    PROVE  /\ loaded' \in BOOLEAN /\ cut' \in BOOLEAN
           /\ spoiled' \in [Callers -> BOOLEAN]
  BY DEF Unload

\* What is noted when the model goes is of the right kind, too.
LEMMA SpoilsTyped ==
    ASSUME PlainOK, NEW done
    PROVE  /\ Spoils(done) \in [Callers -> BOOLEAN]
           /\ \A c \in Callers : Spoils(done)[c] =
                (spoiled[c] \/ (loaded /\ c # done /\ pc[c] \in {"turn", "generating", "storing"}))
<1>1. \A c \in Callers : (spoiled[c] \/ (loaded /\ c # done /\
                              pc[c] \in {"turn", "generating", "storing"})) \in BOOLEAN
  OBVIOUS
<1>. QED  BY <1>1 DEF Spoils

\* Variables without structure stay in their ranges.
LEMMA PlainTyped ==
    ASSUME PlainOK, LockOK, [Next]_vars
    PROVE  PlainOK'
<1>0. Batches \in Nat \ {0}
  BY SummarizerAssumption
<1>1. CASE UNCHANGED vars
  BY <1>1 DEF vars, PlainOK
<1>2. ASSUME NEW c \in Callers, Begin(c) PROVE PlainOK'
  BY <1>0, <1>2 DEF Begin, ChoosesKind, PlainOK
<1>3. ASSUME NEW c \in Callers, Grant(c) PROVE PlainOK'
  BY <1>3 DEF Grant, PlainOK
<1>4. ASSUME NEW c \in Callers, LoadSucceeds(c) PROVE PlainOK'
  BY <1>4 DEF LoadSucceeds, PlainOK
<1>5. ASSUME NEW c \in Callers, LoadFails(c) PROVE PlainOK'
  BY <1>5 DEF LoadFails, PlainOK
<1>6. ASSUME NEW c \in Callers, InThread(c) PROVE PlainOK'
  BY <1>6 DEF InThread, GenerateBatch, GenerateRaises, DecodeNext, DecodeRaises, TryNext,
              Becomes, PlainOK
<1>7. ASSUME NEW c \in Callers, TakeResults(c) PROVE PlainOK'
  BY <1>0, <1>7 DEF TakeResults, PlainOK
<1>8. ASSUME NEW c \in Callers, TakeLastResults(c) PROVE PlainOK'
  BY <1>8, UnloadTyped, SpoilsTyped DEF TakeLastResults, PlainOK
<1>9. ASSUME NEW c \in Callers, NextBatch(c) PROVE PlainOK'
  BY <1>0, <1>9 DEF NextBatch, PlainOK
<1>10. ASSUME NEW c \in Callers, Finish(c) PROVE PlainOK'
  <2>1. /\ kind' = kind /\ batch' = [batch EXCEPT ![c] = 1]
        /\ shifted' = [shifted EXCEPT ![c] = FALSE]
    BY <1>10 DEF Finish, Ends
  <2>. DEFINE history == [Spoils(c) EXCEPT ![c] = FALSE]
  <2>2. history \in [Callers -> BOOLEAN] /\ Unload(history)
    BY <1>10, SpoilsTyped DEF Finish
  <2>. HIDE DEF history
  <2>3. loaded' \in BOOLEAN /\ cut' \in BOOLEAN /\ spoiled' \in [Callers -> BOOLEAN]
    BY <2>2, UnloadTyped
  <2>4. batch' \in [Callers -> 1..Batches]
    BY <1>0, <2>1 DEF PlainOK
  <2>5. kind' \in [Callers -> Kinds] /\ shifted' \in [Callers -> BOOLEAN]
    BY <2>1 DEF PlainOK
  <2>. QED  BY <2>3, <2>4, <2>5 DEF PlainOK
<1>11. ASSUME NEW c \in Callers, Interrupt(c) PROVE PlainOK'
  BY <1>0, <1>11 DEF Interrupt, Ends, PlainOK
<1>12. CASE UnloadModels
  BY <1>12, UnloadTyped, SpoilsTyped DEF UnloadModels, PlainOK
<1>. QED
  BY <1>1, <1>2, <1>3, <1>4, <1>5, <1>6, <1>7, <1>8, <1>9, <1>10, <1>11, <1>12 DEF Next, Goes

\* A caller that gets the lock, or gives it back, leaves it held by the one
\* that is inside.
LEMMA LockMoves ==
    ASSUME LockOK, NEW c \in Callers, NEW place \in Places,
           lock \in {c, Nobody}, pc' = [pc EXCEPT ![c] = place],
           lock' = IF place \in Holding THEN c ELSE Nobody
    PROVE  LockOK'
  BY SummarizerAssumption DEF LockOK

\* A caller that stays outside, or inside, leaves the lock alone.
LEMMA LockStays ==
    ASSUME LockOK, NEW c \in Callers, NEW place \in Places,
           pc[c] \in Holding <=> place \in Holding,
           pc' = [pc EXCEPT ![c] = place], lock' = lock
    PROVE  LockOK'
  BY DEF LockOK

\* Asking for the lock keeps all of it in order.
LEMMA GoesOnTyped ==
    ASSUME LockOK, NEW c \in Callers, NEW others \in Seq(Callers),
           NEW place \in {"loading", "generating"},
           lock \in {c, Nobody}, GoesOn(c, others, place)
    PROVE  LockOK' /\ QueueOK'
<1>1. CASE others = <<>>
  <2>1. lock' = c /\ queue' = <<>> /\ pc' = [pc EXCEPT ![c] = place]
    BY <1>1 DEF GoesOn
  <2>2. place \in Places /\ place \in Holding
    BY DEF Places, Holding
  <2>3. LockOK'
    BY <2>1, <2>2, LockMoves
  <2>. QED  BY <2>1, <2>3 DEF QueueOK
<1>2. CASE others # <<>>
  <2>. DEFINE waits == IF place = "loading" THEN "load" ELSE "turn"
  <2>1. lock' = Nobody /\ queue' = Append(others, c) /\ pc' = [pc EXCEPT ![c] = waits]
    BY <1>2 DEF GoesOn
  <2>2. waits \in Places /\ waits \notin Holding
    BY DEF Places, Holding
  <2>. HIDE DEF waits
  <2>3. LockOK'
    BY <2>1, <2>2, LockMoves
  <2>4. Append(others, c) \in Seq(Callers)
    OBVIOUS
  <2>. QED  BY <2>1, <2>3, <2>4 DEF QueueOK
<1>. QED  BY <1>1, <1>2

\* Waiting behind the others, too.
LEMMA EnqueueTyped ==
    ASSUME LockOK, QueueOK, NEW c \in Callers, NEW place \in Waiting,
           pc[c] = "idle", Enqueue(c, place)
    PROVE  LockOK' /\ QueueOK'
<1>1. lock' = lock /\ queue' = Append(queue, c) /\ pc' = [pc EXCEPT ![c] = place]
  BY DEF Enqueue
<1>2. place \in Places /\ place \notin Holding /\ pc[c] \notin Holding
  BY DEF Waiting, Places, Holding
<1>3. LockOK'
  BY <1>1, <1>2, LockStays
<1>4. Append(queue, c) \in Seq(Callers)
  BY DEF QueueOK
<1>. QED  BY <1>1, <1>3, <1>4 DEF QueueOK

\* A caller that is cancelled while it waits leaves a queue behind.
LEMMA LeavesQueueTyped ==
    ASSUME QueueOK, NEW c \in Callers, LeavesQueue(c)
    PROVE  QueueOK'
<1>1. CASE UNCHANGED queue
  BY <1>1 DEF QueueOK
<1>2. ASSUME NEW i \in DOMAIN queue,
             queue' = SubSeq(queue, 1, i - 1) \o SubSeq(queue, i + 1, Len(queue))
      PROVE  QueueOK'
  <2>1. /\ Len(queue) \in Nat
        /\ i \in 1..Len(queue)
        /\ \A n \in 1..Len(queue) : queue[n] \in Callers
    BY LenProperties, ElementOfSeq DEF QueueOK
  <2>2. SubSeq(queue, 1, i - 1) \in Seq(Callers)
    BY <2>1, SubSeqProperties
  <2>3. SubSeq(queue, i + 1, Len(queue)) \in Seq(Callers)
    BY <2>1, SubSeqProperties
  <2>4. SubSeq(queue, 1, i - 1) \o SubSeq(queue, i + 1, Len(queue)) \in Seq(Callers)
    BY <2>2, <2>3, ConcatProperties
  <2>. QED  BY <1>2, <2>4 DEF QueueOK
<1>. QED  BY <1>1, <1>2 DEF LeavesQueue

\* The holder of the lock is inside, and whoever is inside holds it.
LEMMA InsideHolds ==
    ASSUME LockOK, NEW c \in Callers
    PROVE  pc[c] \in Holding <=> lock = c
  BY DEF LockOK

\* The lock, its holder and its queue stay consistent.
LEMMA LockTyped ==
    ASSUME LockOK, QueueOK, [Next]_vars
    PROVE  LockOK' /\ QueueOK'
<1>0. {"loading", "generating"} \subseteq Places /\ Waiting \subseteq Places
      /\ Nobody \notin Callers
  BY SummarizerAssumption DEF Places, Waiting
<1>1. ASSUME UNCHANGED <<lock, queue, pc>> PROVE LockOK' /\ QueueOK'
  BY <1>1 DEF LockOK, QueueOK
<1>2. ASSUME NEW c \in Callers, NEW place \in Places,
             pc[c] \in Holding, place \notin Holding,
             pc' = [pc EXCEPT ![c] = place], lock' = Nobody, UNCHANGED queue
      PROVE  LockOK' /\ QueueOK'
  <2>1. lock = c
    BY <1>2, InsideHolds
  <2>2. LockOK'
    BY <1>2, <2>1, LockMoves
  <2>. QED  BY <1>2, <2>2 DEF QueueOK
<1>3. ASSUME NEW c \in Callers, Begin(c) PROVE LockOK' /\ QueueOK'
  <2>1. pc[c] = "idle"
    BY <1>3 DEF Begin
  <2>2. \/ lock = Nobody /\ GoesOn(c, queue, "generating")
        \/ Enqueue(c, "turn")
        \/ lock = Nobody /\ GoesOn(c, queue, "loading")
        \/ Enqueue(c, "load")
    BY <1>3 DEF Begin
  <2>3. ASSUME NEW place \in {"loading", "generating"},
               lock = Nobody, GoesOn(c, queue, place)
        PROVE  LockOK' /\ QueueOK'
    BY <2>3, GoesOnTyped DEF QueueOK
  <2>4. ASSUME NEW place \in Waiting, Enqueue(c, place) PROVE LockOK' /\ QueueOK'
    BY <2>1, <2>4, EnqueueTyped
  <2>. QED  BY <2>2, <2>3, <2>4 DEF Waiting
<1>4. ASSUME NEW c \in Callers, Grant(c) PROVE LockOK' /\ QueueOK'
  <2>1. lock = Nobody /\ Tail(queue) \in Seq(Callers)
    BY <1>4, HeadTailProperties DEF Grant, QueueOK
  <2>2. CASE GoesOn(c, Tail(queue), "generating")
    BY <2>1, <2>2, GoesOnTyped
  <2>3. ASSUME NEW place \in {"loading", "generating"},
               lock' = c, queue' = Tail(queue), pc' = [pc EXCEPT ![c] = place]
        PROVE  LockOK' /\ QueueOK'
    <3>1. place \in Holding
      BY DEF Holding
    <3>2. LockOK'
      BY <1>0, <2>1, <2>3, <3>1, LockMoves
    <3>. QED  BY <2>1, <2>3, <3>2 DEF QueueOK
  <2>. QED  BY <1>4, <2>2, <2>3 DEF Grant
<1>5. ASSUME NEW c \in Callers, LoadSucceeds(c) PROVE LockOK' /\ QueueOK'
  <2>1. lock = c /\ GoesOn(c, queue, "generating")
    BY <1>5, InsideHolds DEF LoadSucceeds, Holding
  <2>. QED  BY <2>1, GoesOnTyped DEF QueueOK
<1>6. ASSUME NEW c \in Callers, LoadFails(c) PROVE LockOK' /\ QueueOK'
  <2>1. lock = c /\ pc[c] \in Holding
    BY <1>6, InsideHolds DEF LoadFails, Holding
  <2>2. CASE GoesOn(c, queue, "generating")
    BY <2>1, <2>2, GoesOnTyped DEF QueueOK
  <2>3. ASSUME NEW place \in {"idle", "summarized"},
               lock' = Nobody, UNCHANGED queue, pc' = [pc EXCEPT ![c] = place]
        PROVE  LockOK' /\ QueueOK'
    <3>1. place \in Places /\ place \notin Holding
      BY DEF Places, Holding
    <3>. QED  BY <1>2, <2>1, <2>3, <3>1
  <2>. QED  BY <1>6, <2>2, <2>3 DEF LoadFails
<1>7. ASSUME NEW c \in Callers, InThread(c) PROVE LockOK' /\ QueueOK'
  BY <1>1, <1>7 DEF InThread, GenerateBatch, GenerateRaises, DecodeNext, DecodeRaises, TryNext,
              Becomes
<1>8. ASSUME NEW c \in Callers, TakeResults(c) PROVE LockOK' /\ QueueOK'
  <2>1. pc[c] \in Holding /\ lock' = lock /\ queue' = queue
    BY <1>8 DEF TakeResults, Runs, Holding
  <2>2. CASE UNCHANGED pc
    BY <1>1, <2>1, <2>2
  <2>3. CASE pc' = [pc EXCEPT ![c] = "storing"]
    <3>1. "storing" \in Places /\ "storing" \in Holding
      BY DEF Places, Holding
    <3>2. LockOK'
      BY <2>1, <2>3, <3>1, LockStays
    <3>. QED  BY <2>1, <3>2 DEF QueueOK
  <2>. QED  BY <1>8, <2>2, <2>3 DEF TakeResults
<1>9. ASSUME NEW c \in Callers, TakeLastResults(c) PROVE LockOK' /\ QueueOK'
  <2>1. pc[c] \in Holding /\ lock' = Nobody /\ queue' = queue
    BY <1>9 DEF TakeLastResults, Runs, Holding
  <2>2. PICK place \in {"idle", "summarized"} : pc' = [pc EXCEPT ![c] = place]
    BY <1>9 DEF TakeLastResults
  <2>3. place \in Places /\ place \notin Holding
    BY DEF Places, Holding
  <2>. QED  BY <1>2, <2>1, <2>2, <2>3
<1>10. ASSUME NEW c \in Callers, NextBatch(c) PROVE LockOK' /\ QueueOK'
  <2>1. pc[c] \in Holding /\ lock' = lock /\ queue' = queue
        /\ pc' = [pc EXCEPT ![c] = "generating"]
    BY <1>10 DEF NextBatch, Holding
  <2>2. "generating" \in Places /\ "generating" \in Holding
    BY DEF Places, Holding
  <2>3. LockOK'
    BY <2>1, <2>2, LockStays
  <2>. QED  BY <2>1, <2>3 DEF QueueOK
<1>11. ASSUME NEW c \in Callers, Finish(c) PROVE LockOK' /\ QueueOK'
  <2>1. pc' = [pc EXCEPT ![c] = "idle"] /\ queue' = queue
    BY <1>11 DEF Finish, Ends
  <2>2. "idle" \in Places /\ "idle" \notin Holding
    BY DEF Places, Holding
  <2>3. CASE pc[c] = "summarized" /\ UNCHANGED lock
    <3>1. pc[c] \notin Holding
      BY <2>3 DEF Holding
    <3>2. LockOK'
      BY <2>1, <2>2, <2>3, <3>1, LockStays
    <3>. QED  BY <2>1, <3>2 DEF QueueOK
  <2>4. CASE pc[c] = "storing" /\ lock' = Nobody
    <3>1. pc[c] \in Holding
      BY <2>4 DEF Holding
    <3>. QED  BY <1>2, <2>1, <2>2, <2>4, <3>1
  <2>. QED  BY <1>11, <2>3, <2>4 DEF Finish, IsStored
<1>12. ASSUME NEW c \in Callers, Interrupt(c) PROVE LockOK' /\ QueueOK'
  <2>1. pc' = [pc EXCEPT ![c] = "idle"] /\ LeavesQueue(c)
        /\ lock' = IF lock = c THEN Nobody ELSE lock
    BY <1>12 DEF Interrupt, Ends
  <2>2. "idle" \in Places /\ "idle" \notin Holding
    BY DEF Places, Holding
  <2>3. LockOK'
    <3>1. CASE lock = c
      BY <2>1, <2>2, <3>1, LockMoves
    <3>2. CASE lock # c
      BY <2>1, <2>2, <3>2, InsideHolds, LockStays
    <3>. QED  BY <3>1, <3>2
  <2>. QED  BY <2>1, <2>3, LeavesQueueTyped
<1>13. CASE UnloadModels
  BY <1>1, <1>13 DEF UnloadModels
<1>14. CASE UNCHANGED vars
  BY <1>1, <1>14 DEF vars
<1>. QED
  BY <1>3, <1>4, <1>5, <1>6, <1>7, <1>8, <1>9, <1>10, <1>11, <1>12, <1>13, <1>14 DEF Next, Goes

-----------------------------------------------------------------------------
(* The threads.                                                            *)

ThreadsSound == ThreadsOK /\ Quiet /\ ThreadsLined

\* No caller but c has its history of shifts changed.
Alone(c) == \A d \in Callers \ {c} : shifted'[d] = shifted[d]

\* A thread is lined up all the more when the model is gone.
LEMMA LinedWithoutModel ==
    ASSUME NEW t, NEW up, NEW now, NEW off, NEW then,
           Lined(t, up, off), now => up, off => then
    PROVE  Lined(t, now, then)
  BY DEF Lined

\* Nobody's thread moves, and the model is not loaded under it.
LEMMA ThreadsStay ==
    ASSUME ThreadsSound, thread' = thread, loaded' => loaded,
           \A d \in Callers : (shifted[d] => shifted'[d]) \/ thread[d] = Idle,
           \A d \in Callers : pc'[d] # "generating" => pc[d] # "generating"
    PROVE  ThreadsSound'
<1>1. ThreadsOK' /\ Quiet'
  BY DEF ThreadsSound, ThreadsOK, Quiet
<1>2. ASSUME NEW d \in Callers PROVE Lined(thread[d], loaded', shifted'[d])
  BY LinedWithoutModel, FreshThreads DEF ThreadsSound, ThreadsLined
<1>. QED  BY <1>1, <1>2 DEF ThreadsSound, ThreadsLined

\* One thread moves; if the model is loaded, the others are not running.
LEMMA ThreadMoves ==
    ASSUME ThreadsSound, NEW c \in Callers, NEW t \in Thread,
           Lined(t, loaded', shifted'[c]),
           thread' = [thread EXCEPT ![c] = t],
           \A d \in Callers \ {c} : pc'[d] = pc[d],
           pc'[c] # "generating" => t = Idle,
           Alone(c),
           \A d \in Callers \ {c} : (loaded' => loaded) \/ thread[d] = Idle
    PROVE  ThreadsSound'
<1>1. thread \in [Callers -> Thread]
  BY DEF ThreadsSound, ThreadsOK
<1>2. /\ thread' \in [Callers -> Thread]
      /\ thread'[c] = t
      /\ \A d \in Callers \ {c} : thread'[d] = thread[d]
  BY <1>1
<1>3. Quiet'
  BY <1>2 DEF ThreadsSound, Quiet
<1>4. ASSUME NEW d \in Callers PROVE Lined(thread'[d], loaded', shifted'[d])
  <2>1. CASE d = c
    BY <1>2, <2>1
  <2>2. CASE d # c /\ (loaded' => loaded)
    BY <1>2, <2>2, LinedWithoutModel DEF ThreadsSound, ThreadsLined, Alone
  <2>3. CASE d # c /\ thread[d] = Idle
    BY <1>2, <2>3, FreshThreads
  <2>. QED  BY <2>1, <2>2, <2>3
<1>. QED  BY <1>2, <1>3, <1>4 DEF ThreadsSound, ThreadsOK, ThreadsLined

\* A caller gets a thread with the lock, or none.
LEMMA ThreadSubmitted ==
    ASSUME ThreadsSound, LockOK, NEW c \in Callers, NEW others \in Seq(Callers),
           GoesOn(c, others, "generating"), Submits(c),
           Alone(c),
           \A d \in Callers \ {c} : (loaded' => loaded) \/ thread[d] = Idle
    PROVE  ThreadsSound'
<1>1. CASE others = <<>>
  <2>1. lock' = c /\ pc' = [pc EXCEPT ![c] = "generating"]
    BY <1>1 DEF GoesOn
  <2>2. thread' = [thread EXCEPT ![c] = Submitted]
    BY <2>1 DEF Submits
  <2>3. pc'[c] = "generating" /\ \A d \in Callers \ {c} : pc'[d] = pc[d]
    BY <2>1 DEF LockOK
  <2>. QED  BY <2>2, <2>3, FreshThreads, ThreadMoves
<1>2. CASE others # <<>>
  <2>1. lock' = Nobody /\ pc' = [pc EXCEPT ![c] = "turn"]
    BY <1>2 DEF GoesOn
  <2>2. thread' = [thread EXCEPT ![c] = Idle]
    BY <2>1, SummarizerAssumption DEF Submits
  <2>3. \A d \in Callers \ {c} : pc'[d] = pc[d]
    BY <2>1 DEF LockOK
  <2>. QED  BY <2>2, <2>3, FreshThreads, ThreadMoves
<1>. QED  BY <1>1, <1>2

\* A step of a thread, which changes nothing but itself and its history.
LEMMA ThreadBecomes ==
    ASSUME ThreadsSound, NEW c \in Callers, pc[c] = "generating",
           NEW phase \in {"decode", "sequential", "done"}, NEW tried \in 0..Size,
           NEW out \in Seq(0..Size), Becomes(c, phase, tried, out),
           Alone(c),
           Lined([phase |-> phase, tried |-> tried, out |-> out], loaded, shifted'[c])
    PROVE  ThreadsSound'
<1>. DEFINE t == [phase |-> phase, tried |-> tried, out |-> out]
<1>1. t \in Thread
  BY DEF Thread
<1>2. thread' = [thread EXCEPT ![c] = t] /\ loaded' = loaded /\ pc' = pc
  BY DEF Becomes
<1>3. Lined(t, loaded', shifted'[c])
  BY <1>2
<1>. HIDE DEF t
<1>. QED  BY <1>1, <1>2, <1>3, ThreadMoves

\* Whatever a thread does, its results stay in line.
LEMMA InThreadSound ==
    ASSUME PlainOK, ThreadsSound, NEW c \in Callers, InThread(c)
    PROVE  ThreadsSound'
<1>0. Size \in Nat \ {0} /\ <<>> \in Seq(0..Size) /\ 0 \in 0..Size
  BY SummarizerAssumption
<1>. DEFINE t == thread[c]
<1>1. t \in Thread /\ Lined(t, loaded, shifted[c]) /\ pc[c] = "generating"
  BY DEF ThreadsSound, ThreadsOK, ThreadsLined, InThread, GenerateBatch, GenerateRaises,
         DecodeNext, DecodeRaises, TryNext, Runs
<1>2. /\ t.out \in Seq(0..Size) /\ Len(t.out) \in Nat /\ DOMAIN t.out = 1..Len(t.out)
      /\ t.tried \in 0..Size
      /\ shifted[c] \/ \A i \in DOMAIN t.out : t.out[i] \in {0, i}
  BY <1>1, OutIsSequence DEF Lined
<1>a. UNCHANGED shifted => Alone(c) /\ shifted'[c] = shifted[c]
  BY DEF Alone
<1>3. CASE GenerateBatch(c)
  <2>1. Lined([phase |-> "decode", tried |-> 0, out |-> <<>>], loaded, shifted[c])
    BY <1>0 DEF Lined
  <2>. QED  BY <1>0, <1>1, <1>3, <1>a, <2>1, ThreadBecomes DEF GenerateBatch
<1>4. CASE GenerateRaises(c)
  <2>1. Lined([phase |-> "sequential", tried |-> 0, out |-> <<>>], loaded, shifted[c])
    BY <1>0 DEF Lined
  <2>. QED  BY <1>0, <1>1, <1>4, <1>a, <2>1, ThreadBecomes DEF GenerateRaises
<1>5. CASE DecodeNext(c)
  <2>. DEFINE e == Len(t.out) + 1
              out == Append(t.out, e)
              phase == IF Len(out) = Size THEN "done" ELSE "decode"
  <2>1. t.phase = "decode" /\ Len(t.out) < Size
    BY <1>1, <1>5 DEF DecodeNext, Runs, Lined
  <2>2. e \in 0..Size
    BY <1>0, <1>2, <2>1
  <2>3. /\ out \in Seq(0..Size) /\ Len(out) = Len(t.out) + 1
        /\ shifted[c] \/ \A i \in DOMAIN out : out[i] \in {0, i}
    BY <1>1, <1>2, <2>2, AppendedInLine
  <2>4. Becomes(c, phase, 0, out) /\ UNCHANGED shifted
    BY <1>5 DEF DecodeNext
  <2>. HIDE DEF e, out
  <2>5. Lined([phase |-> phase, tried |-> 0, out |-> out], loaded, shifted[c])
    <3>1. CASE Len(out) = Size
      BY <1>0, <2>3, <3>1 DEF Lined
    <3>2. CASE Len(out) # Size
      <4>1. phase = "decode" /\ Len(out) < Size
        BY <1>0, <1>2, <2>1, <2>3, <3>2
      <4>. QED  BY <2>3, <4>1 DEF Lined
    <3>. QED  BY <3>1, <3>2
  <2>6. phase \in {"decode", "done"}
    OBVIOUS
  <2>. QED  BY <1>0, <1>1, <1>a, <2>3, <2>4, <2>5, <2>6, ThreadBecomes
<1>6. CASE DecodeRaises(c)
  <2>1. /\ Becomes(c, "sequential", 0, t.out)
        /\ shifted' = [shifted EXCEPT ![c] = @ \/ (loaded /\ t.out # <<>>)]
    BY <1>6 DEF DecodeRaises
  <2>2. Alone(c) /\ shifted'[c] = (shifted[c] \/ (loaded /\ t.out # <<>>))
    BY <2>1 DEF PlainOK, Alone
  <2>3. t.out = <<>> => Len(t.out) = 0
    OBVIOUS
  <2>4. Lined([phase |-> "sequential", tried |-> 0, out |-> t.out], loaded, shifted'[c])
    <3>1. loaded => shifted'[c] \/ Len(t.out) = 0
      BY <2>2, <2>3
    <3>2. shifted'[c] \/ \A i \in DOMAIN t.out : t.out[i] \in {0, i}
      BY <1>2, <2>2
    <3>3. 0 < Size /\ Len(t.out) >= 0
      BY <1>0, <1>2
    <3>. HIDE DEF t
    <3>. QED  BY <3>1, <3>2, <3>3 DEF Lined
  <2>. HIDE DEF t
  <2>. QED  BY <1>0, <1>1, <1>2, <2>1, <2>2, <2>4, ThreadBecomes
<1>7. CASE TryNext(c)
  <2>. DEFINE tried == t.tried + 1
              next == IF tried = Size THEN "done" ELSE "sequential"
  <2>1. t.tried < Size /\ Len(t.out) >= t.tried /\ (loaded => shifted[c] \/ Len(t.out) = t.tried)
    BY <1>1, <1>7 DEF TryNext, Runs, Lined
  <2>2. tried \in 0..Size /\ next \in {"sequential", "done"}
    BY <1>0, <1>2, <2>1
  <2>3. PICK e \in {0, tried} : Becomes(c, next, tried, Append(t.out, e)) /\ (e = 0 \/ loaded)
                             /\ UNCHANGED shifted
    BY <1>7 DEF TryNext
  <2>4. e \in 0..Size /\ (shifted[c] \/ e \in {0, Len(t.out) + 1})
    BY <1>0, <2>1, <2>2, <2>3
  <2>. DEFINE out == Append(t.out, e)
  <2>5. /\ out \in Seq(0..Size) /\ Len(out) = Len(t.out) + 1
        /\ shifted[c] \/ \A i \in DOMAIN out : out[i] \in {0, i}
    BY <1>1, <1>2, <2>4, AppendedInLine
  <2>. HIDE DEF out
  <2>6. Lined([phase |-> next, tried |-> tried, out |-> out], loaded, shifted[c])
    <3>1. Len(out) >= tried /\ (loaded => shifted[c] \/ Len(out) = tried)
      BY <1>2, <2>1, <2>5
    <3>2. CASE tried = Size
      BY <2>5, <3>1, <3>2 DEF Lined
    <3>3. CASE tried # Size
      <4>1. tried < Size /\ next = "sequential"
        BY <1>0, <1>2, <2>1, <3>3
      <4>. QED  BY <2>5, <3>1, <4>1 DEF Lined
    <3>. QED  BY <3>2, <3>3
  <2>7. Becomes(c, next, tried, out) /\ Alone(c) /\ shifted'[c] = shifted[c]
    BY <1>a, <2>3 DEF out
  <2>. HIDE DEF next, tried
  <2>. QED  BY <1>1, <2>2, <2>5, <2>6, <2>7, ThreadBecomes
<1>. QED  BY <1>3, <1>4, <1>5, <1>6, <1>7 DEF InThread

\* A step of c changes the history of c only.
LEMMA StepsAlone ==
    ASSUME PlainOK, NEW c \in Callers, Begin(c) \/ Goes(c) \/ Interrupt(c)
    PROVE  Alone(c)
<1>1. \/ UNCHANGED shifted
      \/ shifted' = [shifted EXCEPT ![c] = FALSE]
      \/ shifted' = [shifted EXCEPT ![c] = @ \/ (loaded /\ thread[c].out # <<>>)]
  BY DEF Begin, Goes, Grant, LoadSucceeds, LoadFails, InThread, GenerateBatch, GenerateRaises,
         DecodeNext, DecodeRaises, TryNext, TakeResults, TakeLastResults, NextBatch, Finish,
         Interrupt, Ends
<1>. QED  BY <1>1 DEF PlainOK, Alone

\* Every thread is typed and in line, and only a caller that holds the lock
\* to generate has one.
LEMMA ThreadsStaySound ==
    ASSUME PlainOK, LockOK, QueueOK, ThreadsSound, [Next]_vars
    PROVE  ThreadsSound'
<1>0. /\ pc \in [Callers -> Places] /\ queue \in Seq(Callers)
      /\ \A c \in Callers : pc[c] # "generating" => thread[c] = Idle
      /\ \A c \in Callers : pc[c] = "generating" => lock = c
  BY DEF LockOK, QueueOK, ThreadsSound, Quiet, Holding
<1>1. ASSUME NEW c \in Callers, NEW place \in Places,
             pc' = [pc EXCEPT ![c] = place], place # "generating",
             pc[c] # "generating", UNCHANGED thread, loaded' => loaded, Alone(c)
      PROVE  ThreadsSound'
  BY <1>0, <1>1, ThreadsStay DEF Alone
<1>2. ASSUME NEW c \in Callers, NEW place \in Places,
             pc' = [pc EXCEPT ![c] = place],
             thread' = [thread EXCEPT ![c] = Idle], loaded' => loaded, Alone(c)
      PROVE  ThreadsSound'
  <2>1. \A d \in Callers \ {c} : pc'[d] = pc[d]
    BY <1>0, <1>2
  <2>. QED  BY <1>2, <2>1, FreshThreads, ThreadMoves
<1>3. ASSUME NEW c \in Callers,
             pc' = [pc EXCEPT ![c] = "generating"],
             thread' = [thread EXCEPT ![c] = Submitted], loaded' => loaded, Alone(c)
      PROVE  ThreadsSound'
  <2>1. pc'[c] = "generating" /\ \A d \in Callers \ {c} : pc'[d] = pc[d]
    BY <1>0, <1>3
  <2>. QED  BY <1>3, <2>1, FreshThreads, ThreadMoves
<1>4. {"idle", "load", "loading", "turn", "storing", "summarized"} \subseteq Places
  BY DEF Places
<1>5. ASSUME NEW c \in Callers, Begin(c) PROVE ThreadsSound'
  <2>a. Alone(c)
    BY <1>5, StepsAlone
  <2>1. pc[c] = "idle" /\ loaded' = loaded
    BY <1>5 DEF Begin
  <2>2. CASE GoesOn(c, queue, "generating") /\ Submits(c)
    BY <1>0, <2>1, <2>2, <2>a, ThreadSubmitted
  <2>3. ASSUME NEW place \in {"load", "turn"}, Enqueue(c, place) PROVE ThreadsSound'
    BY <1>1, <2>a, <1>4, <2>1, <2>3 DEF Enqueue
  <2>4. CASE GoesOn(c, queue, "loading") /\ UNCHANGED thread
    <3>1. PICK place \in {"load", "loading"} : pc' = [pc EXCEPT ![c] = place]
      BY <2>4 DEF GoesOn
    <3>. QED  BY <1>1, <2>a, <1>4, <2>1, <2>4, <3>1
  <2>. QED  BY <1>5, <2>2, <2>3, <2>4 DEF Begin
<1>6. ASSUME NEW c \in Callers, Grant(c) PROVE ThreadsSound'
  <2>a. Alone(c)
    BY <1>6, StepsAlone DEF Goes
  <2>1. loaded' = loaded /\ Tail(queue) \in Seq(Callers)
    BY <1>0, <1>6, HeadTailProperties DEF Grant
  <2>2. CASE GoesOn(c, Tail(queue), "generating") /\ Submits(c)
    BY <2>1, <2>2, <2>a, ThreadSubmitted
  <2>3. CASE pc[c] = "load" /\ pc' = [pc EXCEPT ![c] = "loading"] /\ UNCHANGED thread
    BY <1>1, <2>a, <1>4, <2>1, <2>3
  <2>4. CASE lock' = c /\ pc' = [pc EXCEPT ![c] = "generating"] /\ Submits(c)
    BY <1>3, <2>a, <2>1, <2>4 DEF Submits
  <2>. QED  BY <1>6, <2>2, <2>3, <2>4 DEF Grant
<1>7. ASSUME NEW c \in Callers, LoadSucceeds(c) PROVE ThreadsSound'
  <2>a. Alone(c)
    BY <1>7, StepsAlone DEF Goes
  <2>1. lock = c /\ GoesOn(c, queue, "generating") /\ Submits(c)
    BY <1>7, InsideHolds DEF LoadSucceeds, Holding
  <2>2. \A d \in Callers \ {c} : thread[d] = Idle
    BY <1>0, <2>1
  <2>. QED  BY <1>0, <2>1, <2>2, <2>a, ThreadSubmitted
<1>8. ASSUME NEW c \in Callers, LoadFails(c) PROVE ThreadsSound'
  <2>a. Alone(c)
    BY <1>8, StepsAlone DEF Goes
  <2>1. pc[c] = "loading" /\ loaded' = loaded
    BY <1>8 DEF LoadFails
  <2>2. CASE GoesOn(c, queue, "generating") /\ Submits(c)
    BY <1>0, <2>1, <2>2, <2>a, ThreadSubmitted
  <2>3. ASSUME NEW place \in {"idle", "summarized"},
               pc' = [pc EXCEPT ![c] = place], UNCHANGED thread
        PROVE  ThreadsSound'
    BY <1>1, <2>a, <1>4, <2>1, <2>3
  <2>. QED  BY <1>8, <2>2, <2>3 DEF LoadFails
<1>9. ASSUME NEW c \in Callers, TakeResults(c) PROVE ThreadsSound'
  <2>a. Alone(c)
    BY <1>9, StepsAlone DEF Goes
  <2>1. pc[c] = "generating" /\ loaded' = loaded
    BY <1>9 DEF TakeResults, Runs
  <2>2. CASE pc' = [pc EXCEPT ![c] = "storing"] /\ thread' = [thread EXCEPT ![c] = Idle]
    BY <1>2, <2>a, <1>4, <2>1, <2>2
  <2>3. CASE thread' = [thread EXCEPT ![c] = Submitted] /\ UNCHANGED pc
    BY <2>1, <2>3, FreshThreads, <2>a, ThreadMoves
  <2>. QED  BY <1>9, <2>2, <2>3 DEF TakeResults
<1>10. ASSUME NEW c \in Callers, TakeLastResults(c) PROVE ThreadsSound'
  <2>a. Alone(c)
    BY <1>10, StepsAlone DEF Goes
  <2>1. thread' = [thread EXCEPT ![c] = Idle] /\ (loaded' => loaded)
    BY <1>10 DEF TakeLastResults, Unload
  <2>2. PICK place \in {"idle", "summarized"} : pc' = [pc EXCEPT ![c] = place]
    BY <1>10 DEF TakeLastResults
  <2>. QED  BY <1>2, <2>a, <1>4, <2>1, <2>2
<1>11. ASSUME NEW c \in Callers, NextBatch(c) PROVE ThreadsSound'
  <2>a. Alone(c)
    BY <1>11, StepsAlone DEF Goes
  <2>. QED BY <1>3, <2>a, <1>11 DEF NextBatch
<1>12. ASSUME NEW c \in Callers, Finish(c) PROVE ThreadsSound'
  <2>a. Alone(c)
    BY <1>12, StepsAlone DEF Goes
  <2>. QED BY <1>2, <2>a, <1>4, <1>12 DEF Finish, Ends, Unload
<1>13. ASSUME NEW c \in Callers, Interrupt(c) PROVE ThreadsSound'
  <2>a. Alone(c)
    BY <1>13, StepsAlone
  <2>. QED BY <1>2, <2>a, <1>4, <1>13 DEF Interrupt, Ends
<1>14. CASE UnloadModels
  BY <1>14, ThreadsStay DEF UnloadModels, Unload
<1>15. CASE UNCHANGED vars
  BY <1>15, ThreadsStay DEF vars
<1>. QED
  BY <1>5, <1>6, <1>7, <1>8, <1>9, <1>10, <1>11, <1>12, <1>13, <1>14, <1>15, InThreadSound
     DEF Next, Goes

-----------------------------------------------------------------------------
(* What the chunks receive.                                                *)

\* A thread that is done has an answer for every chunk of the batch, and none
\* is the answer for another chunk, unless decoding failed on the way.
LEMMA NothingOfOthers ==
    ASSUME ThreadsSound, NEW c \in Callers, Runs(c, "done")
    PROVE  /\ Received(c) \subseteq {"own", "other", "words"}
           /\ "other" \in Received(c) => shifted[c]
<1>1. /\ thread[c] \in Thread /\ Lined(thread[c], loaded, shifted[c])
      /\ thread[c].phase = "done"
  BY DEF ThreadsSound, ThreadsOK, ThreadsLined, Runs
<1>2. Size \in Nat /\ Len(thread[c].out) \in Nat /\ DOMAIN thread[c].out = 1..Len(thread[c].out)
  BY <1>1, OutIsSequence, SummarizerAssumption
<1>3. ~shifted[c] => \A i \in 1..Size : thread[c].out[i] \in {0, i}
  BY <1>1, <1>2 DEF Lined
<1>. QED  BY <1>3 DEF Received

\* The chunks receive summaries of known kinds, and one of another chunk only
\* where decoding failed.
LEMMA GivenSound ==
    ASSUME PlainOK, GivenOK, OwnSummaries, ThreadsSound, [Next]_vars
    PROVE  GivenOK' /\ OwnSummaries'
<1>1. ASSUME NEW c \in Callers, NEW more \in SUBSET {"own", "other", "words"},
             given' = [given EXCEPT ![c] = given[c] \cup more],
             "other" \in more => shifted[c], UNCHANGED shifted
      PROVE  GivenOK' /\ OwnSummaries'
  BY <1>1 DEF GivenOK, OwnSummaries
<1>2. ASSUME NEW c \in Callers, NEW all \in SUBSET {"own", "words"},
             given' = [given EXCEPT ![c] = all], Alone(c)
      PROVE  GivenOK' /\ OwnSummaries'
  BY <1>2 DEF GivenOK, OwnSummaries, Alone
<1>3. ASSUME UNCHANGED given, \A c \in Callers : shifted[c] => shifted'[c]
      PROVE  GivenOK' /\ OwnSummaries'
  BY <1>3 DEF GivenOK, OwnSummaries
<1>4. ASSUME NEW c \in Callers, Ends(c) PROVE GivenOK' /\ OwnSummaries'
  <2>1. Alone(c)
    BY <1>4 DEF Ends, PlainOK, Alone
  <2>. QED  BY <1>2, <1>4, <2>1 DEF Ends
<1>5. ASSUME NEW c \in Callers, Begin(c) PROVE GivenOK' /\ OwnSummaries'
  <2>1. Alone(c)
    BY <1>5, StepsAlone
  <2>. QED  BY <1>2, <1>5, <2>1 DEF Begin
<1>6. ASSUME NEW c \in Callers, LoadFails(c) PROVE GivenOK' /\ OwnSummaries'
  <2>1. UNCHANGED shifted
    BY <1>6 DEF LoadFails
  <2>. QED  BY <1>2, <1>3, <1>6, <2>1 DEF LoadFails, Alone
<1>7. ASSUME NEW c \in Callers, TakeResults(c) \/ TakeLastResults(c)
      PROVE  GivenOK' /\ OwnSummaries'
  <2>1. /\ Runs(c, "done") /\ given' = [given EXCEPT ![c] = given[c] \cup Received(c)]
        /\ UNCHANGED shifted
    BY <1>7 DEF TakeResults, TakeLastResults
  <2>. QED  BY <1>1, <2>1, NothingOfOthers
<1>8. ASSUME NEW c \in Callers,
             Grant(c) \/ LoadSucceeds(c) \/ InThread(c) \/ NextBatch(c)
      PROVE  UNCHANGED given /\ \A d \in Callers : shifted[d] => shifted'[d]
  <2>1. UNCHANGED given
    BY <1>8 DEF Grant, LoadSucceeds, InThread, GenerateBatch, GenerateRaises, DecodeNext,
                DecodeRaises, TryNext, Becomes, NextBatch
  <2>2. \/ UNCHANGED shifted
        \/ shifted' = [shifted EXCEPT ![c] = @ \/ (loaded /\ thread[c].out # <<>>)]
    BY <1>8 DEF Grant, LoadSucceeds, InThread, GenerateBatch, GenerateRaises, DecodeNext,
                DecodeRaises, TryNext, NextBatch
  <2>. QED  BY <2>1, <2>2 DEF PlainOK
<1>9. CASE UnloadModels
  BY <1>3, <1>9 DEF UnloadModels
<1>10. CASE UNCHANGED vars
  BY <1>3, <1>10 DEF vars
<1>. QED
  BY <1>3, <1>4, <1>5, <1>6, <1>7, <1>8, <1>9, <1>10 DEF Next, Goes, Finish, Interrupt

-----------------------------------------------------------------------------
(* The theorems.                                                           *)

\* Everything at the start is in order.
LEMMA InitSound ==
    ASSUME Init
    PROVE  Sound
<1>1. /\ Batches \in Nat \ {0} /\ Nobody \notin Callers
      /\ Idle \in Thread /\ \A c \in Callers : Lined(Idle, loaded, shifted[c])
  BY SummarizerAssumption, FreshThreads
<1>2. PlainOK
  <2>1. PICK k \in Kinds : kind = [c \in Callers |-> k]
    BY DEF Init
  <2>2. kind \in [Callers -> Kinds]
    BY <2>1
  <2>3. 1 \in 1..Batches
    BY <1>1
  <2>. QED  BY <2>2, <2>3 DEF Init, PlainOK
<1>3. LockOK
  BY <1>1 DEF Init, LockOK, Places, Holding
<1>4. QueueOK /\ GivenOK /\ OwnSummaries
  BY DEF Init, QueueOK, GivenOK, OwnSummaries
<1>5. ThreadsOK /\ Quiet /\ ThreadsLined
  BY <1>1 DEF Init, ThreadsOK, Quiet, ThreadsLined
<1>. QED  BY <1>2, <1>3, <1>4, <1>5, TypeParts DEF Sound

\* Every step keeps it in order.
LEMMA NextSound ==
    ASSUME Sound, [Next]_vars
    PROVE  Sound'
<1>1. PlainOK /\ LockOK /\ QueueOK /\ ThreadsSound /\ GivenOK /\ OwnSummaries
  BY TypeParts DEF Sound, ThreadsSound
<1>2. PlainOK'
  BY <1>1, PlainTyped
<1>3. LockOK' /\ QueueOK'
  BY <1>1, LockTyped
<1>4. ThreadsSound'
  BY <1>1, ThreadsStaySound
<1>5. GivenOK' /\ OwnSummaries'
  BY <1>1, GivenSound
<1>6. ThreadsOK' /\ Quiet' /\ ThreadsLined'
  BY <1>4 DEF ThreadsSound
<1>7. TypeOK'
  BY <1>2, <1>3, <1>5, <1>6 DEF TypeOK, PlainOK, LockOK, QueueOK, ThreadsOK, GivenOK
<1>. QED  BY <1>5, <1>6, <1>7 DEF Sound

\* The types, the lock and the line of the results hold throughout.
LEMMA AlwaysSound == Spec => []Sound
<1>1. Init => Sound
  BY InitSound
<1>2. Sound /\ [Next]_vars => Sound'
  BY NextSound
<1>. QED  BY <1>1, <1>2, PTL DEF Spec

\* The variables stay in their ranges, and the lock is held by the caller that
\* is inside _load_lock and by no other, through cancellations and failures.
THEOREM TypeCorrect == Spec => []TypeOK
<1>1. Sound => TypeOK
  BY DEF Sound
<1>. QED  BY <1>1, AlwaysSound, PTL

\* A chunk receives the summary of another chunk only when decoding failed
\* part of the way through its batch with the model in memory: wherever
\* unload() takes the model away from _generate_batch_sync, no result shifts.
THEOREM OwnSummariesHolds == Spec => []OwnSummaries
<1>1. Sound => OwnSummaries
  BY DEF Sound
<1>. QED  BY <1>1, AlwaysSound, PTL

-----------------------------------------------------------------------------
(* Who drops the model, and who suffers from it.                           *)

\* A caller that loads does so because there is no model.
LoadingNeeded == \A c \in Callers : pc[c] = "loading" => ~loaded

\* The inductive invariant of ModelIsDropped.
Dropped == Sound /\ LoadingNeeded /\ ModelIsDropped

\* Asking for the lock leads to another place than "idle", and to "loading"
\* only when that was asked for.
LEMMA GoesOnPlaces ==
    ASSUME LockOK, NEW c \in Callers, NEW others, NEW place \in {"loading", "generating"},
           GoesOn(c, others, place)
    PROVE  /\ pc'[c] # "idle"
           /\ pc'[c] = "loading" => place = "loading"
           /\ \A d \in Callers \ {c} : pc'[d] = pc[d]
  BY DEF GoesOn, LockOK

\* The model is loaded for someone, and whoever ends drops it.
LEMMA NextDropped ==
    ASSUME Dropped, [Next]_vars
    PROVE  LoadingNeeded' /\ ModelIsDropped'
<1>0. LockOK /\ LoadingNeeded /\ ModelIsDropped
  BY TypeParts DEF Dropped, Sound
<1>1. CASE ~loaded'
  BY <1>1 DEF LoadingNeeded, ModelIsDropped
<1>2. ASSUME NEW c \in Callers, loaded' => loaded,
             pc'[c] # "idle", pc'[c] = "loading" => pc[c] = "loading" \/ ~loaded,
             \A d \in Callers \ {c} : pc'[d] = pc[d]
      PROVE  LoadingNeeded' /\ ModelIsDropped'
  BY <1>0, <1>2 DEF LoadingNeeded, ModelIsDropped
<1>3. ASSUME NEW c \in Callers, Begin(c) PROVE LoadingNeeded' /\ ModelIsDropped'
  <2>1. loaded' = loaded
    BY <1>3 DEF Begin
  <2>2. CASE loaded /\ GoesOn(c, queue, "generating")
    BY <1>0, <1>2, <2>1, <2>2, GoesOnPlaces
  <2>3. CASE Enqueue(c, "turn") \/ Enqueue(c, "load")
    BY <1>0, <1>2, <2>1, <2>3 DEF Enqueue, LockOK
  <2>4. CASE ~loaded
    BY <1>1, <2>1, <2>4
  <2>. QED  BY <1>3, <2>2, <2>3, <2>4 DEF Begin
<1>4. ASSUME NEW c \in Callers, Grant(c) PROVE LoadingNeeded' /\ ModelIsDropped'
  <2>1. loaded' = loaded
    BY <1>4 DEF Grant
  <2>2. CASE GoesOn(c, Tail(queue), "generating")
    BY <1>0, <1>2, <2>1, <2>2, GoesOnPlaces
  <2>3. CASE ~loaded
    BY <1>1, <2>1, <2>3
  <2>4. CASE pc' = [pc EXCEPT ![c] = "generating"]
    BY <1>0, <1>2, <2>1, <2>4 DEF LockOK
  <2>. QED  BY <1>4, <2>2, <2>3, <2>4 DEF Grant
<1>5. ASSUME NEW c \in Callers, LoadSucceeds(c) PROVE LoadingNeeded' /\ ModelIsDropped'
  <2>1. lock = c /\ GoesOn(c, queue, "generating")
    BY <1>0, <1>5, InsideHolds DEF LoadSucceeds, Holding
  <2>2. /\ pc'[c] # "idle" /\ pc'[c] # "loading"
        /\ \A d \in Callers \ {c} : pc'[d] = pc[d]
    BY <1>0, <2>1, GoesOnPlaces
  <2>3. \A d \in Callers \ {c} : pc[d] # "loading"
    BY <1>0, <2>1, InsideHolds DEF Holding
  <2>. QED  BY <2>2, <2>3 DEF LoadingNeeded, ModelIsDropped
<1>6. ASSUME NEW c \in Callers, LoadFails(c) PROVE ~loaded'
  BY <1>0, <1>6 DEF LoadFails, LoadingNeeded
<1>7. ASSUME NEW c \in Callers, InThread(c) PROVE LoadingNeeded' /\ ModelIsDropped'
  BY <1>0, <1>7 DEF InThread, GenerateBatch, GenerateRaises, DecodeNext, DecodeRaises,
                    TryNext, Becomes, LoadingNeeded, ModelIsDropped
<1>8. ASSUME NEW c \in Callers, TakeResults(c) \/ NextBatch(c)
      PROVE  LoadingNeeded' /\ ModelIsDropped'
  <2>1. loaded' = loaded /\ pc[c] # "idle"
    BY <1>8 DEF TakeResults, Runs, NextBatch
  <2>2. \/ pc' = pc
        \/ pc' = [pc EXCEPT ![c] = "storing"]
        \/ pc' = [pc EXCEPT ![c] = "generating"]
    BY <1>8 DEF TakeResults, NextBatch
  <2>. QED  BY <1>0, <1>2, <2>1, <2>2 DEF LockOK
<1>9. ASSUME NEW c \in Callers, TakeLastResults(c) PROVE LoadingNeeded' /\ ModelIsDropped'
  <2>1. CASE Unload(Spoils(c))
    BY <1>1, <2>1 DEF Unload
  <2>2. CASE loaded' = loaded /\ pc' = [pc EXCEPT ![c] = "summarized"]
    BY <1>0, <1>2, <2>2 DEF LockOK
  <2>. QED  BY <1>9, <2>1, <2>2 DEF TakeLastResults
<1>10. ASSUME NEW c \in Callers, Finish(c) PROVE ~loaded'
  BY <1>10 DEF Finish, Unload
<1>11. ASSUME NEW c \in Callers, Interrupt(c) PROVE LoadingNeeded' /\ ModelIsDropped'
  <2>1. loaded' = loaded /\ cut' = (cut \/ loaded) /\ pc' = [pc EXCEPT ![c] = "idle"]
    BY <1>11 DEF Interrupt, Ends
  <2>. QED  BY <1>0, <2>1 DEF LoadingNeeded, ModelIsDropped, LockOK
<1>12. CASE UnloadModels
  BY <1>1, <1>12 DEF UnloadModels, Unload
<1>13. CASE UNCHANGED vars
  BY <1>0, <1>13 DEF vars, LoadingNeeded, ModelIsDropped
<1>. QED
  BY <1>1, <1>3, <1>4, <1>5, <1>6, <1>7, <1>8, <1>9, <1>10, <1>11, <1>12, <1>13 DEF Next, Goes

\* When no ingestion is under way the model is not in memory, unless one was
\* cut short since it was last dropped.
THEOREM ModelIsDroppedHolds == Spec => []ModelIsDropped
<1>1. Init => Dropped
  BY InitSound DEF Init, Dropped, LoadingNeeded, ModelIsDropped
<1>2. Dropped /\ [Next]_vars => Dropped'
  BY NextSound, NextDropped DEF Dropped
<1>3. Dropped => ModelIsDropped
  BY DEF Dropped
<1>. QED  BY <1>1, <1>2, <1>3, PTL DEF Spec

\* A thread that has a blank among its results.
Blank(t) == \E i \in DOMAIN t.out : t.out[i] = 0

\* A caller past _ensure_model_loaded that has no model, or got a blank, was
\* disturbed.
Blamed(c) ==
    /\ pc[c] \in {"turn", "generating", "storing"} /\ ~loaded => spoiled[c]
    /\ Blank(thread[c]) => spoiled[c]
    /\ "words" \in given[c] => spoiled[c]

\* The inductive invariant of WordsOnlyIfSpoiled.
AllBlamed == \A c \in Callers : Blamed(c)

\* New threads have no results, and an appended result is the only new one.
LEMMA Blanks ==
    /\ ~Blank(Idle) /\ ~Blank(Submitted)
    /\ \A phase, tried : ~Blank([phase |-> phase, tried |-> tried, out |-> <<>>])
    /\ \A t \in Thread, e \in 0..Size : \A phase, tried :
         Blank([phase |-> phase, tried |-> tried, out |-> Append(t.out, e)])
           => Blank(t) \/ e = 0
<1>1. ~Blank(Idle) /\ ~Blank(Submitted)
  BY DEF Blank, Idle, Submitted
<1>2. ASSUME NEW phase, NEW tried
      PROVE  ~Blank([phase |-> phase, tried |-> tried, out |-> <<>>])
  BY DEF Blank
<1>3. ASSUME NEW t \in Thread, NEW e \in 0..Size, NEW phase, NEW tried,
             Blank([phase |-> phase, tried |-> tried, out |-> Append(t.out, e)])
      PROVE  Blank(t) \/ e = 0
  <2>1. t.out \in Seq(0..Size) /\ Len(t.out) \in Nat /\ DOMAIN t.out = 1..Len(t.out)
    BY OutIsSequence
  <2>2. PICK i \in DOMAIN Append(t.out, e) : Append(t.out, e)[i] = 0
    BY <1>3 DEF Blank
  <2>3. i \in 1..(Len(t.out) + 1)
    BY <2>1, <2>2
  <2>4. CASE i = Len(t.out) + 1
    BY <2>1, <2>2, <2>4
  <2>5. CASE i \in 1..Len(t.out)
    <3>1. t.out[i] = 0
      BY <2>1, <2>2, <2>5
    <3>. QED  BY <2>1, <2>5, <3>1 DEF Blank
  <2>. QED  BY <2>1, <2>3, <2>4, <2>5
<1>. QED  BY <1>1, <1>2, <1>3

\* The first words are received for a blank only.
LEMMA WordsForBlanks ==
    ASSUME ThreadsSound, NEW c \in Callers, Runs(c, "done"), "words" \in Received(c)
    PROVE  Blank(thread[c])
<1>1. /\ thread[c] \in Thread /\ Lined(thread[c], loaded, shifted[c])
      /\ thread[c].phase = "done"
  BY DEF ThreadsSound, ThreadsOK, ThreadsLined, Runs
<1>2. Size \in Nat /\ Len(thread[c].out) \in Nat /\ DOMAIN thread[c].out = 1..Len(thread[c].out)
      /\ Len(thread[c].out) >= Size
  BY <1>1, OutIsSequence, SummarizerAssumption DEF Lined
<1>3. PICK i \in 1..Size : thread[c].out[i] = 0
  BY DEF Received
<1>. QED  BY <1>2, <1>3 DEF Blank

\* A caller that a step does not touch stays blamed, if the model's going is
\* noted.
LEMMA OthersBlamed ==
    ASSUME NEW d \in Callers, Blamed(d), pc'[d] = pc[d], thread'[d] = thread[d],
           given'[d] = given[d], spoiled[d] => spoiled'[d],
           ~loaded' => \/ ~loaded \/ spoiled'[d]
                       \/ pc[d] \notin {"turn", "generating", "storing"}
    PROVE  Blamed(d)'
  BY DEF Blamed, Blank

\* unload() is noted for every caller but the one that calls it.
LEMMA UnloadBlamed ==
    ASSUME PlainOK, NEW done, NEW d \in Callers, d # done
    PROVE  /\ spoiled[d] => Spoils(done)[d]
           /\ loaded /\ pc[d] \in {"turn", "generating", "storing"} => Spoils(done)[d]
  BY SpoilsTyped

\* Nor does unload() clear what was noted.
LEMMA UnloadKeepsBlame ==
    ASSUME PlainOK, NEW done, NEW d \in Callers
    PROVE  spoiled[d] => Spoils(done)[d]
  BY SpoilsTyped

\* The thread a caller gets, or not, has no results.
LEMMA SubmitsFresh ==
    ASSUME ThreadsOK, NEW c \in Callers, Submits(c)
    PROVE  /\ ~Blank(thread'[c])
           /\ \A d \in Callers \ {c} : thread'[d] = thread[d]
<1>1. thread' = [thread EXCEPT ![c] = Submitted] \/ thread' = [thread EXCEPT ![c] = Idle]
  BY DEF Submits
<1>2. thread'[c] \in {Submitted, Idle} /\ \A d \in Callers \ {c} : thread'[d] = thread[d]
  BY <1>1 DEF ThreadsOK
<1>. QED  BY <1>2, Blanks

\* A step of the caller c that is fine for c and leaves the others alone.
LEMMA BlamedAlone ==
    ASSUME AllBlamed, NEW c \in Callers, Blamed(c)', loaded => loaded',
           \A d \in Callers \ {c} :
             /\ pc'[d] = pc[d] /\ thread'[d] = thread[d]
             /\ given'[d] = given[d] /\ spoiled'[d] = spoiled[d]
    PROVE  AllBlamed'
<1>1. ASSUME NEW d \in Callers, d # c PROVE Blamed(d)'
  BY <1>1, OthersBlamed DEF AllBlamed
<1>. QED  BY <1>1 DEF AllBlamed

\* What a thread does is noted where it matters.
LEMMA InThreadBlamed ==
    ASSUME PlainOK, ThreadsSound, AllBlamed, NEW c \in Callers, InThread(c)
    PROVE  AllBlamed'
<1>1. /\ pc[c] = "generating" /\ thread[c] \in Thread /\ 0 \in 0..Size /\ Size \in Nat
      /\ spoiled \in [Callers -> BOOLEAN] /\ thread \in [Callers -> Thread]
      /\ Lined(thread[c], loaded, shifted[c])
  BY SummarizerAssumption
     DEF ThreadsSound, ThreadsOK, ThreadsLined, PlainOK, InThread, GenerateBatch,
         GenerateRaises, DecodeNext, DecodeRaises, TryNext, Runs
<1>2. /\ ~loaded => spoiled[c]
      /\ Blank(thread[c]) => spoiled[c]
      /\ "words" \in given[c] => spoiled[c]
  BY <1>1 DEF AllBlamed, Blamed
<1>3. PICK phase, tried, out : Becomes(c, phase, tried, out)
  BY DEF InThread, GenerateBatch, GenerateRaises, DecodeNext, DecodeRaises, TryNext
<1>. DEFINE t == [phase |-> phase, tried |-> tried, out |-> out]
<1>4. /\ UNCHANGED <<loaded, pc, given>> /\ thread' = [thread EXCEPT ![c] = t]
  BY <1>3 DEF Becomes
<1>. HIDE DEF t
<1>5. thread'[c] = t /\ \A d \in Callers \ {c} : thread'[d] = thread[d]
  BY <1>1, <1>4
<1>6. /\ spoiled[c] => spoiled'[c]
      /\ \A d \in Callers \ {c} : spoiled'[d] = spoiled[d]
  <2>1. UNCHANGED spoiled \/ spoiled' = [spoiled EXCEPT ![c] = @ \/ loaded]
    BY DEF InThread, GenerateBatch, GenerateRaises, DecodeNext, DecodeRaises, TryNext
  <2>. QED  BY <1>1, <2>1
<1>7. Blank(t) => Blank(thread[c]) \/ spoiled'[c]
  <2>1. CASE GenerateBatch(c) \/ GenerateRaises(c)
    <3>1. ~Blank(thread'[c])
      <4>1. PICK p : thread' = [thread EXCEPT ![c] = [phase |-> p, tried |-> 0, out |-> <<>>]]
        BY <2>1 DEF GenerateBatch, GenerateRaises, Becomes
      <4>2. thread'[c] = [phase |-> p, tried |-> 0, out |-> <<>>]
        BY <1>1, <4>1
      <4>. QED  BY <4>2, Blanks
    <3>. QED  BY <1>5, <3>1
  <2>2. CASE DecodeNext(c)
    <3>1. Len(thread[c].out) \in Nat /\ Len(thread[c].out) + 1 \in 0..Size
      BY <1>1, <2>2, OutIsSequence DEF Lined, DecodeNext, Runs
    <3>2. PICK p : thread' = [thread EXCEPT ![c] =
                     [phase |-> p, tried |-> 0, out |-> Append(thread[c].out, Len(thread[c].out) + 1)]]
      BY <2>2 DEF DecodeNext, Becomes
    <3>3. t = [phase |-> p, tried |-> 0, out |-> Append(thread[c].out, Len(thread[c].out) + 1)]
      BY <1>1, <1>5, <3>2
    <3>4. Len(thread[c].out) + 1 # 0
      BY <3>1
    <3>. QED  BY <1>1, <3>1, <3>3, <3>4, Blanks
  <2>3. CASE DecodeRaises(c)
    <3>1. thread' = [thread EXCEPT ![c] =
             [phase |-> "sequential", tried |-> 0, out |-> thread[c].out]]
      BY <2>3 DEF DecodeRaises, Becomes
    <3>2. t.out = thread[c].out
      BY <1>1, <1>5, <3>1
    <3>. QED  BY <3>2 DEF Blank
  <2>4. CASE TryNext(c)
    <3>1. thread[c].tried + 1 \in 0..Size /\ thread[c].tried + 1 # 0
      BY <1>1, <2>4, OutIsSequence DEF Lined, TryNext, Runs
    <3>. DEFINE now == thread[c].tried + 1
                p == IF now = Size THEN "done" ELSE "sequential"
    <3>2. PICK e \in {0, now} :
            /\ Becomes(c, p, now, Append(thread[c].out, e))
            /\ e = now \/ spoiled' = [spoiled EXCEPT ![c] = @ \/ loaded]
      BY <2>4 DEF TryNext
    <3>3. t = [phase |-> p, tried |-> now, out |-> Append(thread[c].out, e)]
      <4>1. thread' = [thread EXCEPT ![c] =
                         [phase |-> p, tried |-> now, out |-> Append(thread[c].out, e)]]
        BY <3>2 DEF Becomes
      <4>. HIDE DEF p, now
      <4>. QED  BY <1>1, <1>5, <4>1
    <3>4. e \in 0..Size
      BY <1>1, <3>1, <3>2
    <3>5. e = 0 => spoiled'[c] \/ Blank(thread[c])
      BY <1>1, <1>2, <3>1, <3>2
    <3>. HIDE DEF p, now
    <3>. QED  BY <1>1, <3>3, <3>4, <3>5, Blanks
  <2>. QED  BY <2>1, <2>2, <2>3, <2>4 DEF InThread
<1>8. Blamed(c)'
  BY <1>2, <1>4, <1>5, <1>6, <1>7 DEF Blamed
<1>. QED  BY <1>4, <1>5, <1>6, <1>8, BlamedAlone

\* A step of one caller's that drops the model is fine for the others.
LEMMA UnloadBlamedAll ==
    ASSUME PlainOK, AllBlamed, NEW c \in Callers, Blamed(c)', ~loaded',
           \A d \in Callers \ {c} : spoiled'[d] = Spoils(c)[d],
           \A d \in Callers \ {c} :
             pc'[d] = pc[d] /\ thread'[d] = thread[d] /\ given'[d] = given[d]
    PROVE  AllBlamed'
<1>1. ASSUME NEW d \in Callers, d # c PROVE Blamed(d)'
  <2>1. /\ spoiled[d] => spoiled'[d]
        /\ loaded /\ pc[d] \in {"turn", "generating", "storing"} => spoiled'[d]
    BY <1>1, UnloadBlamed
  <2>. QED  BY <1>1, <2>1, OthersBlamed DEF AllBlamed
<1>. QED  BY <1>1 DEF AllBlamed

\* A variable that a step leaves alone, as one that the caller c changes.
LEMMA SameOwn ==
    ASSUME LockOK, NEW c \in Callers
    PROVE  pc = [pc EXCEPT ![c] = pc[c]]
  BY DEF LockOK

\* The results of a batch are words only where there is someone to blame.
LEMMA ReceivedBlamed ==
    ASSUME Sound, AllBlamed, NEW c \in Callers, Runs(c, "done")
    PROVE  "words" \in given[c] \cup Received(c) => spoiled[c]
<1>1. ThreadsSound
  BY TypeParts DEF Sound, ThreadsSound
<1>. QED  BY <1>1, WordsForBlanks DEF AllBlamed, Blamed

\* Every step notes what it does to the callers that count on the model.
LEMMA NextBlamed ==
    ASSUME Sound, AllBlamed, [Next]_vars
    PROVE  AllBlamed'
<1>0. /\ PlainOK /\ LockOK /\ ThreadsOK /\ GivenOK /\ ThreadsSound /\ Quiet
  BY TypeParts DEF Sound, ThreadsSound
<1>1. ASSUME NEW c \in Callers, Begin(c) PROVE AllBlamed'
  <2>1. /\ pc[c] = "idle" /\ loaded' = loaded
        /\ given' = [given EXCEPT ![c] = {}] /\ spoiled' = [spoiled EXCEPT ![c] = FALSE]
    BY <1>1 DEF Begin
  <2>2. /\ given'[c] = {}
        /\ \A d \in Callers \ {c} : given'[d] = given[d] /\ spoiled'[d] = spoiled[d]
    BY <1>0, <2>1 DEF PlainOK, GivenOK
  <2>3. thread[c] = Idle
    BY <1>0, <2>1 DEF Quiet
  <2>4. ~Blank(thread'[c]) /\ \A d \in Callers \ {c} : thread'[d] = thread[d]
    BY <1>0, <1>1, <2>3, SubmitsFresh, Blanks DEF Begin, Enqueue
  <2>5. /\ \A d \in Callers \ {c} : pc'[d] = pc[d]
        /\ loaded \/ pc'[c] \in {"load", "loading"}
    BY <1>0, <1>1 DEF Begin, Enqueue, GoesOn, LockOK
  <2>6. Blamed(c)'
    BY <2>1, <2>2, <2>4, <2>5 DEF Blamed
  <2>. QED  BY <2>1, <2>2, <2>4, <2>5, <2>6, BlamedAlone
<1>2. ASSUME NEW c \in Callers, Grant(c) PROVE AllBlamed'
  <2>1. UNCHANGED <<loaded, given, spoiled>>
    BY <1>2 DEF Grant
  <2>2. \A d \in Callers \ {c} : pc'[d] = pc[d]
    BY <1>0, <1>2 DEF Grant, GoesOn, LockOK
  <2>3. loaded \/ pc[c] = "turn" \/ pc'[c] = "loading"
    BY <1>0, <1>2 DEF Grant, LockOK
  <2>4. /\ ~Blank(thread'[c]) \/ thread'[c] = thread[c]
        /\ \A d \in Callers \ {c} : thread'[d] = thread[d]
    BY <1>0, <1>2, SubmitsFresh DEF Grant
  <2>5. Blamed(c)'
    BY <2>1, <2>3, <2>4 DEF AllBlamed, Blamed
  <2>. QED  BY <2>1, <2>2, <2>4, <2>5, BlamedAlone
<1>3. ASSUME NEW c \in Callers, LoadSucceeds(c) PROVE AllBlamed'
  <2>1. loaded' /\ UNCHANGED <<given, spoiled>> /\ Submits(c)
    BY <1>3 DEF LoadSucceeds
  <2>2. \A d \in Callers \ {c} : pc'[d] = pc[d]
    BY <1>0, <1>3 DEF LoadSucceeds, GoesOn, LockOK
  <2>3. ~Blank(thread'[c]) /\ \A d \in Callers \ {c} : thread'[d] = thread[d]
    BY <1>0, <2>1, SubmitsFresh
  <2>4. Blamed(c)'
    BY <2>1, <2>3 DEF AllBlamed, Blamed
  <2>. QED  BY <2>1, <2>2, <2>3, <2>4, BlamedAlone
<1>4. ASSUME NEW c \in Callers, LoadFails(c) PROVE AllBlamed'
  <2>1. loaded' = loaded /\ spoiled' = [spoiled EXCEPT ![c] = TRUE]
    BY <1>4 DEF LoadFails
  <2>2. spoiled'[c] /\ \A d \in Callers \ {c} : spoiled'[d] = spoiled[d]
    BY <1>0, <2>1 DEF PlainOK
  <2>3. \A d \in Callers \ {c} : pc'[d] = pc[d] /\ given'[d] = given[d]
    BY <1>0, <1>4 DEF LoadFails, GoesOn, LockOK, GivenOK
  <2>4. \A d \in Callers \ {c} : thread'[d] = thread[d]
    BY <1>0, <1>4, SubmitsFresh DEF LoadFails
  <2>5. Blamed(c)'
    BY <2>2 DEF Blamed
  <2>. QED  BY <2>1, <2>2, <2>3, <2>4, <2>5, BlamedAlone
<1>5. ASSUME NEW c \in Callers, TakeResults(c) PROVE AllBlamed'
  <2>1. Runs(c, "done") /\ UNCHANGED <<loaded, spoiled>>
        /\ given' = [given EXCEPT ![c] = given[c] \cup Received(c)]
    BY <1>5 DEF TakeResults
  <2>2. PICK p \in Places, t \in {Idle, Submitted} :
          pc' = [pc EXCEPT ![c] = p] /\ thread' = [thread EXCEPT ![c] = t]
    <3>1. CASE kind[c] = "stream"
      BY <1>5, <3>1 DEF TakeResults, Places
    <3>2. CASE kind[c] # "stream"
      <4>1. pc' = pc /\ thread' = [thread EXCEPT ![c] = Submitted]
        BY <1>5, <3>2 DEF TakeResults
      <4>2. pc[c] \in Places
        BY <1>0 DEF LockOK
      <4>. QED  BY <1>0, <4>1, <4>2, SameOwn
    <3>. QED  BY <3>1, <3>2
  <2>3. pc[c] = "generating" /\ ("words" \in given[c] \cup Received(c) => spoiled[c])
    BY <2>1, ReceivedBlamed DEF Runs
  <2>4. /\ thread'[c] = t /\ given'[c] = given[c] \cup Received(c)
        /\ \A d \in Callers \ {c} : /\ pc'[d] = pc[d] /\ thread'[d] = thread[d]
                                   /\ given'[d] = given[d]
    BY <1>0, <2>1, <2>2 DEF LockOK, ThreadsOK, GivenOK
  <2>5. Blamed(c)'
    BY <2>1, <2>3, <2>4, Blanks DEF AllBlamed, Blamed
  <2>. QED  BY <2>1, <2>4, <2>5, BlamedAlone
<1>6. ASSUME NEW c \in Callers, TakeLastResults(c) PROVE AllBlamed'
  <2>1. Runs(c, "done") /\ thread' = [thread EXCEPT ![c] = Idle]
        /\ given' = [given EXCEPT ![c] = given[c] \cup Received(c)]
    BY <1>6 DEF TakeLastResults
  <2>2. PICK p \in {"idle", "summarized"} : pc' = [pc EXCEPT ![c] = p]
    BY <1>6 DEF TakeLastResults
  <2>3. "words" \in given[c] \cup Received(c) => spoiled[c]
    BY <2>1, ReceivedBlamed
  <2>4. /\ pc'[c] = p /\ thread'[c] = Idle /\ given'[c] = given[c] \cup Received(c)
        /\ \A d \in Callers \ {c} : /\ pc'[d] = pc[d] /\ thread'[d] = thread[d]
                                   /\ given'[d] = given[d]
    BY <1>0, <2>1, <2>2 DEF LockOK, ThreadsOK, GivenOK
  <2>5. CASE Unload(Spoils(c))
    <3>1. ~loaded' /\ spoiled' = Spoils(c) /\ (spoiled[c] => spoiled'[c])
      BY <1>0, <2>5, UnloadKeepsBlame DEF Unload
    <3>2. Blamed(c)'
      BY <2>2, <2>3, <2>4, <3>1, Blanks DEF Blamed
    <3>. QED  BY <1>0, <2>4, <3>1, <3>2, UnloadBlamedAll
  <2>6. CASE UNCHANGED <<loaded, spoiled>>
    <3>1. Blamed(c)'
      BY <2>2, <2>3, <2>4, <2>6, Blanks DEF Blamed
    <3>. QED  BY <2>4, <2>6, <3>1, BlamedAlone
  <2>. QED  BY <1>6, <2>5, <2>6 DEF TakeLastResults
<1>7. ASSUME NEW c \in Callers, NextBatch(c) PROVE AllBlamed'
  <2>1. /\ pc[c] = "storing" /\ UNCHANGED <<loaded, given, spoiled>>
        /\ pc' = [pc EXCEPT ![c] = "generating"] /\ thread' = [thread EXCEPT ![c] = Submitted]
    BY <1>7 DEF NextBatch
  <2>2. /\ thread'[c] = Submitted
        /\ \A d \in Callers \ {c} : pc'[d] = pc[d] /\ thread'[d] = thread[d]
    BY <1>0, <2>1 DEF LockOK, ThreadsOK
  <2>3. Blamed(c)'
    BY <2>1, <2>2, Blanks DEF AllBlamed, Blamed
  <2>. QED  BY <2>1, <2>2, <2>3, BlamedAlone
<1>8. ASSUME NEW c \in Callers, Ends(c)
      PROVE  /\ pc'[c] = "idle" /\ given'[c] = {} /\ ~Blank(thread'[c])
             /\ \A d \in Callers \ {c} : /\ pc'[d] = pc[d] /\ thread'[d] = thread[d]
                                        /\ given'[d] = given[d]
  <2>1. /\ pc' = [pc EXCEPT ![c] = "idle"] /\ given' = [given EXCEPT ![c] = {}]
        /\ thread' = [thread EXCEPT ![c] = Idle]
    BY <1>8 DEF Ends
  <2>2. thread'[c] = Idle
    BY <1>0, <2>1 DEF ThreadsOK
  <2>. QED  BY <1>0, <2>1, <2>2, Blanks DEF LockOK, ThreadsOK, GivenOK
<1>9. ASSUME NEW c \in Callers, Finish(c) PROVE AllBlamed'
  <2>1. Ends(c) /\ ~loaded' /\ spoiled' = [Spoils(c) EXCEPT ![c] = FALSE]
    BY <1>9 DEF Finish, Unload
  <2>2. Blamed(c)'
    BY <1>8, <2>1 DEF Blamed
  <2>3. \A d \in Callers \ {c} : spoiled'[d] = Spoils(c)[d]
    BY <1>0, <2>1, SpoilsTyped
  <2>. QED  BY <1>0, <1>8, <2>1, <2>2, <2>3, UnloadBlamedAll
<1>10. ASSUME NEW c \in Callers, Interrupt(c) PROVE AllBlamed'
  <2>1. Ends(c) /\ UNCHANGED loaded /\ spoiled' = [spoiled EXCEPT ![c] = FALSE]
    BY <1>10 DEF Interrupt
  <2>2. Blamed(c)'
    BY <1>8, <2>1 DEF Blamed
  <2>3. \A d \in Callers \ {c} : spoiled'[d] = spoiled[d]
    BY <1>0, <2>1 DEF PlainOK
  <2>. QED  BY <1>8, <2>1, <2>2, <2>3, BlamedAlone
<1>11. CASE UnloadModels
  <2>1. spoiled' = Spoils(Nobody) /\ UNCHANGED <<pc, thread, given>>
    BY <1>11 DEF UnloadModels, Unload
  <2>2. ASSUME NEW d \in Callers PROVE Blamed(d)'
    <3>1. /\ spoiled[d] => spoiled'[d]
          /\ loaded /\ pc[d] \in {"turn", "generating", "storing"} => spoiled'[d]
      BY <1>0, <2>1, UnloadBlamed, SummarizerAssumption
    <3>. QED  BY <2>1, <3>1, OthersBlamed DEF AllBlamed
  <2>. QED  BY <2>2 DEF AllBlamed
<1>12. CASE UNCHANGED vars
  BY <1>12 DEF vars, AllBlamed, Blamed, Blank
<1>. QED
  BY <1>0, <1>1, <1>2, <1>3, <1>4, <1>5, <1>6, <1>7, <1>9, <1>10, <1>11, <1>12, InThreadBlamed
     DEF Next, Goes

\* A chunk holds its own first words in place of a summary only if, after the
\* caller had found or loaded the model, somebody dropped it, or loading or
\* the prompt's own generation failed.
THEOREM WordsOnlyIfSpoiledHolds == Spec => []WordsOnlyIfSpoiled
<1>1. ASSUME Init PROVE Sound /\ AllBlamed
  <2>1. \A c \in Callers : pc[c] = "idle" /\ thread[c] = Idle /\ given[c] = {}
    BY <1>1 DEF Init
  <2>2. AllBlamed
    BY <2>1, Blanks DEF AllBlamed, Blamed
  <2>. QED  BY <1>1, <2>2, InitSound
<1>2. Sound /\ AllBlamed /\ [Next]_vars => Sound' /\ AllBlamed'
  BY NextSound, NextBlamed
<1>3. AllBlamed => WordsOnlyIfSpoiled
  BY DEF AllBlamed, Blamed, WordsOnlyIfSpoiled
<1>. QED  BY <1>1, <1>2, <1>3, PTL DEF Spec
=============================================================================
