----------------------------- MODULE Summarizer -----------------------------
(***************************************************************************)
(* The chunk summarizer that the ingestions of one pipeline share: a model *)
(* that is loaded at the first use and dropped by whoever finishes first,  *)
(* one asyncio lock around loading and around generating, and the executor *)
(* thread that reads the model's attributes while the event loop goes on.  *)
(*                                                                         *)
(* The children of a document come in Batches batches of Size prompts.     *)
(***************************************************************************)
EXTENDS Naturals, Sequences, FiniteSets

CONSTANTS
    Callers,   \* ingestions that may be under way at the same time
    Nobody,    \* holds the lock when it is free
    Kinds,     \* pipelines that use this summarizer: "plain", "summary", "stream"
    Batches,   \* batches of a document
    Size,      \* prompts of a batch
    CanFail    \* loading, generating or storing may raise, callers may be cancelled

ASSUME SummarizerAssumption ==
    /\ Nobody \notin Callers
    /\ Kinds \subseteq {"plain", "summary", "stream"}
    /\ Batches \in Nat \ {0}
    /\ Size \in Nat \ {0}
    /\ CanFail \in BOOLEAN

VARIABLES
    loaded,  \* the model and its tokenizer are in memory
    lock,    \* the holder of _load_lock
    queue,   \* callers waiting for it, first come first served
    pc,      \* pc[c]: where the ingestion c is
    kind,    \* kind[c]: the pipeline method it runs
    batch,   \* batch[c]: the batch it is at
    thread,  \* thread[c]: the _generate_batch_sync it awaits
    given,   \* given[c]: the kinds of summaries its chunks have received
    spoiled, \* history: since c found the model, it was dropped, or loading or a
             \* prompt of its own failed
    shifted, \* history: decoding failed behind some results, the model at hand
    cut      \* history: an ingestion was cut short since the last unload

vars == <<loaded, lock, queue, pc, kind, batch, thread, given, spoiled,
          shifted, cut>>

\* "load" and "turn" wait for the lock, to load and to generate; "storing"
\* holds it, "summarized" has given it back but has yet to unload.
Places == {"idle", "load", "loading", "turn", "generating", "storing", "summarized"}

Waiting == {"load", "turn"}
Holding == {"loading", "generating", "storing"}

\* `out' holds the prompts summarized so far, 0 for a prompt that failed.
Thread == [phase : {"none", "batch", "decode", "sequential", "done"},
           tried : 0..Size, out : Seq(0..Size)]

Idle == [phase |-> "none", tried |-> 0, out |-> <<>>]
Submitted == [phase |-> "batch", tried |-> 0, out |-> <<>>]

Init == /\ loaded = FALSE
        /\ lock = Nobody
        /\ queue = <<>>
        /\ pc = [c \in Callers |-> "idle"]
        /\ \E k \in Kinds : kind = [c \in Callers |-> k]
        /\ batch = [c \in Callers |-> 1]
        /\ thread = [c \in Callers |-> Idle]
        /\ given = [c \in Callers |-> {}]
        /\ spoiled = [c \in Callers |-> FALSE]
        /\ shifted = [c \in Callers |-> FALSE]
        /\ cut = FALSE

-----------------------------------------------------------------------------
(* The lock.  asyncio.Lock does not suspend when it is free and nobody      *)
(* waits; otherwise the caller goes to the end of the queue.                *)

\* c asks for the lock when `others' are waiting and nobody holds it.
GoesOn(c, others, place) ==
    IF others = <<>>
    THEN /\ lock' = c
         /\ queue' = <<>>
         /\ pc' = [pc EXCEPT ![c] = place]
    ELSE /\ lock' = Nobody
         /\ queue' = Append(others, c)
         /\ pc' = [pc EXCEPT ![c] = IF place = "loading" THEN "load" ELSE "turn"]

\* The first batch goes to the executor with the lock.
Submits(c) ==
    thread' = [thread EXCEPT ![c] = IF lock' = c THEN Submitted ELSE Idle]

Enqueue(c, place) ==
    /\ lock # Nobody
    /\ queue' = Append(queue, c)
    /\ pc' = [pc EXCEPT ![c] = place]
    /\ UNCHANGED <<lock, thread>>

-----------------------------------------------------------------------------
(* _ensure_model_loaded.                                                   *)

\* The plain pipeline has a summarizer of its own.
ChoosesKind(c) ==
    \E k \in Kinds : /\ k = "plain" <=> kind[c] = "plain"
                     /\ kind' = [kind EXCEPT ![c] = k]

\* Defect variant: generation starts without _ensure_model_loaded.
BeginUnchecked(c) ==
    /\ pc[c] = "idle"
    /\ ChoosesKind(c)
    /\ batch' = [batch EXCEPT ![c] = 1]
    /\ given' = [given EXCEPT ![c] = {}]
    /\ spoiled' = [spoiled EXCEPT ![c] = FALSE]
    /\ shifted' = [shifted EXCEPT ![c] = FALSE]
    /\ \/ lock = Nobody /\ GoesOn(c, queue, "generating") /\ Submits(c)
       \/ Enqueue(c, "turn")
    /\ UNCHANGED <<loaded, cut>>

Begin(c) ==
    /\ pc[c] = "idle"
    /\ ChoosesKind(c)
    /\ batch' = [batch EXCEPT ![c] = 1]
    /\ given' = [given EXCEPT ![c] = {}]
    /\ spoiled' = [spoiled EXCEPT ![c] = FALSE]
    /\ shifted' = [shifted EXCEPT ![c] = FALSE]
    /\ \/ loaded /\ lock = Nobody /\ GoesOn(c, queue, "generating") /\ Submits(c)
       \/ loaded /\ Enqueue(c, "turn")
       \/ ~loaded /\ lock = Nobody /\ GoesOn(c, queue, "loading") /\ UNCHANGED thread
       \/ ~loaded /\ Enqueue(c, "load")
    /\ UNCHANGED <<loaded, cut>>

\* Defect variant: the model is loaded without waiting for the lock.
GrantLoadsUnlocked(c) ==
    /\ pc[c] = "load"
    /\ loaded' = TRUE
    /\ UNCHANGED <<lock, queue, pc, kind, batch, thread, given, spoiled, shifted, cut>>

\* The lock is free and c is first.  A caller that came to load and finds
\* the model loaded gives the lock back and asks for it again.
Grant(c) ==
    /\ lock = Nobody
    /\ queue # <<>> /\ Head(queue) = c
    /\ \/ pc[c] = "load" /\ loaded /\ GoesOn(c, Tail(queue), "generating") /\ Submits(c)
       \/ /\ pc[c] = "load" /\ ~loaded
          /\ lock' = c
          /\ queue' = Tail(queue)
          /\ pc' = [pc EXCEPT ![c] = "loading"]
          /\ UNCHANGED thread
       \/ /\ pc[c] = "turn"
          /\ lock' = c
          /\ queue' = Tail(queue)
          /\ pc' = [pc EXCEPT ![c] = "generating"]
          /\ Submits(c)
    /\ UNCHANGED <<loaded, kind, batch, given, spoiled, shifted, cut>>

LoadSucceeds(c) ==
    /\ pc[c] = "loading"
    /\ loaded' = TRUE
    /\ GoesOn(c, queue, "generating")
    /\ Submits(c)
    /\ UNCHANGED <<kind, batch, given, spoiled, shifted, cut>>

\* With allow_mock_fallback the load's failure is an answer: a batch call
\* falls back to the first words of every chunk, a stream does not look.
LoadFails(c) ==
    /\ CanFail
    /\ pc[c] = "loading"
    /\ spoiled' = [spoiled EXCEPT ![c] = TRUE]
    /\ IF kind[c] = "stream"
       THEN GoesOn(c, queue, "generating") /\ Submits(c) /\ UNCHANGED given
       ELSE /\ lock' = Nobody
            /\ given' = [given EXCEPT ![c] = {"words"}]
            /\ pc' = [pc EXCEPT ![c] = IF kind[c] = "plain" THEN "idle" ELSE "summarized"]
            /\ UNCHANGED <<queue, thread>>
    /\ UNCHANGED <<loaded, kind, batch, shifted, cut>>

-----------------------------------------------------------------------------
(* _generate_batch_sync, in a thread of the executor.                      *)

Runs(c, phase) == pc[c] = "generating" /\ thread[c].phase = phase

Becomes(c, phase, tried, out) ==
    /\ thread' = [thread EXCEPT ![c] = [phase |-> phase, tried |-> tried, out |-> out]]
    /\ UNCHANGED <<loaded, lock, queue, pc, kind, batch, given, cut>>

GenerateBatch(c) ==
    /\ Runs(c, "batch")
    /\ loaded
    /\ Becomes(c, "decode", 0, <<>>)
    /\ UNCHANGED <<spoiled, shifted>>

\* The attributes are gone, or the vectorized generation raises.
GenerateRaises(c) ==
    /\ Runs(c, "batch")
    /\ CanFail \/ ~loaded
    /\ Becomes(c, "sequential", 0, <<>>)
    /\ UNCHANGED <<spoiled, shifted>>

DecodeNext(c) ==
    /\ Runs(c, "decode")
    /\ loaded
    /\ LET out == Append(thread[c].out, Len(thread[c].out) + 1) IN
         Becomes(c, IF Len(out) = Size THEN "done" ELSE "decode", 0, out)
    /\ UNCHANGED <<spoiled, shifted>>

\* The tokenizer is gone, or decoding a result raises.  The prompts are tried
\* one by one, but what is in `out' stays there: with the model at hand the
\* new results line up behind the old ones.
DecodeRaises(c) ==
    /\ Runs(c, "decode")
    /\ CanFail \/ ~loaded
    /\ Becomes(c, "sequential", 0, thread[c].out)
    /\ shifted' = [shifted EXCEPT ![c] = @ \/ (loaded /\ thread[c].out # <<>>)]
    /\ UNCHANGED spoiled

TryNext(c) ==
    /\ Runs(c, "sequential")
    /\ UNCHANGED shifted
    /\ LET tried == thread[c].tried + 1
           next == IF tried = Size THEN "done" ELSE "sequential" IN
         \/ /\ loaded
            /\ Becomes(c, next, tried, Append(thread[c].out, tried))
            /\ UNCHANGED spoiled
         \/ /\ CanFail \/ ~loaded
            /\ Becomes(c, next, tried, Append(thread[c].out, 0))
            /\ spoiled' = [spoiled EXCEPT ![c] = @ \/ loaded]

-----------------------------------------------------------------------------
(* The callers.                                                            *)

\* Chunk i of the batch receives the i-th result; a blank one is replaced by
\* the first words of the chunk.
Received(c) ==
    {IF thread[c].out[i] = i THEN "own"
     ELSE IF thread[c].out[i] = 0 THEN "words" ELSE "other" : i \in 1..Size}

\* What `done' spoils by dropping the model: whoever else counts on it.
Spoils(done) ==
    [c \in Callers |->
       spoiled[c] \/ (loaded /\ c # done /\ pc[c] \in {"turn", "generating", "storing"})]

\* unload() takes no lock and returns at once when there is nothing to drop.
Unload(history) ==
    /\ loaded' = FALSE
    /\ spoiled' = history
    /\ cut' = FALSE

\* A stream stores the batch and yields, holding the lock; the batch methods
\* go on at once.
TakeResults(c) ==
    /\ Runs(c, "done")
    /\ given' = [given EXCEPT ![c] = @ \cup Received(c)]
    /\ IF kind[c] = "stream"
       THEN /\ pc' = [pc EXCEPT ![c] = "storing"]
            /\ thread' = [thread EXCEPT ![c] = Idle]
            /\ UNCHANGED batch
       ELSE /\ batch[c] < Batches
            /\ batch' = [batch EXCEPT ![c] = @ + 1]
            /\ thread' = [thread EXCEPT ![c] = Submitted]
            /\ UNCHANGED pc
    /\ UNCHANGED <<loaded, lock, queue, kind, spoiled, shifted, cut>>

\* The batch methods are through: the plain pipeline unloads before it awaits
\* anything else, the summary pipeline stores the summaries first.
TakeLastResults(c) ==
    /\ Runs(c, "done")
    /\ kind[c] # "stream" /\ batch[c] = Batches
    /\ given' = [given EXCEPT ![c] = @ \cup Received(c)]
    /\ lock' = Nobody
    /\ thread' = [thread EXCEPT ![c] = Idle]
    /\ IF kind[c] = "plain"
       THEN pc' = [pc EXCEPT ![c] = "idle"] /\ Unload(Spoils(c))
       ELSE /\ pc' = [pc EXCEPT ![c] = "summarized"]
            /\ UNCHANGED <<loaded, spoiled, cut>>
    /\ UNCHANGED <<queue, kind, batch, shifted>>

NextBatch(c) ==
    /\ pc[c] = "storing"
    /\ batch[c] < Batches
    /\ batch' = [batch EXCEPT ![c] = @ + 1]
    /\ pc' = [pc EXCEPT ![c] = "generating"]
    /\ thread' = [thread EXCEPT ![c] = Submitted]
    /\ UNCHANGED <<loaded, lock, queue, kind, given, spoiled, shifted, cut>>

\* The request of c is over, and so are its locals.
Ends(c) ==
    /\ pc' = [pc EXCEPT ![c] = "idle"]
    /\ batch' = [batch EXCEPT ![c] = 1]
    /\ thread' = [thread EXCEPT ![c] = Idle]
    /\ given' = [given EXCEPT ![c] = {}]
    /\ shifted' = [shifted EXCEPT ![c] = FALSE]
    /\ UNCHANGED kind

\* Stored by the stream before it leaves the lock, by the summary pipeline
\* after that.
IsStored(c) ==
    \/ pc[c] = "summarized" /\ UNCHANGED lock
    \/ pc[c] = "storing" /\ batch[c] = Batches /\ lock' = Nobody

\* Defect variant: the caller that is done leaves the model in memory.
FinishKeepsModel(c) ==
    /\ IsStored(c)
    /\ Ends(c)
    /\ spoiled' = [spoiled EXCEPT ![c] = FALSE]
    /\ UNCHANGED <<loaded, queue, cut>>

Finish(c) ==
    /\ IsStored(c)
    /\ Ends(c)
    /\ Unload([Spoils(c) EXCEPT ![c] = FALSE])
    /\ UNCHANGED queue

\* POST /v1/models/unload.
UnloadModels ==
    /\ Unload(Spoils(Nobody))
    /\ UNCHANGED <<lock, queue, pc, kind, batch, thread, given, shifted>>

LeavesQueue(c) ==
    IF pc[c] \in Waiting
    THEN \E i \in DOMAIN queue :
           /\ queue[i] = c
           /\ queue' = SubSeq(queue, 1, i - 1) \o SubSeq(queue, i + 1, Len(queue))
    ELSE UNCHANGED queue

\* Defect variant: a cancelled caller keeps the lock.
InterruptKeepsLock(c) ==
    /\ CanFail
    /\ pc[c] # "idle"
    /\ Ends(c)
    /\ LeavesQueue(c)
    /\ UNCHANGED lock
    /\ spoiled' = [spoiled EXCEPT ![c] = FALSE]
    /\ cut' = (cut \/ loaded)
    /\ UNCHANGED loaded

\* The caller is cancelled, or loading or storing raises.  The lock is given
\* back; the model stays, and a thread that still runs has nobody to answer.
Interrupt(c) ==
    /\ CanFail
    /\ pc[c] # "idle"
    /\ Ends(c)
    /\ LeavesQueue(c)
    /\ lock' = IF lock = c THEN Nobody ELSE lock
    /\ spoiled' = [spoiled EXCEPT ![c] = FALSE]
    /\ cut' = (cut \/ loaded)
    /\ UNCHANGED loaded

-----------------------------------------------------------------------------

InThread(c) == \/ GenerateBatch(c) \/ GenerateRaises(c)
               \/ DecodeNext(c) \/ DecodeRaises(c) \/ TryNext(c)

Goes(c) == \/ Grant(c) \/ LoadSucceeds(c) \/ LoadFails(c) \/ InThread(c)
           \/ TakeResults(c) \/ TakeLastResults(c) \/ NextBatch(c) \/ Finish(c)

Next == \/ \E c \in Callers : Begin(c) \/ Goes(c) \/ Interrupt(c)
        \/ UnloadModels

Spec == Init /\ [][Next]_vars

\* Loads and generations end, storage answers, clients read or go away.
FairSpec == Spec /\ \A c \in Callers : WF_vars(Goes(c))

-----------------------------------------------------------------------------
(* Properties.                                                             *)

\* Every variable stays in its range, and the lock is held by the caller that
\* is inside it, and by no other.
TypeOK ==
    /\ loaded \in BOOLEAN
    /\ lock \in Callers \cup {Nobody}
    /\ queue \in Seq(Callers)
    /\ pc \in [Callers -> Places]
    /\ kind \in [Callers -> Kinds]
    /\ batch \in [Callers -> 1..Batches]
    /\ thread \in [Callers -> Thread]
    /\ given \in [Callers -> SUBSET {"own", "other", "words"}]
    /\ spoiled \in [Callers -> BOOLEAN]
    /\ shifted \in [Callers -> BOOLEAN]
    /\ cut \in BOOLEAN
    /\ \A c \in Callers : pc[c] \in Holding <=> lock = c

\* A chunk receives the summary of another one only if decoding failed part
\* of the way with the model at hand.  The unload of another ingestion in the
\* middle of a batch makes the thread start over behind its results just the
\* same, but never has that effect: nobody loads the model again under it.
OwnSummaries == \A c \in Callers : "other" \in given[c] => shifted[c]

\* A chunk is labelled with the model but holds only its own first words
\* because someone else dropped the model, or loading or the prompt's own
\* generation failed, after the caller had made sure of the model; a failure
\* of the vectorized generation or of its decoding alone costs no chunk its
\* summary.
WordsOnlyIfSpoiled ==
    \A c \in Callers : "words" \in given[c] => spoiled[c]

\* Without an ingestion under way the model is not in memory, unless the
\* last one was cut short.
ModelIsDropped == loaded => cut \/ \E c \in Callers : pc[c] # "idle"

\* Every ingestion gets its turns and ends, whoever is ahead of it.
IngestionsEnd == \A c \in Callers : []<>(pc[c] = "idle")
=============================================================================
