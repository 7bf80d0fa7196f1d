------------------------------ MODULE LlmClient ------------------------------
(***************************************************************************)
(* The one LLM client of the process (core/llm_client.py): answers,        *)
(* streamed answers and embeddings, each with its chain of providers, and  *)
(* the rate-limit notice that all calls share.                             *)
(*                                                                         *)
(* Gemini is tried first, on up to four pairs of a model and a location;   *)
(* then Groq; then the evidence itself is shown.  Embeddings go to Gemini, *)
(* then to two models on NVIDIA NIM.  The notice is held twice in the code *)
(* (last_rate_limit, global_rate_limit), always written together; it is    *)
(* represented by the Groq key whose quota it is about.                    *)
(***************************************************************************)
EXTENDS Naturals, Sequences, FiniteSets

CONSTANTS
    Calls,       \* calls that may be under way at the same time
    Kinds,       \* Kinds[c]: which of "complete", "stream", "embed" c may be
    Keys,        \* Groq keys an administrator may configure
    NoKey,       \* stands for no key, no client and no notice
    Configs,     \* deployments, records of the type below
    Models,      \* Models[c]: models that c may ask for, among DOMAIN Candidates
    MaxRetries,  \* settings.gemini_max_retries
    Batches,     \* batches of the texts to embed
    BatchSize    \* texts of a batch, whose vectors are represented by one

\* vertex: Vertex AI rather than an API key; gemini: Gemini is configured;
\* nim: NIM is configured; mock: allow_mock_fallback.
ConfigType == [vertex : BOOLEAN, gemini : BOOLEAN, nim : BOOLEAN, mock : BOOLEAN]

ASSUME LlmAssumption ==
    /\ NoKey \notin Keys
    /\ \A c \in Calls : Kinds[c] \subseteq {"complete", "stream", "embed"}
    /\ Configs \subseteq ConfigType
    /\ \A c \in Calls : Models[c] \subseteq {"groq", "three", "two", "flash"}
    /\ MaxRetries \in Nat \ {0}
    /\ Batches \in Nat \ {0}
    /\ BatchSize \in Nat \ {0}

VARIABLES
    config,   \* the deployment
    key,      \* the Groq key in .env, read anew by every call
    groq,     \* the key _groq_client was made with
    notice,   \* the rate-limit notice
    clients,  \* locations for which there is a Gemini client
    calls,    \* calls[c]: the state of the call c
    late      \* history: since the notice was last cleared, a request made with
              \* a key that had been replaced meanwhile was refused for its quota

vars == <<config, key, groq, notice, clients, calls, late>>

-----------------------------------------------------------------------------
(* _get_gemini_candidates: pairs of a model and a location.                 *)

Candidates ==
    [groq  |-> <<>>,
     three |-> <<"primary@global", "primary", "flash@global", "flash">>,
     two   |-> <<"primary", "primary@global", "flash@global", "flash">>,
     flash |-> <<"flash", "flash@global">>]

Gemini == {"primary", "primary@global", "flash", "flash@global"}
Sources == Gemini \cup {"groq", "evidence", "apology"}

\* Candidates whose model may be asked to think ("3." or "thinking" in its name).
Thinking == {"primary", "primary@global"}
Embedders == {"gemini", "nim", "e5", "mock"}

\* With an API key there is one client, whatever the location.
Location(candidate) ==
    IF config.vertex /\ candidate \in {"primary@global", "flash@global"}
    THEN "global" ELSE "default"

\* What a stream has sent so far from its current source: content is in it, or
\* reasoning without any.  Of Groq's reasoning, "marked" is one that ends in a
\* marker of its answer ("ANSWER:", "**Draft Response") with nothing behind it.
Said == {"nothing", "blank", "reasoning", "marked", "content"}

InFlight == {"gemini", "plain", "backoff", "streaming", "groq", "groqStreaming",
             "noticed", "embedding", "embeddingEach", "embedBackoff", "nim", "e5"}

\* explicit: the caller names a Gemini model; of embeddings, gemini-embedding-2.
CallType ==
    [kind : {"complete", "stream", "embed"}, pc : InFlight \cup {"idle", "done", "raised"},
     model : DOMAIN Candidates, explicit : BOOLEAN, cand : 0..4, attempt : Nat,
     said : Said, content : BOOLEAN, source : Sources \cup {"none"},
     broke : BOOLEAN, spliced : BOOLEAN,
     client : Keys \cup {NoKey},
     asked : Nat, at : 0..Batches, vecs : Seq(Embedders)]

\* A call of a kind and a model that has done nothing yet.
Fresh(kind, model, explicit) ==
    [kind |-> kind, pc |-> "idle", model |-> model, explicit |-> explicit,
     cand |-> 0, attempt |-> 0, said |-> "nothing", content |-> FALSE,
     source |-> "none", broke |-> FALSE, spliced |-> FALSE, client |-> NoKey,
     asked |-> 0, at |-> 0, vecs |-> <<>>]

\* For a call that asks for no model of the chain.
AnyModel == "groq"

Init == /\ config \in Configs
        /\ key \in Keys \cup {NoKey}
        /\ groq = key
        /\ notice = NoKey
        /\ clients = {}
        /\ late = FALSE
        /\ calls = [c \in Calls |-> Fresh("complete", AnyModel, FALSE)]

\* A finished call: what it was asked, what it answered.
Done(call) == [call EXCEPT !.pc = "done", !.explicit = FALSE, !.cand = 0,
                           !.attempt = 0, !.client = NoKey, !.asked = 0, !.at = 0]

\* The call with one more request to a provider.
Asked(call) == [call EXCEPT !.asked = @ + 1]

\* The call after a piece of `source'.  History: `broke' says that the source
\* heard last has failed in the middle, `spliced' that another one was heard
\* after it although it had not.
From(call, source) ==
    [call EXCEPT !.source = source,
                 !.spliced = @ \/ (call.source \notin {"none", source} /\ ~call.broke),
                 !.broke = @ /\ call.source = source]

\* The last word of a chain that found no answer.
Ending(call, source) ==
    Done([From(call, source) EXCEPT !.said = "content", !.content = TRUE])

-----------------------------------------------------------------------------
(* The end of the chain: the retrieved evidence, under a banner if there is *)
(* a notice.  A stream sends the notice first.                              *)

Shown(call) == Ending(call, "evidence")

EvidenceFor(call, seen) ==
    IF call.kind = "stream" /\ seen # NoKey
    THEN [call EXCEPT !.pc = "noticed"]
    ELSE Shown(call)

ShowEvidence(c) ==
    /\ calls[c].pc = "noticed"
    /\ calls' = [calls EXCEPT ![c] = Shown(calls[c])]
    /\ UNCHANGED <<config, key, groq, notice, clients, late>>

-----------------------------------------------------------------------------
(* _refresh_groq_client, and the call that follows it without an await.     *)

\* The call with its request to Groq.
AskedOfGroq(call) ==
    Asked([call EXCEPT !.pc = "groq", !.client = key, !.said = "nothing"])

\* Defect variant: a new key leaves the notice of the old one.
ToGroqKeepsNotice(c, call) ==
    \/ /\ key = NoKey
       /\ groq' = NoKey
       /\ calls' = [calls EXCEPT ![c] = EvidenceFor(call, notice)]
       /\ UNCHANGED <<notice, late>>
    \/ /\ key # NoKey
       /\ groq' = key
       /\ calls' = [calls EXCEPT ![c] = AskedOfGroq(call)]
       /\ UNCHANGED <<notice, late>>

ToGroq(c, call) ==
    \/ /\ key = NoKey
       /\ groq' = NoKey
       /\ calls' = [calls EXCEPT ![c] = EvidenceFor(call, notice)]
       /\ UNCHANGED <<notice, late>>
    \/ /\ key # NoKey
       /\ groq' = key
       /\ notice' = IF groq = key THEN notice ELSE NoKey
       /\ late' = (late /\ groq = key)
       /\ calls' = [calls EXCEPT ![c] = AskedOfGroq(call)]

\* A call that asked for a Gemini model by name gets an apology instead.
AfterGemini(c, call) ==
    \/ /\ call.explicit
       /\ calls' = [calls EXCEPT ![c] = Ending(call, "apology")]
       /\ UNCHANGED <<groq, notice, late>>
    \/ ~call.explicit /\ ToGroq(c, call)

-----------------------------------------------------------------------------
(* _refresh_gemini_client.  A client is made once for a location, and       *)
(* making it may fail; candidates without a client are passed over.         *)

\* The first place of `places' with a client is the i-th.
ClientAt(places, i) ==
    /\ config.gemini
    /\ \A j \in 1..(i - 1) : places[j] \notin clients
    /\ clients' = clients \cup {places[i]}

NoClientAt(places) ==
    /\ ~config.gemini \/ \A j \in 1..Len(places) : places[j] \notin clients
    /\ UNCHANGED clients

\* The call with its first request to its n-th candidate.
AskedOf(call, n) ==
    Asked([call EXCEPT !.pc = "gemini", !.cand = n, !.attempt = 1, !.said = "nothing"])

TryFrom(c, call, first) ==
    LET all == Candidates[call.model]
        places == [i \in 1..(Len(all) + 1 - first) |-> Location(all[first - 1 + i])]
    IN \/ \E i \in DOMAIN places :
              /\ ClientAt(places, i)
              /\ calls' = [calls EXCEPT ![c] = AskedOf(call, first - 1 + i)]
              /\ UNCHANGED <<groq, notice, late>>
       \/ NoClientAt(places) /\ AfterGemini(c, call)

Source(call) == Candidates[call.model][call.cand]
More(call) == call.cand < Len(Candidates[call.model])

-----------------------------------------------------------------------------
(* complete and stream_complete.                                           *)

Ended == {"idle", "done", "raised"}

Begin(c) ==
    /\ calls[c].pc \in Ended
    /\ \E kind \in Kinds[c] \ {"embed"}, model \in Models[c], explicit \in BOOLEAN :
           LET call == Fresh(kind, model, explicit)
           IN \/ model # "groq" /\ TryFrom(c, call, 1)
              \/ /\ model = "groq" /\ ~explicit
                 /\ ToGroq(c, call)
                 /\ UNCHANGED clients
    /\ UNCHANGED <<config, key>>

\* A request whose thinking configuration is refused is repeated without it.
ThinkingRefused(c) ==
    /\ calls[c].pc = "gemini"
    /\ Source(calls[c]) \in Thinking
    /\ calls' = [calls EXCEPT ![c] = Asked([calls[c] EXCEPT !.pc = "plain"])]
    /\ UNCHANGED <<config, key, groq, notice, clients, late>>

\* A request to a candidate, as it was made first or repeated.
Generating == {"gemini", "plain"}

\* The answer, which may be empty, is returned as it is: `content' is kept
\* for streams only.
GeminiAnswers(c) ==
    /\ calls[c].pc \in Generating
    /\ calls[c].kind = "complete"
    /\ calls' = [calls EXCEPT ![c] = Done(From(calls[c], Source(calls[c])))]
    /\ UNCHANGED <<config, key, groq, notice, clients, late>>

\* _call_gemini_with_backoff: only complete backs off, and only from a rate
\* limit.

\* The call that waits for its next attempt.
BackingOff(call, pc) == [call EXCEPT !.pc = pc, !.attempt = @ + 1]

\* Defect variant: the last attempt backs off too.
GeminiLimitedOnceMore(c) ==
    /\ calls[c].pc \in Generating
    /\ calls[c].kind = "complete"
    /\ calls[c].attempt <= MaxRetries
    /\ calls' = [calls EXCEPT ![c] = BackingOff(@, "backoff")]
    /\ UNCHANGED <<config, key, groq, notice, clients, late>>

GeminiLimited(c) ==
    /\ calls[c].pc \in Generating
    /\ calls[c].kind = "complete"
    /\ calls[c].attempt < MaxRetries
    /\ calls' = [calls EXCEPT ![c] = BackingOff(@, "backoff")]
    /\ UNCHANGED <<config, key, groq, notice, clients, late>>

BackOffEnds(c) ==
    /\ calls[c].pc = "backoff"
    /\ calls' = [calls EXCEPT ![c] = Asked([calls[c] EXCEPT !.pc = "gemini"])]
    /\ UNCHANGED <<config, key, groq, notice, clients, late>>

\* Only a model that is not found leads to the next candidate.
GivesUpOn(c, call, why) ==
    \/ why = "notFound" /\ More(call) /\ TryFrom(c, call, call.cand + 1)
    \/ /\ why = "notFound" => ~More(call)
       /\ AfterGemini(c, call)
       /\ UNCHANGED clients

GeminiRefuses(c) ==
    /\ calls[c].pc \in Generating
    /\ \E why \in {"limited", "notFound", "error"} :
           /\ why = "limited" /\ calls[c].kind = "complete" => calls[c].attempt = MaxRetries
           /\ GivesUpOn(c, calls[c], why)
    /\ UNCHANGED <<config, key>>

GeminiOpens(c) ==
    /\ calls[c].pc \in Generating
    /\ calls[c].kind = "stream"
    /\ calls' = [calls EXCEPT ![c].pc = "streaming"]
    /\ UNCHANGED <<config, key, groq, notice, clients, late>>

\* A piece is told by what it leaves behind: reasoning may end in a marker and
\* go on behind it.
Pieces == Said \ {"nothing"}

\* What a source has said, after one more piece.
Saying(said, piece) ==
    IF said = "content" \/ (piece = "blank" /\ said # "nothing") THEN said ELSE piece

\* The call after one more piece of a stream.
Heard(call, source, piece) ==
    [From(call, source) EXCEPT !.said = Saying(@, piece),
                               !.content = @ \/ piece = "content"]

\* Every piece, of Gemini or of Groq, clears the notice.
Sends(c, source, piece) ==
    /\ calls' = [calls EXCEPT ![c] = Heard(@, source, piece)]
    /\ notice' = NoKey
    /\ late' = FALSE

GeminiSends(c) ==
    /\ calls[c].pc = "streaming"
    /\ \E piece \in Pieces \ {"marked"} : Sends(c, Source(calls[c]), piece)
    /\ UNCHANGED <<config, key, groq, clients>>

\* Defect variant: the next provider is asked although this one has answered.
GeminiEndsGoesOn(c) ==
    /\ calls[c].pc = "streaming"
    /\ \/ More(calls[c]) /\ TryFrom(c, calls[c], calls[c].cand + 1)
       \/ ~More(calls[c]) /\ AfterGemini(c, calls[c]) /\ UNCHANGED clients
    /\ UNCHANGED <<config, key>>

\* A stream that ended without a piece leads to the next candidate too.
GeminiEnds(c) ==
    /\ calls[c].pc = "streaming"
    /\ \/ /\ calls[c].said # "nothing"
          /\ calls' = [calls EXCEPT ![c] = Done(calls[c])]
          /\ UNCHANGED <<groq, notice, clients, late>>
       \/ /\ calls[c].said = "nothing"
          /\ \/ More(calls[c]) /\ TryFrom(c, calls[c], calls[c].cand + 1)
             \/ ~More(calls[c]) /\ AfterGemini(c, calls[c]) /\ UNCHANGED clients
    /\ UNCHANGED <<config, key>>

\* The stream fails after what it has sent, which stays sent.
Broken(call) == [call EXCEPT !.broke = @ \/ call.said # "nothing"]

GeminiBreaks(c) ==
    /\ calls[c].pc = "streaming"
    /\ \E why \in {"notFound", "error"} :
           GivesUpOn(c, Broken(calls[c]), why)
    /\ UNCHANGED <<config, key>>

\* A response without choices clears nothing.
GroqAnswers(c) ==
    /\ calls[c].pc = "groq"
    /\ calls[c].kind = "complete"
    /\ \/ /\ notice' = NoKey
          /\ late' = FALSE
          /\ calls' = [calls EXCEPT ![c] = Done(From(calls[c], "groq"))]
       \/ /\ calls' = [calls EXCEPT ![c] = EvidenceFor(calls[c], notice)]
          /\ UNCHANGED <<notice, late>>
    /\ UNCHANGED <<config, key, groq, clients>>

GroqOpens(c) ==
    /\ calls[c].pc = "groq"
    /\ calls[c].kind = "stream"
    /\ calls' = [calls EXCEPT ![c].pc = "groqStreaming"]
    /\ UNCHANGED <<config, key, groq, notice, clients, late>>

GroqSends(c) ==
    /\ calls[c].pc = "groqStreaming"
    /\ \E piece \in Pieces : Sends(c, "groq", piece)
    /\ UNCHANGED <<config, key, groq, clients>>

\* Of an answer that is all reasoning, what is behind its marker or, without a
\* marker, its end is repeated as content; behind a marker may be nothing.
GroqEnds(c) ==
    /\ calls[c].pc = "groqStreaming"
    /\ \/ /\ calls[c].said = "nothing"
          /\ calls' = [calls EXCEPT ![c] = EvidenceFor(calls[c], notice)]
       \/ /\ calls[c].said # "nothing"
          /\ calls' = [calls EXCEPT ![c] =
                 Done([calls[c] EXCEPT !.content = @ \/ calls[c].said = "reasoning"])]
    /\ UNCHANGED <<config, key, groq, notice, clients, late>>

\* record_rate_limit, for the key that the failed request was made with.
GroqFails(c) ==
    /\ calls[c].pc \in {"groq", "groqStreaming"}
    /\ \E why \in {"limited", "error"} :
           /\ notice' = IF why = "limited" THEN calls[c].client ELSE notice
           /\ late' = (late \/ (why = "limited" /\ calls[c].client # groq))
           /\ calls' = [calls EXCEPT ![c] = EvidenceFor(Broken(calls[c]), notice')]
    /\ UNCHANGED <<config, key, groq, clients>>

-----------------------------------------------------------------------------
(* get_embeddings.                                                         *)

\* _has_live_client.
Live == "default" \in clients \/ groq # NoKey \/ config.nim

\* Vectors made up from the texts themselves.
Mocked(call) == Done([call EXCEPT !.vecs = [i \in 1..Batches |-> "mock"]])

EmbeddingFails(c, call) ==
    /\ calls' = [calls EXCEPT ![c] =
           IF config.mock /\ ~Live THEN Mocked(call)
           ELSE [Fresh("embed", AnyModel, FALSE) EXCEPT !.pc = "raised"]]
    /\ UNCHANGED clients

\* The call that embeds the texts from the first with a model on NIM.
FromFirst(call, pc) == Asked([call EXCEPT !.pc = pc, !.at = 1, !.vecs = <<>>])

ToNim(c, call) ==
    \/ /\ config.nim
       /\ calls' = [calls EXCEPT ![c] = FromFirst(call, "nim")]
       /\ UNCHANGED clients
    \/ ~config.nim /\ EmbeddingFails(c, call)

EmbeddingFirst(call) ==
    Asked([call EXCEPT !.pc = "embedding", !.at = 1, !.attempt = 1])

\* gemini-embedding-2 (`second') is looked for at "global" first; the older
\* models and an API key have the default location only.
BeginEmbedding(c) ==
    /\ calls[c].pc \in Ended
    /\ "embed" \in Kinds[c]
    /\ \/ \E second \in BOOLEAN, places \in {<<"default">>, <<"global", "default">>} :
              LET call == Fresh("embed", AnyModel, second)
              IN /\ places[1] = "global" => config.vertex /\ second
                 /\ \/ \E i \in DOMAIN places :
                           /\ ClientAt(places, i)
                           /\ calls' = [calls EXCEPT ![c] = EmbeddingFirst(call)]
                    \/ NoClientAt(places) /\ ToNim(c, call)
       \/ ToNim(c, Fresh("embed", AnyModel, FALSE))
    /\ UNCHANGED <<config, key, groq, notice, late>>

\* gemini-embedding-2 may take one text at a time: those of the batch are then
\* sent side by side, and the batch arrives or fails as a whole.
EmbedsEach(c) ==
    /\ calls[c].pc = "embedding"
    /\ calls[c].explicit
    /\ calls' = [calls EXCEPT ![c].pc = "embeddingEach", ![c].asked = @ + BatchSize]
    /\ UNCHANGED <<config, key, groq, notice, clients, late>>

\* A batch asked of Gemini, as a whole or text by text.
AtGemini == {"embedding", "embeddingEach"}

Embedder(call) == IF call.pc \in AtGemini THEN "gemini" ELSE call.pc

\* The call with the vectors of one more batch; a provider may leave some out.
WithBatch(call, short) ==
    [call EXCEPT !.pc = IF @ = "embeddingEach" THEN "embedding" ELSE @,
                 !.vecs = IF short THEN @ ELSE Append(@, Embedder(call)),
                 !.attempt = 1]

NextBatch(call) == Asked([call EXCEPT !.at = @ + 1])

\* Defect variant: a batch after the last one is asked for.
EmbeddedOneMore(c) ==
    /\ calls[c].pc \in AtGemini \cup {"nim", "e5"}
    /\ LET call == WithBatch(calls[c], FALSE)
       IN calls' = [calls EXCEPT ![c] =
              IF call.at <= Batches THEN NextBatch(call) ELSE Done(call)]
    /\ UNCHANGED <<config, key, groq, notice, clients, late>>

\* A batch arrives.  A list that is too short is not returned: after Gemini
\* it is NIM's turn, after NIM nobody's.
Embedded(c) ==
    /\ calls[c].pc \in AtGemini \cup {"nim", "e5"}
    /\ \E short \in BOOLEAN :
           LET call == WithBatch(calls[c], short)
           IN \/ /\ call.at < Batches
                 /\ calls' = [calls EXCEPT ![c] = NextBatch(call)]
                 /\ UNCHANGED clients
              \/ /\ call.at = Batches /\ Len(call.vecs) = Batches
                 /\ calls' = [calls EXCEPT ![c] = Done(call)]
                 /\ UNCHANGED clients
              \/ /\ call.at = Batches /\ Len(call.vecs) # Batches
                 /\ IF Embedder(call) = "gemini" THEN ToNim(c, call)
                    ELSE EmbeddingFails(c, call)
    /\ UNCHANGED <<config, key, groq, notice, late>>

EmbeddingLimited(c) ==
    /\ calls[c].pc \in AtGemini
    /\ calls[c].attempt < MaxRetries
    /\ calls' = [calls EXCEPT ![c] = BackingOff(@, "embedBackoff")]
    /\ UNCHANGED <<config, key, groq, notice, clients, late>>

EmbeddingBackOffEnds(c) ==
    /\ calls[c].pc = "embedBackoff"
    /\ calls' = [calls EXCEPT ![c] = Asked([calls[c] EXCEPT !.pc = "embedding"])]
    /\ UNCHANGED <<config, key, groq, notice, clients, late>>

EmbeddingRefused(c) ==
    /\ calls[c].pc \in AtGemini
    /\ ToNim(c, calls[c])
    /\ UNCHANGED <<config, key, groq, notice, late>>

\* Defect variant: the second model goes on at the batch that failed.
NimFailsGoesOn(c) ==
    /\ calls[c].pc = "nim"
    /\ calls' = [calls EXCEPT ![c] = Asked([calls[c] EXCEPT !.pc = "e5"])]
    /\ UNCHANGED <<config, key, groq, notice, clients, late>>

\* nv-embedqa-e5-v5 embeds all the texts from the first.
NimFails(c) ==
    /\ calls[c].pc = "nim"
    /\ calls' = [calls EXCEPT ![c] = FromFirst(@, "e5")]
    /\ UNCHANGED <<config, key, groq, notice, clients, late>>

E5Fails(c) ==
    /\ calls[c].pc = "e5"
    /\ EmbeddingFails(c, calls[c])
    /\ UNCHANGED <<config, key, groq, notice, late>>

-----------------------------------------------------------------------------
(* The surroundings.                                                       *)

\* The reader of a stream goes away, or the task of a call is cancelled: no
\* handler of the chain catches that.
Abandon(c) ==
    /\ calls[c].pc \in InFlight
    /\ calls' = [calls EXCEPT ![c] = Fresh("complete", AnyModel, FALSE)]
    /\ UNCHANGED <<config, key, groq, notice, clients, late>>

\* An administrator edits .env.
SetKey ==
    /\ key' \in Keys \cup {NoKey}
    /\ UNCHANGED <<config, groq, notice, clients, calls, late>>

\* POST /v1/quota/reset.
ResetQuota ==
    /\ notice' = NoKey
    /\ late' = FALSE
    /\ groq' = key
    /\ UNCHANGED <<config, key, clients, calls>>

Next == \/ \E c \in Calls :
               \/ Begin(c) \/ BeginEmbedding(c) \/ Abandon(c) \/ ShowEvidence(c)
               \/ ThinkingRefused(c) \/ GeminiAnswers(c)
               \/ GeminiLimited(c) \/ BackOffEnds(c)
               \/ GeminiRefuses(c) \/ GeminiOpens(c) \/ GeminiSends(c)
               \/ GeminiEnds(c) \/ GeminiBreaks(c)
               \/ GroqAnswers(c) \/ GroqOpens(c) \/ GroqSends(c)
               \/ GroqEnds(c) \/ GroqFails(c)
               \/ EmbedsEach(c) \/ Embedded(c)
               \/ EmbeddingLimited(c) \/ EmbeddingBackOffEnds(c)
               \/ EmbeddingRefused(c) \/ NimFails(c) \/ E5Fails(c)
        \/ SetKey
        \/ ResetQuota

Spec == Init /\ [][Next]_vars

-----------------------------------------------------------------------------
\* Every variable holds a value of its type; the groq client, when there is
\* one, was made with some key (LLMClient's attributes).
TypeOK == /\ config \in Configs
          /\ key \in Keys \cup {NoKey}
          /\ groq \in Keys \cup {NoKey}
          /\ notice \in Keys \cup {NoKey}
          /\ late \in BOOLEAN
          /\ clients \in SUBSET {"default", "global"}
          /\ calls \in [Calls -> CallType]

\* What the reader of a finished stream has got: pieces of a second source
\* only where every source before it broke off in the middle, and an answer,
\* unless the last source sent blanks only, was a Gemini model that spent its
\* tokens on reasoning, or a Groq model whose reasoning ends where its answer
\* should begin (stream_complete).
StreamsAreWhole ==
    \A c \in Calls :
        LET call == calls[c]
        IN call.kind = "stream" /\ call.pc = "done" =>
               /\ ~call.spliced
               /\ \/ call.content
                  \/ call.said = "blank"
                  \/ call.said = "reasoning" /\ call.source \in Gemini
                  \/ call.said = "marked" /\ call.source = "groq"

\* The notice is about the key in use, unless no key is in use or a request
\* made with an earlier key was still under way when the key changed and then
\* hit its quota (_refresh_groq_client, record_rate_limit).
NoticeOfKeyInUse == notice \in {NoKey, groq} \/ groq = NoKey \/ late

\* get_embeddings returns a vector for every text, all of the same model.
VectorsFromOneModel ==
    \A c \in Calls :
        LET call == calls[c]
        IN call.kind = "embed" /\ call.pc = "done" =>
               /\ Len(call.vecs) = Batches
               /\ \A i \in 1..Batches : call.vecs[i] = call.vecs[1]

\* The most requests that an attempt at each of the first n candidates takes.
Attempts(model, n) ==
    n + Cardinality({i \in 1..n : Candidates[model][i] \in Thinking})

\* The most requests that an attempt at a batch takes of Gemini.
AttemptAtBatch(call) == IF call.explicit THEN 1 + BatchSize ELSE 1

\* Back-off inside a chain of fallbacks stays bounded: however the providers
\* refuse, answers are asked for at most MaxRetries times of every candidate,
\* twice each time if it may refuse to think, and once of Groq; streams once
\* of each, or twice; and a batch of texts MaxRetries times of Gemini, each
\* time as a whole and perhaps text by text, and once of each model on NIM
\* (_call_gemini_with_backoff).  What is bounded is the number of requests: a
\* stream and the requests for single texts have no timeout.
RequestsAreBounded ==
    \A c \in Calls :
        LET call == calls[c]
            chain == Attempts(call.model, Len(Candidates[call.model]))
        IN call.asked <= CASE call.kind = "complete" -> chain * MaxRetries + 1
                           [] call.kind = "stream" -> chain + 1
                           [] OTHER -> Batches * (MaxRetries * AttemptAtBatch(call) + 2)
=============================================================================
