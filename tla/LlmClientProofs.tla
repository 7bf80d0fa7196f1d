--------------------------- MODULE LlmClientProofs ---------------------------
(* Proofs about the LLM client, for any number of calls, keys and batches,   *)
(* any deployments and any of the chains of models, whatever fails.          *)
(*                                                                           *)
(* The invariant is about one call at a time (CallInv): where it may be, how *)
(* many requests it has made on its way there, what its reader has heard and *)
(* which vectors it has collected.  Every action replaces one call, so each  *)
(* has a lemma that the new one keeps CallInv (StepsTo).                     *)
EXTENDS LlmClient, FiniteSetTheorems, TLAPS

-----------------------------------------------------------------------------
(* The records that the actions make of a call, field by field.              *)

\* A piece of `source' would come after another source that did not break off.
Splices(call, source) == call.source \notin {"none", source} /\ ~call.broke

\* A finished call keeps what it answered and forgets where it was.
LEMMA DoneIs ==
    ASSUME NEW call \in CallType
    PROVE  /\ Done(call) \in CallType /\ Done(call).kind = call.kind
           /\ Done(call).pc = "done" /\ Done(call).model = call.model
           /\ Done(call).explicit = FALSE /\ Done(call).cand = 0
           /\ Done(call).attempt = 0 /\ Done(call).said = call.said
           /\ Done(call).content = call.content /\ Done(call).source = call.source
           /\ Done(call).broke = call.broke /\ Done(call).spliced = call.spliced
           /\ Done(call).client = NoKey /\ Done(call).asked = 0 /\ Done(call).at = 0
           /\ Done(call).vecs = call.vecs
<1> DEFINE new == [kind |-> call.kind, pc |-> "done", model |-> call.model,
                   explicit |-> FALSE, cand |-> 0, attempt |-> 0, said |-> call.said,
                   content |-> call.content, source |-> call.source, broke |-> call.broke,
                   spliced |-> call.spliced, client |-> NoKey, asked |-> 0, at |-> 0,
                   vecs |-> call.vecs]
           a == [call EXCEPT !.pc = "done"]
           b == [a EXCEPT !.explicit = FALSE]
           c == [b EXCEPT !.cand = 0]
           d == [c EXCEPT !.attempt = 0]
           e == [d EXCEPT !.client = NoKey]
           f == [e EXCEPT !.asked = 0]
<1>1. Done(call) = [f EXCEPT !.at = 0]
  BY DEF Done
<1>2. Done(call) = new
  BY <1>1 DEF CallType
<1>3. new \in CallType
  BY LlmAssumption DEF CallType, InFlight, Sources, Said
<1> QED BY <1>2, <1>3

\* Asking once more changes the count only (Asked).
LEMMA AskedIs ==
    ASSUME NEW call \in CallType
    PROVE  /\ Asked(call) \in CallType /\ Asked(call).kind = call.kind
           /\ Asked(call).pc = call.pc /\ Asked(call).model = call.model
           /\ Asked(call).explicit = call.explicit /\ Asked(call).cand = call.cand
           /\ Asked(call).attempt = call.attempt /\ Asked(call).said = call.said
           /\ Asked(call).content = call.content /\ Asked(call).source = call.source
           /\ Asked(call).broke = call.broke /\ Asked(call).spliced = call.spliced
           /\ Asked(call).client = call.client /\ Asked(call).asked = call.asked + 1
           /\ Asked(call).at = call.at /\ Asked(call).vecs = call.vecs
<1> DEFINE new == [kind |-> call.kind, pc |-> call.pc, model |-> call.model,
                   explicit |-> call.explicit, cand |-> call.cand,
                   attempt |-> call.attempt, said |-> call.said, content |-> call.content,
                   source |-> call.source, broke |-> call.broke, spliced |-> call.spliced,
                   client |-> call.client, asked |-> call.asked + 1, at |-> call.at,
                   vecs |-> call.vecs]
<1>1. Asked(call) = [call EXCEPT !.asked = call.asked + 1]
  BY DEF Asked
<1>2. Asked(call) = new
  BY <1>1 DEF CallType
<1>3. new \in CallType
  BY LlmAssumption DEF CallType, InFlight, Sources, Said
<1> QED BY <1>2, <1>3

\* A piece of a source changes what has been heard only (From).
LEMMA FromIs ==
    ASSUME NEW call \in CallType, NEW source \in Sources
    PROVE  /\ From(call, source) \in CallType /\ From(call, source).kind = call.kind
           /\ From(call, source).pc = call.pc /\ From(call, source).model = call.model
           /\ From(call, source).explicit = call.explicit
           /\ From(call, source).cand = call.cand
           /\ From(call, source).attempt = call.attempt
           /\ From(call, source).said = call.said
           /\ From(call, source).content = call.content
           /\ From(call, source).source = source
           /\ From(call, source).client = call.client
           /\ From(call, source).asked = call.asked /\ From(call, source).at = call.at
           /\ From(call, source).vecs = call.vecs
<1> DEFINE new == [kind |-> call.kind, pc |-> call.pc, model |-> call.model,
                   explicit |-> call.explicit, cand |-> call.cand,
                   attempt |-> call.attempt, said |-> call.said, content |-> call.content,
                   source |-> source, broke |-> (call.broke /\ call.source = source),
                   spliced |-> (call.spliced \/ Splices(call, source)),
                   client |-> call.client, asked |-> call.asked, at |-> call.at,
                   vecs |-> call.vecs]
           a == [call EXCEPT !.source = source]
           b == [a EXCEPT !.spliced = (call.spliced \/ Splices(call, source))]
<1>1. From(call, source) = [b EXCEPT !.broke = (call.broke /\ call.source = source)]
  BY DEF From, Splices
<1>2. From(call, source) = new
  BY <1>1 DEF CallType
<1>3. new \in CallType
  BY LlmAssumption DEF CallType, InFlight, Sources, Said
<1> QED BY <1>2, <1>3

\* What From changes of the history of a stream.
LEMMA FromChanges ==
    ASSUME NEW call \in CallType, NEW source \in Sources
    PROVE  /\ From(call, source).broke <=> (call.broke /\ call.source = source)
           /\ From(call, source).spliced <=> (call.spliced \/ Splices(call, source))
BY DEF CallType, From, Splices

\* A failure of a stream is remembered if it has sent something (Broken).
LEMMA BrokenIs ==
    ASSUME NEW call \in CallType
    PROVE  /\ Broken(call) \in CallType /\ Broken(call).kind = call.kind
           /\ Broken(call).pc = call.pc /\ Broken(call).model = call.model
           /\ Broken(call).explicit = call.explicit /\ Broken(call).cand = call.cand
           /\ Broken(call).attempt = call.attempt /\ Broken(call).said = call.said
           /\ Broken(call).content = call.content /\ Broken(call).source = call.source
           /\ Broken(call).spliced = call.spliced /\ Broken(call).client = call.client
           /\ Broken(call).asked = call.asked /\ Broken(call).at = call.at
           /\ Broken(call).vecs = call.vecs
<1> DEFINE new == [kind |-> call.kind, pc |-> call.pc, model |-> call.model,
                   explicit |-> call.explicit, cand |-> call.cand,
                   attempt |-> call.attempt, said |-> call.said, content |-> call.content,
                   source |-> call.source,
                   broke |-> (call.broke \/ call.said # "nothing"),
                   spliced |-> call.spliced, client |-> call.client, asked |-> call.asked,
                   at |-> call.at, vecs |-> call.vecs]
<1>1. Broken(call) = [call EXCEPT !.broke = (call.broke \/ call.said # "nothing")]
  BY DEF Broken
<1>2. Broken(call) = new
  BY <1>1 DEF CallType
<1>3. new \in CallType
  BY LlmAssumption DEF CallType, InFlight, Sources, Said
<1> QED BY <1>2, <1>3

\* When Broken remembers a failure.
LEMMA BrokenChanges ==
    ASSUME NEW call \in CallType
    PROVE  Broken(call).broke <=> (call.broke \/ call.said # "nothing")
BY DEF CallType, Broken

\* A call that goes to Groq.
LEMMA AskedOfGroqIs ==
    ASSUME NEW call \in CallType, key \in Keys
    PROVE  /\ AskedOfGroq(call) \in CallType /\ AskedOfGroq(call).kind = call.kind
           /\ AskedOfGroq(call).pc = "groq" /\ AskedOfGroq(call).model = call.model
           /\ AskedOfGroq(call).explicit = call.explicit
           /\ AskedOfGroq(call).cand = call.cand
           /\ AskedOfGroq(call).attempt = call.attempt
           /\ AskedOfGroq(call).said = "nothing"
           /\ AskedOfGroq(call).content = call.content
           /\ AskedOfGroq(call).source = call.source
           /\ AskedOfGroq(call).broke = call.broke
           /\ AskedOfGroq(call).spliced = call.spliced
           /\ AskedOfGroq(call).client = key
           /\ AskedOfGroq(call).asked = call.asked + 1
           /\ AskedOfGroq(call).at = call.at /\ AskedOfGroq(call).vecs = call.vecs
<1> DEFINE new == [kind |-> call.kind, pc |-> "groq", model |-> call.model,
                   explicit |-> call.explicit, cand |-> call.cand,
                   attempt |-> call.attempt, said |-> "nothing", content |-> call.content,
                   source |-> call.source, broke |-> call.broke, spliced |-> call.spliced,
                   client |-> key, asked |-> call.asked + 1, at |-> call.at,
                   vecs |-> call.vecs]
           a == [call EXCEPT !.pc = "groq"]
           b == [a EXCEPT !.client = key]
           c == [b EXCEPT !.said = "nothing"]
<1>1. AskedOfGroq(call) = [c EXCEPT !.asked = call.asked + 1]
  BY DEF AskedOfGroq, Asked
<1>2. AskedOfGroq(call) = new
  BY <1>1 DEF CallType
<1>3. new \in CallType
  BY LlmAssumption DEF CallType, InFlight, Sources, Said
<1> QED BY <1>2, <1>3

\* A call that goes to its n-th candidate.
LEMMA AskedOfIs ==
    ASSUME NEW call \in CallType, NEW n \in 0..4
    PROVE  /\ AskedOf(call, n) \in CallType /\ AskedOf(call, n).kind = call.kind
           /\ AskedOf(call, n).pc = "gemini" /\ AskedOf(call, n).model = call.model
           /\ AskedOf(call, n).explicit = call.explicit /\ AskedOf(call, n).cand = n
           /\ AskedOf(call, n).attempt = 1 /\ AskedOf(call, n).said = "nothing"
           /\ AskedOf(call, n).content = call.content
           /\ AskedOf(call, n).source = call.source
           /\ AskedOf(call, n).broke = call.broke
           /\ AskedOf(call, n).spliced = call.spliced
           /\ AskedOf(call, n).client = call.client
           /\ AskedOf(call, n).asked = call.asked + 1 /\ AskedOf(call, n).at = call.at
           /\ AskedOf(call, n).vecs = call.vecs
<1> DEFINE new == [kind |-> call.kind, pc |-> "gemini", model |-> call.model,
                   explicit |-> call.explicit, cand |-> n, attempt |-> 1,
                   said |-> "nothing", content |-> call.content, source |-> call.source,
                   broke |-> call.broke, spliced |-> call.spliced, client |-> call.client,
                   asked |-> call.asked + 1, at |-> call.at, vecs |-> call.vecs]
           a == [call EXCEPT !.pc = "gemini"]
           b == [a EXCEPT !.cand = n]
           c == [b EXCEPT !.attempt = 1]
           d == [c EXCEPT !.said = "nothing"]
<1>1. AskedOf(call, n) = [d EXCEPT !.asked = call.asked + 1]
  BY DEF AskedOf, Asked
<1>2. AskedOf(call, n) = new
  BY <1>1 DEF CallType
<1>3. new \in CallType
  BY LlmAssumption DEF CallType, InFlight, Sources, Said
<1> QED BY <1>2, <1>3

\* A call after one more attempt that was limited.
LEMMA BackingOffIs ==
    ASSUME NEW call \in CallType, NEW pc \in InFlight
    PROVE  /\ BackingOff(call, pc) \in CallType
           /\ BackingOff(call, pc).kind = call.kind /\ BackingOff(call, pc).pc = pc
           /\ BackingOff(call, pc).model = call.model
           /\ BackingOff(call, pc).explicit = call.explicit
           /\ BackingOff(call, pc).cand = call.cand
           /\ BackingOff(call, pc).attempt = call.attempt + 1
           /\ BackingOff(call, pc).said = call.said
           /\ BackingOff(call, pc).content = call.content
           /\ BackingOff(call, pc).source = call.source
           /\ BackingOff(call, pc).broke = call.broke
           /\ BackingOff(call, pc).spliced = call.spliced
           /\ BackingOff(call, pc).client = call.client
           /\ BackingOff(call, pc).asked = call.asked
           /\ BackingOff(call, pc).at = call.at
           /\ BackingOff(call, pc).vecs = call.vecs
<1> DEFINE new == [kind |-> call.kind, pc |-> pc, model |-> call.model,
                   explicit |-> call.explicit, cand |-> call.cand,
                   attempt |-> call.attempt + 1, said |-> call.said,
                   content |-> call.content, source |-> call.source, broke |-> call.broke,
                   spliced |-> call.spliced, client |-> call.client, asked |-> call.asked,
                   at |-> call.at, vecs |-> call.vecs]
           a == [call EXCEPT !.pc = pc]
<1>1. BackingOff(call, pc) = [a EXCEPT !.attempt = call.attempt + 1]
  BY DEF BackingOff
<1>2. BackingOff(call, pc) = new
  BY <1>1 DEF CallType
<1>3. new \in CallType
  BY LlmAssumption DEF CallType, InFlight, Sources, Said
<1> QED BY <1>2, <1>3

\* A call that embeds its texts from the first with NIM.
LEMMA FromFirstIs ==
    ASSUME NEW call \in CallType, NEW pc \in InFlight
    PROVE  /\ FromFirst(call, pc) \in CallType /\ FromFirst(call, pc).kind = call.kind
           /\ FromFirst(call, pc).pc = pc /\ FromFirst(call, pc).model = call.model
           /\ FromFirst(call, pc).explicit = call.explicit
           /\ FromFirst(call, pc).cand = call.cand
           /\ FromFirst(call, pc).attempt = call.attempt
           /\ FromFirst(call, pc).said = call.said
           /\ FromFirst(call, pc).content = call.content
           /\ FromFirst(call, pc).source = call.source
           /\ FromFirst(call, pc).broke = call.broke
           /\ FromFirst(call, pc).spliced = call.spliced
           /\ FromFirst(call, pc).client = call.client
           /\ FromFirst(call, pc).asked = call.asked + 1 /\ FromFirst(call, pc).at = 1
           /\ FromFirst(call, pc).vecs = <<>>
<1> DEFINE new == [kind |-> call.kind, pc |-> pc, model |-> call.model,
                   explicit |-> call.explicit, cand |-> call.cand,
                   attempt |-> call.attempt, said |-> call.said, content |-> call.content,
                   source |-> call.source, broke |-> call.broke, spliced |-> call.spliced,
                   client |-> call.client, asked |-> call.asked + 1, at |-> 1,
                   vecs |-> <<>>]
           a == [call EXCEPT !.pc = pc]
           b == [a EXCEPT !.at = 1]
           c == [b EXCEPT !.vecs = <<>>]
<1>1. FromFirst(call, pc) = [c EXCEPT !.asked = call.asked + 1]
  BY DEF FromFirst, Asked
<1>2. FromFirst(call, pc) = new
  BY <1>1 DEF CallType
<1>3. new \in CallType
  BY LlmAssumption DEF CallType, InFlight, Sources, Said
<1> QED BY <1>2, <1>3

\* A call that starts to embed with Gemini.
LEMMA EmbeddingFirstIs ==
    ASSUME NEW call \in CallType
    PROVE  /\ EmbeddingFirst(call) \in CallType
           /\ EmbeddingFirst(call).kind = call.kind
           /\ EmbeddingFirst(call).pc = "embedding"
           /\ EmbeddingFirst(call).model = call.model
           /\ EmbeddingFirst(call).explicit = call.explicit
           /\ EmbeddingFirst(call).cand = call.cand /\ EmbeddingFirst(call).attempt = 1
           /\ EmbeddingFirst(call).said = call.said
           /\ EmbeddingFirst(call).content = call.content
           /\ EmbeddingFirst(call).source = call.source
           /\ EmbeddingFirst(call).broke = call.broke
           /\ EmbeddingFirst(call).spliced = call.spliced
           /\ EmbeddingFirst(call).client = call.client
           /\ EmbeddingFirst(call).asked = call.asked + 1
           /\ EmbeddingFirst(call).at = 1 /\ EmbeddingFirst(call).vecs = call.vecs
<1> DEFINE new == [kind |-> call.kind, pc |-> "embedding", model |-> call.model,
                   explicit |-> call.explicit, cand |-> call.cand, attempt |-> 1,
                   said |-> call.said, content |-> call.content, source |-> call.source,
                   broke |-> call.broke, spliced |-> call.spliced, client |-> call.client,
                   asked |-> call.asked + 1, at |-> 1, vecs |-> call.vecs]
           a == [call EXCEPT !.pc = "embedding"]
           b == [a EXCEPT !.at = 1]
           c == [b EXCEPT !.attempt = 1]
<1>1. EmbeddingFirst(call) = [c EXCEPT !.asked = call.asked + 1]
  BY DEF EmbeddingFirst, Asked
<1>2. EmbeddingFirst(call) = new
  BY <1>1 DEF CallType
<1>3. new \in CallType
  BY LlmAssumption DEF CallType, InFlight, Sources, Said
<1> QED BY <1>2, <1>3

\* A call with one more batch, or not.
LEMMA WithBatchIs ==
    ASSUME NEW call \in CallType, Embedder(call) \in Embedders, NEW short \in BOOLEAN
    PROVE  /\ WithBatch(call, short) \in CallType
           /\ WithBatch(call, short).kind = call.kind
           /\ WithBatch(call, short).pc =
                  (IF call.pc = "embeddingEach" THEN "embedding" ELSE call.pc)
           /\ WithBatch(call, short).model = call.model
           /\ WithBatch(call, short).explicit = call.explicit
           /\ WithBatch(call, short).cand = call.cand
           /\ WithBatch(call, short).attempt = 1
           /\ WithBatch(call, short).said = call.said
           /\ WithBatch(call, short).content = call.content
           /\ WithBatch(call, short).source = call.source
           /\ WithBatch(call, short).broke = call.broke
           /\ WithBatch(call, short).spliced = call.spliced
           /\ WithBatch(call, short).client = call.client
           /\ WithBatch(call, short).asked = call.asked
           /\ WithBatch(call, short).at = call.at
<1> DEFINE pc == IF call.pc = "embeddingEach" THEN "embedding" ELSE call.pc
           new == [kind |-> call.kind, pc |-> pc, model |-> call.model,
                   explicit |-> call.explicit, cand |-> call.cand, attempt |-> 1,
                   said |-> call.said, content |-> call.content, source |-> call.source,
                   broke |-> call.broke, spliced |-> call.spliced, client |-> call.client,
                   asked |-> call.asked, at |-> call.at,
                   vecs |-> (IF short THEN call.vecs ELSE Append(call.vecs, Embedder(call)))]
           o == [call EXCEPT !.pc = pc]
           a == [o EXCEPT !.vecs = (IF short THEN call.vecs
                                       ELSE Append(call.vecs, Embedder(call)))]
<1>1. WithBatch(call, short) = [a EXCEPT !.attempt = 1]
  BY DEF WithBatch
<1>2. WithBatch(call, short) = new
  BY <1>1 DEF CallType
<1>3. new \in CallType
  BY LlmAssumption DEF CallType, InFlight, Sources, Said, Embedders
<1> QED BY <1>2, <1>3

\* The vectors of a call with one more batch.
LEMMA WithBatchChanges ==
    ASSUME NEW call \in CallType, NEW short \in BOOLEAN
    PROVE  WithBatch(call, short).vecs =
               (IF short THEN call.vecs ELSE Append(call.vecs, Embedder(call)))
BY DEF CallType, WithBatch

\* A call that asks for the batch after this one.
LEMMA NextBatchIs ==
    ASSUME NEW call \in CallType, call.at < Batches
    PROVE  /\ NextBatch(call) \in CallType /\ NextBatch(call).kind = call.kind
           /\ NextBatch(call).pc = call.pc /\ NextBatch(call).model = call.model
           /\ NextBatch(call).explicit = call.explicit
           /\ NextBatch(call).cand = call.cand
           /\ NextBatch(call).attempt = call.attempt
           /\ NextBatch(call).said = call.said
           /\ NextBatch(call).content = call.content
           /\ NextBatch(call).source = call.source
           /\ NextBatch(call).broke = call.broke
           /\ NextBatch(call).spliced = call.spliced
           /\ NextBatch(call).client = call.client
           /\ NextBatch(call).asked = call.asked + 1
           /\ NextBatch(call).at = call.at + 1 /\ NextBatch(call).vecs = call.vecs
<1> DEFINE new == [kind |-> call.kind, pc |-> call.pc, model |-> call.model,
                   explicit |-> call.explicit, cand |-> call.cand,
                   attempt |-> call.attempt, said |-> call.said, content |-> call.content,
                   source |-> call.source, broke |-> call.broke, spliced |-> call.spliced,
                   client |-> call.client, asked |-> call.asked + 1, at |-> call.at + 1,
                   vecs |-> call.vecs]
           a == [call EXCEPT !.at = call.at + 1]
<1>1. NextBatch(call) = [a EXCEPT !.asked = call.asked + 1]
  BY DEF NextBatch, Asked
<1>2. NextBatch(call) = new
  BY <1>1 DEF CallType
<1>3. new \in CallType
  BY LlmAssumption DEF CallType, InFlight, Sources, Said
<1> QED BY <1>2, <1>3

\* A call answered with made-up vectors.
LEMMA MockedIs ==
    ASSUME NEW call \in CallType
    PROVE  /\ Mocked(call) \in CallType /\ Mocked(call).kind = call.kind
           /\ Mocked(call).pc = "done" /\ Mocked(call).model = call.model
           /\ Mocked(call).explicit = FALSE /\ Mocked(call).cand = 0
           /\ Mocked(call).attempt = 0 /\ Mocked(call).said = call.said
           /\ Mocked(call).content = call.content /\ Mocked(call).source = call.source
           /\ Mocked(call).broke = call.broke /\ Mocked(call).spliced = call.spliced
           /\ Mocked(call).client = NoKey /\ Mocked(call).asked = 0
           /\ Mocked(call).at = 0 /\ Mocked(call).vecs = [i \in 1..Batches |-> "mock"]
<1> DEFINE new == [kind |-> call.kind, pc |-> "done", model |-> call.model,
                   explicit |-> FALSE, cand |-> 0, attempt |-> 0, said |-> call.said,
                   content |-> call.content, source |-> call.source, broke |-> call.broke,
                   spliced |-> call.spliced, client |-> NoKey, asked |-> 0, at |-> 0,
                   vecs |-> [i \in 1..Batches |-> "mock"]]
           a == [call EXCEPT !.vecs = [i \in 1..Batches |-> "mock"]]
           b == [a EXCEPT !.pc = "done"]
           c == [b EXCEPT !.explicit = FALSE]
           d == [c EXCEPT !.cand = 0]
           e == [d EXCEPT !.attempt = 0]
           f == [e EXCEPT !.client = NoKey]
           g == [f EXCEPT !.asked = 0]
<1>1. Mocked(call) = [g EXCEPT !.at = 0]
  BY DEF Mocked, Done
<1>2. Mocked(call) = new
  BY <1>1 DEF CallType
<1>3. new \in CallType
  BY LlmAssumption DEF CallType, InFlight, Sources, Said, Embedders
<1> QED BY <1>2, <1>3

\* A call that found no answer.
LEMMA EndingIs ==
    ASSUME NEW call \in CallType, NEW source \in Sources
    PROVE  /\ Ending(call, source) \in CallType
           /\ Ending(call, source).kind = call.kind /\ Ending(call, source).pc = "done"
           /\ Ending(call, source).model = call.model
           /\ Ending(call, source).explicit = FALSE /\ Ending(call, source).cand = 0
           /\ Ending(call, source).attempt = 0 /\ Ending(call, source).said = "content"
           /\ Ending(call, source).content = TRUE
           /\ Ending(call, source).source = source
           /\ Ending(call, source).client = NoKey /\ Ending(call, source).asked = 0
           /\ Ending(call, source).at = 0 /\ Ending(call, source).vecs = call.vecs
<1> DEFINE x == From(call, source)
           y == [x EXCEPT !.said = "content"]
           z == [y EXCEPT !.content = TRUE]
<1>1. /\ x \in CallType /\ x.kind = call.kind /\ x.model = call.model
      /\ x.source = source /\ x.vecs = call.vecs
  BY FromIs
<1>2. Ending(call, source) = Done(z)
  BY DEF Ending
<1> HIDE DEF x
<1>3. /\ y \in CallType /\ y.kind = x.kind /\ y.model = x.model /\ y.said = "content"
      /\ y.source = x.source /\ y.vecs = x.vecs
  BY <1>1 DEF CallType, Said
<1> HIDE DEF y
<1>4. /\ z \in CallType /\ z.kind = y.kind /\ z.model = y.model /\ z.said = y.said
      /\ z.content = TRUE /\ z.source = y.source /\ z.vecs = y.vecs
  BY <1>3 DEF CallType
<1> HIDE DEF z
<1>5. /\ Done(z) \in CallType /\ Done(z).kind = z.kind /\ Done(z).pc = "done"
      /\ Done(z).model = z.model /\ Done(z).explicit = FALSE /\ Done(z).cand = 0
      /\ Done(z).attempt = 0 /\ Done(z).said = z.said /\ Done(z).content = z.content
      /\ Done(z).source = z.source /\ Done(z).client = NoKey /\ Done(z).asked = 0
      /\ Done(z).at = 0 /\ Done(z).vecs = z.vecs
  BY <1>4, DoneIs
<1> QED BY <1>1, <1>2, <1>3, <1>4, <1>5

\* What Ending changes of the history of a stream.
LEMMA EndingChanges ==
    ASSUME NEW call \in CallType, NEW source \in Sources
    PROVE  /\ Ending(call, source).broke <=> (call.broke /\ call.source = source)
           /\ Ending(call, source).spliced <=> (call.spliced \/ Splices(call, source))
BY DEF CallType, Ending, From, Splices, Done

\* A call after one more piece of a stream, by the one that From makes.
LEMMA HeardIs ==
    ASSUME NEW call \in CallType, NEW old, NEW source, call = From(old, source),
           NEW piece \in Pieces
    PROVE  /\ Heard(old, source, piece) \in CallType
           /\ Heard(old, source, piece).kind = call.kind
           /\ Heard(old, source, piece).pc = call.pc
           /\ Heard(old, source, piece).model = call.model
           /\ Heard(old, source, piece).explicit = call.explicit
           /\ Heard(old, source, piece).cand = call.cand
           /\ Heard(old, source, piece).attempt = call.attempt
           /\ Heard(old, source, piece).said = Saying(call.said, piece)
           /\ Heard(old, source, piece).source = call.source
           /\ Heard(old, source, piece).broke = call.broke
           /\ Heard(old, source, piece).spliced = call.spliced
           /\ Heard(old, source, piece).client = call.client
           /\ Heard(old, source, piece).asked = call.asked
           /\ Heard(old, source, piece).at = call.at
           /\ Heard(old, source, piece).vecs = call.vecs
<1> DEFINE said == Saying(call.said, piece)
           content == call.content \/ piece = "content"
           x == [call EXCEPT !.said = said]
           y == [x EXCEPT !.content = content]
<1>1. said \in Said /\ content \in BOOLEAN
  BY DEF Saying, Said, Pieces, CallType
<1>2. Heard(old, source, piece) = y
  BY DEF Heard
<1> HIDE DEF said, content
<1>3. /\ x \in CallType /\ x.kind = call.kind /\ x.pc = call.pc /\ x.model = call.model
      /\ x.explicit = call.explicit /\ x.cand = call.cand /\ x.attempt = call.attempt
      /\ x.said = said /\ x.source = call.source /\ x.broke = call.broke
      /\ x.spliced = call.spliced /\ x.client = call.client /\ x.asked = call.asked
      /\ x.at = call.at /\ x.vecs = call.vecs
  BY <1>1 DEF CallType
<1> HIDE DEF x
<1>4. /\ y \in CallType /\ y.kind = x.kind /\ y.pc = x.pc /\ y.model = x.model
      /\ y.explicit = x.explicit /\ y.cand = x.cand /\ y.attempt = x.attempt
      /\ y.said = x.said /\ y.source = x.source /\ y.broke = x.broke
      /\ y.spliced = x.spliced /\ y.client = x.client /\ y.asked = x.asked
      /\ y.at = x.at /\ y.vecs = x.vecs
  BY <1>1, <1>3 DEF CallType
<1> HIDE DEF y
<1> QED BY <1>2, <1>3, <1>4 DEF said

\* A stream has content once a piece of it was content.
LEMMA HeardChanges ==
    ASSUME NEW call \in CallType, NEW old, NEW source, call = From(old, source),
           NEW piece \in Pieces
    PROVE  Heard(old, source, piece).content <=> (call.content \/ piece = "content")
BY DEF CallType, Heard

\* A call at another await.
LEMMA AtIs ==
    ASSUME NEW call \in CallType, NEW pc \in InFlight,
           NEW x, x = [call EXCEPT !.pc = pc]
    PROVE  /\ x \in CallType /\ x.kind = call.kind /\ x.pc = pc /\ x.model = call.model
           /\ x.explicit = call.explicit /\ x.cand = call.cand
           /\ x.attempt = call.attempt /\ x.said = call.said
           /\ x.content = call.content /\ x.source = call.source
           /\ x.broke = call.broke /\ x.spliced = call.spliced
           /\ x.client = call.client /\ x.asked = call.asked /\ x.at = call.at
           /\ x.vecs = call.vecs
<1> DEFINE new == [kind |-> call.kind, pc |-> pc, model |-> call.model,
                   explicit |-> call.explicit, cand |-> call.cand,
                   attempt |-> call.attempt, said |-> call.said, content |-> call.content,
                   source |-> call.source, broke |-> call.broke, spliced |-> call.spliced,
                   client |-> call.client, asked |-> call.asked, at |-> call.at,
                   vecs |-> call.vecs]
<1>1. x = [call EXCEPT !.pc = pc]
  BY DEF CallType
<1>2. x = new
  BY <1>1 DEF CallType
<1>3. new \in CallType
  BY LlmAssumption DEF CallType, InFlight, Sources, Said
<1> QED BY <1>2, <1>3

\* A reasoning whose end is repeated as content.
LEMMA ContentIs ==
    ASSUME NEW call \in CallType, NEW content \in BOOLEAN,
           NEW x, x = [call EXCEPT !.content = content]
    PROVE  /\ x \in CallType /\ x.kind = call.kind /\ x.pc = call.pc
           /\ x.model = call.model /\ x.explicit = call.explicit /\ x.cand = call.cand
           /\ x.attempt = call.attempt /\ x.said = call.said /\ x.content = content
           /\ x.source = call.source /\ x.broke = call.broke
           /\ x.spliced = call.spliced /\ x.client = call.client
           /\ x.asked = call.asked /\ x.at = call.at /\ x.vecs = call.vecs
<1> DEFINE new == [kind |-> call.kind, pc |-> call.pc, model |-> call.model,
                   explicit |-> call.explicit, cand |-> call.cand,
                   attempt |-> call.attempt, said |-> call.said, content |-> content,
                   source |-> call.source, broke |-> call.broke, spliced |-> call.spliced,
                   client |-> call.client, asked |-> call.asked, at |-> call.at,
                   vecs |-> call.vecs]
<1>1. x = [call EXCEPT !.content = content]
  BY DEF CallType
<1>2. x = new
  BY <1>1 DEF CallType
<1>3. new \in CallType
  BY LlmAssumption DEF CallType, InFlight, Sources, Said
<1> QED BY <1>2, <1>3

-----------------------------------------------------------------------------
(* The invariant of one call.                                              *)

Times(n, each) == n * each

Chain(call) == Len(Candidates[call.model])

\* The most requests that an attempt at the candidate of a call takes.
AttemptAt(call) == IF Source(call) \in Thinking THEN 2 ELSE 1

\* The most that the candidates before that one took in one attempt each, and
\* that all of them take.
Before(call) == Attempts(call.model, call.cand - 1)
Overall(call) == Attempts(call.model, Chain(call))

\* The most requests that a batch takes of Gemini.
PerBatch(call) == Times(MaxRetries, AttemptAtBatch(call))

\* Where a call of each kind may be, and the range of what it counts there.
Placed(call) ==
    /\ call.pc \in {"gemini", "plain", "groq"} => call.kind \in {"complete", "stream"}
    /\ call.pc = "backoff" => call.kind = "complete"
    /\ call.pc \in {"streaming", "groqStreaming", "noticed"} => call.kind = "stream"
    /\ call.pc \in {"embedding", "embeddingEach", "embedBackoff", "nim", "e5"} =>
           call.kind = "embed" /\ call.at \in 1..Batches
    /\ call.pc \in {"gemini", "plain", "backoff", "streaming"} =>
           call.cand \in 1..Chain(call)
    /\ call.pc \in {"gemini", "plain", "backoff", "embedding", "embeddingEach",
                    "embedBackoff"} =>
           call.attempt \in 1..MaxRetries
    /\ call.pc = "plain" => Source(call) \in Thinking
    /\ call.pc = "embeddingEach" => call.explicit

\* The requests made so far, by where the call is: of an answer, ...
CountedForAnswer(call) ==
    LET before == Times(Before(call), MaxRetries) + Times(call.attempt - 1, AttemptAt(call))
    IN /\ call.pc = "gemini" => call.asked <= before + 1
       /\ call.pc = "plain" => call.asked <= before + 2
       /\ call.pc = "backoff" => call.asked <= before
       /\ call.pc = "groq" => call.asked <= Times(Overall(call), MaxRetries) + 1

\* ... of a stream, ...
CountedForStream(call) ==
    /\ call.pc = "gemini" => call.asked <= Before(call) + 1
    /\ call.pc \in {"plain", "streaming"} => call.asked <= Before(call) + AttemptAt(call)
    /\ call.pc \in {"groq", "groqStreaming", "noticed"} => call.asked <= Overall(call) + 1

\* ... and of vectors.
CountedForVectors(call) ==
    LET each == AttemptAtBatch(call)
        before == Times(call.at - 1, PerBatch(call)) + Times(call.attempt - 1, each)
        all == Times(Batches, PerBatch(call))
    IN /\ call.pc = "embedding" => call.asked <= before + 1
       /\ call.pc = "embeddingEach" => call.asked <= before + each
       /\ call.pc = "embedBackoff" => call.asked <= before
       /\ call.pc = "nim" => call.asked <= all + call.at
       /\ call.pc = "e5" => call.asked <= all + Batches + call.at

Counted(call) ==
    /\ call.kind = "complete" => CountedForAnswer(call)
    /\ call.kind = "stream" => CountedForStream(call)
    /\ call.kind = "embed" => CountedForVectors(call)
    /\ call.pc \in Ended => call.asked = 0

\* A stream between two sources: nothing heard yet, or the last one broke off.
Between(call) ==
    /\ ~call.spliced
    /\ call.source = "none" \/ call.broke
    /\ call.said = "content" => call.content

\* What the reader of a stream has heard, by where the call is.
Hearing(call) ==
    call.kind = "stream" =>
        /\ call.pc \in {"gemini", "plain", "groq", "noticed"} => Between(call)
        /\ call.pc \in {"gemini", "plain", "groq"} => call.said = "nothing"
        /\ call.pc \in {"streaming", "groqStreaming"} =>
               /\ ~call.spliced
               /\ call.said = "nothing" => Between(call)
               /\ call.said # "nothing" =>
                      call.source = IF call.pc = "streaming" THEN Source(call) ELSE "groq"
               /\ call.said = "content" => call.content
               /\ call.said = "marked" => call.pc = "groqStreaming"
        /\ call.pc = "done" =>
               /\ ~call.spliced
               /\ \/ call.content
                  \/ call.said = "blank"
                  \/ call.said = "reasoning" /\ call.source \in Gemini
                  \/ call.said = "marked" /\ call.source = "groq"

AllFrom(call, embedder) == \A i \in 1..Len(call.vecs) : call.vecs[i] = embedder

\* The vectors collected so far are of the model that is being asked.
Collected(call) ==
    call.kind = "embed" =>
        /\ call.pc \in {"embedding", "embeddingEach", "embedBackoff"} => AllFrom(call, "gemini")
        /\ call.pc = "nim" => AllFrom(call, "nim")
        /\ call.pc = "e5" => AllFrom(call, "e5")
        /\ call.pc = "done" =>
               /\ Len(call.vecs) = Batches
               /\ \A i \in 1..Batches : call.vecs[i] = call.vecs[1]

CallInv(call) ==
    call \in CallType /\ Placed(call) /\ Counted(call) /\ Hearing(call) /\ Collected(call)

CallsInv == /\ DOMAIN calls = Calls
            /\ calls = [c \in Calls |-> calls[c]]
            /\ \A c \in Calls : CallInv(calls[c])

\* The step replaces the call c by one that has the invariant.
StepsTo(c) == \E x : CallInv(x) /\ calls' = [calls EXCEPT ![c] = x]

\* The call may be handed on after n candidates: the requests they took, and
\* what has been heard of them.
Ready(call, n) ==
    /\ call \in CallType
    /\ call.kind \in {"complete", "stream"}
    /\ call.asked <= IF call.kind = "complete" THEN Times(Attempts(call.model, n), MaxRetries)
                     ELSE Attempts(call.model, n)
    /\ call.kind = "stream" => Between(call)

-----------------------------------------------------------------------------
(* Arithmetic, and the chains of candidates.                                *)

\* Counting so many each.
LEMMA TimesIs ==
    ASSUME NEW n \in Nat, NEW e \in Nat
    PROVE  Times(n, e) \in Nat /\ Times(n + 1, e) = Times(n, e) + e /\ Times(0, e) = 0
<1>1. n * e \in Nat /\ 0 * e = 0
  OBVIOUS
<1>2. (n + 1) * e = n * e + e
  OBVIOUS
<1> QED BY <1>1, <1>2 DEF Times

\* More of them are no fewer.
LEMMA TimesGrows ==
    ASSUME NEW m \in Nat, NEW n \in Nat, m <= n, NEW e \in Nat
    PROVE  Times(m, e) \in Nat /\ Times(n, e) \in Nat /\ Times(m, e) <= Times(n, e)
<1> DEFINE a == m * e
           b == n * e
           d == (n - m) * e
<1>1. n - m \in Nat
  OBVIOUS
<1>2. a \in Nat /\ b \in Nat /\ d \in Nat
  BY <1>1
<1>3. b = a + d
  OBVIOUS
<1> HIDE DEF a, b, d
<1>4. a <= b
  BY <1>2, <1>3
<1> QED BY <1>2, <1>4 DEF Times, a, b

\* The attempts at something are its first ones and its last one.
LEMMA AttemptsOfOne ==
    ASSUME NEW a \in 1..MaxRetries, NEW e \in Nat
    PROVE  /\ Times(a - 1, e) \in Nat /\ Times(a, e) \in Nat
           /\ Times(a - 1, e) + e = Times(a, e)
           /\ Times(a, e) <= Times(MaxRetries, e)
           /\ Times(MaxRetries, e) \in Nat
<1> DEFINE n == a - 1
<1>1. MaxRetries \in Nat /\ n \in Nat /\ n + 1 = a /\ a \in Nat /\ a <= MaxRetries
  BY LlmAssumption
<1> HIDE DEF n
<1>2. Times(n, e) \in Nat /\ Times(n + 1, e) = Times(n, e) + e
  BY <1>1, TimesIs
<1>3. Times(a, e) \in Nat /\ Times(a, e) <= Times(MaxRetries, e)
  BY <1>1, TimesGrows
<1>4. Times(MaxRetries, e) \in Nat
  BY <1>1, TimesIs
<1> QED BY <1>1, <1>2, <1>3, <1>4 DEF n

\* MaxRetries attempts at one more candidate.
LEMMA OneMoreCandidate ==
    ASSUME NEW b \in Nat, NEW e \in Nat
    PROVE  Times(b, MaxRetries) + Times(MaxRetries, e) = Times(b + e, MaxRetries)
<1> MaxRetries \in Nat
  BY LlmAssumption
<1> b * MaxRetries + MaxRetries * e = (b + e) * MaxRetries
  OBVIOUS
<1> QED BY DEF Times

\* A chain has up to four candidates, none for Groq, all of Gemini.
LEMMA ChainsAre ==
    ASSUME NEW m \in DOMAIN Candidates
    PROVE  /\ Len(Candidates[m]) \in 0..4
           /\ m # "groq" => Len(Candidates[m]) >= 1
           /\ \A i \in 1..Len(Candidates[m]) : Candidates[m][i] \in Gemini
<1> m \in {"groq", "three", "two", "flash"}
  BY DEF Candidates
<1>1. CASE m = "groq"
  BY <1>1 DEF Candidates, Gemini
<1>2. CASE m = "three"
  BY <1>2 DEF Candidates, Gemini
<1>3. CASE m = "two"
  BY <1>3 DEF Candidates, Gemini
<1>4. CASE m = "flash"
  BY <1>4 DEF Candidates, Gemini
<1> QED BY <1>1, <1>2, <1>3, <1>4

\* One more candidate adds a request to every round of attempts, or two.
LEMMA AttemptsGrow ==
    ASSUME NEW m, NEW n \in Nat
    PROVE  /\ Attempts(m, n) \in Nat
           /\ Attempts(m, 0) = 0
           /\ Attempts(m, n + 1) = Attempts(m, n)
                                    + (IF Candidates[m][n + 1] \in Thinking THEN 2 ELSE 1)
<1> DEFINE T(k) == {i \in 1..k : Candidates[m][i] \in Thinking}
<1>1. ASSUME NEW k \in Nat PROVE IsFiniteSet(T(k)) /\ Cardinality(T(k)) \in Nat
  <2>1. IsFiniteSet(1..k)
    BY FS_Interval
  <2>2. IsFiniteSet(T(k))
    BY <2>1, FS_Subset
  <2> QED BY <2>2, FS_CardinalityType
<1>2. Cardinality(T(0)) = 0
  <2> T(0) = {}
    OBVIOUS
  <2> QED BY FS_EmptySet
<1>3. /\ IsFiniteSet(T(n)) /\ Cardinality(T(n)) \in Nat
      /\ Attempts(m, n) = n + Cardinality(T(n)) /\ Attempts(m, 0) = 0 + Cardinality(T(0))
      /\ Attempts(m, n + 1) = n + 1 + Cardinality(T(n + 1))
  BY <1>1 DEF Attempts
<1>4. CASE Candidates[m][n + 1] \in Thinking
  <2>1. T(n + 1) = T(n) \cup {n + 1} /\ n + 1 \notin T(n)
    BY <1>4
  <2>2. Cardinality(T(n + 1)) = Cardinality(T(n)) + 1
    BY <1>3, <2>1, FS_AddElement
  <2> HIDE DEF T
  <2> QED BY <1>2, <1>4, <1>3, <2>2
<1>5. CASE Candidates[m][n + 1] \notin Thinking
  <2>1. T(n + 1) = T(n)
    BY <1>5
  <2> HIDE DEF T
  <2> QED BY <1>2, <1>5, <1>3, <2>1
<1> QED BY <1>4, <1>5

\* More candidates take no fewer requests.
LEMMA AttemptsMonotone ==
    ASSUME NEW m, NEW i \in Nat, NEW j \in Nat, i <= j
    PROVE  /\ Attempts(m, i) \in Nat /\ Attempts(m, j) \in Nat
           /\ Attempts(m, i) <= Attempts(m, j)
<1> DEFINE T(k) == {x \in 1..k : Candidates[m][x] \in Thinking}
<1>1. IsFiniteSet(1..j) /\ T(j) \subseteq 1..j /\ T(i) \subseteq T(j)
  BY FS_Interval
<1>2. IsFiniteSet(T(j))
  BY <1>1, FS_Subset
<1>3. /\ IsFiniteSet(T(i)) /\ Cardinality(T(i)) <= Cardinality(T(j))
      /\ Cardinality(T(i)) \in Nat /\ Cardinality(T(j)) \in Nat
  BY <1>1, <1>2, FS_Subset, FS_CardinalityType
<1> QED BY <1>3 DEF Attempts

\* What the candidates up to that of a call take.
LEMMA BeforeIs ==
    ASSUME NEW call \in CallType, call.cand \in 1..Chain(call)
    PROVE  /\ Before(call) \in Nat /\ AttemptAt(call) \in {1, 2}
           /\ Attempts(call.model, call.cand) = Before(call) + AttemptAt(call)
           /\ Attempts(call.model, call.cand) \in Nat
           /\ Attempts(call.model, call.cand) <= Overall(call)
           /\ Overall(call) \in Nat
<1> DEFINE n == call.cand - 1
<1>1. Chain(call) \in Nat
  BY ChainsAre DEF Chain, CallType
<1>2. n \in Nat /\ n + 1 = call.cand /\ call.cand \in Nat /\ call.cand <= Chain(call)
  BY <1>1
<1> HIDE DEF n
<1>3. /\ Attempts(call.model, n) \in Nat
      /\ Attempts(call.model, n + 1) = Attempts(call.model, n)
                                       + (IF Candidates[call.model][n + 1] \in Thinking
                                          THEN 2 ELSE 1)
  BY <1>2, AttemptsGrow
<1>4. Attempts(call.model, call.cand) \in Nat
      /\ Attempts(call.model, call.cand) <= Attempts(call.model, Chain(call))
      /\ Attempts(call.model, Chain(call)) \in Nat
  BY <1>1, <1>2, AttemptsMonotone
<1>5. Before(call) = Attempts(call.model, n)
  BY DEF Before, n
<1> QED BY <1>2, <1>3, <1>4, <1>5 DEF AttemptAt, Source, Overall

\* What a batch takes of Gemini.
LEMMA PerBatchIs ==
    ASSUME NEW call \in CallType
    PROVE  /\ AttemptAtBatch(call) \in Nat /\ 1 <= AttemptAtBatch(call)
           /\ call.explicit => AttemptAtBatch(call) = 1 + BatchSize
           /\ PerBatch(call) \in Nat
           /\ Batches \in Nat /\ MaxRetries \in Nat
           /\ Times(Batches, PerBatch(call)) \in Nat
<1>1. Batches \in Nat /\ MaxRetries \in Nat /\ BatchSize \in Nat
  BY LlmAssumption
<1>2. /\ AttemptAtBatch(call) \in Nat /\ 1 <= AttemptAtBatch(call)
      /\ call.explicit => AttemptAtBatch(call) = 1 + BatchSize
  BY <1>1 DEF AttemptAtBatch, CallType
<1>3. PerBatch(call) \in Nat
  BY <1>1, <1>2, TimesIs DEF PerBatch
<1> QED BY <1>1, <1>2, <1>3, TimesIs

\* There is a model.
LEMMA AnyModelIsOne == AnyModel \in DOMAIN Candidates
BY DEF AnyModel, Candidates

\* A call that is not under way has asked for nothing yet.
LEMMA CountedAtEnd ==
    ASSUME NEW call, call.pc \in Ended, call.asked = 0
    PROVE  Counted(call)
<1> CountedForAnswer(call) /\ CountedForStream(call) /\ CountedForVectors(call)
  BY DEF CountedForAnswer, CountedForStream, CountedForVectors, Ended
<1> QED BY DEF Counted

\* A call that has done nothing has the invariant and may be handed on.
LEMMA FreshIs ==
    ASSUME NEW kind \in {"complete", "stream", "embed"}, NEW model \in DOMAIN Candidates,
           NEW explicit \in BOOLEAN
    PROVE  /\ Fresh(kind, model, explicit) \in CallType
           /\ CallInv(Fresh(kind, model, explicit))
           /\ kind # "embed" => Ready(Fresh(kind, model, explicit), 0)
<1> DEFINE x == Fresh(kind, model, explicit)
<1>1. x \in CallType
  BY LlmAssumption DEF Fresh, CallType, InFlight, Said
<1>2. /\ x.kind = kind /\ x.pc = "idle" /\ x.asked = 0 /\ ~x.spliced
      /\ x.source = "none" /\ x.said = "nothing"
  BY DEF Fresh
<1>3. CallInv(x)
  BY <1>1, <1>2, CountedAtEnd DEF CallInv, Placed, Hearing, Collected, Ended
<1>4. kind # "embed" => Ready(x, 0)
  <2> MaxRetries \in Nat
    BY LlmAssumption
  <2> Times(0, MaxRetries) = 0 /\ Attempts(x.model, 0) = 0
    BY TimesIs, AttemptsGrow
  <2> QED BY <1>1, <1>2 DEF Ready, Between
<1> QED BY <1>1, <1>3, <1>4

\* A step that replaces one call by a good one keeps all calls good.
LEMMA OneCall ==
    ASSUME CallsInv, NEW c \in Calls, StepsTo(c)
    PROVE  CallsInv'
<1> PICK x : CallInv(x) /\ calls' = [calls EXCEPT ![c] = x]
  BY DEF StepsTo
<1> QED BY DEF CallsInv

-----------------------------------------------------------------------------
(* Handing over.                                                           *)

\* The evidence, or the notice before it, ends a chain or goes before its end.
LEMMA LastWordIs ==
    ASSUME NEW call \in CallType, NEW source \in Sources,
           call.kind = "stream" => ~call.spliced /\ (call.source = "none" \/ call.broke),
           call.kind \in {"complete", "stream"}
    PROVE  CallInv(Ending(call, source))
<1> DEFINE x == Ending(call, source)
<1>1. x \in CallType /\ x.kind = call.kind /\ x.pc = "done"
  BY EndingIs
<1>2. x.asked = 0 /\ x.content
  BY EndingIs
<1>3. x.spliced <=> (call.spliced \/ Splices(call, source))
  BY EndingChanges
<1> HIDE DEF x
<1>4. CallInv(x)
  BY <1>1, <1>2, <1>3, CountedAtEnd DEF CallInv, Placed, Hearing, Collected, Ended,
                          Splices
<1> QED BY <1>4 DEF x

\* Evidence for a call that may be handed on: at once, or after the notice.
LEMMA EvidenceKeeps ==
    ASSUME NEW call \in CallType, NEW seen, call.kind \in {"complete", "stream"},
           call.kind = "stream" => Between(call) /\ call.asked <= Overall(call) + 1
    PROVE  CallInv(EvidenceFor(call, seen))
<1>1. CASE call.kind = "stream" /\ seen # NoKey
  <2> DEFINE x == [call EXCEPT !.pc = "noticed"]
  <2>1. x = [call EXCEPT !.pc = "noticed"] /\ "noticed" \in InFlight
    BY DEF InFlight
  <2>2. /\ x \in CallType /\ x.kind = call.kind /\ x.pc = "noticed" /\ x.asked = call.asked
        /\ x.model = call.model /\ x.spliced = call.spliced /\ x.source = call.source
        /\ x.broke = call.broke /\ x.said = call.said /\ x.content = call.content
    BY <2>1, AtIs
  <2> HIDE DEF x
  <2>3. Counted(x)
    BY <2>2, <1>1 DEF Counted, CountedForStream, Overall, Chain, Ended
  <2>4. CallInv(x)
    BY <2>2, <2>3, <1>1 DEF CallInv, Placed, Hearing, Collected, Between
  <2> QED BY <2>4, <1>1 DEF EvidenceFor, x
<1>2. CASE ~(call.kind = "stream" /\ seen # NoKey)
  <2>1. EvidenceFor(call, seen) = Shown(call)
    BY <1>2 DEF EvidenceFor
  <2> QED BY <2>1, LastWordIs DEF Shown, Sources, Between
<1> QED BY <1>1, <1>2

\* Handing over to Groq, or past it when there is no key.
LEMMA ToGroqKeeps ==
    ASSUME TypeOK, NEW c \in Calls, NEW call, Ready(call, Chain(call)),
           ToGroq(c, call)
    PROVE  StepsTo(c)
<1> call \in CallType /\ call.model \in DOMAIN Candidates /\ call.asked \in Nat
  BY DEF Ready, CallType
<1>0. Overall(call) \in Nat /\ Times(Overall(call), MaxRetries) \in Nat
  <2>1. Chain(call) \in Nat /\ MaxRetries \in Nat
    BY ChainsAre, LlmAssumption DEF Chain
  <2>2. Overall(call) \in Nat
    BY <2>1, AttemptsGrow DEF Overall
  <2> QED BY <2>1, <2>2, TimesIs
<1>1. CASE key = NoKey
  <2>1. CallInv(EvidenceFor(call, notice))
    BY <1>0, EvidenceKeeps DEF Ready, Overall
  <2> QED BY <2>1, <1>1 DEF StepsTo, ToGroq
<1>2. CASE key # NoKey
  <2> DEFINE x == AskedOfGroq(call)
  <2>1. key \in Keys
    BY <1>2 DEF TypeOK
  <2>2. /\ x \in CallType /\ x.kind = call.kind /\ x.pc = "groq" /\ x.asked = call.asked + 1
        /\ x.model = call.model /\ x.spliced = call.spliced /\ x.source = call.source
        /\ x.broke = call.broke /\ x.said = "nothing" /\ x.content = call.content
    BY <2>1, AskedOfGroqIs
  <2>3. calls' = [calls EXCEPT ![c] = x]
    BY <1>2 DEF ToGroq
  <2> HIDE DEF x
  <2>4. Placed(x) /\ Collected(x)
    BY <2>2 DEF Placed, Collected, Ready
  <2>5. Counted(x)
    <3> Overall(x) = Overall(call)
      BY <2>2 DEF Overall, Chain
    <3>1. call.kind = "complete" => CountedForAnswer(x)
      BY <1>0, <2>2 DEF CountedForAnswer, Ready, Overall
    <3>2. call.kind = "stream" => CountedForStream(x)
      BY <1>0, <2>2 DEF CountedForStream, Ready, Overall
    <3> QED BY <2>2, <3>1, <3>2 DEF Counted, Ended, Ready
  <2>6. Hearing(x)
    BY <2>2 DEF Hearing, Between, Ready
  <2> QED BY <2>2, <2>3, <2>4, <2>5, <2>6 DEF StepsTo, CallInv
<1> QED BY <1>1, <1>2

\* Handing over when no candidate is left.
LEMMA AfterGeminiKeeps ==
    ASSUME TypeOK, NEW c \in Calls, NEW call, Ready(call, Chain(call)),
           AfterGemini(c, call)
    PROVE  StepsTo(c)
<1>1. CASE call.explicit
  <2>1. CallInv(Ending(call, "apology"))
    BY LastWordIs DEF Ready, Between, Sources
  <2> QED BY <2>1, <1>1 DEF StepsTo, AfterGemini
<1>2. CASE ~call.explicit
  BY <1>2, ToGroqKeeps DEF AfterGemini
<1> QED BY <1>1, <1>2

\* What n candidates have taken is within what n + m may take.
LEMMA ReadyLater ==
    ASSUME NEW call, NEW m \in Nat, NEW n \in Nat, m <= n, Ready(call, m)
    PROVE  Ready(call, n)
<1>1. call.asked \in Nat /\ MaxRetries \in Nat
  BY LlmAssumption DEF Ready, CallType
<1>2. /\ Attempts(call.model, m) \in Nat /\ Attempts(call.model, n) \in Nat
      /\ Attempts(call.model, m) <= Attempts(call.model, n)
  BY AttemptsMonotone
<1>3. /\ Times(Attempts(call.model, m), MaxRetries) \in Nat
      /\ Times(Attempts(call.model, n), MaxRetries) \in Nat
      /\ Times(Attempts(call.model, m), MaxRetries) <= Times(Attempts(call.model, n), MaxRetries)
  BY <1>1, <1>2, TimesGrows
<1> QED BY <1>1, <1>2, <1>3 DEF Ready

\* Handing over to the next candidate that has a client.
LEMMA TryFromKeeps ==
    ASSUME TypeOK, NEW c \in Calls, NEW call, NEW first \in 1..Chain(call),
           Ready(call, first - 1), TryFrom(c, call, first)
    PROVE  StepsTo(c)
<1> DEFINE all == Candidates[call.model]
           places == [i \in 1..(Len(all) + 1 - first) |-> Location(all[first - 1 + i])]
<1>1. call \in CallType /\ call.model \in DOMAIN Candidates /\ call.asked \in Nat
  BY DEF Ready, CallType
<1>2. Chain(call) \in 0..4 /\ Len(all) = Chain(call)
  BY <1>1, ChainsAre DEF Chain
<1>3. DOMAIN places = 1..(Chain(call) + 1 - first)
  BY <1>2
<1> HIDE DEF places, all
<1>4. ASSUME NEW n \in first..Chain(call),
             calls' = [calls EXCEPT ![c] = AskedOf(call, n)]
      PROVE  StepsTo(c)
  <2> DEFINE x == AskedOf(call, n)
  <2>1. n \in 1..Chain(call) /\ n \in 0..4 /\ first - 1 \in Nat /\ n - 1 \in Nat
        /\ first - 1 <= n - 1
    BY <1>2
  <2>2. calls' = [calls EXCEPT ![c] = x]
    BY <1>4
  <2>3. /\ x \in CallType /\ x.kind = call.kind /\ x.pc = "gemini"
        /\ x.asked = call.asked + 1 /\ x.cand = n /\ x.attempt = 1
        /\ x.model = call.model /\ x.spliced = call.spliced /\ x.source = call.source
        /\ x.broke = call.broke /\ x.said = "nothing" /\ x.content = call.content
    <3> call \in CallType /\ call.asked \in Nat /\ n \in 0..4
      BY <1>1, <2>1
    <3> QED BY AskedOfIs
  <2> HIDE DEF x
  <2>4. Ready(call, n - 1)
    BY <2>1, ReadyLater
  <2>5. MaxRetries \in Nat /\ 1 <= MaxRetries
    BY LlmAssumption
  <2>6. /\ Attempts(call.model, n - 1) \in Nat
        /\ Times(Attempts(call.model, n - 1), MaxRetries) \in Nat
        /\ Times(0, AttemptAt(x)) = 0
    <3>1. Attempts(call.model, n - 1) \in Nat /\ AttemptAt(x) \in Nat
      BY <2>1, AttemptsGrow DEF AttemptAt
    <3> QED BY <2>5, <3>1, TimesIs
  <2>7. Placed(x) /\ Collected(x)
    BY <2>1, <2>3, <2>4, <2>5 DEF Placed, Collected, Chain, Ready
  <2>8. Counted(x)
    <3>1. Before(x) = Attempts(call.model, n - 1) /\ x.attempt - 1 = 0
      BY <2>3 DEF Before
    <3>2. call.kind = "complete" => CountedForAnswer(x)
      BY <1>1, <2>3, <2>4, <2>6, <3>1 DEF CountedForAnswer, Ready
    <3>3. call.kind = "stream" => CountedForStream(x)
      BY <1>1, <2>3, <2>4, <2>6, <3>1 DEF CountedForStream, Ready
    <3> QED BY <2>3, <2>4, <3>2, <3>3 DEF Counted, Ready, Ended
  <2>9. Hearing(x)
    BY <2>3, <2>4 DEF Hearing, Between, Ready
  <2> QED BY <2>2, <2>3, <2>7, <2>8, <2>9 DEF StepsTo, CallInv
<1>5. CASE AfterGemini(c, call)
  <2>1. Ready(call, Chain(call))
    BY <1>2, ReadyLater
  <2> QED BY <2>1, <1>5, AfterGeminiKeeps
<1>6. CASE \E i \in DOMAIN places :
               calls' = [calls EXCEPT ![c] = AskedOf(call, first - 1 + i)]
  <2> PICK i \in DOMAIN places : calls' = [calls EXCEPT ![c] = AskedOf(call, first - 1 + i)]
    BY <1>6
  <2> first - 1 + i \in first..Chain(call)
    BY <1>2, <1>3
  <2> QED BY <1>4
<1> QED BY <1>5, <1>6 DEF TryFrom, places, all
-----------------------------------------------------------------------------
(* Answers: one lemma per action.                                           *)

\* The source of a call at a candidate is one of Gemini's.
LEMMA SourceIs ==
    ASSUME NEW call \in CallType, call.cand \in 1..Chain(call)
    PROVE  Source(call) \in Gemini /\ Source(call) \in Sources
<1> call.model \in DOMAIN Candidates
  BY DEF CallType
<1> QED BY ChainsAre DEF Source, Chain, Sources

\* A call at a candidate may be handed on.
LEMMA ReadyAtCandidate ==
    ASSUME NEW call, CallInv(call), call.pc \in {"gemini", "plain", "streaming"},
           call.kind = "stream" => Between(call)
    PROVE  Ready(call, call.cand) /\ call.cand \in 1..Chain(call)
<1> DEFINE e == AttemptAt(call)
           through == Attempts(call.model, call.cand)
<1>1. /\ call \in CallType /\ call.asked \in Nat /\ call.kind \in {"complete", "stream"}
      /\ call.cand \in 1..Chain(call)
      /\ call.pc = "plain" => e = 2
  BY DEF CallInv, CallType, Placed, AttemptAt
<1>2. Before(call) \in Nat /\ e \in {1, 2} /\ through = Before(call) + e
  BY <1>1, BeforeIs
<1>3. ASSUME call.kind = "complete" PROVE call.asked <= Times(through, MaxRetries)
  <2> DEFINE early == Times(Before(call), MaxRetries)
             here == Times(call.attempt - 1, e)
  <2>1. call.pc \in {"gemini", "plain"} /\ call.attempt \in 1..MaxRetries
    BY <1>3 DEF CallInv, Placed
  <2>2. call.asked <= early + here + (IF call.pc = "plain" THEN 2 ELSE 1)
    BY <1>3, <2>1 DEF CallInv, Counted, CountedForAnswer
  <2> e \in Nat /\ MaxRetries \in Nat
    BY <1>2, LlmAssumption
  <2>3. early \in Nat /\ early + Times(MaxRetries, e) = Times(Before(call) + e, MaxRetries)
    BY <1>2, TimesIs, OneMoreCandidate
  <2> HIDE DEF e
  <2>4. /\ here \in Nat /\ Times(MaxRetries, e) \in Nat
        /\ here + e <= Times(MaxRetries, e)
    BY <2>1, AttemptsOfOne
  <2> HIDE DEF here, early, through
  <2> QED BY <1>1, <1>2, <2>2, <2>3, <2>4
<1>4. ASSUME call.kind = "stream" PROVE call.asked <= through
  <2> HIDE DEF e, through
  <2>1. call.pc = "gemini" => call.asked <= Before(call) + 1
    BY <1>4 DEF CallInv, Counted, CountedForStream
  <2>2. call.pc \in {"plain", "streaming"} => call.asked <= Before(call) + e
    BY <1>4 DEF CallInv, Counted, CountedForStream, e
  <2> QED BY <1>1, <1>2, <2>1, <2>2
<1> QED BY <1>1, <1>3, <1>4 DEF Ready

\* A refused candidate hands over to the next one or past all of them.
LEMMA GivesUpOnKeeps ==
    ASSUME TypeOK, NEW c \in Calls, NEW call, NEW why, Ready(call, call.cand),
           call.cand \in 1..Chain(call), GivesUpOn(c, call, why)
    PROVE  StepsTo(c)
<1>1. call.model \in DOMAIN Candidates /\ Chain(call) \in 0..4
  BY ChainsAre DEF Ready, CallType, Chain
<1>2. CASE why = "notFound" /\ More(call) /\ TryFrom(c, call, call.cand + 1)
  <2> DEFINE first == call.cand + 1
  <2>1. first \in 1..Chain(call) /\ first - 1 = call.cand
    BY <1>1, <1>2 DEF More, Chain
  <2>2. Ready(call, first - 1) /\ TryFrom(c, call, first)
    BY <1>2, <2>1
  <2> HIDE DEF first
  <2> QED BY <2>1, <2>2, TryFromKeeps
<1>3. CASE AfterGemini(c, call)
  <2> Ready(call, Chain(call))
    BY <1>1, ReadyLater
  <2> QED BY <1>3, AfterGeminiKeeps
<1> QED BY <1>2, <1>3 DEF GivesUpOn

\* The first candidate of a new call.
LEMMA BeginKeeps ==
    ASSUME TypeOK, NEW c \in Calls, Begin(c)
    PROVE  StepsTo(c)
<1> PICK kind \in Kinds[c] \ {"embed"}, model \in Models[c], explicit \in BOOLEAN :
        \/ model # "groq" /\ TryFrom(c, Fresh(kind, model, explicit), 1)
        \/ /\ model = "groq" /\ ~explicit
           /\ ToGroq(c, Fresh(kind, model, explicit))
  BY DEF Begin
<1> DEFINE call == Fresh(kind, model, explicit)
<1>1. kind \in {"complete", "stream"} /\ model \in DOMAIN Candidates
  BY LlmAssumption DEF Candidates
<1>2. Ready(call, 0) /\ call.model = model
  BY <1>1, FreshIs DEF Fresh
<1> HIDE DEF call
<1>3. Chain(call) \in 0..4 /\ (model # "groq" => Chain(call) >= 1)
  BY <1>1, <1>2, ChainsAre DEF Chain
<1>4. CASE model # "groq" /\ TryFrom(c, call, 1)
  <2> Ready(call, 1 - 1) /\ 1 \in 1..Chain(call)
    BY <1>2, <1>3, <1>4
  <2> QED BY <1>4, TryFromKeeps
<1>5. CASE ToGroq(c, call)
  <2> Ready(call, Chain(call))
    BY <1>2, <1>3, ReadyLater
  <2> QED BY <1>5, ToGroqKeeps
<1> QED BY <1>4, <1>5 DEF call

\* An answer of Gemini ends the call.
LEMMA GeminiAnswersKeeps ==
    ASSUME CallsInv, NEW c \in Calls, GeminiAnswers(c)
    PROVE  StepsTo(c)
<1> DEFINE call == calls[c]
           heard == From(call, Source(call))
           x == Done(heard)
<1>1. /\ CallInv(call) /\ call.kind = "complete" /\ call \in CallType
      /\ call.pc \in {"gemini", "plain"}
  BY DEF CallsInv, GeminiAnswers, CallInv, Generating
<1>2. calls' = [calls EXCEPT ![c] = x]
  BY DEF GeminiAnswers
<1> HIDE DEF call
<1>3. Source(call) \in Sources
  BY <1>1, SourceIs DEF CallInv, Placed
<1>4. heard \in CallType /\ heard.kind = "complete"
  BY <1>1, <1>3, FromIs
<1> HIDE DEF heard
<1>5. x \in CallType /\ x.kind = "complete" /\ x.pc = "done" /\ x.asked = 0
  BY <1>4, DoneIs
<1> HIDE DEF x
<1>6. CallInv(x)
  BY <1>5, CountedAtEnd DEF CallInv, Placed, Hearing, Collected, Ended
<1> QED BY <1>2, <1>6 DEF StepsTo

\* What a repetition at a candidate adds: one request, or two for an attempt
\* that has to be repeated without thinking.
LEMMA ThinkingRefusedKeeps ==
    ASSUME CallsInv, NEW c \in Calls, ThinkingRefused(c)
    PROVE  StepsTo(c)
<1> DEFINE call == calls[c]
           y == [call EXCEPT !.pc = "plain"]
           x == Asked(y)
<1>1. /\ CallInv(call) /\ call.pc = "gemini" /\ call \in CallType
      /\ call.kind \in {"complete", "stream"}
      /\ call.attempt \in 1..MaxRetries /\ call.asked \in Nat /\ call.cand \in 1..Chain(call)
      /\ Source(call) \in Thinking
  BY DEF CallsInv, ThinkingRefused, CallInv, CallType, Placed
<1>2. calls' = [calls EXCEPT ![c] = x]
  BY DEF ThinkingRefused, CallsInv
<1> HIDE DEF call
<1>3. /\ y \in CallType /\ y.kind = call.kind /\ y.pc = "plain" /\ y.model = call.model
      /\ y.cand = call.cand /\ y.attempt = call.attempt /\ y.asked = call.asked
      /\ y.said = call.said /\ y.content = call.content /\ y.source = call.source
      /\ y.broke = call.broke /\ y.spliced = call.spliced
  <2> "plain" \in InFlight
    BY DEF InFlight
  <2> QED BY <1>1, AtIs
<1> HIDE DEF y
<1>4. /\ x \in CallType /\ x.kind = call.kind /\ x.pc = "plain" /\ x.model = call.model
      /\ x.cand = call.cand /\ x.attempt = call.attempt /\ x.asked = call.asked + 1
      /\ x.said = call.said /\ x.content = call.content /\ x.source = call.source
      /\ x.broke = call.broke /\ x.spliced = call.spliced
  BY <1>1, <1>3, AskedIs
<1> HIDE DEF x
<1>5. /\ Source(x) = Source(call) /\ Chain(x) = Chain(call) /\ Before(x) = Before(call)
      /\ AttemptAt(x) = 2 /\ AttemptAt(call) = 2
  BY <1>1, <1>4 DEF Source, Chain, Before, AttemptAt
<1>6. Placed(x) /\ Collected(x)
  BY <1>1, <1>4, <1>5 DEF Placed, Collected
<1>7. Hearing(x)
  BY <1>1, <1>4 DEF CallInv, Hearing, Between
<1>8. Before(call) \in Nat
  BY <1>1, BeforeIs
<1>9. call.kind = "complete" => CountedForAnswer(x)
  <2> DEFINE early == Times(Before(call), MaxRetries)
             here == Times(call.attempt - 1, 2)
  <2>1. early \in Nat /\ here \in Nat
    BY <1>1, <1>8, LlmAssumption, TimesIs, AttemptsOfOne
  <2>2. call.kind = "complete" => call.asked <= early + here + 1
    BY <1>1, <1>5 DEF CallInv, Counted, CountedForAnswer
  <2>3. CountedForAnswer(x) <=> x.asked <= early + here + 2
    BY <1>4, <1>5 DEF CountedForAnswer
  <2> HIDE DEF early, here
  <2> QED BY <1>1, <1>4, <2>1, <2>2, <2>3
<1>10. call.kind = "stream" => CountedForStream(x)
  BY <1>1, <1>4, <1>5, <1>8 DEF CallInv, Counted, CountedForStream
<1>11. Counted(x)
  BY <1>1, <1>4, <1>9, <1>10 DEF Counted, Ended
<1> QED BY <1>2, <1>4, <1>6, <1>7, <1>11 DEF StepsTo, CallInv

\* Backing off leaves an attempt to make.
LEMMA GeminiLimitedKeeps ==
    ASSUME CallsInv, NEW c \in Calls, GeminiLimited(c)
    PROVE  StepsTo(c)
<1> DEFINE call == calls[c]
           x == BackingOff(call, "backoff")
<1>1. /\ CallInv(call) /\ call.pc \in {"gemini", "plain"} /\ call.kind = "complete"
      /\ call \in CallType /\ call.attempt < MaxRetries /\ call.attempt \in 1..MaxRetries
      /\ call.attempt \in Nat /\ call.asked \in Nat /\ call.cand \in 1..Chain(call)
      /\ call.pc = "plain" => Source(call) \in Thinking
  BY DEF CallsInv, GeminiLimited, Generating, CallInv, CallType, Placed
<1>2. calls' = [calls EXCEPT ![c] = x]
  BY DEF GeminiLimited, CallsInv
<1> HIDE DEF call
<1>3. /\ x \in CallType /\ x.kind = "complete" /\ x.pc = "backoff" /\ x.model = call.model
      /\ x.cand = call.cand /\ x.attempt = call.attempt + 1 /\ x.asked = call.asked
  <2> "backoff" \in InFlight
    BY DEF InFlight
  <2> QED BY <1>1, BackingOffIs
<1> HIDE DEF x
<1>4. MaxRetries \in Nat
  BY LlmAssumption
<1>5. Placed(x) /\ Hearing(x) /\ Collected(x)
  BY <1>1, <1>3, <1>4 DEF Placed, Hearing, Collected, Chain
<1>6. /\ Before(x) = Before(call) /\ AttemptAt(x) = AttemptAt(call)
      /\ Before(call) \in Nat /\ AttemptAt(call) \in {1, 2}
      /\ call.pc = "plain" => AttemptAt(call) = 2
      /\ x.attempt - 1 = call.attempt
  BY <1>1, <1>3, BeforeIs DEF Before, AttemptAt, Source
<1>7. CountedForAnswer(x)
  <2> DEFINE early == Times(Before(call), MaxRetries)
             e == AttemptAt(call)
             here == Times(call.attempt - 1, e)
             later == Times(call.attempt, e)
  <2>1. call.asked <= early + here + (IF call.pc = "plain" THEN 2 ELSE 1)
    BY <1>1 DEF CallInv, Counted, CountedForAnswer
  <2>2. e \in {1, 2} /\ (call.pc = "plain" => e = 2) /\ e \in Nat
    BY <1>6
  <2>3. CountedForAnswer(x) <=> x.asked <= early + later
    BY <1>3, <1>6 DEF CountedForAnswer
  <2>4. early \in Nat
    BY <1>4, <1>6, TimesIs
  <2> HIDE DEF e
  <2>5. here \in Nat /\ later \in Nat /\ here + e = later
    BY <1>1, <2>2, AttemptsOfOne
  <2> HIDE DEF early, here, later
  <2> QED BY <1>1, <1>3, <2>1, <2>2, <2>3, <2>4, <2>5
<1>8. Counted(x)
  BY <1>3, <1>7 DEF Counted, Ended
<1> QED BY <1>2, <1>3, <1>5, <1>8 DEF StepsTo, CallInv

\* The attempt after a back-off is counted.
LEMMA BackOffEndsKeeps ==
    ASSUME CallsInv, NEW c \in Calls, BackOffEnds(c)
    PROVE  StepsTo(c)
<1> DEFINE call == calls[c]
           y == [call EXCEPT !.pc = "gemini"]
           x == Asked(y)
<1>1. /\ CallInv(call) /\ call.pc = "backoff" /\ call.kind = "complete" /\ call \in CallType
      /\ call.attempt \in 1..MaxRetries /\ call.asked \in Nat /\ call.cand \in 1..Chain(call)
  BY DEF CallsInv, BackOffEnds, CallInv, CallType, Placed
<1>2. calls' = [calls EXCEPT ![c] = x]
  BY DEF BackOffEnds, CallsInv
<1> HIDE DEF call
<1>3. /\ y \in CallType /\ y.kind = "complete" /\ y.pc = "gemini" /\ y.model = call.model
      /\ y.cand = call.cand /\ y.attempt = call.attempt /\ y.asked = call.asked
  <2> "gemini" \in InFlight
    BY DEF InFlight
  <2> QED BY <1>1, AtIs
<1> HIDE DEF y
<1>4. /\ x \in CallType /\ x.kind = "complete" /\ x.pc = "gemini" /\ x.model = call.model
      /\ x.cand = call.cand /\ x.attempt = call.attempt /\ x.asked = call.asked + 1
  BY <1>1, <1>3, AskedIs
<1> HIDE DEF x
<1>5. /\ Before(x) = Before(call) /\ AttemptAt(x) = AttemptAt(call)
      /\ Before(call) \in Nat /\ AttemptAt(call) \in Nat
  BY <1>1, <1>4, BeforeIs DEF Before, AttemptAt, Source
<1>6. Placed(x) /\ Hearing(x) /\ Collected(x)
  BY <1>1, <1>4 DEF Placed, Hearing, Collected, Chain
<1>7. CountedForAnswer(x)
  <2> DEFINE before == Times(Before(call), MaxRetries)
                       + Times(call.attempt - 1, AttemptAt(call))
  <2>1. call.asked <= before
    BY <1>1 DEF CallInv, Counted, CountedForAnswer
  <2>2. CountedForAnswer(x) <=> x.asked <= before + 1
    BY <1>4, <1>5 DEF CountedForAnswer
  <2>3. before \in Nat
    <3> Times(Before(call), MaxRetries) \in Nat
      BY <1>5, LlmAssumption, TimesIs
    <3> Times(call.attempt - 1, AttemptAt(call)) \in Nat
      BY <1>1, <1>5, AttemptsOfOne
    <3> QED OBVIOUS
  <2> HIDE DEF before
  <2> QED BY <1>1, <1>4, <2>1, <2>2, <2>3
<1>8. Counted(x)
  BY <1>4, <1>7 DEF Counted, Ended
<1> QED BY <1>2, <1>4, <1>6, <1>8 DEF StepsTo, CallInv

\* A refusal hands over after the attempts that were made.
LEMMA GeminiRefusesKeeps ==
    ASSUME TypeOK, CallsInv, NEW c \in Calls, GeminiRefuses(c)
    PROVE  StepsTo(c)
<1> DEFINE call == calls[c]
<1>1. /\ CallInv(call) /\ call.pc \in {"gemini", "plain"}
      /\ call.kind = "stream" => Between(call)
  BY DEF CallsInv, GeminiRefuses, Generating, CallInv, Hearing
<1>2. PICK why : GivesUpOn(c, call, why)
  BY DEF GeminiRefuses
<1> HIDE DEF call
<1>3. Ready(call, call.cand) /\ call.cand \in 1..Chain(call)
  BY <1>1, ReadyAtCandidate
<1> QED BY <1>2, <1>3, GivesUpOnKeeps

\* The request of a stream has been accepted.
LEMMA OpensKeeps ==
    ASSUME CallsInv, NEW c \in Calls, GeminiOpens(c) \/ GroqOpens(c)
    PROVE  StepsTo(c)
<1> DEFINE call == calls[c]
           pc == IF call.pc = "groq" THEN "groqStreaming" ELSE "streaming"
           x == [call EXCEPT !.pc = pc]
<1>1. /\ CallInv(call) /\ call.kind = "stream" /\ call \in CallType
      /\ call.pc \in {"gemini", "plain", "groq"} /\ call.asked \in Nat
  BY DEF CallsInv, GeminiOpens, GroqOpens, Generating, CallInv, CallType
<1>2. calls' = [calls EXCEPT ![c] = x]
  BY DEF GeminiOpens, GroqOpens, Generating, CallsInv
<1>3. pc \in InFlight /\ pc = IF call.pc = "groq" THEN "groqStreaming" ELSE "streaming"
  BY DEF InFlight
<1> HIDE DEF call, pc
<1>4. x = [call EXCEPT !.pc = pc]
  OBVIOUS
<1>5. /\ x \in CallType /\ x.kind = "stream" /\ x.pc = pc /\ x.model = call.model
      /\ x.cand = call.cand /\ x.asked = call.asked /\ x.said = call.said
      /\ x.content = call.content /\ x.source = call.source
      /\ x.broke = call.broke /\ x.spliced = call.spliced
  BY <1>1, <1>3, AtIs
<1> HIDE DEF x
<1>6. Placed(x) /\ Hearing(x) /\ Collected(x)
  BY <1>1, <1>3, <1>5 DEF CallInv, Placed, Hearing, Collected, Between, Chain
<1>7. CountedForStream(x)
  <2>1. /\ Before(x) = Before(call) /\ AttemptAt(x) = AttemptAt(call)
        /\ Overall(x) = Overall(call)
    BY <1>5 DEF Before, AttemptAt, Overall, Source, Chain
  <2>2. CASE call.pc = "groq"
    BY <1>1, <1>3, <1>5, <2>1, <2>2 DEF CallInv, Counted, CountedForStream
  <2>3. CASE call.pc \in {"gemini", "plain"}
    <3>1. Before(call) \in Nat /\ AttemptAt(call) \in {1, 2}
      BY <1>1, <2>3, BeforeIs DEF CallInv, Placed
    <3>2. call.asked <= Before(call) + AttemptAt(call)
      BY <1>1, <2>3, <3>1 DEF CallInv, Counted, CountedForStream
    <3> QED BY <1>3, <1>5, <2>1, <2>3, <3>2 DEF CountedForStream
  <2> QED BY <1>1, <2>2, <2>3
<1>8. Counted(x)
  BY <1>1, <1>3, <1>5, <1>7 DEF Counted, Ended
<1> QED BY <1>2, <1>5, <1>6, <1>8 DEF StepsTo, CallInv

\* One more piece: the source is heard on, or is the first to be heard since
\* the one before it broke off.
LEMMA SendsKeeps ==
    ASSUME CallsInv, NEW c \in Calls, NEW source \in Sources,
           NEW piece \in Pieces,
           calls[c].pc \in {"streaming", "groqStreaming"},
           piece = "marked" => calls[c].pc = "groqStreaming",
           source = IF calls[c].pc = "streaming" THEN Source(calls[c]) ELSE "groq",
           Sends(c, source, piece)
    PROVE  StepsTo(c)
<1> DEFINE call == calls[c]
           y == From(call, source)
           x == Heard(call, source, piece)
<1>1. /\ CallInv(call) /\ call.pc \in {"streaming", "groqStreaming"} /\ call \in CallType
      /\ call.kind = "stream"
      /\ source = IF call.pc = "streaming" THEN Source(call) ELSE "groq"
      /\ piece = "marked" => call.pc = "groqStreaming"
  BY DEF CallsInv, CallInv, Placed
<1>2. calls' = [calls EXCEPT ![c] = x]
  BY DEF Sends, CallsInv
<1> HIDE DEF call
<1>3. source # "none"
  <2> source \in Gemini \cup {"groq", "evidence", "apology"}
    BY DEF Sources
  <2> QED BY DEF Gemini
<1>4. /\ y \in CallType /\ y.kind = "stream" /\ y.pc = call.pc /\ y.model = call.model
      /\ y.cand = call.cand /\ y.asked = call.asked /\ y.said = call.said
      /\ y.content = call.content /\ y.source = source
  BY <1>1, FromIs
<1>5. ~y.spliced
  <2> y.spliced <=> (call.spliced \/ Splices(call, source))
    BY <1>1, FromChanges
  <2> QED BY <1>1 DEF CallInv, Hearing, Between, Splices
<1>6. y = From(call, source)
  OBVIOUS
<1> HIDE DEF y
<1>7. /\ x \in CallType /\ x.kind = "stream" /\ x.pc = call.pc /\ x.model = call.model
      /\ x.cand = call.cand /\ x.asked = call.asked /\ x.said = Saying(call.said, piece)
      /\ x.source = source /\ x.spliced = y.spliced
  BY <1>4, <1>6, HeardIs
<1>8. x.content <=> (call.content \/ piece = "content")
  BY <1>4, <1>6, HeardChanges
<1> HIDE DEF x
<1>9. /\ Saying(call.said, piece) # "nothing"
      /\ Saying(call.said, piece) = "content" => call.said = "content" \/ piece = "content"
      /\ Saying(call.said, piece) = "marked" => call.said = "marked" \/ piece = "marked"
  BY DEF Saying, Pieces, Said
<1>10. Hearing(x)
  <2> /\ call.said = "content" => call.content
      /\ call.said = "marked" => call.pc = "groqStreaming"
    BY <1>1 DEF CallInv, Hearing
  <2> Source(x) = Source(call)
    BY <1>7 DEF Source
  <2> QED BY <1>1, <1>5, <1>7, <1>8, <1>9 DEF Hearing
<1>11. Placed(x) /\ Collected(x)
  BY <1>1, <1>7 DEF CallInv, Placed, Collected, Chain
<1>12. Counted(x)
  <2> /\ Before(x) = Before(call) /\ AttemptAt(x) = AttemptAt(call)
      /\ Overall(x) = Overall(call)
    BY <1>7 DEF Before, AttemptAt, Overall, Source, Chain
  <2> CountedForStream(x)
    BY <1>1, <1>7 DEF CallInv, Counted, CountedForStream
  <2> QED BY <1>1, <1>7 DEF Counted, Ended
<1> QED BY <1>2, <1>7, <1>10, <1>11, <1>12 DEF StepsTo, CallInv

\* A piece of either provider.
LEMMA StreamSendsKeeps ==
    ASSUME CallsInv, NEW c \in Calls, GeminiSends(c) \/ GroqSends(c)
    PROVE  StepsTo(c)
<1>1. CASE GeminiSends(c)
  <2> calls[c] \in CallType /\ calls[c].cand \in 1..Chain(calls[c])
    BY <1>1 DEF CallsInv, CallInv, Placed, GeminiSends
  <2> Source(calls[c]) \in Sources
    BY SourceIs
  <2> QED BY <1>1, SendsKeeps DEF GeminiSends
<1>2. CASE GroqSends(c)
  <2> "groq" \in Sources
    BY DEF Sources
  <2> QED BY <1>2, SendsKeeps DEF GroqSends
<1> QED BY <1>1, <1>2

\* A stream that ends has answered, or hands over unheard.
LEMMA GeminiEndsKeeps ==
    ASSUME TypeOK, CallsInv, NEW c \in Calls, GeminiEnds(c)
    PROVE  StepsTo(c)
<1> DEFINE call == calls[c]
<1>1. /\ CallInv(call) /\ call.pc = "streaming" /\ call \in CallType /\ call.kind = "stream"
      /\ call.cand \in 1..Chain(call)
  BY DEF CallsInv, GeminiEnds, CallInv, Placed
<1>2. CASE call.said # "nothing"
  <2> DEFINE x == Done(call)
  <2>1. calls' = [calls EXCEPT ![c] = x]
    BY <1>2 DEF GeminiEnds
  <2> HIDE DEF call
  <2>2. /\ x \in CallType /\ x.kind = "stream" /\ x.pc = "done" /\ x.asked = 0
        /\ x.said = call.said /\ x.content = call.content /\ x.source = call.source
        /\ x.spliced = call.spliced
    BY <1>1, DoneIs
  <2> HIDE DEF x
  <2>3. call.source \in Gemini
    BY <1>1, <1>2, SourceIs DEF CallInv, Hearing
  <2>4. /\ call.said \in {"blank", "reasoning", "content"}
        /\ ~call.spliced /\ (call.said = "content" => call.content)
    BY <1>1, <1>2 DEF CallInv, Hearing, CallType, Said
  <2>5. CallInv(x)
    BY <1>1, <1>2, <2>2, <2>3, <2>4, CountedAtEnd DEF CallInv, Placed, Hearing, Collected, Ended
  <2> QED BY <2>1, <2>5 DEF StepsTo
<1>3. CASE call.said = "nothing"
  <2>1. \/ More(call) /\ TryFrom(c, call, call.cand + 1)
        \/ ~More(call) /\ AfterGemini(c, call) /\ UNCHANGED clients
    BY <1>3 DEF GeminiEnds
  <2> HIDE DEF call
  <2>2. Ready(call, call.cand)
    BY <1>1, <1>3, ReadyAtCandidate DEF CallInv, Hearing
  <2>3. GivesUpOn(c, call, "notFound")
    BY <2>1 DEF GivesUpOn
  <2> QED BY <1>1, <2>2, <2>3, GivesUpOnKeeps
<1> QED BY <1>2, <1>3

\* A stream that fails may be followed by another source: it has broken off,
\* or has sent nothing.
LEMMA BrokenIsBetween ==
    ASSUME NEW call, CallInv(call), call.pc \in {"streaming", "groqStreaming", "groq"},
           call.kind = "stream"
    PROVE  Between(Broken(call))
<1> call \in CallType
  BY DEF CallInv
<1>1. /\ Broken(call).spliced = call.spliced /\ Broken(call).source = call.source
      /\ Broken(call).said = call.said /\ Broken(call).content = call.content
  BY BrokenIs
<1>2. Broken(call).broke <=> (call.broke \/ call.said # "nothing")
  BY BrokenChanges
<1> QED BY <1>1, <1>2 DEF CallInv, Hearing, Between

\* A stream that breaks hands over as broken.
LEMMA GeminiBreaksKeeps ==
    ASSUME TypeOK, CallsInv, NEW c \in Calls, GeminiBreaks(c)
    PROVE  StepsTo(c)
<1> DEFINE call == calls[c]
           x == Broken(call)
<1>1. /\ CallInv(call) /\ call.pc = "streaming" /\ call \in CallType /\ call.kind = "stream"
      /\ call.cand \in 1..Chain(call)
  BY DEF CallsInv, GeminiBreaks, CallInv, Placed
<1>2. PICK why : GivesUpOn(c, x, why)
  BY DEF GeminiBreaks
<1> HIDE DEF call
<1>3. Between(x)
  BY <1>1, BrokenIsBetween
<1>4. /\ x \in CallType /\ x.kind = "stream" /\ x.asked = call.asked /\ x.cand = call.cand
      /\ x.model = call.model
  BY <1>1, BrokenIs
<1> HIDE DEF x
<1>5. Ready(x, x.cand) /\ x.cand \in 1..Chain(x)
  <2> call.asked <= Before(call) + AttemptAt(call)
    BY <1>1 DEF CallInv, Counted, CountedForStream
  <2> Attempts(call.model, call.cand) = Before(call) + AttemptAt(call)
    BY <1>1, BeforeIs
  <2> QED BY <1>1, <1>3, <1>4 DEF Ready, Chain
<1> QED BY <1>2, <1>5, GivesUpOnKeeps
\* Groq answers, or the evidence does.
LEMMA GroqAnswersKeeps ==
    ASSUME CallsInv, NEW c \in Calls, GroqAnswers(c)
    PROVE  StepsTo(c)
<1> DEFINE call == calls[c]
           y == From(call, "groq")
           x == Done(y)
<1>1. CallInv(call) /\ call.kind = "complete" /\ call \in CallType
  BY DEF CallsInv, CallInv, GroqAnswers
<1>2. CASE calls' = [calls EXCEPT ![c] = x]
  <2> "groq" \in Sources
    BY DEF Sources
  <2> HIDE DEF call
  <2>1. y \in CallType /\ y.kind = "complete"
    BY <1>1, FromIs
  <2> HIDE DEF y
  <2>2. x \in CallType /\ x.kind = "complete" /\ x.pc = "done" /\ x.asked = 0
    BY <2>1, DoneIs
  <2> HIDE DEF x
  <2>3. CallInv(x)
    BY <2>2, CountedAtEnd DEF CallInv, Placed, Hearing, Collected, Ended
  <2> QED BY <1>2, <2>3 DEF StepsTo
<1>3. CASE calls' = [calls EXCEPT ![c] = EvidenceFor(call, notice)]
  <2> HIDE DEF call
  <2> CallInv(EvidenceFor(call, notice))
    BY <1>1, EvidenceKeeps
  <2> QED BY <1>3 DEF StepsTo
<1> QED BY <1>2, <1>3 DEF GroqAnswers

\* A stream of Groq that ends has content, or the evidence follows.
LEMMA GroqEndsKeeps ==
    ASSUME CallsInv, NEW c \in Calls, GroqEnds(c)
    PROVE  StepsTo(c)
<1> DEFINE call == calls[c]
           ends == call.content \/ call.said = "reasoning"
           y == [call EXCEPT !.content = ends]
           x == Done(y)
<1>1. /\ CallInv(call) /\ call.pc = "groqStreaming" /\ call \in CallType
      /\ call.kind = "stream" /\ call.asked <= Overall(call) + 1
  BY DEF CallsInv, GroqEnds, CallInv, Placed, Counted, CountedForStream
<1>2. CASE call.said = "nothing"
  <2>1. calls' = [calls EXCEPT ![c] = EvidenceFor(call, notice)]
    BY <1>2 DEF GroqEnds
  <2> HIDE DEF call
  <2>2. CallInv(EvidenceFor(call, notice))
    BY <1>1, <1>2, EvidenceKeeps DEF CallInv, Hearing
  <2> QED BY <2>1, <2>2 DEF StepsTo
<1>3. CASE call.said # "nothing"
  <2>1. calls' = [calls EXCEPT ![c] = x]
    BY <1>3 DEF GroqEnds, CallsInv
  <2>2. ends \in BOOLEAN /\ (ends <=> call.content \/ call.said = "reasoning")
    BY <1>1 DEF CallType
  <2> HIDE DEF call, ends
  <2>3. y = [call EXCEPT !.content = ends]
    OBVIOUS
  <2>4. /\ y \in CallType /\ y.kind = "stream" /\ y.said = call.said
        /\ y.source = call.source /\ y.spliced = call.spliced /\ y.content = ends
    BY <1>1, <2>2, ContentIs
  <2> HIDE DEF y
  <2>5. /\ x \in CallType /\ x.kind = "stream" /\ x.pc = "done" /\ x.asked = 0
        /\ x.said = call.said /\ x.spliced = call.spliced /\ x.content = ends
        /\ x.source = "groq"
    BY <1>1, <1>3, <2>4, DoneIs DEF CallInv, Hearing
  <2> HIDE DEF x
  <2>6. call.said \in {"blank", "reasoning", "marked", "content"}
    BY <1>1, <1>3 DEF CallType, Said
  <2>7. ~call.spliced /\ (call.said = "content" => call.content)
    BY <1>1 DEF CallInv, Hearing
  <2>8. CallInv(x)
    BY <2>2, <2>5, <2>6, <2>7, CountedAtEnd DEF CallInv, Placed, Hearing, Collected, Ended
  <2> QED BY <2>1, <2>8 DEF StepsTo
<1> QED BY <1>2, <1>3

\* A failure of Groq leads to the evidence.
LEMMA GroqFailsKeeps ==
    ASSUME CallsInv, NEW c \in Calls, GroqFails(c)
    PROVE  StepsTo(c)
<1> DEFINE call == calls[c]
           y == Broken(call)
<1>1. /\ CallInv(call) /\ call.pc \in {"groq", "groqStreaming"} /\ call \in CallType
      /\ call.kind \in {"complete", "stream"}
      /\ call.kind = "stream" => call.asked <= Overall(call) + 1
  BY DEF CallsInv, GroqFails, CallInv, Placed, Counted, CountedForStream
<1>2. PICK seen : calls' = [calls EXCEPT ![c] = EvidenceFor(y, seen)]
  BY DEF GroqFails
<1> HIDE DEF call
<1>3. call.kind = "stream" => Between(y)
  BY <1>1, BrokenIsBetween
<1>4. y \in CallType /\ y.kind = call.kind /\ y.asked = call.asked /\ y.model = call.model
  BY <1>1, BrokenIs
<1> HIDE DEF y
<1>5. CallInv(EvidenceFor(y, seen))
  BY <1>1, <1>3, <1>4, EvidenceKeeps DEF Overall, Chain
<1> QED BY <1>2, <1>5 DEF StepsTo

\* The evidence after the notice.
LEMMA ShowEvidenceKeeps ==
    ASSUME CallsInv, NEW c \in Calls, ShowEvidence(c)
    PROVE  StepsTo(c)
<1> DEFINE call == calls[c]
<1>1. CallInv(call) /\ call \in CallType /\ call.kind = "stream" /\ Between(call)
  BY DEF CallsInv, ShowEvidence, CallInv, Placed, Hearing
<1>2. calls' = [calls EXCEPT ![c] = Ending(call, "evidence")]
  BY DEF ShowEvidence, Shown
<1> HIDE DEF call
<1>3. CallInv(Ending(call, "evidence"))
  BY <1>1, LastWordIs DEF Between, Sources
<1> QED BY <1>2, <1>3 DEF StepsTo

\* An abandoned call is forgotten.
LEMMA AbandonKeeps ==
    ASSUME CallsInv, NEW c \in Calls, Abandon(c)
    PROVE  StepsTo(c)
BY FreshIs, AnyModelIsOne DEF Abandon, StepsTo

-----------------------------------------------------------------------------
(* Embeddings.                                                             *)

\* A call for embeddings that may go on to NIM.
Embedding(call) ==
    /\ call \in CallType /\ call.kind = "embed"
    /\ call.asked <= Times(Batches, PerBatch(call))

\* No embedder is left: made-up vectors or an exception.
LEMMA EmbeddingFailsKeeps ==
    ASSUME NEW c \in Calls, NEW call \in CallType, call.kind = "embed",
           EmbeddingFails(c, call)
    PROVE  StepsTo(c)
<1> DEFINE mocked == Mocked(call)
           fresh == Fresh("embed", AnyModel, FALSE)
           raised == [fresh EXCEPT !.pc = "raised"]
<1>1. calls' = [calls EXCEPT ![c] = mocked] \/ calls' = [calls EXCEPT ![c] = raised]
  BY DEF EmbeddingFails
<1>2. CallInv(mocked)
  <2>1. /\ mocked \in CallType /\ mocked.kind = "embed" /\ mocked.pc = "done"
        /\ mocked.asked = 0 /\ mocked.vecs = [i \in 1..Batches |-> "mock"]
    BY MockedIs
  <2> HIDE DEF mocked
  <2>2. Batches \in Nat
    BY LlmAssumption
  <2>3. Len(mocked.vecs) = Batches /\ \A i \in 1..Batches : mocked.vecs[i] = mocked.vecs[1]
    BY <2>1, <2>2
  <2>4. Counted(mocked)
    BY <2>1, CountedAtEnd DEF Ended
  <2>5. Placed(mocked) /\ Hearing(mocked) /\ Collected(mocked)
    BY <2>1, <2>3 DEF Placed, Hearing, Collected
  <2> QED BY <2>1, <2>4, <2>5 DEF CallInv
<1>3. CallInv(raised)
  <2>1. fresh \in CallType /\ fresh.kind = "embed" /\ fresh.asked = 0
    BY FreshIs, AnyModelIsOne DEF Fresh
  <2> HIDE DEF fresh
  <2>2. /\ raised \in CallType /\ raised.kind = "embed" /\ raised.pc = "raised"
        /\ raised.asked = 0
    BY <2>1 DEF CallType
  <2> HIDE DEF raised
  <2>3. Counted(raised)
    BY <2>2, CountedAtEnd DEF Ended
  <2>4. Placed(raised) /\ Hearing(raised) /\ Collected(raised)
    BY <2>2 DEF Placed, Hearing, Collected
  <2> QED BY <2>2, <2>3, <2>4 DEF CallInv
<1> QED BY <1>1, <1>2, <1>3 DEF StepsTo

\* NIM starts from the first text.
LEMMA ToNimKeeps ==
    ASSUME NEW c \in Calls, NEW call, Embedding(call), ToNim(c, call)
    PROVE  StepsTo(c)
<1> DEFINE x == FromFirst(call, "nim")
<1>0. call \in CallType /\ call.kind = "embed" /\ call.asked \in Nat
      /\ call.asked <= Times(Batches, PerBatch(call))
  BY DEF Embedding, CallType
<1>1. CASE calls' = [calls EXCEPT ![c] = x]
  <2> "nim" \in InFlight
    BY DEF InFlight
  <2>1. /\ x \in CallType /\ x.kind = "embed" /\ x.pc = "nim" /\ x.at = 1
        /\ x.vecs = <<>> /\ x.asked = call.asked + 1 /\ x.explicit = call.explicit
    BY <1>0, FromFirstIs
  <2> HIDE DEF x
  <2>2. 1 \in 1..Batches /\ Batches \in Nat
    BY LlmAssumption
  <2>3. /\ Times(Batches, PerBatch(call)) \in Nat
        /\ PerBatch(x) = PerBatch(call)
    BY <1>0, <2>1, PerBatchIs DEF PerBatch, AttemptAtBatch
  <2>4. Placed(x) /\ Hearing(x)
    BY <2>1, <2>2 DEF Placed, Hearing
  <2>5. Counted(x)
    <3> CountedForVectors(x)
      BY <1>0, <2>1, <2>3 DEF CountedForVectors
    <3> QED BY <2>1 DEF Counted, Ended
  <2>6. Collected(x)
    BY <2>1 DEF Collected, AllFrom
  <2> QED BY <1>1, <2>1, <2>4, <2>5, <2>6 DEF StepsTo, CallInv
<1>2. CASE EmbeddingFails(c, call)
  BY <1>0, <1>2, EmbeddingFailsKeeps
<1> QED BY <1>1, <1>2 DEF ToNim

\* The first request of a call for embeddings.
LEMMA BeginEmbeddingKeeps ==
    ASSUME NEW c \in Calls, BeginEmbedding(c)
    PROVE  StepsTo(c)
<1>0. Batches \in Nat /\ 1 \in 1..Batches /\ MaxRetries \in Nat /\ 1 \in 1..MaxRetries
  BY LlmAssumption
<1>1. PICK second \in BOOLEAN :
          \/ calls' = [calls EXCEPT ![c] = EmbeddingFirst(Fresh("embed", AnyModel, second))]
          \/ ToNim(c, Fresh("embed", AnyModel, second))
  BY DEF BeginEmbedding
<1> DEFINE call == Fresh("embed", AnyModel, second)
           x == EmbeddingFirst(call)
<1>2. calls' = [calls EXCEPT ![c] = x] \/ ToNim(c, call)
  BY <1>1
<1>3. call \in CallType /\ call.kind = "embed" /\ call.asked = 0 /\ call.vecs = <<>>
  BY FreshIs, AnyModelIsOne DEF Fresh
<1> HIDE DEF call
<1>4. CASE ToNim(c, call)
  <2> Embedding(call)
    BY <1>3, PerBatchIs DEF Embedding
  <2> QED BY <1>4, ToNimKeeps
<1>5. CASE calls' = [calls EXCEPT ![c] = x]
  <2>1. /\ x \in CallType /\ x.kind = "embed" /\ x.pc = "embedding" /\ x.at = 1
        /\ x.attempt = 1 /\ x.vecs = <<>> /\ x.asked = call.asked + 1
    BY <1>3, EmbeddingFirstIs
  <2> HIDE DEF x
  <2>2. Placed(x) /\ Hearing(x)
    BY <1>0, <2>1 DEF Placed, Hearing
  <2>3. /\ x.at - 1 = 0 /\ x.attempt - 1 = 0
        /\ Times(0, PerBatch(x)) = 0 /\ Times(0, AttemptAtBatch(x)) = 0
    BY <2>1, PerBatchIs, TimesIs
  <2>4. Counted(x)
    <3> CountedForVectors(x)
      BY <1>3, <2>1, <2>3 DEF CountedForVectors
    <3> QED BY <2>1 DEF Counted, Ended
  <2>5. Collected(x)
    BY <2>1 DEF Collected, AllFrom
  <2> QED BY <1>5, <2>1, <2>2, <2>4, <2>5 DEF StepsTo, CallInv
<1> QED BY <1>2, <1>4, <1>5

\* While Gemini embeds, each batch took at most MaxRetries attempts.
LEMMA EmbeddingIsBounded ==
    ASSUME NEW call, CallInv(call), call.pc \in {"embedding", "embeddingEach", "embedBackoff"}
    PROVE  /\ call \in CallType /\ call.kind = "embed" /\ call.at \in 1..Batches
           /\ Times(call.at, PerBatch(call)) \in Nat
           /\ call.asked <= Times(call.at, PerBatch(call))
           /\ Times(call.at, PerBatch(call)) <= Times(Batches, PerBatch(call))
           /\ Times(Batches, PerBatch(call)) \in Nat
<1> DEFINE n == call.at - 1
           e == AttemptAtBatch(call)
           per == PerBatch(call)
           early == Times(n, per)
           here == Times(call.attempt - 1, e)
<1>1. /\ call \in CallType /\ call.kind = "embed" /\ call.at \in 1..Batches
      /\ call.asked \in Nat /\ call.attempt \in 1..MaxRetries
  BY DEF CallInv, CallType, Placed
<1>2. /\ Batches \in Nat /\ MaxRetries \in Nat /\ e \in Nat /\ 1 <= e /\ per \in Nat
      /\ Times(Batches, per) \in Nat
  BY <1>1, PerBatchIs
<1>3. call.asked <= early + here + e
  <2>1. /\ call.pc = "embedding" => call.asked <= early + here + 1
        /\ call.pc = "embeddingEach" => call.asked <= early + here + e
        /\ call.pc = "embedBackoff" => call.asked <= early + here
    BY <1>1 DEF CallInv, Counted, CountedForVectors
  <2>2. early \in Nat
    <3> n \in Nat
      BY <1>1, <1>2
    <3> HIDE DEF n, per
    <3> QED BY <1>2, TimesIs
  <2>3. here \in Nat
    <3> HIDE DEF e
    <3> QED BY <1>1, <1>2, AttemptsOfOne
  <2> HIDE DEF early, here, e
  <2> QED BY <1>1, <1>2, <2>1, <2>2, <2>3
<1>4. n \in Nat /\ n + 1 = call.at /\ n + 1 \in Nat /\ n + 1 <= Batches
  BY <1>1, <1>2
<1>5. per = Times(MaxRetries, e)
  BY DEF PerBatch
<1> HIDE DEF n, per, e
<1>6. early \in Nat /\ Times(n + 1, per) = early + per
  BY <1>2, <1>4, TimesIs
<1>7. Times(n + 1, per) \in Nat /\ Times(n + 1, per) <= Times(Batches, per)
  BY <1>2, <1>4, TimesGrows
<1>8. here \in Nat /\ here + e <= per
  BY <1>1, <1>2, <1>5, AttemptsOfOne
<1> HIDE DEF early, here
<1>9. call.asked <= Times(n + 1, per)
  BY <1>1, <1>2, <1>3, <1>6, <1>8
<1> QED BY <1>1, <1>2, <1>4, <1>7, <1>9 DEF per

\* The texts of a batch are asked for one by one.
LEMMA EmbedsEachKeeps ==
    ASSUME CallsInv, NEW c \in Calls, EmbedsEach(c)
    PROVE  StepsTo(c)
<1> DEFINE call == calls[c]
           y == [call EXCEPT !.pc = "embeddingEach"]
           x == [y EXCEPT !.asked = call.asked + BatchSize]
<1>1. /\ CallInv(call) /\ call.pc = "embedding" /\ call.kind = "embed" /\ call \in CallType
      /\ call.attempt \in 1..MaxRetries /\ call.asked \in Nat /\ call.at \in 1..Batches
      /\ call.explicit /\ BatchSize \in Nat
  BY LlmAssumption DEF CallsInv, EmbedsEach, CallInv, CallType, Placed
<1>2. calls' = [calls EXCEPT ![c] = x]
  <2> calls[c] \in CallType
    BY <1>1
  <2> QED BY DEF EmbedsEach, CallsInv, CallType
<1> HIDE DEF call
<1>3. y \in CallType
  <2> "embeddingEach" \in InFlight
    BY DEF InFlight
  <2> QED BY <1>1, AtIs
<1>4. /\ y.pc = "embeddingEach" /\ y.kind = "embed" /\ y.at = call.at /\ y.vecs = call.vecs
      /\ y.attempt = call.attempt /\ y.explicit = call.explicit
  BY <1>1 DEF CallType
<1> HIDE DEF y
<1>5. /\ x \in CallType /\ x.pc = "embeddingEach" /\ x.kind = "embed" /\ x.at = call.at
      /\ x.vecs = call.vecs /\ x.attempt = call.attempt /\ x.explicit = call.explicit
      /\ x.asked = call.asked + BatchSize
  <2>1. call.asked + BatchSize \in Nat
    BY <1>1
  <2>2. x \in CallType
    BY <1>3, <2>1 DEF CallType
  <2>3. /\ x.pc = y.pc /\ x.kind = y.kind /\ x.at = y.at /\ x.vecs = y.vecs
        /\ x.attempt = y.attempt /\ x.explicit = y.explicit
        /\ x.asked = call.asked + BatchSize
    BY <1>3 DEF CallType
  <2> HIDE DEF x
  <2> QED BY <1>4, <2>2, <2>3
<1> HIDE DEF x
<1>6. Placed(x) /\ Hearing(x) /\ Collected(x)
  BY <1>1, <1>5 DEF CallInv, Placed, Hearing, Collected, AllFrom
<1>7. AttemptAtBatch(x) = AttemptAtBatch(call) /\ PerBatch(x) = PerBatch(call)
  BY <1>5 DEF AttemptAtBatch, PerBatch
<1>8. CountedForVectors(x)
  <2> DEFINE e == AttemptAtBatch(call)
             early == Times(call.at - 1, PerBatch(call))
             here == Times(call.attempt - 1, e)
  <2>1. call.asked <= early + here + 1
    BY <1>1 DEF CallInv, Counted, CountedForVectors
  <2>2. CountedForVectors(x) <=> x.asked <= early + here + e
    BY <1>5, <1>7 DEF CountedForVectors
  <2>3. e = 1 + BatchSize /\ e \in Nat /\ PerBatch(call) \in Nat
    BY <1>1, PerBatchIs
  <2>4. early \in Nat
    <3> call.at - 1 \in Nat
      BY <1>1, LlmAssumption
    <3> QED BY <2>3, TimesIs
  <2> HIDE DEF e
  <2>5. here \in Nat
    BY <1>1, <2>3, AttemptsOfOne
  <2> HIDE DEF early, here
  <2> QED BY <1>1, <1>5, <2>1, <2>2, <2>3, <2>4, <2>5
<1>9. Counted(x)
  BY <1>5, <1>8 DEF Counted, Ended
<1> QED BY <1>2, <1>5, <1>6, <1>9 DEF StepsTo, CallInv

\* A batch arrives: the next one, the end, or another embedder.
LEMMA EmbeddedKeeps ==
    ASSUME CallsInv, NEW c \in Calls, Embedded(c)
    PROVE  StepsTo(c)
<1> DEFINE call == calls[c]
<1> PICK short \in BOOLEAN :
        LET y == WithBatch(call, short)
        IN \/ /\ y.at < Batches
              /\ calls' = [calls EXCEPT ![c] = NextBatch(y)]
           \/ /\ y.at = Batches /\ Len(y.vecs) = Batches
              /\ calls' = [calls EXCEPT ![c] = Done(y)]
           \/ IF Embedder(y) = "gemini" THEN ToNim(c, y) ELSE EmbeddingFails(c, y)
  BY DEF Embedded
<1> DEFINE y == WithBatch(call, short)
           embedder == Embedder(call)
<1>1. /\ CallInv(call) /\ call \in CallType
      /\ call.pc \in {"embedding", "embeddingEach", "nim", "e5"}
      /\ call.kind = "embed" /\ call.at \in 1..Batches /\ call.asked \in Nat
  BY DEF CallsInv, Embedded, AtGemini, CallInv, CallType, Placed
<1> HIDE DEF call
<1>2. /\ embedder \in Embedders
      /\ embedder = IF call.pc \in {"embedding", "embeddingEach"} THEN "gemini" ELSE call.pc
  BY <1>1 DEF Embedder, AtGemini, Embedders
<1>3. call.vecs \in Seq(Embedders) /\ AllFrom(call, embedder)
  BY <1>1, <1>2 DEF CallInv, CallType, Collected
<1>4. /\ y \in CallType /\ y.kind = "embed" /\ y.at = call.at
      /\ y.pc = (IF call.pc = "embeddingEach" THEN "embedding" ELSE call.pc)
      /\ y.asked = call.asked /\ y.attempt = 1 /\ y.explicit = call.explicit
  BY <1>1, <1>2, WithBatchIs
<1>5. y.vecs = IF short THEN call.vecs ELSE Append(call.vecs, embedder)
  BY <1>1, WithBatchChanges
<1> HIDE DEF y, embedder
<1>6. AllFrom(y, embedder)
  BY <1>2, <1>3, <1>5 DEF AllFrom
<1>7. /\ Batches \in Nat /\ MaxRetries \in Nat /\ 1 \in 1..MaxRetries
      /\ Times(Batches, PerBatch(call)) \in Nat
      /\ PerBatch(y) = PerBatch(call)
  BY <1>1, <1>4, LlmAssumption, PerBatchIs DEF PerBatch, AttemptAtBatch
<1>8. call.pc \in {"embedding", "embeddingEach"} =>
          /\ Times(call.at, PerBatch(call)) \in Nat
          /\ call.asked <= Times(call.at, PerBatch(call))
          /\ call.asked <= Times(Batches, PerBatch(call))
  BY <1>1, <1>7, EmbeddingIsBounded
<1>9. CASE y.at < Batches /\ calls' = [calls EXCEPT ![c] = NextBatch(y)]
  <2> DEFINE x == NextBatch(y)
  <2> y.at < Batches /\ y.asked \in Nat /\ y.at \in Nat
    BY <1>1, <1>4, <1>7, <1>9
  <2>1. /\ x \in CallType /\ x.kind = "embed" /\ x.pc = y.pc /\ x.at = y.at + 1
        /\ x.asked = y.asked + 1 /\ x.attempt = y.attempt /\ x.vecs = y.vecs
        /\ x.explicit = y.explicit
    BY <1>4, NextBatchIs
  <2> HIDE DEF x
  <2>2. Placed(x) /\ Hearing(x)
    BY <1>1, <1>4, <1>7, <1>9, <2>1 DEF Placed, Hearing
  <2>3. Collected(x)
    BY <1>1, <1>2, <1>4, <1>6, <2>1 DEF Collected, AllFrom
  <2>4. /\ x.at - 1 = call.at /\ x.attempt - 1 = 0
        /\ PerBatch(x) = PerBatch(call) /\ Times(0, AttemptAtBatch(x)) = 0
    <3>1. x.at - 1 = call.at /\ x.attempt - 1 = 0
      BY <1>1, <1>4, <1>7, <2>1
    <3>2. PerBatch(x) = PerBatch(call)
      BY <1>4, <2>1 DEF PerBatch, AttemptAtBatch
    <3>3. Times(0, AttemptAtBatch(x)) = 0
      BY <2>1, PerBatchIs, TimesIs
    <3> QED BY <3>1, <3>2, <3>3
  <2>5. ASSUME call.pc \in {"embedding", "embeddingEach"} PROVE CountedForVectors(x)
    <3> x.pc = "embedding"
      BY <1>4, <2>1, <2>5
    <3> QED BY <1>1, <1>4, <1>8, <2>1, <2>4, <2>5 DEF CountedForVectors
  <2>6. ASSUME call.pc \in {"nim", "e5"} PROVE CountedForVectors(x)
    <3>1. x.pc = call.pc /\ x.at = call.at + 1 /\ x.asked = call.asked + 1
      BY <1>4, <2>1, <2>6
    <3> DEFINE all == Times(Batches, PerBatch(call))
    <3>2. /\ call.pc = "nim" => call.asked <= all + call.at
          /\ call.pc = "e5" => call.asked <= all + Batches + call.at
      BY <1>1 DEF CallInv, Counted, CountedForVectors
    <3>3. /\ x.pc = "nim" => x.asked <= all + x.at
          /\ x.pc = "e5" => x.asked <= all + Batches + x.at
      <4> all \in Nat /\ call.at \in Nat
        BY <1>1, <1>7
      <4> HIDE DEF all
      <4> QED BY <1>1, <1>7, <3>1, <3>2
    <3> QED BY <2>4, <2>6, <3>1, <3>3 DEF CountedForVectors
  <2>7. Counted(x)
    BY <1>1, <1>4, <2>1, <2>5, <2>6 DEF Counted, Ended
  <2> QED BY <1>9, <2>1, <2>2, <2>3, <2>7 DEF StepsTo, CallInv, x
<1>10. CASE Len(y.vecs) = Batches /\ calls' = [calls EXCEPT ![c] = Done(y)]
  <2> DEFINE x == Done(y)
  <2>1. /\ x \in CallType /\ x.kind = "embed" /\ x.pc = "done" /\ x.asked = 0
        /\ x.vecs = y.vecs
    BY <1>4, DoneIs
  <2> HIDE DEF x
  <2>2. Len(x.vecs) = Batches /\ \A i \in 1..Batches : x.vecs[i] = x.vecs[1]
    <3> 1 \in 1..Batches
      BY LlmAssumption
    <3> QED BY <1>6, <1>10, <2>1 DEF AllFrom
  <2>3. CallInv(x)
    BY <2>1, <2>2, CountedAtEnd DEF CallInv, Placed, Hearing, Collected, Ended
  <2> QED BY <1>10, <2>3 DEF StepsTo, x
<1>11. CASE Embedder(y) = "gemini" /\ ToNim(c, y)
  <2>1. call.pc \in {"embedding", "embeddingEach"}
    BY <1>1, <1>4, <1>11 DEF Embedder, AtGemini
  <2>2. Embedding(y)
    BY <1>4, <1>7, <1>8, <2>1 DEF Embedding
  <2> QED BY <1>11, <2>2, ToNimKeeps
<1>12. CASE EmbeddingFails(c, y)
  BY <1>4, <1>12, EmbeddingFailsKeeps
<1> QED BY <1>9, <1>10, <1>11, <1>12 DEF y

\* Backing off leaves an attempt for the batch.
LEMMA EmbeddingLimitedKeeps ==
    ASSUME CallsInv, NEW c \in Calls, EmbeddingLimited(c)
    PROVE  StepsTo(c)
<1> DEFINE call == calls[c]
           x == BackingOff(call, "embedBackoff")
<1>1. /\ CallInv(call) /\ call.pc \in {"embedding", "embeddingEach"} /\ call.kind = "embed"
      /\ call \in CallType /\ call.attempt < MaxRetries /\ call.attempt \in 1..MaxRetries
      /\ call.attempt \in Nat /\ call.asked \in Nat /\ call.at \in 1..Batches
  BY DEF CallsInv, EmbeddingLimited, AtGemini, CallInv, CallType, Placed
<1>2. calls' = [calls EXCEPT ![c] = x]
  BY DEF EmbeddingLimited, CallsInv
<1> HIDE DEF call
<1>3. /\ x \in CallType /\ x.kind = "embed" /\ x.pc = "embedBackoff" /\ x.at = call.at
      /\ x.attempt = call.attempt + 1 /\ x.asked = call.asked /\ x.vecs = call.vecs
      /\ x.explicit = call.explicit
  <2> "embedBackoff" \in InFlight
    BY DEF InFlight
  <2> QED BY <1>1, BackingOffIs
<1> HIDE DEF x
<1>4. MaxRetries \in Nat /\ Batches \in Nat
  BY LlmAssumption
<1>5. Placed(x) /\ Hearing(x) /\ Collected(x)
  BY <1>1, <1>3, <1>4 DEF CallInv, Placed, Hearing, Collected, AllFrom
<1>6. CountedForVectors(x)
  <2> DEFINE e == AttemptAtBatch(call)
             early == Times(call.at - 1, PerBatch(call))
             here == Times(call.attempt - 1, e)
             later == Times(call.attempt, e)
  <2>1. /\ call.pc = "embedding" => call.asked <= early + here + 1
        /\ call.pc = "embeddingEach" => call.asked <= early + here + e
    BY <1>1 DEF CallInv, Counted, CountedForVectors
  <2>2. x.attempt - 1 = call.attempt /\ PerBatch(x) = PerBatch(call) /\ AttemptAtBatch(x) = e
    BY <1>1, <1>3 DEF PerBatch, AttemptAtBatch
  <2>3. CountedForVectors(x) <=> x.asked <= early + later
    BY <1>3, <2>2 DEF CountedForVectors
  <2>4. e \in Nat /\ 1 <= e /\ PerBatch(call) \in Nat
    BY <1>1, PerBatchIs
  <2>5. early \in Nat
    <3> call.at - 1 \in Nat
      BY <1>1, <1>4
    <3> QED BY <2>4, TimesIs
  <2> HIDE DEF e
  <2>6. here \in Nat /\ later \in Nat /\ here + e = later
    BY <1>1, <2>4, AttemptsOfOne
  <2> HIDE DEF early, here, later
  <2> QED BY <1>1, <1>3, <2>1, <2>3, <2>4, <2>5, <2>6
<1>7. Counted(x)
  BY <1>3, <1>6 DEF Counted, Ended
<1> QED BY <1>2, <1>3, <1>5, <1>7 DEF StepsTo, CallInv

\* The attempt for the batch is counted.
LEMMA EmbeddingBackOffEndsKeeps ==
    ASSUME CallsInv, NEW c \in Calls, EmbeddingBackOffEnds(c)
    PROVE  StepsTo(c)
<1> DEFINE call == calls[c]
           y == [call EXCEPT !.pc = "embedding"]
           x == Asked(y)
<1>1. /\ CallInv(call) /\ call.pc = "embedBackoff" /\ call.kind = "embed"
      /\ call \in CallType /\ call.attempt \in 1..MaxRetries /\ call.attempt \in Nat
      /\ call.asked \in Nat /\ call.at \in 1..Batches
  BY DEF CallsInv, EmbeddingBackOffEnds, CallInv, CallType, Placed
<1>2. calls' = [calls EXCEPT ![c] = x]
  BY DEF EmbeddingBackOffEnds, CallsInv
<1> HIDE DEF call
<1>3. /\ y \in CallType /\ y.kind = "embed" /\ y.pc = "embedding" /\ y.at = call.at
      /\ y.attempt = call.attempt /\ y.asked = call.asked /\ y.vecs = call.vecs
      /\ y.explicit = call.explicit
  <2> "embedding" \in InFlight
    BY DEF InFlight
  <2> QED BY <1>1, AtIs
<1> HIDE DEF y
<1>4. /\ x \in CallType /\ x.kind = "embed" /\ x.pc = "embedding" /\ x.at = call.at
      /\ x.attempt = call.attempt /\ x.asked = call.asked + 1 /\ x.vecs = call.vecs
      /\ x.explicit = call.explicit
  BY <1>1, <1>3, AskedIs
<1> HIDE DEF x
<1>5. Placed(x) /\ Hearing(x) /\ Collected(x)
  BY <1>1, <1>4 DEF CallInv, Placed, Hearing, Collected, AllFrom
<1>6. CountedForVectors(x)
  <2> DEFINE early == Times(call.at - 1, PerBatch(call))
             here == Times(call.attempt - 1, AttemptAtBatch(call))
  <2>1. call.asked <= early + here
    BY <1>1 DEF CallInv, Counted, CountedForVectors
  <2>2. PerBatch(x) = PerBatch(call) /\ AttemptAtBatch(x) = AttemptAtBatch(call)
    BY <1>4 DEF PerBatch, AttemptAtBatch
  <2>3. CountedForVectors(x) <=> x.asked <= early + here + 1
    BY <1>4, <2>2 DEF CountedForVectors
  <2>4. early \in Nat /\ here \in Nat
    <3>1. call.at - 1 \in Nat /\ AttemptAtBatch(call) \in Nat /\ PerBatch(call) \in Nat
      BY <1>1, LlmAssumption, PerBatchIs
    <3> QED BY <1>1, <3>1, TimesIs, AttemptsOfOne
  <2> HIDE DEF early, here
  <2> QED BY <1>1, <1>4, <2>1, <2>3, <2>4
<1>7. Counted(x)
  BY <1>4, <1>6 DEF Counted, Ended
<1> QED BY <1>2, <1>4, <1>5, <1>7 DEF StepsTo, CallInv

\* Gemini refuses a batch: NIM starts over.
LEMMA EmbeddingRefusedKeeps ==
    ASSUME CallsInv, NEW c \in Calls, EmbeddingRefused(c)
    PROVE  StepsTo(c)
<1> DEFINE call == calls[c]
<1>1. /\ CallInv(call) /\ call.pc \in {"embedding", "embeddingEach"} /\ call.asked \in Nat
      /\ ToNim(c, call)
  BY DEF CallsInv, EmbeddingRefused, AtGemini, CallInv, CallType
<1> HIDE DEF call
<1>2. Embedding(call)
  BY <1>1, EmbeddingIsBounded DEF Embedding
<1> QED BY <1>1, <1>2, ToNimKeeps

\* The second model on NIM starts over.
LEMMA NimFailsKeeps ==
    ASSUME CallsInv, NEW c \in Calls, NimFails(c)
    PROVE  StepsTo(c)
<1> DEFINE call == calls[c]
           x == FromFirst(call, "e5")
<1>1. /\ call \in CallType /\ call.kind = "embed" /\ call.asked \in Nat
      /\ call.asked <= Times(Batches, PerBatch(call)) + call.at /\ call.at \in 1..Batches
  BY DEF CallsInv, NimFails, CallInv, CallType, Placed, Counted, CountedForVectors
<1>2. calls' = [calls EXCEPT ![c] = x]
  BY DEF NimFails, CallsInv
<1> HIDE DEF call
<1>3. /\ x \in CallType /\ x.kind = "embed" /\ x.pc = "e5" /\ x.at = 1
      /\ x.vecs = <<>> /\ x.asked = call.asked + 1 /\ x.explicit = call.explicit
  <2> "e5" \in InFlight
    BY DEF InFlight
  <2> QED BY <1>1, FromFirstIs
<1> HIDE DEF x
<1>4. 1 \in 1..Batches /\ Batches \in Nat
  BY LlmAssumption
<1>5. Times(Batches, PerBatch(call)) \in Nat /\ PerBatch(x) = PerBatch(call)
  BY <1>1, <1>3, PerBatchIs DEF PerBatch, AttemptAtBatch
<1>6. Placed(x) /\ Hearing(x)
  BY <1>3, <1>4 DEF Placed, Hearing
<1>7. Counted(x)
  <2> CountedForVectors(x)
    BY <1>1, <1>3, <1>4, <1>5 DEF CountedForVectors
  <2> QED BY <1>3 DEF Counted, Ended
<1>8. Collected(x)
  BY <1>3 DEF Collected, AllFrom
<1> QED BY <1>2, <1>3, <1>6, <1>7, <1>8 DEF StepsTo, CallInv

\* The last embedder fails.
LEMMA E5FailsKeeps ==
    ASSUME CallsInv, NEW c \in Calls, E5Fails(c)
    PROVE  StepsTo(c)
<1> calls[c] \in CallType /\ calls[c].kind = "embed"
  BY DEF CallsInv, CallInv, E5Fails, Placed
<1> QED BY EmbeddingFailsKeeps DEF E5Fails
-----------------------------------------------------------------------------
(* What the calls share.                                                   *)

\* Every action keeps the type of what the calls share.
LEMMA SharedTyped ==
    ASSUME TypeOK, Next
    PROVE  /\ config' \in Configs
           /\ key' \in Keys \cup {NoKey}
           /\ groq' \in Keys \cup {NoKey}
           /\ notice' \in Keys \cup {NoKey}
           /\ late' \in BOOLEAN
           /\ clients' \in SUBSET {"default", "global"}
<1> DEFINE Shared == /\ config' \in Configs
                     /\ key' \in Keys \cup {NoKey}
                     /\ groq' \in Keys \cup {NoKey}
                     /\ notice' \in Keys \cup {NoKey}
                     /\ late' \in BOOLEAN
                     /\ clients' \in SUBSET {"default", "global"}
           Notice == /\ groq' \in Keys \cup {NoKey}
                     /\ notice' \in Keys \cup {NoKey}
                     /\ late' \in BOOLEAN
<1>1. ASSUME NEW c, NEW call, ToGroq(c, call)
      PROVE  Notice
  BY <1>1 DEF TypeOK, ToGroq
<1>2. ASSUME NEW c, NEW call, AfterGemini(c, call)
      PROVE  Notice
  BY <1>1, <1>2 DEF TypeOK, AfterGemini
<1>3. \A candidate : Location(candidate) \in {"default", "global"}
  BY DEF Location
<1>4. ASSUME NEW places, NEW i, places[i] \in {"default", "global"}, ClientAt(places, i)
      PROVE  clients' \in SUBSET {"default", "global"}
  BY <1>4 DEF TypeOK, ClientAt
<1>5. ASSUME NEW c, NEW call, NEW first, TryFrom(c, call, first)
      PROVE  Notice /\ clients' \in SUBSET {"default", "global"}
  <2> DEFINE all == Candidates[call.model]
             places == [i \in 1..(Len(all) + 1 - first) |-> Location(all[first - 1 + i])]
  <2>1. \A i \in DOMAIN places : places[i] \in {"default", "global"}
    BY <1>3
  <2>2. \/ \E i \in DOMAIN places :
               /\ ClientAt(places, i)
               /\ UNCHANGED <<groq, notice, late>>
        \/ NoClientAt(places) /\ AfterGemini(c, call)
    BY <1>5 DEF TryFrom
  <2> HIDE DEF places, all
  <2>3. CASE \E i \in DOMAIN places : ClientAt(places, i) /\ UNCHANGED <<groq, notice, late>>
    BY <1>4, <2>1, <2>3 DEF TypeOK
  <2>4. CASE NoClientAt(places) /\ AfterGemini(c, call)
    BY <1>2, <2>4 DEF TypeOK, NoClientAt
  <2> QED BY <2>2, <2>3, <2>4
<1>6. ASSUME NEW c, NEW call, NEW why, GivesUpOn(c, call, why)
      PROVE  Notice /\ clients' \in SUBSET {"default", "global"}
  BY <1>2, <1>5, <1>6 DEF GivesUpOn, TypeOK
<1>7. ASSUME NEW c, NEW call, ToNim(c, call) \/ EmbeddingFails(c, call)
      PROVE  UNCHANGED clients
  BY <1>7 DEF ToNim, EmbeddingFails
<1>8. ASSUME NEW c \in Calls,
             \/ Begin(c) \/ GeminiRefuses(c) \/ GeminiEnds(c) \/ GeminiBreaks(c)
      PROVE  Shared
  <2>1. CASE Begin(c)
    BY <1>1, <1>5, <2>1 DEF Begin, TypeOK
  <2>2. CASE GeminiRefuses(c) \/ GeminiBreaks(c)
    BY <1>6, <2>2 DEF GeminiRefuses, GeminiBreaks, TypeOK
  <2>3. CASE GeminiEnds(c)
    BY <1>2, <1>5, <2>3 DEF GeminiEnds, TypeOK
  <2> QED BY <1>8, <2>1, <2>2, <2>3
<1>9. ASSUME NEW c \in Calls, BeginEmbedding(c)
      PROVE  Shared
  <2> DEFINE Starts(places) ==
                 \/ \E i \in DOMAIN places : ClientAt(places, i)
                 \/ NoClientAt(places)
  <2>1. /\ UNCHANGED <<config, key, groq, notice, late>>
        /\ \/ \E places \in {<<"default">>, <<"global", "default">>} : Starts(places)
           \/ ToNim(c, Fresh("embed", AnyModel, FALSE))
    BY <1>9 DEF BeginEmbedding
  <2>2. ASSUME NEW places \in {<<"default">>, <<"global", "default">>}, Starts(places)
        PROVE  clients' \in SUBSET {"default", "global"}
    <3>1. \A i \in DOMAIN places : places[i] \in {"default", "global"}
      OBVIOUS
    <3>2. CASE \E i \in DOMAIN places : ClientAt(places, i)
      BY <1>4, <3>1, <3>2
    <3>3. CASE NoClientAt(places)
      BY <3>3 DEF NoClientAt, TypeOK
    <3> QED BY <2>2, <3>2, <3>3
  <2>3. ASSUME ToNim(c, Fresh("embed", AnyModel, FALSE))
        PROVE  clients' \in SUBSET {"default", "global"}
    BY <1>7, <2>3 DEF TypeOK
  <2> HIDE DEF Starts
  <2>4. clients' \in SUBSET {"default", "global"}
    BY <2>1, <2>2, <2>3
  <2> QED BY <2>1, <2>4 DEF TypeOK
<1>10. ASSUME NEW c \in Calls, Embedded(c) \/ EmbeddingRefused(c) \/ E5Fails(c)
       PROVE  Shared
  BY <1>7, <1>10 DEF Embedded, EmbeddingRefused, E5Fails, TypeOK
<1>11. ASSUME NEW c \in Calls, GroqFails(c)
       PROVE  Shared
  <2> calls[c].client \in Keys \cup {NoKey}
    BY DEF TypeOK, CallType
  <2> QED BY <1>11 DEF GroqFails, TypeOK
<1>12. ASSUME NEW c \in Calls,
              \/ GeminiSends(c) \/ GroqSends(c) \/ GroqAnswers(c)
       PROVE  Shared
  BY <1>12 DEF GeminiSends, GroqSends, Sends, GroqAnswers, TypeOK
<1>13. ASSUME NEW c \in Calls,
              \/ Abandon(c) \/ ShowEvidence(c) \/ GeminiAnswers(c) \/ GeminiLimited(c)
              \/ ThinkingRefused(c) \/ BackOffEnds(c) \/ GeminiOpens(c)
              \/ GroqOpens(c) \/ GroqEnds(c) \/ EmbedsEach(c)
              \/ EmbeddingLimited(c) \/ EmbeddingBackOffEnds(c) \/ NimFails(c)
       PROVE  Shared
  BY <1>13 DEF Abandon, ShowEvidence, GeminiAnswers, GeminiLimited, BackOffEnds,
               ThinkingRefused, GeminiOpens, GroqOpens, GroqEnds, EmbedsEach,
               EmbeddingLimited,
               EmbeddingBackOffEnds, NimFails, TypeOK
<1>14. ASSUME SetKey \/ ResetQuota
       PROVE  Shared
  BY <1>14 DEF SetKey, ResetQuota, TypeOK
<1> QED BY <1>8, <1>9, <1>10, <1>11, <1>12, <1>13, <1>14 DEF Next

\* Every step of a call keeps the invariant of that call, and leaves the others.
LEMMA CallsKept ==
    ASSUME TypeOK, CallsInv, Next
    PROVE  CallsInv'
<1>1. ASSUME NEW c \in Calls,
             \/ Begin(c) \/ BeginEmbedding(c) \/ Abandon(c) \/ ShowEvidence(c)
             \/ ThinkingRefused(c) \/ GeminiAnswers(c) \/ GeminiLimited(c)
             \/ BackOffEnds(c) \/ GeminiRefuses(c) \/ GeminiOpens(c) \/ GeminiSends(c)
             \/ GeminiEnds(c) \/ GeminiBreaks(c)
      PROVE  StepsTo(c)
  BY <1>1, BeginKeeps, BeginEmbeddingKeeps, AbandonKeeps, ShowEvidenceKeeps,
     ThinkingRefusedKeeps, GeminiAnswersKeeps, GeminiLimitedKeeps, BackOffEndsKeeps,
     GeminiRefusesKeeps,
     OpensKeeps, StreamSendsKeeps, GeminiEndsKeeps, GeminiBreaksKeeps
<1>2. ASSUME NEW c \in Calls,
             \/ GroqAnswers(c) \/ GroqOpens(c) \/ GroqSends(c)
             \/ GroqEnds(c) \/ GroqFails(c)
             \/ EmbedsEach(c) \/ Embedded(c) \/ EmbeddingLimited(c)
             \/ EmbeddingBackOffEnds(c) \/ EmbeddingRefused(c)
             \/ NimFails(c) \/ E5Fails(c)
      PROVE  StepsTo(c)
  BY <1>2, GroqAnswersKeeps, OpensKeeps, StreamSendsKeeps, GroqEndsKeeps,
     GroqFailsKeeps, EmbedsEachKeeps, EmbeddedKeeps, EmbeddingLimitedKeeps,
     EmbeddingBackOffEndsKeeps,
     EmbeddingRefusedKeeps, NimFailsKeeps, E5FailsKeeps
<1>3. CASE SetKey \/ ResetQuota
  BY <1>3 DEF SetKey, ResetQuota, CallsInv
<1>4. ASSUME NEW c \in Calls, StepsTo(c) PROVE CallsInv'
  BY <1>4, OneCall
<1> QED BY <1>1, <1>2, <1>3, <1>4 DEF Next

-----------------------------------------------------------------------------
(* Theorems.                                                               *)

Inv == TypeOK /\ CallsInv

\* The invariant holds at the start.
LEMMA InitInv ==
    Init => Inv
<1> SUFFICES ASSUME Init PROVE Inv
  OBVIOUS
<1>1. Fresh("complete", AnyModel, FALSE) \in CallType
      /\ CallInv(Fresh("complete", AnyModel, FALSE))
  BY FreshIs, AnyModelIsOne
<1> QED BY <1>1 DEF Init, Inv, TypeOK, CallsInv

\* Every step keeps the invariant.
LEMMA NextInv ==
    Inv /\ [Next]_vars => Inv'
<1> SUFFICES ASSUME Inv, [Next]_vars PROVE Inv'
  OBVIOUS
<1>1. CASE Next
  <2>1. CallsInv'
    BY <1>1, CallsKept DEF Inv
  <2>2. calls' \in [Calls -> CallType]
    BY <2>1 DEF CallsInv, CallInv
  <2> QED BY <1>1, <2>1, <2>2, SharedTyped DEF Inv, TypeOK
<1>2. CASE UNCHANGED vars
  BY <1>2 DEF vars, Inv, TypeOK, CallsInv
<1> QED BY <1>1, <1>2

\* Whatever the providers and the administrators do, every variable of the
\* client keeps its type.
THEOREM TypeCorrect == Spec => []TypeOK
<1>1. Inv => TypeOK
  BY DEF Inv
<1> QED BY <1>1, InitInv, NextInv, PTL DEF Spec

\* For any number of calls, keys and batches, a reader of stream_complete gets
\* one answer, and a second source only after one that broke off.
THEOREM StreamsAreWholeHolds == Spec => []StreamsAreWhole
<1>1. Inv => StreamsAreWhole
  BY DEF Inv, CallsInv, CallInv, Hearing, StreamsAreWhole
<1> QED BY <1>1, InitInv, NextInv, PTL DEF Spec

\* For any number of batches and any failures, what get_embeddings returns is
\* complete and of one model.
THEOREM VectorsFromOneModelHolds == Spec => []VectorsFromOneModel
<1>1. Inv => VectorsFromOneModel
  BY DEF Inv, CallsInv, CallInv, Collected, VectorsFromOneModel
<1> QED BY <1>1, InitInv, NextInv, PTL DEF Spec

\* For any MaxRetries and any batches, back-off inside fallbacks multiplies
\* requests by no more than the attempts that the chain is worth.
THEOREM RequestsAreBoundedHolds == Spec => []RequestsAreBounded
<1>1. ASSUME Inv, NEW c \in Calls
      PROVE  LET call == calls[c]
                 chain == Attempts(call.model, Len(Candidates[call.model]))
             IN call.asked <= CASE call.kind = "complete" -> chain * MaxRetries + 1
                                [] call.kind = "stream" -> chain + 1
                                [] OTHER -> Batches * (MaxRetries * AttemptAtBatch(call) + 2)
  <2> DEFINE call == calls[c]
             all == Times(Batches, PerBatch(call))
  <2>1. /\ CallInv(call) /\ call \in CallType /\ call.asked \in Nat
        /\ call.model \in DOMAIN Candidates
        /\ call.kind \in {"complete", "stream", "embed"}
        /\ call.pc \in InFlight \cup Ended
    BY <1>1 DEF Inv, CallsInv, CallInv, CallType, Ended
  <2> HIDE DEF call
  <2>2. /\ Overall(call) \in Nat /\ Times(Overall(call), MaxRetries) \in Nat
        /\ Overall(call) = Attempts(call.model, Len(Candidates[call.model]))
        /\ Times(Overall(call), MaxRetries) = Overall(call) * MaxRetries
    <3>1. Chain(call) \in Nat /\ MaxRetries \in Nat
      BY <2>1, ChainsAre, LlmAssumption DEF Chain
    <3>2. Overall(call) \in Nat
      BY <3>1, AttemptsGrow DEF Overall
    <3>3. Times(Overall(call), MaxRetries) \in Nat
      BY <3>1, <3>2, TimesIs
    <3> QED BY <3>2, <3>3 DEF Overall, Chain, Times
  <2>3. /\ Batches \in Nat /\ all \in Nat
        /\ Batches * (MaxRetries * AttemptAtBatch(call) + 2) = all + Batches + Batches
    <3> DEFINE per == MaxRetries * AttemptAtBatch(call)
    <3>1. PerBatch(call) \in Nat /\ Batches \in Nat /\ all \in Nat
      BY <2>1, PerBatchIs
    <3>2. PerBatch(call) = per
      BY DEF PerBatch, Times
    <3> HIDE DEF per
    <3>3. per \in Nat /\ all = Batches * per
      BY <3>1, <3>2 DEF Times
    <3>4. Batches * (per + 2) = Batches * per + Batches + Batches
      BY <3>1, <3>3
    <3> QED BY <3>1, <3>3, <3>4 DEF per
  <2>4. ASSUME call.kind = "complete"
        PROVE  call.asked <= Times(Overall(call), MaxRetries) + 1
    <3>1. call.pc \in {"gemini", "plain", "backoff", "groq"} \/ call.pc \in Ended
      BY <2>1, <2>4 DEF CallInv, Placed, InFlight
    <3>2. CASE call.pc \in Ended
      BY <2>1, <2>2, <3>2 DEF CallInv, Counted
    <3>3. CASE call.pc = "groq"
      BY <2>1, <2>4, <3>3 DEF CallInv, Counted, CountedForAnswer
    <3>4. CASE call.pc \in {"gemini", "plain", "backoff"}
      <4> DEFINE e == AttemptAt(call)
                 through == Attempts(call.model, call.cand)
                 early == Times(Before(call), MaxRetries)
                 here == Times(call.attempt - 1, e)
      <4>1. /\ call.cand \in 1..Chain(call) /\ call.attempt \in 1..MaxRetries
            /\ call.pc = "plain" => e = 2
        BY <2>1, <3>4 DEF CallInv, Placed, AttemptAt
      <4>2. call.asked <= early + here + (IF call.pc = "plain" THEN 2 ELSE 1)
        <5> early \in Nat /\ here \in Nat
          <6> Before(call) \in Nat /\ e \in Nat /\ MaxRetries \in Nat
            BY <2>1, <4>1, BeforeIs, LlmAssumption
          <6> QED BY <4>1, TimesIs, AttemptsOfOne
        <5> /\ call.pc = "gemini" => call.asked <= early + here + 1
            /\ call.pc = "plain" => call.asked <= early + here + 2
            /\ call.pc = "backoff" => call.asked <= early + here
          BY <2>1, <2>4 DEF CallInv, Counted, CountedForAnswer
        <5> HIDE DEF early, here
        <5> QED BY <2>1, <3>4
      <4>3. /\ Before(call) \in Nat /\ e \in {1, 2} /\ e \in Nat /\ MaxRetries \in Nat
            /\ through = Before(call) + e /\ through \in Nat /\ through <= Overall(call)
        BY <2>1, <4>1, BeforeIs, LlmAssumption
      <4> HIDE DEF e, through
      <4>4. /\ early \in Nat
            /\ early + Times(MaxRetries, e) = Times(through, MaxRetries)
        BY <4>3, TimesIs, OneMoreCandidate
      <4>5. here \in Nat /\ here + e <= Times(MaxRetries, e) /\ Times(MaxRetries, e) \in Nat
        BY <4>1, <4>3, AttemptsOfOne
      <4>6. /\ Times(through, MaxRetries) \in Nat
            /\ Times(through, MaxRetries) <= Times(Overall(call), MaxRetries)
        BY <2>2, <4>3, TimesGrows
      <4> HIDE DEF early, here
      <4>7. call.asked <= Times(through, MaxRetries)
        BY <2>1, <4>1, <4>2, <4>3, <4>4, <4>5
      <4> QED BY <2>1, <2>2, <4>6, <4>7
    <3> QED BY <3>1, <3>2, <3>3, <3>4
  <2>5. ASSUME call.kind = "stream" PROVE call.asked <= Overall(call) + 1
    <3>1. \/ call.pc \in {"gemini", "plain", "streaming"}
          \/ call.pc \in {"groq", "groqStreaming", "noticed"}
          \/ call.pc \in Ended
      BY <2>1, <2>5 DEF CallInv, Placed, InFlight
    <3>2. CASE call.pc \in {"gemini", "plain", "streaming"}
      <4>1. call.cand \in 1..Chain(call)
        BY <2>1, <3>2 DEF CallInv, Placed
      <4>2. /\ Before(call) \in Nat /\ AttemptAt(call) \in {1, 2}
            /\ Before(call) + AttemptAt(call) <= Overall(call)
        BY <2>1, <4>1, BeforeIs
      <4>3. \/ call.asked <= Before(call) + 1
            \/ call.asked <= Before(call) + AttemptAt(call)
        BY <2>1, <2>5, <3>2 DEF CallInv, Counted, CountedForStream
      <4> QED BY <2>1, <2>2, <4>2, <4>3
    <3>3. CASE call.pc \in {"groq", "groqStreaming", "noticed"}
      BY <2>1, <2>5, <3>3 DEF CallInv, Counted, CountedForStream
    <3>4. CASE call.pc \in Ended
      BY <2>1, <2>2, <3>4 DEF CallInv, Counted
    <3> QED BY <3>1, <3>2, <3>3, <3>4
  <2>6. ASSUME call.kind = "embed" PROVE call.asked <= all + Batches + Batches
    <3>1. \/ call.pc \in {"embedding", "embeddingEach", "embedBackoff"}
          \/ call.pc \in {"nim", "e5"}
          \/ call.pc \in Ended
      BY <2>1, <2>6 DEF CallInv, Placed, InFlight
    <3>2. CASE call.pc \in Ended
      BY <2>1, <2>3, <3>2 DEF CallInv, Counted
    <3>3. CASE call.pc \in {"nim", "e5"}
      <4>1. call.asked <= all + call.at \/ call.asked <= all + Batches + call.at
        BY <2>1, <2>6, <3>3 DEF CallInv, Counted, CountedForVectors
      <4>2. call.at \in 1..Batches
        BY <2>1, <3>3 DEF CallInv, Placed
      <4> HIDE DEF all
      <4> QED BY <2>1, <2>3, <4>1, <4>2
    <3>4. CASE call.pc \in {"embedding", "embeddingEach", "embedBackoff"}
      <4>1. /\ call.asked <= Times(call.at, PerBatch(call))
            /\ Times(call.at, PerBatch(call)) \in Nat
            /\ Times(call.at, PerBatch(call)) <= all
        BY <2>1, <3>4, EmbeddingIsBounded
      <4> HIDE DEF all
      <4> QED BY <2>1, <2>3, <4>1
    <3> QED BY <3>1, <3>2, <3>3, <3>4
  <2> HIDE DEF all
  <2>7. call.asked <= CASE call.kind = "complete" ->
                               Attempts(call.model, Len(Candidates[call.model])) * MaxRetries + 1
                        [] call.kind = "stream" ->
                               Attempts(call.model, Len(Candidates[call.model])) + 1
                        [] OTHER -> Batches * (MaxRetries * AttemptAtBatch(call) + 2)
    <3>1. CASE call.kind = "complete"
      BY <2>2, <2>4, <3>1
    <3>2. CASE call.kind = "stream"
      BY <2>2, <2>5, <3>2
    <3>3. CASE call.kind = "embed"
      BY <2>3, <2>6, <3>3, Zenon
    <3> QED BY <2>1, <3>1, <3>2, <3>3
  <2> QED BY <2>7 DEF call
<1>2. Inv => RequestsAreBounded
  BY <1>1 DEF RequestsAreBounded
<1> QED BY <1>2, InitInv, NextInv, PTL DEF Spec

\* The notice that every answer shows is about the Groq key in use, for any
\* number of calls and keys, unless a request made with a replaced key was
\* refused late.  The property is inductive as it stands: whoever sets the
\* client's key clears the notice of another one, and whoever records a notice
\* for another one is late.
THEOREM NoticeOfKeyInUseHolds == Spec => []NoticeOfKeyInUse
<1> DEFINE Kept == UNCHANGED <<groq, notice, late>>
<1>1. Init => NoticeOfKeyInUse
  BY DEF Init, NoticeOfKeyInUse
<1>2. NoticeOfKeyInUse /\ [Next]_vars => NoticeOfKeyInUse'
  <2> SUFFICES ASSUME NoticeOfKeyInUse, [Next]_vars PROVE NoticeOfKeyInUse'
    OBVIOUS
  <2>0. ASSUME Kept PROVE NoticeOfKeyInUse'
    BY <2>0 DEF NoticeOfKeyInUse
  <2>1. ASSUME NEW c, NEW call, ToGroq(c, call) PROVE NoticeOfKeyInUse'
    <3>1. CASE key = NoKey
      BY <2>1, <3>1 DEF ToGroq, NoticeOfKeyInUse
    <3>2. CASE key # NoKey
      BY <2>1, <3>2 DEF ToGroq, NoticeOfKeyInUse
    <3> QED BY <3>1, <3>2
  <2>2. ASSUME NEW c, NEW call, AfterGemini(c, call) PROVE NoticeOfKeyInUse'
    BY <2>0, <2>1, <2>2 DEF AfterGemini
  <2>3. ASSUME NEW c, NEW call, NEW first, TryFrom(c, call, first)
        PROVE  NoticeOfKeyInUse'
    BY <2>0, <2>2, <2>3 DEF TryFrom
  <2>4. ASSUME NEW c, NEW call, NEW why, GivesUpOn(c, call, why)
        PROVE  NoticeOfKeyInUse'
    BY <2>2, <2>3, <2>4 DEF GivesUpOn
  <2>5. ASSUME NEW c \in Calls,
               Begin(c) \/ GeminiRefuses(c) \/ GeminiEnds(c) \/ GeminiBreaks(c)
        PROVE  NoticeOfKeyInUse'
    BY <2>0, <2>1, <2>2, <2>3, <2>4, <2>5
       DEF Begin, GeminiRefuses, GeminiEnds, GeminiBreaks
  <2>6. ASSUME NEW c \in Calls, GeminiSends(c) \/ GroqSends(c) \/ GroqAnswers(c)
        PROVE  NoticeOfKeyInUse'
    BY <2>0, <2>6 DEF GeminiSends, GroqSends, Sends, GroqAnswers, NoticeOfKeyInUse
  <2>7. ASSUME NEW c \in Calls, GroqFails(c) PROVE NoticeOfKeyInUse'
    BY <2>7 DEF GroqFails, NoticeOfKeyInUse
  <2>8. ASSUME NEW c \in Calls,
               \/ BeginEmbedding(c) \/ Embedded(c) \/ EmbeddingRefused(c) \/ E5Fails(c)
               \/ EmbeddingLimited(c) \/ EmbeddingBackOffEnds(c) \/ NimFails(c)
               \/ EmbedsEach(c)
        PROVE  Kept
    BY <2>8 DEF BeginEmbedding, Embedded, EmbeddingRefused, E5Fails, EmbeddingLimited,
                EmbeddingBackOffEnds, NimFails, EmbedsEach
  <2>9. ASSUME NEW c \in Calls,
               \/ Abandon(c) \/ ShowEvidence(c) \/ GeminiAnswers(c) \/ GeminiLimited(c)
               \/ BackOffEnds(c) \/ GeminiOpens(c) \/ GroqOpens(c) \/ GroqEnds(c)
               \/ ThinkingRefused(c)
        PROVE  Kept
    BY <2>9 DEF Abandon, ShowEvidence, GeminiAnswers, GeminiLimited, BackOffEnds,
                GeminiOpens, GroqOpens, GroqEnds, ThinkingRefused
  <2>10. ASSUME SetKey \/ ResetQuota PROVE NoticeOfKeyInUse'
    BY <2>0, <2>10 DEF SetKey, ResetQuota, NoticeOfKeyInUse
  <2>11. CASE UNCHANGED vars
    BY <2>0, <2>11 DEF vars
  <2> QED BY <2>0, <2>5, <2>6, <2>7, <2>8, <2>9, <2>10, <2>11 DEF Next
<1> QED BY <1>1, <1>2, PTL DEF Spec
=============================================================================
