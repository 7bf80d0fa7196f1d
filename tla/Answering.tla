----------------------------- MODULE Answering -----------------------------
(***************************************************************************)
(* How a question is answered: the retrieval engine with its fusion,       *)
(* reranking, second hop and retry; and on top of it the three ways to an  *)
(* answer: grounded generation with verification (/v1/query and its        *)
(* stream), the planner, and the corrective graph.                         *)
(*                                                                         *)
(* One question is followed while documents are deleted around it.  A      *)
(* piece of evidence is the id of a chunk: a parent's, or a child's when   *)
(* its parent can no longer be read.                                       *)
(***************************************************************************)
EXTENDS Integers, SequencesExt

CONSTANTS
    Docs,         \* the documents of the corpus
    Children,     \* ids of their child chunks
    DocOf,        \* DocOf[c]: the document of the child c
    ParentOf,     \* ParentOf[c]: the id of its parent chunk
    SectionOf,    \* SectionOf[c]: the section it is in
    PrefixOf,     \* PrefixOf[c]: the first 120 characters of its text
    Anywhere,     \* a filter that names no section
    Limit,        \* settings.first_stage_limit
    Pool,         \* the size of the rerank pool (24)
    Depth,        \* ranks that make a consensus (10)
    TopK,         \* parents a retrieval returns
    MaxRetries,   \* settings.max_retrieval_retries
    MaxRewrites,  \* settings.agentic_max_rewrites
    MaxSteps      \* search queries of a plan (max_iterations + 1)

ASSUME AnsweringAssumption ==
    /\ IsFiniteSet(Children)
    /\ \A c \in Children : DocOf[c] \in Docs /\ ParentOf[c] \notin Children
    /\ \A b, c \in Children : ParentOf[b] = ParentOf[c] => DocOf[b] = DocOf[c]
    /\ \A c \in Children : SectionOf[c] # Anywhere
    /\ {Limit, Pool, Depth, TopK, MaxSteps} \subseteq Nat \ {0}
    /\ {MaxRetries, MaxRewrites} \subseteq Nat

VARIABLES
    docs,  \* the documents that are stored
    q      \* the question: where it is and what it has gathered

vars == <<docs, q>>

Sections == {SectionOf[c] : c \in Children}
Ids == Children \cup {ParentOf[c] : c \in Children}

-----------------------------------------------------------------------------
(* Fusion (retrieval/hybrid.py).  A candidate carries its ranks in the two  *)
(* searches; all that is read of them later is whether it is one that both  *)
(* rank among the first (is_top_consensus_candidate).                       *)

Candidate == [id : Children, agreed : BOOLEAN]

\* A list without the later occurrences of what it has more than once.
Firsts(list) ==
    FoldLeft(LAMBDA found, x : IF Contains(found, x) THEN found ELSE Append(found, x),
             <<>>, list)

\* What a list has of a set, in its order.
Kept(list, set) ==
    FoldLeft(LAMBDA kept, x : IF x \in set THEN Append(kept, x) ELSE kept, <<>>, list)

Rank(list, c) == SelectInSeq(list, LAMBDA b : b = c)

\* 1 / (60 + rank), scaled to an integer; exact for ranks up to 3.
Weight(rank) == IF rank = 0 THEN 0 ELSE (61 * 62 * 63) \div (60 + rank)

Score(text, dense, c) == Weight(Rank(text, c)) + Weight(Rank(dense, c))

\* A chunk is put behind those whose score is not less.
Inserted(text, dense, sorted, c) ==
    LET ahead == {k \in DOMAIN sorted :
                     Score(text, dense, sorted[k]) >= Score(text, dense, c)}
    IN InsertAt(sorted, Cardinality(ahead) + 1, c)

\* Sorted by the fused score; ties as they come, the text search first.
Fused(text, dense) ==
    LET sorted == FoldLeft(LAMBDA l, c : Inserted(text, dense, l, c), <<>>,
                           Firsts(text \o dense))
    IN SubSeq(sorted, 1, Min({Limit, Len(sorted)}))

\* Chunks whose section or first words the question names go to the front, in
\* the order of their boosts, `named'.
Boosted(list, named) ==
    Kept(named, ToSet(list)) \o Kept(list, ToSet(list) \ ToSet(named))

\* deduplicate_candidates: the first chunk of those that begin alike.
Deduplicated(list) ==
    Kept(list, {c \in ToSet(list) : \A b \in ToSet(list) :
                    PrefixOf[b] = PrefixOf[c] => Rank(list, c) <= Rank(list, b)})

Consensus(text, dense, c) == Rank(text, c) \in 1..Depth /\ Rank(dense, c) \in 1..Depth

Candidates(text, dense, named) ==
    LET list == Deduplicated(Boosted(Fused(text, dense), named))
    IN [k \in DOMAIN list |-> [id |-> list[k], agreed |-> Consensus(text, dense, list[k])]]

\* What the two searches over a set of chunks may find: the words find some of
\* them, the vectors all.
Lists(set) == UNION {SetToSeqs(s) : s \in {s \in SUBSET set : Cardinality(s) <= Limit}}
AllOf(set) == {l \in Lists(set) : Len(l) = Min({Limit, Cardinality(set)})}

InSection(filter) == {c \in Children : filter \in {Anywhere, SectionOf[c]}}

\* What a retrieval may find over a set of chunks.
FoundOver(set) ==
    {Candidates(text, dense, named) :
        text \in Lists(set), dense \in AllOf(set),
        named \in UNION {SetToSeqs(s) : s \in SUBSET set}}

FoundIn == {[over |-> set, lists |-> FoundOver(set)] : set \in SUBSET Children}

-----------------------------------------------------------------------------
(* Reranking (retrieval/reranker.py, quality_gates.py).                     *)

IdsOf(list) == [k \in DOMAIN list |-> list[k].id]

Safe(cands) == {cand.id : cand \in {d \in ToSet(cands) : d.agreed}}

\* Defect variant: the weakest candidate makes room, whatever it is.
RoomInWeakest(list, safe) == Len(list)

\* The weakest candidate that is not itself protected makes room; 0 if none.
RoomIn(list, safe) == SelectLastInSeq(list, LAMBDA c : c \notin safe)

\* A protected candidate the ranking left out is added if there is room.
Admitted(list, safe, size, c) ==
    IF Len(list) < size THEN Append(list, c)
    ELSE IF RoomIn(list, safe) = 0 THEN list
    ELSE ReplaceAt(list, RoomIn(list, safe), c)

\* protect_consensus, for the candidates `cands' and the ranking `ranked'.
Protected(cands, ranked, size) ==
    LET safe == Safe(cands)
    IN FoldLeft(LAMBDA list, c : Admitted(list, safe, size, c), ranked,
                Kept(IdsOf(cands), safe \ ToSet(ranked)))

PoolSize(n) == Min({Pool, IF n > TopK THEN n ELSE TopK})

\* With "none" the pool is the first candidates; the cross-encoder reorders
\* only when there are more than fit, the hosted one whenever there are two.
Rankings(cands, size) ==
    LET ids == IdsOf(cands)
        n == Min({Len(ids), size})
    IN {SubSeq(ids, 1, n)} \cup
       IF Len(ids) < 2 THEN {}
       ELSE {SubSeq(l, 1, n) : l \in SetToSeqs(ToSet(ids))}

Reranked(cands, size) == {Protected(cands, r, size) : r \in Rankings(cands, size)}

\* The candidates of the second hop replace those they find again, ranks and
\* all, and the others are added.
Merged(cands, extra) ==
    LET again(cand) == {e \in ToSet(extra) : e.id = cand.id}
    IN [k \in DOMAIN cands |-> IF again(cands[k]) = {} THEN cands[k]
                               ELSE CHOOSE e \in again(cands[k]) : TRUE]
       \o Kept(extra, {e \in ToSet(extra) : ~Contains(IdsOf(cands), e.id)})

\* _resolve_parent_chunks.
Entry(c) == IF DocOf[c] \in docs THEN ParentOf[c] ELSE c

\* Defect variant: a parent comes once for each of its children.
ResolvedPerChild(pool) ==
    LET all == [k \in DOMAIN pool |-> Entry(pool[k])]
    IN SubSeq(all, 1, Min({TopK, Len(all)}))

Resolved(pool) ==
    LET firsts == Firsts([k \in DOMAIN pool |-> Entry(pool[k])])
    IN SubSeq(firsts, 1, Min({TopK, Len(firsts)}))

-----------------------------------------------------------------------------
(* The question.                                                           *)

Paths == {"query", "stream", "planner", "graph"}

\* Where a retrieval may be, and what follows it.
Retrieving == {"search", "resolve", "hop", "hopResolve", "judge"}
Concluding == {"judged", "rewrite", "extract", "direct", "write", "generate",
               "synthesize", "abstain"}
Ended == {"idle", "done", "failed"}

\* What may be said: a written answer, what is left of it without the
\* sentences that lack support, the extracted facts, an answer in one pass.
Texts == {"written", "stripped", "facts", "direct"}

\* agg: the shape of the question is aggregation; anachronism: it is about
\* something the corpus cannot know.
QuestionType ==
    [pc : Retrieving \cup Concluding \cup Ended, path : Paths,
     agg : BOOLEAN, anachronism : BOOLEAN,
     filter : Sections \cup {Anywhere}, step : 0..MaxSteps, steps : 0..MaxSteps,
     retries : 0..MaxRetries, rewrites : 0..MaxRewrites,
     cands : Seq(Candidate), pool : Seq(Children), parents : Seq(Ids),
     evidence : Seq(Ids), cites : Seq(Ids), supports : [Texts -> BOOLEAN],
     answer : Texts \cup {"none", "refusal"}, passed : BOOLEAN, cached : BOOLEAN]

Unasked ==
    [pc |-> "idle", path |-> "query", agg |-> FALSE,
     anachronism |-> FALSE, filter |-> Anywhere, step |-> 0,
     steps |-> 0, retries |-> 0, rewrites |-> 0, cands |-> <<>>, pool |-> <<>>,
     parents |-> <<>>, evidence |-> <<>>, cites |-> <<>>,
     supports |-> [t \in Texts |-> FALSE],
     answer |-> "none", passed |-> TRUE, cached |-> FALSE]

Init == /\ docs = Docs
        /\ q = Unasked

\* classify_and_filter: a section that the query names is written into the
\* filter object of the request, unless one is there.
Named(filter) == IF filter = Anywhere THEN Sections \cup {Anywhere} ELSE {filter}

\* Nothing is searched for a question about what the corpus cannot know.
Asked(path, agg, anachronism, steps, filter) ==
    [Unasked EXCEPT !.pc = IF anachronism THEN "judged" ELSE "search",
                    !.path = path, !.agg = agg, !.anachronism = anachronism,
                    !.steps = steps, !.step = 1, !.filter = filter]

Ask ==
    /\ q.pc \in Ended
    /\ \E path \in Paths, agg, anachronism \in BOOLEAN, steps \in 1..MaxSteps,
          filter \in Named(Anywhere) :
           /\ path # "planner" => steps = 1
           /\ q' = Asked(path, agg, anachronism, steps, filter)
    /\ UNCHANGED docs

\* A document is deleted meanwhile.
Delete(d) ==
    /\ docs' = docs \ {d}
    /\ UNCHANGED q

-----------------------------------------------------------------------------
(* RetrievalEngine.retrieve.                                               *)

\* Rewriting, embedding, both searches, fusion and reranking: nothing of it
\* but the searches reads what others write.
Found ==
    LET searched == {c \in InSection(q.filter) : DocOf[c] \in docs}
    IN UNION {f.lists : f \in {f \in FoundIn : f.over = searched}}

Search ==
    /\ q.pc = "search"
    /\ \E cands \in Found : \E pool \in Reranked(cands, PoolSize(Len(cands))) :
           q' = [q EXCEPT !.pc = "resolve", !.cands = cands, !.pool = pool]
    /\ UNCHANGED docs

\* hop_coverage: only the first pass looks for what sub-questions, if the
\* question has any, miss.
Resolve ==
    /\ q.pc = "resolve"
    /\ LET parents == Resolved(q.pool)
       IN \/ q' = [q EXCEPT !.pc = "judge", !.cands = <<>>, !.pool = <<>>,
                            !.parents = parents]
          \/ /\ parents # <<>> /\ q.retries = 0
             /\ q' = [q EXCEPT !.pc = "hop", !.parents = parents]
    /\ UNCHANGED docs

\* The pool keeps the size it had.  A hop that finds nothing changes nothing.
Hop ==
    /\ q.pc = "hop"
    /\ \E extra \in Found :
           \/ /\ extra = <<>>
              /\ q' = [q EXCEPT !.pc = "judge", !.cands = <<>>, !.pool = <<>>]
           \/ /\ extra # <<>>
              /\ LET merged == Merged(q.cands, extra)
                 IN \E pool \in Reranked(merged, PoolSize(Len(q.cands))) :
                        q' = [q EXCEPT !.pc = "hopResolve", !.cands = merged,
                                       !.pool = pool, !.parents = <<>>]
    /\ UNCHANGED docs

HopResolve ==
    /\ q.pc = "hopResolve"
    /\ q' = [q EXCEPT !.pc = "judge", !.cands = <<>>, !.pool = <<>>,
                      !.parents = Resolved(q.pool)]
    /\ UNCHANGED docs

Sufficient == Len(q.parents) >= IF q.agg THEN 2 ELSE 1

\* Defect variant: the retries are not counted.
JudgeUncounted ==
    /\ q.pc = "judge"
    /\ q' = IF Sufficient THEN [q EXCEPT !.pc = "judged"] ELSE [q EXCEPT !.pc = "search"]
    /\ UNCHANGED docs

\* Defect variant: one retry too many.
JudgeOnceMore ==
    /\ q.pc = "judge"
    /\ q' = IF Sufficient \/ q.retries > MaxRetries
            THEN [q EXCEPT !.pc = "judged", !.retries = 0]
            ELSE [q EXCEPT !.pc = "search", !.retries = @ + 1, !.parents = <<>>]
    /\ UNCHANGED docs

\* Insufficient evidence leads to a retry, then is returned as it is.
Judge ==
    /\ q.pc = "judge"
    /\ q' = IF Sufficient \/ q.retries = MaxRetries
            THEN [q EXCEPT !.pc = "judged", !.retries = 0]
            ELSE [q EXCEPT !.pc = "search", !.retries = @ + 1, !.parents = <<>>]
    /\ UNCHANGED docs

-----------------------------------------------------------------------------
(* What follows a retrieval.                                               *)

\* What the writer is given, and the citations.
Given(evidence, cites, pc) ==
    [Unasked EXCEPT !.pc = pc, !.path = q.path, !.agg = q.agg,
                    !.evidence = evidence, !.cites = cites]

\* check_support reads nothing but the text and the evidence: its verdicts on
\* the texts that may come, FALSE on the others.
Verdicts(texts) == {v \in [Texts -> BOOLEAN] : \A t \in Texts \ texts : ~v[t]}

\* The answer that ends the question, and the verdicts; the query endpoint
\* caches what passed.
Answered(answer, passed, supports) ==
    [Given(q.evidence, q.cites, "done") EXCEPT
        !.answer = answer, !.passed = passed, !.supports = supports,
        !.cached = q.path \in {"query", "planner"} /\ passed]

Refused == Answered("refusal", TRUE, Unasked.supports)

\* generate_grounded_answer refuses without evidence; a refusal counts as
\* supported.
ToGeneration ==
    /\ q.pc = "judged"
    /\ q.path = "query"
    /\ q' = IF q.parents = <<>> THEN Refused ELSE Given(q.parents, q.parents, "extract")
    /\ UNCHANGED docs

ToStream ==
    /\ q.pc = "judged"
    /\ q.path = "stream"
    /\ q' = Given(q.parents, q.parents, "generate")
    /\ UNCHANGED docs

\* The planner takes its next query, with the filter the last one left; in
\* the end it drops the evidence it has twice.
NextStep ==
    /\ q.pc = "judged"
    /\ q.path = "planner"
    /\ q.step < q.steps
    /\ \E filter \in Named(q.filter), agg, barred \in BOOLEAN :
           q' = [q EXCEPT !.pc = IF barred THEN "judged" ELSE "search",
                          !.step = @ + 1, !.filter = filter, !.agg = agg,
                          !.evidence = @ \o q.parents, !.cites = @ \o q.parents,
                          !.parents = <<>>]
    /\ UNCHANGED docs

\* The context budget may cut the last blocks off.
ToSynthesis ==
    /\ q.pc = "judged"
    /\ q.path = "planner"
    /\ q.step = q.steps
    /\ LET all == q.evidence \o q.parents
       IN \E n \in 0..Len(Firsts(all)) :
              /\ n = 0 => all = <<>>
              /\ q' = Given(SubSeq(Firsts(all), 1, n), all, "synthesize")
    /\ UNCHANGED docs

\* node_grade_documents, with the verdicts of the grader, and the edges of the
\* graph.
Relevant(good) == Kept(q.parents, good)

Grade ==
    /\ q.pc = "judged"
    /\ q.path = "graph"
    /\ \E good \in SUBSET ToSet(q.parents) :
           q' = CASE Relevant(good) # <<>> /\ q.anachronism ->
                         [Given(Relevant(good), Relevant(good), "done")
                            EXCEPT !.answer = "refusal"]
                  [] Relevant(good) # <<>> /\ ~q.anachronism ->
                         Given(Relevant(good), Relevant(good), "extract")
                  [] Relevant(good) = <<>> ->
                         [q EXCEPT !.pc = IF q.rewrites < MaxRewrites THEN "rewrite"
                                          ELSE "abstain",
                                   !.parents = <<>>]
    /\ UNCHANGED docs

\* A rewritten query may name a section, and may lose the anachronism.
Rewrite ==
    /\ q.pc = "rewrite"
    /\ \E filter \in Named(q.filter), barred \in BOOLEAN :
           /\ barred => q.anachronism
           /\ q' = [q EXCEPT !.pc = IF barred THEN "judged" ELSE "search",
                             !.rewrites = @ + 1, !.filter = filter]
    /\ UNCHANGED docs

Abstain ==
    /\ q.pc = "abstain"
    /\ q' = Refused
    /\ UNCHANGED docs

-----------------------------------------------------------------------------
(* Answers.                                                                *)

\* generate_grounded_answer, first pass.  Without usable facts an answer in
\* one pass is tried if the evidence has words of the question.
Extract ==
    /\ q.pc = "extract"
    /\ \/ q' = [q EXCEPT !.pc = "write"]
       \/ q' = [q EXCEPT !.pc = "direct"]
       \/ q' = Refused
    /\ UNCHANGED docs

\* The verdict on the direct answer is reported, whatever it is.
AnswerDirectly ==
    /\ q.pc = "direct"
    /\ \/ q' = Refused
       \/ \E v \in Verdicts({"direct"}) : q' = Answered("direct", v["direct"], v)
    /\ UNCHANGED docs

Passes(text, v) == text = "refusal" \/ v[text]

\* Defect variant: the stripped answer is not checked again.
VerifiedOnce(text, left, v) ==
    IF Passes(text, v) THEN Answered(text, TRUE, v) ELSE Answered(left, TRUE, v)

\* An answer that fails is stripped of its unsupported sentences; if what is
\* `left', which may be the refusal, fails too, the facts alone are tried.
Verified(text, left, v) ==
    CASE Passes(text, v) -> Answered(text, TRUE, v)
      [] ~Passes(text, v) /\ Passes(left, v) -> Answered(left, TRUE, v)
      [] ~Passes(text, v) /\ ~Passes(left, v) /\ Passes("facts", v) ->
             Answered("facts", TRUE, v)
      [] OTHER -> Answered("refusal", FALSE, v)

\* If writing fails, the facts are the answer.
Write ==
    /\ q.pc = "write"
    /\ \E text \in {"written", "facts"}, left \in {"stripped", "refusal"},
          v \in Verdicts({"written", "stripped", "facts"}) :
           q' = Verified(text, left, v)
    /\ UNCHANGED docs

\* The stream is checked after it was sent.  An aggregation fails, as the
\* number of candidates is not passed to check_support.
Generate ==
    /\ q.pc = "generate"
    /\ \/ q' = Answered("refusal", ~q.agg \/ q.evidence = <<>>, Unasked.supports)
       \/ \E v \in Verdicts({"written"}) :
              q' = Answered("written", v["written"] /\ ~q.agg /\ q.evidence # <<>>, v)
    /\ UNCHANGED docs

\* The planner's answer keeps the default verdict.
Synthesize ==
    /\ q.pc = "synthesize"
    /\ \E v \in Verdicts({"written"}) : q' = Answered("written", TRUE, v)
    /\ UNCHANGED docs

\* Embedding a query or a call of the store raises: a search, a read of the
\* parents or of the stream's prompt, the trace of a retrieval, of a question
\* that is not searched for ("judged") or of an abstention; and so do extracted
\* facts that are null.  The language model does not raise: when all providers
\* fail there is a canned answer.
Fail ==
    /\ q.pc \in Retrieving \cup {"judged", "extract", "generate", "abstain"}
    /\ q' = [Unasked EXCEPT !.pc = "failed"]
    /\ UNCHANGED docs

Proceed == \/ Fail
           \/ Search \/ Resolve \/ Hop \/ HopResolve \/ Judge
           \/ ToGeneration \/ ToStream \/ NextStep \/ ToSynthesis
           \/ Grade \/ Rewrite \/ Abstain
           \/ Extract \/ AnswerDirectly \/ Write \/ Generate \/ Synthesize

Next == Ask \/ Proceed \/ \E d \in docs : Delete(d)

Spec == Init /\ [][Next]_vars

\* The handler runs on.  A request that is waited for with a timeout does; that
\* a stream of a provider, which has none, ends or breaks off is assumed.
FairSpec == Spec /\ WF_vars(Proceed)

-----------------------------------------------------------------------------
\* The variables have their types (RAGState, RetrievalResult, GroundedAnswer).
TypeOK == docs \subseteq Docs /\ q \in QuestionType

\* A candidate that both searches rank among the first Depth stays in the
\* pool, unless the pool is full of such candidates (protect_consensus, whose
\* ranks are those the candidate carries when the pool is made).
ConsensusKept ==
    q.pc \in {"resolve", "hopResolve"} =>
        \/ Safe(q.cands) \subseteq ToSet(q.pool)
        \/ ToSet(q.pool) \subseteq Safe(q.cands)

\* The sources of an answer: nothing is given to the writer twice, everything
\* it is given is cited, and outside the planner its [n] is the n-th citation
\* (_resolve_parent_chunks, node_generate_answer, execute_plan).
EvidenceIsCited ==
    q.pc = "done" =>
        /\ IsInjective(q.evidence)
        /\ ToSet(q.evidence) \subseteq ToSet(q.cites)
        /\ q.path # "planner" => q.cites = q.evidence

\* Outside the planner an answer is reported as supported only if the check
\* passed on the very text that is returned, and on evidence
\* (generate_grounded_answer, query_platform_stream).
AnswerIsTheCheckedOne ==
    q.pc = "done" /\ q.path # "planner" /\ q.passed /\ q.answer # "refusal" =>
        /\ q.supports[q.answer]
        /\ q.evidence # <<>>

\* Only cache grounded, support-checked answers (the comment on the cache in
\* query_platform).
OnlyCheckedAnswersCached ==
    q.cached => q.answer = "refusal" \/ q.supports[q.answer]

\* Every question ends with an answer, an abstention or an error, whatever
\* retries, second hops, rewrites and steps of a plan it takes.
QuestionsEnd == q.pc \notin Ended ~> q.pc \in Ended
=============================================================================
