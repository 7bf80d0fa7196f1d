--------------------------- MODULE PromotionGate ---------------------------
(***************************************************************************)
(* The promotion gate: every observation (POST /v1/memory/observe, and the *)
(* extraction that chat starts in the background) is classified, compared  *)
(* with the facts its author can see, and written, staged or rejected.     *)
(* The gate holds nothing between its awaits: reading the facts, computing *)
(* the embedding, inserting and superseding are separate steps, and        *)
(* promotions of the same scope interleave between them.                   *)
(*                                                                         *)
(* Confidences are in thousandths.  One tenant; a claim stands for its     *)
(* text, its kind and its hedging for what the gate's word lists say of it.*)
(***************************************************************************)
EXTENDS Naturals, FiniteSets

CONSTANTS
    Claims,      \* texts an observation may have
    Kind,        \* Kind[c]: what _classify_type makes of c
    Hedged,      \* the claims with a word of HEDGE_MARKERS
    Contradicts, \* pairs of claims _find_contradiction takes for opposites
    Users,       \* user ids
    Tenant,      \* the scope of an observation without a user id
    Observations, \* the <<claim, scope, source>> that are ever observed
    FactIds,     \* ids a row of memory_fact may get
    NoFact,      \* no row; a null superseded_by
    Promoters,   \* promotions that may run at the same time
    NoJob,       \* what an idle promoter holds
    RowCap       \* bound: rows of one policy key are counted up to here

Sources == {"operator", "user_stated", "tool_output", "inferred", "other"}

ASSUME PromotionGateAssumption ==
    /\ Kind \in [Claims -> {"discard", "policy", "preference", "fact"}]
    /\ Hedged \subseteq Claims
    /\ Contradicts \subseteq Claims \X Claims
    /\ \A p \in Contradicts : <<p[2], p[1]>> \in Contradicts
    /\ Tenant \notin Users
    /\ Observations \subseteq Claims \X (Users \cup {Tenant}) \X Sources
    /\ NoFact \notin FactIds
    /\ RowCap \in Nat \ {0}

VARIABLES
    facts,    \* facts[i]: the row of memory_fact with id i
    prefs,    \* prefs[u][c]: confidence of the preference row, 0 if none
    policies, \* policies[s][c]: rows of scope s under the key of c
    job       \* job[p]: where the promotion p is and what it holds

vars == <<facts, prefs, policies, job>>

Scopes == Users \cup {Tenant}
Confidence == 1..1000

-----------------------------------------------------------------------------
(* The gate's judgements.                                                  *)

Base(source) == CASE source = "operator" -> 1000
                  [] source = "user_stated" -> 900
                  [] source = "tool_output" -> 850
                  [] source = "inferred" -> 550
                  [] OTHER -> 500

Assigned(claim, source) ==
    IF claim \in Hedged /\ Base(source) > 600 THEN 600 ELSE Base(source)

\* Facts without a TTL (expires_at is None).
Durable(claim, source) ==
    claim \notin Hedged /\ source \in {"user_stated", "operator"}

\* new - 0.2 in binary floating point: 0.6 - 0.2 falls just below 0.4, every
\* other difference compares like the decimal one.
Weakened(conf) == IF conf = 600 THEN 399 ELSE IF conf > 300 THEN conf - 200 ELSE 100

\* Defect variant: a difference of the margin itself is enough.
OutweighsByMargin(a, b) == a >= b + 150

Outweighs(a, b) == a > b + 150

-----------------------------------------------------------------------------
(* The rows and the promotions under way.                                  *)

Fact == [claim : Claims, scope : Scopes, conf : Confidence,
         ttl : {"none", "running", "over"}, by : FactIds \cup {NoFact}]

Known == {i \in FactIds : facts[i] # NoFact}

Active(i) == /\ i \in Known
             /\ facts[i].by = NoFact
             /\ facts[i].ttl # "over"

\* get_facts_for_scope: a user sees the tenant's facts and the user's own,
\* an observation without a user sees everybody's.
Visible(scope) == {i \in FactIds : /\ Active(i)
                                   /\ \/ scope = Tenant
                                      \/ facts[i].scope \in {scope, Tenant}}

Opposed(claim, scope) ==
    {i \in Visible(scope) : <<claim, facts[i].claim>> \in Contradicts}

\* `target' is the fact to supersede, `fact' the row inserted for it.
Job == [pc : {"reading", "embedding", "setting", "superseding"},
        claim : Claims, scope : Scopes, conf : Confidence, lasts : BOOLEAN,
        target : FactIds \cup {NoFact}, fact : FactIds \cup {NoFact}]

ASSUME NullsAreNoRows == NoFact \notin Fact /\ NoJob \notin Job

At(p, where) == job[p] # NoJob /\ job[p].pc = where
Return(p) == job' = [job EXCEPT ![p] = NoJob]

Init == /\ facts = [i \in FactIds |-> NoFact]
        /\ prefs = [u \in Users |-> [c \in Claims |-> 0]]
        /\ policies = [s \in Scopes |-> [c \in Claims |-> 0]]
        /\ job = [p \in Promoters |-> NoJob]

-----------------------------------------------------------------------------
(* evaluate_and_promote, one action per await.                             *)

\* An observation that is discarded, out of scope or staged changes nothing;
\* corroboration_count is 0 in every call, so staged ones stay staged.
Admitted(claim, scope, source) ==
    /\ Kind[claim] # "discard"
    /\ Kind[claim] = "policy" => source = "operator"
    /\ Kind[claim] = "preference" => scope # Tenant /\ source # "inferred"

Observe(p) ==
    /\ job[p] = NoJob
    /\ \E obs \in Observations :
         LET claim == obs[1] scope == obs[2] source == obs[3] IN
         /\ Admitted(claim, scope, source)
         /\ job' = [job EXCEPT ![p] =
              [pc |-> "reading", claim |-> claim, scope |-> scope,
               conf |-> Assigned(claim, source), lasts |-> Durable(claim, source),
               target |-> NoFact, fact |-> NoFact]]
    /\ UNCHANGED <<facts, prefs, policies>>

Proceed(p, conf, target) ==
    LET j == job[p] IN
    job' = [job EXCEPT ![p] =
              [pc |-> IF Kind[j.claim] = "fact" THEN "embedding" ELSE "setting",
               claim |-> j.claim, scope |-> j.scope, conf |-> conf,
               lasts |-> j.lasts, target |-> target, fact |-> NoFact]]

\* Defect variant: the newer claim wins also when neither outweighs the other.
ReadFactsNewestWins(p) ==
    /\ At(p, "reading")
    /\ LET conf == job[p].conf
           opposed == Opposed(job[p].claim, job[p].scope) IN
         \/ opposed = {} /\ Proceed(p, conf, NoFact)
         \/ \E i \in opposed :
              LET old == facts[i].conf IN
              \/ Outweighs(conf, old) /\ Proceed(p, conf, i)
              \/ Outweighs(old, conf) /\ Return(p)
              \/ /\ ~Outweighs(conf, old) /\ ~Outweighs(old, conf)
                 /\ Proceed(p, Weakened(conf), i)
    /\ UNCHANGED <<facts, prefs, policies>>

\* The first opposed row decides, in the order the query happens to return.
ReadFacts(p) ==
    /\ At(p, "reading")
    /\ LET conf == job[p].conf
           opposed == Opposed(job[p].claim, job[p].scope) IN
         \/ opposed = {} /\ Proceed(p, conf, NoFact)
         \/ \E i \in opposed :
              LET old == facts[i].conf IN
              \/ Outweighs(conf, old) /\ Proceed(p, conf, i)
              \/ Outweighs(old, conf) /\ Return(p)
              \/ /\ ~Outweighs(conf, old) /\ ~Outweighs(old, conf)
                 /\ Proceed(p, Weakened(conf), NoFact)
    /\ UNCHANGED <<facts, prefs, policies>>

\* Defect variant: every inserted fact goes on to supersede its target.
InsertFactAlwaysSupersedes(p) ==
    /\ At(p, "embedding")
    /\ LET j == job[p] IN
       \E i \in FactIds \ Known :
         /\ facts' = [facts EXCEPT ![i] =
              [claim |-> j.claim, scope |-> j.scope, conf |-> j.conf,
               ttl |-> "none", by |-> NoFact]]
         /\ job' = [job EXCEPT ![p] =
              [pc |-> "superseding", claim |-> j.claim, scope |-> j.scope,
               conf |-> j.conf, lasts |-> j.lasts, target |-> j.target, fact |-> i]]
    /\ UNCHANGED <<prefs, policies>>

InsertFact(p) ==
    /\ At(p, "embedding")
    /\ LET j == job[p] IN
       \E i \in FactIds \ Known :
         /\ facts' = [facts EXCEPT ![i] =
              [claim |-> j.claim, scope |-> j.scope, conf |-> j.conf,
               ttl |-> IF j.lasts THEN "none" ELSE "running",
               by |-> NoFact]]
         /\ IF j.target = NoFact
            THEN Return(p)
            ELSE job' = [job EXCEPT ![p] =
                   [pc |-> "superseding", claim |-> j.claim, scope |-> j.scope,
                    conf |-> j.conf, lasts |-> j.lasts, target |-> j.target,
                    fact |-> i]]
    /\ UNCHANGED <<prefs, policies>>

\* Defect variant: the arguments of supersede_fact are swapped.
SupersedeFactSwapped(p) ==
    /\ At(p, "superseding")
    /\ facts' = [facts EXCEPT ![job[p].fact].by = job[p].target]
    /\ Return(p)
    /\ UNCHANGED <<prefs, policies>>

SupersedeFact(p) ==
    /\ At(p, "superseding")
    /\ facts' = [facts EXCEPT ![job[p].target].by = job[p].fact]
    /\ Return(p)
    /\ UNCHANGED <<prefs, policies>>

\* A preference never supersedes the fact it outweighs.
SetPreference(p) ==
    /\ At(p, "setting")
    /\ Kind[job[p].claim] = "preference"
    /\ prefs' = [prefs EXCEPT ![job[p].scope][job[p].claim] = job[p].conf]
    /\ Return(p)
    /\ UNCHANGED <<facts, policies>>

\* Nulls are distinct to UNIQUE: without a user every write adds a row.
SetPolicy(p) ==
    /\ At(p, "setting")
    /\ Kind[job[p].claim] = "policy"
    /\ policies' = [policies EXCEPT ![job[p].scope][job[p].claim] =
                      IF job[p].scope = Tenant /\ @ < RowCap THEN @ + 1
                      ELSE IF @ = 0 THEN 1 ELSE @]
    /\ Return(p)
    /\ UNCHANGED <<facts, prefs>>

\* A storage or embedding call raises, or the process stops; the background
\* extraction swallows the exception.
Interrupt(p) ==
    /\ job[p] # NoJob
    /\ Return(p)
    /\ UNCHANGED <<facts, prefs, policies>>

Expire(i) ==
    /\ i \in Known
    /\ facts[i].ttl = "running"
    /\ facts' = [facts EXCEPT ![i].ttl = "over"]
    /\ UNCHANGED <<prefs, policies, job>>

Promote(p) == \/ Observe(p) \/ ReadFacts(p) \/ InsertFact(p) \/ SupersedeFact(p)
              \/ SetPreference(p) \/ SetPolicy(p) \/ Interrupt(p)

Next == \/ \E p \in Promoters : Promote(p)
        \/ \E i \in FactIds : Expire(i)

Spec == Init /\ [][Next]_vars

-----------------------------------------------------------------------------
(* Properties.                                                             *)

\* Every variable stays in its range; a promotion past its read holds what
\* evaluate_and_promote holds in its locals.
TypeOK ==
    /\ facts \in [FactIds -> Fact \cup {NoFact}]
    /\ prefs \in [Users -> [Claims -> Confidence \cup {0}]]
    /\ policies \in [Scopes -> [Claims -> 0..RowCap]]
    /\ job \in [Promoters -> Job \cup {NoJob}]
    /\ \A p \in Promoters : At(p, "superseding") => job[p].target # NoFact

Superseded(i) == i \in Known /\ facts[i].by # NoFact

\* Confidences _assign_confidence_and_ttl gives out; a weakened one is none.
Assignable == {500, 550, 600, 850, 900, 1000}

\* j may stand in for i: it outweighs it, and i's owner was in j's sight.
Replaces(conf, scope, i) ==
    /\ i \in Known
    /\ conf \in Assignable
    /\ Outweighs(conf, facts[i].conf)
    /\ scope = Tenant \/ facts[i].scope \in {scope, Tenant}

\* However promotions interleave, fail or overlap, a superseded fact names an
\* existing row that outweighs it, and so will every supersession under way.
SupersededByStronger ==
    /\ \A i \in FactIds : Superseded(i) =>
         LET new == facts[i].by IN
         new \in Known /\ Replaces(facts[new].conf, facts[new].scope, i)
    /\ \A p \in Promoters : At(p, "reading") => job[p].conf \in Assignable
    /\ \A p \in Promoters : job[p] # NoJob /\ job[p].target # NoFact =>
         /\ Replaces(job[p].conf, job[p].scope, job[p].target)
         /\ At(p, "superseding") => /\ job[p].fact \in Known
                                    /\ facts[job[p].fact].conf = job[p].conf
                                    /\ facts[job[p].fact].scope = job[p].scope

\* Following superseded_by reaches a fact in force (or expired) after two
\* steps at most: the chain has no cycle, whatever the races.
ShortChains ==
    \A i \in FactIds : Superseded(i) /\ Superseded(facts[i].by)
        => ~Superseded(facts[facts[i].by].by)

\* What lasts gives way only to what lasts: no fact without a TTL is put out
\* of force by one that expires, after which neither would be in force.  It
\* holds by the margin alone: tool output is worth just 150 more than a user's
\* statement that was weakened (_assign_confidence_and_ttl,
\* _resolve_contradiction).
LastingYieldsToLasting ==
    \A i \in FactIds :
        Superseded(i) /\ facts[i].ttl = "none" => facts[facts[i].by].ttl = "none"
=============================================================================
