------------------------ MODULE PromotionGateProofs ------------------------
(* Proofs about the promotion gate, for every set of claims, users, facts   *)
(* and concurrent promotions.                                               *)
EXTENDS PromotionGate, TLAPS

FactsOK == facts \in [FactIds -> Fact \cup {NoFact}]
JobsOK == /\ job \in [Promoters -> Job \cup {NoJob}]
          /\ \A p \in Promoters : At(p, "superseding") => job[p].target # NoFact
RestOK == /\ prefs \in [Users -> [Claims -> Confidence \cup {0}]]
          /\ policies \in [Scopes -> [Claims -> 0..RowCap]]

\* TypeOK in the parts that the proofs treat one at a time.
LEMMA TypeParts == TypeOK <=> FactsOK /\ JobsOK /\ RestOK
  BY DEF TypeOK, FactsOK, JobsOK, RestOK

\* What _assign_confidence_and_ttl gives out.
LEMMA AssignedIsAssignable ==
    ASSUME NEW c, NEW s
    PROVE  Assigned(c, s) \in Assignable
  BY DEF Assigned, Base, Assignable

\* Every confidence the gate assigns is one a row can have.
LEMMA AssignableIsConfidence == Assignable \subseteq Confidence
  BY DEF Assignable, Confidence

\* A weakened confidence is still one: the floor is 0.1.
LEMMA WeakenedIsConfidence ==
    ASSUME NEW x \in Confidence
    PROVE  Weakened(x) \in Confidence
  BY DEF Weakened, Confidence

\* What is not null in memory_fact is a row.
LEMMA KnownIsFact ==
    ASSUME FactsOK, NEW i \in Known
    PROVE  i \in FactIds /\ facts[i] \in Fact /\ facts[i] # NoFact
  BY DEF Known, FactsOK

\* What a busy promoter holds is a promotion, at the await it is at.
LEMMA HeldIsJob ==
    ASSUME JobsOK, NEW p \in Promoters, NEW w, At(p, w)
    PROVE  job[p] \in Job /\ job[p].pc = w
  BY DEF At, JobsOK

\* The inductive invariant: that supersede_fact hits an existing row is not
\* a matter of types.
Sound == TypeOK /\ SupersededByStronger

\* The rows keep their shape.
LEMMA RowsTyped ==
    ASSUME Sound, [Next]_vars
    PROVE  FactsOK'
<1>0. FactsOK /\ JobsOK /\ SupersededByStronger
  BY TypeParts DEF Sound
<1>1. CASE UNCHANGED facts
  BY <1>0, <1>1 DEF FactsOK
<1>2. ASSUME NEW p \in Promoters, InsertFact(p) PROVE FactsOK'
  <2>1. job[p] \in Job
    BY <1>0, <1>2, HeldIsJob DEF InsertFact
  <2>2. PICK i \in FactIds \ Known :
           facts' = [facts EXCEPT ![i] =
             [claim |-> job[p].claim, scope |-> job[p].scope, conf |-> job[p].conf,
              ttl |-> IF job[p].lasts THEN "none" ELSE "running", by |-> NoFact]]
    BY <1>2 DEF InsertFact
  <2>3. [claim |-> job[p].claim, scope |-> job[p].scope, conf |-> job[p].conf,
         ttl |-> IF job[p].lasts THEN "none" ELSE "running", by |-> NoFact] \in Fact
    BY <2>1 DEF Job, Fact
  <2>4. QED BY <1>0, <2>2, <2>3 DEF FactsOK
<1>3. ASSUME NEW p \in Promoters, SupersedeFact(p) PROVE FactsOK'
  <2>1. job[p] \in Job
    BY <1>0, <1>3, HeldIsJob DEF SupersedeFact
  <2>2. job[p].fact \in FactIds \cup {NoFact}
    BY <2>1 DEF Job
  <2>3. ASSUME NEW r \in Fact, NEW b \in FactIds \cup {NoFact}
        PROVE  [r EXCEPT !.by = b] \in Fact
    BY DEF Fact
  <2>4. job[p].target \in Known
    BY <1>0, <1>3 DEF SupersedeFact, At, JobsOK, SupersededByStronger, Replaces
  <2>5. QED BY <1>0, <1>3, <2>2, <2>3, <2>4, KnownIsFact DEF FactsOK, SupersedeFact
<1>4. ASSUME NEW i \in FactIds, Expire(i) PROVE FactsOK'
  <2>1. facts[i] \in Fact
    BY <1>0, <1>4, KnownIsFact DEF Expire
  <2>2. [facts[i] EXCEPT !.ttl = "over"] \in Fact
    BY <2>1 DEF Fact
  <2>3. QED BY <1>0, <1>4, <2>2 DEF FactsOK, Expire
<1>5. QED
  BY <1>1, <1>2, <1>3, <1>4
     DEF Next, Promote, Observe, ReadFacts, SetPreference, SetPolicy, Interrupt, vars

\* The promotions under way keep their shape.
LEMMA JobsTyped ==
    ASSUME Sound, [Next]_vars
    PROVE  JobsOK'
<1>0. FactsOK /\ JobsOK
  BY TypeParts DEF Sound
<1>1. ASSUME NEW p \in Promoters, NEW q \in Job \cup {NoJob},
             job' = [job EXCEPT ![p] = q],
             q # NoJob /\ q.pc = "superseding" => q.target # NoFact
      PROVE  JobsOK'
  BY <1>0, <1>1 DEF JobsOK, At
<1>2. ASSUME NEW p \in Promoters, Return(p) PROVE JobsOK'
  BY <1>1, <1>2 DEF Return
<1>3. ASSUME NEW p \in Promoters, Observe(p) PROVE JobsOK'
  <2>1. PICK obs \in Observations :
           job' = [job EXCEPT ![p] =
             [pc |-> "reading", claim |-> obs[1], scope |-> obs[2],
              conf |-> Assigned(obs[1], obs[3]), lasts |-> Durable(obs[1], obs[3]),
              target |-> NoFact, fact |-> NoFact]]
    BY <1>3 DEF Observe
  <2>2. obs[1] \in Claims /\ obs[2] \in Scopes
    BY PromotionGateAssumption DEF Scopes
  <2>3. Assigned(obs[1], obs[3]) \in Confidence /\ Durable(obs[1], obs[3]) \in BOOLEAN
    BY AssignedIsAssignable, AssignableIsConfidence DEF Durable
  <2>4. [pc |-> "reading", claim |-> obs[1], scope |-> obs[2],
         conf |-> Assigned(obs[1], obs[3]), lasts |-> Durable(obs[1], obs[3]),
         target |-> NoFact, fact |-> NoFact] \in Job
    BY <2>2, <2>3 DEF Job
  <2>5. QED BY <1>1, <2>1, <2>4
<1>4. ASSUME NEW p \in Promoters, NEW conf \in Confidence,
             NEW target \in FactIds \cup {NoFact}, job[p] \in Job,
             Proceed(p, conf, target)
      PROVE  JobsOK'
  <2> DEFINE q == [pc |-> IF Kind[job[p].claim] = "fact" THEN "embedding" ELSE "setting",
                   claim |-> job[p].claim, scope |-> job[p].scope, conf |-> conf,
                   lasts |-> job[p].lasts, target |-> target, fact |-> NoFact]
  <2>1. q \in Job /\ q.pc # "superseding"
    BY <1>4 DEF Job
  <2>2. job' = [job EXCEPT ![p] = q]
    BY <1>4 DEF Proceed
  <2> HIDE DEF q
  <2>3. QED BY <1>1, <2>1, <2>2
<1>5. ASSUME NEW p \in Promoters, ReadFacts(p) PROVE JobsOK'
  <2>1. job[p] \in Job /\ job[p].conf \in Confidence
    BY <1>0, <1>5, HeldIsJob DEF ReadFacts, Job
  <2>2. CASE Return(p)
    BY <1>2, <2>2
  <2>3. CASE Proceed(p, job[p].conf, NoFact)
    BY <1>4, <2>1, <2>3
  <2>4. ASSUME NEW i \in Opposed(job[p].claim, job[p].scope), Proceed(p, job[p].conf, i)
        PROVE  JobsOK'
    BY <1>4, <2>1, <2>4 DEF Opposed, Visible
  <2>5. CASE Proceed(p, Weakened(job[p].conf), NoFact)
    BY <1>4, <2>1, <2>5, WeakenedIsConfidence
  <2>6. QED BY <1>5, <2>2, <2>3, <2>4, <2>5 DEF ReadFacts
<1>6. ASSUME NEW p \in Promoters, InsertFact(p) PROVE JobsOK'
  <2>1. job[p] \in Job
    BY <1>0, <1>6, HeldIsJob DEF InsertFact
  <2>2. CASE Return(p)
    BY <1>2, <2>2
  <2>3. CASE ~Return(p)
    <3>1. PICK i \in FactIds :
             /\ job[p].target # NoFact
             /\ job' = [job EXCEPT ![p] =
                  [pc |-> "superseding", claim |-> job[p].claim, scope |-> job[p].scope,
                   conf |-> job[p].conf, lasts |-> job[p].lasts,
                   target |-> job[p].target, fact |-> i]]
      BY <1>6, <2>3 DEF InsertFact
    <3>2. [pc |-> "superseding", claim |-> job[p].claim, scope |-> job[p].scope,
           conf |-> job[p].conf, lasts |-> job[p].lasts,
           target |-> job[p].target, fact |-> i] \in Job
      BY <2>1 DEF Job
    <3>3. QED BY <1>1, <3>1, <3>2
  <2>4. QED BY <2>2, <2>3
<1>7. ASSUME UNCHANGED job PROVE JobsOK'
  BY <1>0, <1>7 DEF JobsOK, At
<1>8. QED
  BY <1>2, <1>3, <1>5, <1>6, <1>7
     DEF Next, Promote, SupersedeFact, SetPreference, SetPolicy, Interrupt, Expire, vars

\* Preferences and policies keep their shape.
LEMMA RestTyped ==
    ASSUME Sound, [Next]_vars
    PROVE  RestOK'
<1>0. JobsOK /\ RestOK
  BY TypeParts DEF Sound
<1>1. ASSUME UNCHANGED <<prefs, policies>> PROVE RestOK'
  BY <1>0, <1>1 DEF RestOK
<1>2. ASSUME NEW p \in Promoters, SetPreference(p) PROVE RestOK'
  <2>1. job[p] \in Job /\ job[p].conf \in Confidence
    BY <1>0, <1>2, HeldIsJob DEF SetPreference, Job
  <2>2. QED BY <1>0, <1>2, <2>1 DEF SetPreference, RestOK
<1>3. ASSUME NEW p \in Promoters, SetPolicy(p) PROVE RestOK'
  <2>1. RowCap \in Nat \ {0}
    BY PromotionGateAssumption
  <2>2. job[p] \in Job /\ job[p].scope \in Scopes /\ job[p].claim \in Claims
    BY <1>0, <1>3, HeldIsJob DEF SetPolicy, Job
  <2> DEFINE sc == job[p].scope
             cl == job[p].claim
             n == policies[sc][cl]
             m == IF sc = Tenant /\ n < RowCap THEN n + 1 ELSE IF n = 0 THEN 1 ELSE n
  <2>3. n \in 0..RowCap
    BY <1>0, <2>2 DEF RestOK
  <2>4. m \in 0..RowCap
    BY <2>1, <2>3
  <2>5. policies' = [policies EXCEPT ![sc] = [policies[sc] EXCEPT ![cl] = m]]
        /\ prefs' = prefs
    BY <1>3 DEF SetPolicy
  <2> HIDE DEF m, sc, cl
  <2>6. [policies[sc] EXCEPT ![cl] = m] \in [Claims -> 0..RowCap]
    BY <1>0, <2>2, <2>4 DEF RestOK, sc
  <2>7. QED BY <1>0, <2>5, <2>6 DEF RestOK
<1>4. QED
  BY <1>1, <1>2, <1>3
     DEF Next, Promote, Observe, ReadFacts, InsertFact, SupersedeFact, Interrupt,
         Expire, vars

-----------------------------------------------------------------------------
(* Supersession.                                                            *)

\* Every step keeps the rows that are there, up to superseded_by and the ttl.
RowsKept == \A i \in Known : /\ i \in Known'
                             /\ facts'[i].conf = facts[i].conf
                             /\ facts'[i].scope = facts[i].scope

\* No step removes a row or changes its confidence or its scope.
LEMMA RowsAreKept ==
    ASSUME Sound, [Next]_vars
    PROVE  RowsKept
<1>0. FactsOK /\ JobsOK /\ FactsOK'
  BY TypeParts, RowsTyped DEF Sound
<1> SUFFICES ASSUME NEW i \in Known
             PROVE  /\ facts'[i] # NoFact
                    /\ facts'[i].conf = facts[i].conf
                    /\ facts'[i].scope = facts[i].scope
  BY DEF RowsKept, Known
<1>1. i \in FactIds /\ facts[i] \in Fact /\ facts[i] # NoFact
  BY <1>0, KnownIsFact
<1>2. CASE UNCHANGED facts
  BY <1>1, <1>2
<1>3. ASSUME NEW p \in Promoters, InsertFact(p)
      PROVE  facts'[i] = facts[i]
  BY <1>0, <1>1, <1>3 DEF InsertFact, FactsOK
<1>4. ASSUME NEW r \in Fact, NEW b \in FactIds \cup {NoFact}
      PROVE  /\ [r EXCEPT !.by = b] \in Fact
             /\ [r EXCEPT !.by = b].conf = r.conf
             /\ [r EXCEPT !.by = b].scope = r.scope
  BY DEF Fact
<1>5. ASSUME NEW p \in Promoters, SupersedeFact(p)
      PROVE  /\ facts'[i] # NoFact
             /\ facts'[i].conf = facts[i].conf
             /\ facts'[i].scope = facts[i].scope
  <2>1. job[p] \in Job /\ job[p].fact \in FactIds \cup {NoFact}
    BY <1>0, <1>5, HeldIsJob DEF SupersedeFact, Job
  <2>2. facts'[i] = facts[i] \/ facts'[i] = [facts[i] EXCEPT !.by = job[p].fact]
    <3> DEFINE target == job[p].target
    <3>1. facts' = [facts EXCEPT ![target] = [facts[target] EXCEPT !.by = job[p].fact]]
      BY <1>5 DEF SupersedeFact
    <3>2. facts \in [FactIds -> Fact \cup {NoFact}]
      BY <1>0 DEF FactsOK
    <3> HIDE DEF target
    <3>3. CASE i = target
      BY <1>1, <3>1, <3>2, <3>3
    <3>4. CASE i # target
      BY <1>1, <3>1, <3>2, <3>4
    <3> QED BY <3>3, <3>4
  <2> DEFINE s == [facts[i] EXCEPT !.by = job[p].fact]
  <2>3. s \in Fact /\ s.conf = facts[i].conf /\ s.scope = facts[i].scope
    BY <1>1, <1>4, <2>1
  <2> HIDE DEF s
  <2>4. s # NoFact
    BY <2>3, NullsAreNoRows
  <2>5. QED BY <1>1, <2>2, <2>3, <2>4 DEF s
<1>6. ASSUME NEW j \in FactIds, Expire(j)
      PROVE  /\ facts'[i] # NoFact
             /\ facts'[i].conf = facts[i].conf
             /\ facts'[i].scope = facts[i].scope
  <2>1. facts'[i] = facts[i] \/ facts'[i] = [facts[i] EXCEPT !.ttl = "over"]
    BY <1>0, <1>1, <1>6 DEF Expire, FactsOK
  <2>2. LET s == [facts[i] EXCEPT !.ttl = "over"] IN
        s \in Fact /\ s.conf = facts[i].conf /\ s.scope = facts[i].scope
    BY <1>1 DEF Fact
  <2>3. QED BY <1>1, <2>1, <2>2, NullsAreNoRows
<1>7. QED
  BY <1>1, <1>2, <1>3, <1>5, <1>6
     DEF Next, Promote, Observe, ReadFacts, SetPreference, SetPolicy, Interrupt, vars

\* The row that supersedes i outweighs it, and its author could see i.
Justified(i) == /\ facts[i].by \in Known
                /\ Replaces(facts[facts[i].by].conf, facts[facts[i].by].scope, i)

\* A row that replaced another still does when both are kept.
LEMMA Justifies ==
    ASSUME RowsKept, NEW i, NEW n \in Known,
           Replaces(facts[n].conf, facts[n].scope, i), facts'[i].by = n
    PROVE  Justified(i)'
<1>1. /\ n \in Known' /\ facts'[n].conf = facts[n].conf
      /\ facts'[n].scope = facts[n].scope
  BY DEF RowsKept
<1>2. /\ i \in Known' /\ facts'[i].conf = facts[i].conf
      /\ facts'[i].scope = facts[i].scope
  BY DEF RowsKept, Replaces
<1>3. QED BY <1>1, <1>2 DEF Justified, Replaces, Outweighs

\* The part of SupersededByStronger about the rows, and the part about the
\* supersessions under way.
RowsSound == \A i \in FactIds : Superseded(i) => Justified(i)

JobSound(p) ==
    /\ At(p, "reading") => job[p].conf \in Assignable
    /\ job[p] # NoJob /\ job[p].target # NoFact =>
         /\ Replaces(job[p].conf, job[p].scope, job[p].target)
         /\ At(p, "superseding") => /\ job[p].fact \in Known
                                    /\ facts[job[p].fact].conf = job[p].conf
                                    /\ facts[job[p].fact].scope = job[p].scope

\* The invariant, split into its part on the rows and its part on promotions.
LEMMA SoundParts ==
    SupersededByStronger <=> RowsSound /\ \A p \in Promoters : JobSound(p)
  BY DEF SupersededByStronger, RowsSound, Justified, JobSound

\* The rows stay sound: only supersede_fact sets superseded_by, to a row that
\* outweighs the old one because the confidences of rows never change.
LEMMA RowsSoundStep ==
    ASSUME Sound, [Next]_vars
    PROVE  RowsSound'
<1>0. FactsOK /\ JobsOK /\ FactsOK' /\ RowsKept /\ RowsSound
  BY TypeParts, RowsTyped, RowsAreKept, SoundParts DEF Sound
<1> SUFFICES ASSUME NEW i \in FactIds, Superseded(i)'
             PROVE  Justified(i)'
  BY DEF RowsSound
<1>1. ASSUME Superseded(i), facts'[i].by = facts[i].by
      PROVE  Justified(i)'
  BY <1>0, <1>1, Justifies DEF RowsSound, Justified
<1>2. ASSUME facts'[i] = facts[i]
      PROVE  Superseded(i) /\ facts'[i].by = facts[i].by
  BY <1>2 DEF Superseded, Known
<1>3. ASSUME NEW p \in Promoters, InsertFact(p)
      PROVE  facts'[i] = facts[i]
  <2>1. PICK j \in FactIds : facts' = [facts EXCEPT ![j] =
             [claim |-> job[p].claim, scope |-> job[p].scope, conf |-> job[p].conf,
              ttl |-> IF job[p].lasts THEN "none" ELSE "running", by |-> NoFact]]
    BY <1>3 DEF InsertFact
  <2>2. i # j
    BY <1>0, <2>1 DEF Superseded, FactsOK
  <2>3. QED BY <1>0, <2>1, <2>2 DEF FactsOK
<1>4. ASSUME NEW p \in Promoters, SupersedeFact(p)
      PROVE  facts'[i] = facts[i] \/ Justified(i)'
  <2>1. job[p] \in Job /\ job[p] # NoJob /\ job[p].target # NoFact
    BY <1>0, <1>4, HeldIsJob DEF SupersedeFact, JobsOK, At
  <2>2. /\ Replaces(job[p].conf, job[p].scope, job[p].target)
        /\ job[p].fact \in Known
        /\ facts[job[p].fact].conf = job[p].conf
        /\ facts[job[p].fact].scope = job[p].scope
    BY <1>4, <2>1, SoundParts DEF Sound, JobSound, SupersedeFact
  <2>3. CASE i # job[p].target
    BY <1>0, <1>4, <2>3 DEF SupersedeFact, FactsOK
  <2>4. CASE i = job[p].target
    <3>1. facts[i] \in Fact
      BY <1>0, <2>2, <2>4, KnownIsFact DEF Replaces
    <3>2. facts'[i].by = job[p].fact
      BY <1>0, <1>4, <2>4, <3>1 DEF SupersedeFact, FactsOK, Fact
    <3>3. Replaces(facts[job[p].fact].conf, facts[job[p].fact].scope, i)
      BY <2>2, <2>4
    <3>4. QED BY <1>0, <2>2, <3>2, <3>3, Justifies
  <2>5. QED BY <2>3, <2>4
<1>5. ASSUME NEW j \in FactIds, Expire(j)
      PROVE  Superseded(i) /\ facts'[i].by = facts[i].by
  <2>1. facts[j] \in Fact /\ facts[j] # NoFact
    BY <1>0, <1>5, KnownIsFact DEF Expire
  <2>2. [facts[j] EXCEPT !.ttl = "over"].by = facts[j].by
    BY <2>1 DEF Fact
  <2>3. QED BY <1>0, <1>2, <1>5, <2>1, <2>2 DEF Expire, Superseded, Known, FactsOK
<1>6. CASE UNCHANGED facts
  BY <1>1, <1>2, <1>6
<1>7. QED
  BY <1>1, <1>2, <1>3, <1>4, <1>5, <1>6
     DEF Next, Promote, Observe, ReadFacts, SetPreference, SetPolicy, Interrupt, vars

\* A supersession under way stays sound while others rewrite the table, and
\* begins sound because the read, the judgement and the choice are one step.
LEMMA JobSoundStep ==
    ASSUME Sound, [Next]_vars, NEW p \in Promoters
    PROVE  JobSound(p)'
<1>0. FactsOK /\ JobsOK /\ FactsOK' /\ RowsKept /\ JobSound(p)
  BY TypeParts, RowsTyped, RowsAreKept, SoundParts DEF Sound
<1>1. ASSUME job'[p] = job[p] PROVE JobSound(p)'
  <2>1. ASSUME job[p] # NoJob, job[p].target # NoFact
        PROVE  Replaces(job[p].conf, job[p].scope, job[p].target)'
    BY <1>0, <1>1, <2>1 DEF JobSound, RowsKept, Replaces, Outweighs
  <2>2. ASSUME job[p].target # NoFact, At(p, "superseding")
        PROVE  /\ job[p].fact \in Known'
               /\ facts'[job[p].fact].conf = job[p].conf
               /\ facts'[job[p].fact].scope = job[p].scope
    BY <1>0, <2>2 DEF JobSound, RowsKept, At
  <2>3. QED BY <1>0, <1>1, <2>1, <2>2 DEF JobSound, At
<1>2. ASSUME job'[p] = NoJob PROVE JobSound(p)'
  BY <1>2 DEF JobSound, At
<1>3. ASSUME NEW q \in Promoters, q # p, NEW new, job' = [job EXCEPT ![q] = new]
      PROVE  JobSound(p)'
  BY <1>0, <1>1, <1>3 DEF JobsOK
<1>4. ASSUME NEW q \in Promoters, Return(q) PROVE JobSound(p)'
  BY <1>0, <1>1, <1>2, <1>4 DEF Return, JobsOK
<1>5. ASSUME NEW q \in Promoters, Observe(q) PROVE JobSound(p)'
  <2>1. PICK obs \in Observations :
           job' = [job EXCEPT ![q] =
             [pc |-> "reading", claim |-> obs[1], scope |-> obs[2],
              conf |-> Assigned(obs[1], obs[3]), lasts |-> Durable(obs[1], obs[3]),
              target |-> NoFact, fact |-> NoFact]]
    BY <1>5 DEF Observe
  <2>2. CASE q # p
    BY <1>3, <2>1, <2>2
  <2>3. CASE q = p
    <3>1. job'[p].target = NoFact /\ job'[p].conf \in Assignable
      BY <1>0, <2>1, <2>3, AssignedIsAssignable DEF JobsOK
    <3>2. QED BY <3>1 DEF JobSound
  <2>4. QED BY <2>2, <2>3
<1>6. ASSUME NEW q \in Promoters, NEW conf, NEW target, Proceed(q, conf, target),
             target # NoFact => Replaces(conf, job[q].scope, target)
      PROVE  JobSound(p)'
  <2> DEFINE new == [pc |-> IF Kind[job[q].claim] = "fact" THEN "embedding" ELSE "setting",
                     claim |-> job[q].claim, scope |-> job[q].scope, conf |-> conf,
                     lasts |-> job[q].lasts, target |-> target, fact |-> NoFact]
  <2>1. job' = [job EXCEPT ![q] = new]
    BY <1>6 DEF Proceed
  <2>2. /\ new.pc \in {"embedding", "setting"}
        /\ new.scope = job[q].scope /\ new.conf = conf /\ new.target = target
    OBVIOUS
  <2> HIDE DEF new
  <2>3. CASE q # p
    BY <1>3, <2>1, <2>3
  <2>4. CASE q = p
    <3>1. job'[p] = new
      BY <1>0, <2>1, <2>4 DEF JobsOK
    <3>2. ~At(p, "reading")' /\ ~At(p, "superseding")'
      BY <2>2, <3>1 DEF At
    <3>3. target # NoFact => Replaces(job'[p].conf, job'[p].scope, target)
      BY <1>6, <2>2, <2>4, <3>1
    <3>4. target # NoFact => Replaces(job[p].conf, job[p].scope, job[p].target)'
      BY <1>0, <2>2, <3>1, <3>3 DEF RowsKept, Replaces, Outweighs
    <3>5. QED BY <2>2, <3>1, <3>2, <3>4 DEF JobSound
  <2>5. QED BY <2>3, <2>4
<1>7. ASSUME NEW q \in Promoters, ReadFacts(q) PROVE JobSound(p)'
  <2>1. job[q].conf \in Assignable
    BY <1>7, SoundParts DEF Sound, ReadFacts, JobSound
  <2>2. ASSUME NEW i \in Opposed(job[q].claim, job[q].scope),
               Outweighs(job[q].conf, facts[i].conf)
        PROVE  Replaces(job[q].conf, job[q].scope, i)
    BY <2>1, <2>2 DEF Opposed, Visible, Active, Replaces
  <2>3. CASE \E i \in Opposed(job[q].claim, job[q].scope) :
               Outweighs(job[q].conf, facts[i].conf) /\ Proceed(q, job[q].conf, i)
    BY <1>6, <2>2, <2>3
  <2>4. CASE Return(q)
    BY <1>4, <2>4
  <2>5. CASE \E conf : Proceed(q, conf, NoFact)
    BY <1>6, <2>5
  <2>6. QED BY <1>7, <2>3, <2>4, <2>5 DEF ReadFacts
<1>8. ASSUME NEW q \in Promoters, InsertFact(q) PROVE JobSound(p)'
  <2>1. job[q] \in Job /\ job[q] # NoJob
    BY <1>0, <1>8, HeldIsJob DEF InsertFact, At
  <2>2. CASE Return(q)
    BY <1>4, <2>2
  <2>3. CASE ~Return(q)
    <3>1. PICK i \in FactIds :
             /\ facts' = [facts EXCEPT ![i] =
                  [claim |-> job[q].claim, scope |-> job[q].scope, conf |-> job[q].conf,
                   ttl |-> IF job[q].lasts THEN "none" ELSE "running", by |-> NoFact]]
             /\ job[q].target # NoFact
             /\ job' = [job EXCEPT ![q] =
                  [pc |-> "superseding", claim |-> job[q].claim, scope |-> job[q].scope,
                   conf |-> job[q].conf, lasts |-> job[q].lasts,
                   target |-> job[q].target, fact |-> i]]
      BY <1>8, <2>3 DEF InsertFact
    <3>2. CASE q # p
      BY <1>3, <3>1, <3>2
    <3>3. CASE q = p
      <4>1. /\ job'[p].pc = "superseding" /\ job'[p].fact = i
            /\ job'[p].conf = job[p].conf /\ job'[p].scope = job[p].scope
            /\ job'[p].target = job[p].target
        BY <1>0, <3>1, <3>3 DEF JobsOK
      <4>2. Replaces(job[p].conf, job[p].scope, job[p].target)
        BY <1>0, <2>1, <3>1, <3>3 DEF JobSound
      <4>3. Replaces(job[p].conf, job[p].scope, job[p].target)'
        BY <1>0, <4>1, <4>2 DEF RowsKept, Replaces, Outweighs
      <4>4. facts'[i].conf = job[p].conf /\ facts'[i].scope = job[p].scope
        BY <1>0, <3>1, <3>3 DEF FactsOK
      <4>5. facts'[i] # NoFact
        <5>1. [claim |-> job[q].claim, scope |-> job[q].scope, conf |-> job[q].conf,
               ttl |-> IF job[q].lasts THEN "none" ELSE "running", by |-> NoFact] \in Fact
          BY <2>1 DEF Job, Fact
        <5>2. QED BY <1>0, <3>1, <5>1, NullsAreNoRows DEF FactsOK
      <4>6. i \in Known'
        BY <4>5 DEF Known
      <4>7. QED BY <4>1, <4>3, <4>4, <4>6 DEF JobSound, At
    <3>4. QED BY <3>2, <3>3
  <2>4. QED BY <2>2, <2>3
<1>9. CASE UNCHANGED job
  BY <1>1, <1>9
<1>10. QED
  BY <1>4, <1>5, <1>7, <1>8, <1>9
     DEF Next, Promote, SupersedeFact, SetPreference, SetPolicy, Interrupt, Expire, vars

\* Both halves of the invariant, in every reachable state.
LEMMA SoundHolds == Spec => []Sound
<1>1. Init => Sound
  <2> SUFFICES ASSUME Init PROVE Sound
    OBVIOUS
  <2>1. FactsOK
    BY DEF Init, FactsOK
  <2>2. JobsOK
    BY DEF Init, JobsOK, At
  <2>3. RowCap \in Nat
    BY PromotionGateAssumption
  <2>4. RestOK
    BY <2>3 DEF Init, RestOK
  <2>5. RowsSound
    BY DEF Init, RowsSound, Superseded, Known
  <2>6. \A p \in Promoters : JobSound(p)
    BY DEF Init, JobSound, At
  <2>7. QED BY <2>1, <2>2, <2>4, <2>5, <2>6, TypeParts, SoundParts DEF Sound
<1>2. Sound /\ [Next]_vars => Sound'
  <2> SUFFICES ASSUME Sound, [Next]_vars PROVE Sound'
    OBVIOUS
  <2>1. FactsOK' /\ JobsOK' /\ RestOK'
    BY RowsTyped, JobsTyped, RestTyped
  <2>2. TypeOK'
    BY <2>1 DEF TypeOK, FactsOK, JobsOK, RestOK
  <2>3. RowsSound' /\ \A p \in Promoters : JobSound(p)'
    BY RowsSoundStep, JobSoundStep
  <2>4. SupersededByStronger'
    BY <2>3 DEF SupersededByStronger, RowsSound, Justified, JobSound
  <2>5. QED BY <2>2, <2>4 DEF Sound
<1>3. QED BY <1>1, <1>2, PTL DEF Spec

\* Every variable of the gate stays in its range.
THEOREM TypeCorrect == Spec => []TypeOK
  BY SoundHolds, PTL DEF Sound

\* A superseded fact always names a row that outweighs it.
THEOREM SupersededByStrongerHolds == Spec => []SupersededByStronger
  BY SoundHolds, PTL DEF Sound

\* The confidences of a chain of superseded_by grow by more than 150 a step,
\* to values that the gate assigns: there is no room for a third step.
THEOREM ShortChainsHolds == Spec => []ShortChains
<1>1. Sound => ShortChains
  <2> SUFFICES ASSUME Sound, NEW i \in FactIds, Superseded(i), Superseded(facts[i].by),
                      Superseded(facts[facts[i].by].by)
               PROVE  FALSE
    BY DEF ShortChains
  <2>0. RowsSound /\ FactsOK
    BY SoundParts, TypeParts DEF Sound
  <2> DEFINE j == facts[i].by
             k == facts[j].by
             l == facts[k].by
  <2>1. j \in Known /\ Replaces(facts[j].conf, facts[j].scope, i)
    BY <2>0 DEF RowsSound, Justified
  <2>2. j \in FactIds /\ k \in Known /\ Replaces(facts[k].conf, facts[k].scope, j)
    BY <2>0, <2>1, KnownIsFact DEF RowsSound, Justified
  <2>3. k \in FactIds /\ Replaces(facts[l].conf, facts[l].scope, k)
    BY <2>0, <2>2, KnownIsFact DEF RowsSound, Justified
  <2>4. facts[j].conf \in Assignable /\ facts[k].conf \in Assignable
        /\ facts[l].conf \in Assignable
    BY <2>1, <2>2, <2>3 DEF Replaces
  <2>5. facts[k].conf > facts[j].conf + 150 /\ facts[l].conf > facts[k].conf + 150
    BY <2>2, <2>3 DEF Replaces, Outweighs
  <2> HIDE DEF j, k, l
  <2>6. QED BY <2>4, <2>5 DEF Assignable
<1>2. QED BY <1>1, SoundHolds, PTL

-----------------------------------------------------------------------------
(* Facts that last.                                                         *)

\* What lasts was worth 700 or more when it was written, and whatever is worth
\* 900 lasts: 850 is the most that anything else gets.
RowLasts(i) == /\ facts[i].ttl = "none" => facts[i].conf >= 700
               /\ facts[i].conf >= 900 => facts[i].ttl = "none"

JobLasts(p) == /\ job[p].lasts => job[p].conf >= 700
               /\ job[p].conf >= 900 => job[p].lasts
               /\ At(p, "reading") => (job[p].lasts <=> job[p].conf >= 900)

Lasting == /\ \A i \in Known : RowLasts(i)
           /\ \A p \in Promoters : job[p] # NoJob => JobLasts(p)

\* A TTL is left out for just the two highest confidences.
LEMMA DurableIsTrusted ==
    ASSUME NEW c, NEW s
    PROVE  Durable(c, s) <=> Assigned(c, s) >= 900
  BY DEF Durable, Assigned, Base

\* What is weakened falls below 900, and to no less than 700 from there.
LEMMA WeakenedLasts ==
    ASSUME NEW x \in Assignable
    PROVE  Weakened(x) < 900 /\ (x >= 900 => Weakened(x) >= 700)
  BY DEF Weakened, Assignable

\* Rows are written with the confidence and the life of their promotion, and
\* only ever lose their time.
LEMMA RowsLastStep ==
    ASSUME Sound, Lasting, [Next]_vars
    PROVE  \A i \in Known' : RowLasts(i)'
<1>0. FactsOK /\ JobsOK /\ FactsOK' /\ RowsKept
  BY TypeParts, RowsTyped, RowsAreKept DEF Sound
<1> SUFFICES ASSUME NEW i \in FactIds, facts'[i] # NoFact PROVE RowLasts(i)'
  BY DEF Known
<1>1. ASSUME facts'[i] = facts[i] PROVE RowLasts(i)'
  BY <1>1 DEF Lasting, RowLasts, Known
<1>2. ASSUME NEW p \in Promoters, InsertFact(p) PROVE RowLasts(i)'
  <2>1. job[p] \in Job /\ job[p] # NoJob
    BY <1>0, <1>2, HeldIsJob DEF InsertFact, At
  <2>2. PICK j \in FactIds : facts' = [facts EXCEPT ![j] =
             [claim |-> job[p].claim, scope |-> job[p].scope, conf |-> job[p].conf,
              ttl |-> IF job[p].lasts THEN "none" ELSE "running", by |-> NoFact]]
    BY <1>2 DEF InsertFact
  <2>3. CASE i # j
    BY <1>0, <1>1, <2>2, <2>3 DEF FactsOK
  <2>4. CASE i = j
    <3>1. /\ facts'[i].conf = job[p].conf
          /\ facts'[i].ttl = IF job[p].lasts THEN "none" ELSE "running"
      BY <1>0, <2>2, <2>4 DEF FactsOK
    <3>2. JobLasts(p)
      BY <2>1 DEF Lasting
    <3> QED BY <3>1, <3>2 DEF RowLasts, JobLasts
  <2> QED BY <2>3, <2>4
<1>3. ASSUME NEW p \in Promoters, SupersedeFact(p) PROVE RowLasts(i)'
  <2>1. facts'[i] = facts[i] \/ facts'[i] = [facts[i] EXCEPT !.by = job[p].fact]
    BY <1>0, <1>3 DEF SupersedeFact, FactsOK
  <2>2. CASE facts'[i] = [facts[i] EXCEPT !.by = job[p].fact]
    <3>1. job[p] \in Job /\ job[p] # NoJob
      BY <1>0, <1>3, HeldIsJob DEF SupersedeFact, At
    <3>2. i \in Known \/ facts'[i] = facts[i]
      <4>1. job[p].target # NoFact
        BY <1>0, <1>3 DEF SupersedeFact, JobsOK
      <4>2. job[p].target \in Known
        BY <1>3, <3>1, <4>1 DEF Sound, SupersededByStronger, Replaces
      <4> QED BY <1>0, <1>3, <4>2 DEF SupersedeFact, FactsOK
    <3>3. CASE i \in Known
      <4>1. facts[i] \in Fact
        BY <1>0, <3>3, KnownIsFact
      <4>2. facts'[i].conf = facts[i].conf /\ facts'[i].ttl = facts[i].ttl
        BY <2>2, <4>1 DEF Fact
      <4> QED BY <3>3, <4>2 DEF Lasting, RowLasts
    <3> QED BY <1>1, <3>2, <3>3
  <2> QED BY <1>1, <2>1, <2>2
<1>4. ASSUME NEW j \in FactIds, Expire(j) PROVE RowLasts(i)'
  <2>1. facts[j] \in Fact /\ facts[j] # NoFact /\ facts[j].ttl = "running"
    BY <1>0, <1>4, KnownIsFact DEF Expire
  <2>2. CASE i # j
    BY <1>0, <1>1, <1>4, <2>2 DEF Expire, FactsOK
  <2>3. CASE i = j
    <3>1. facts'[i] = [facts[i] EXCEPT !.ttl = "over"]
      BY <1>0, <1>4, <2>3 DEF Expire, FactsOK
    <3>2. facts'[i].conf = facts[i].conf /\ facts'[i].ttl = "over"
      BY <2>1, <2>3, <3>1 DEF Fact
    <3>3. RowLasts(i)
      BY <2>1, <2>3 DEF Lasting, Known
    <3>4. ~(facts[i].conf >= 900)
      BY <2>1, <2>3, <3>3 DEF RowLasts
    <3> QED BY <3>2, <3>4 DEF RowLasts
  <2> QED BY <2>2, <2>3
<1>5. CASE UNCHANGED facts
  BY <1>1, <1>5
<1> QED
  BY <1>2, <1>3, <1>4, <1>5
     DEF Next, Promote, Observe, ReadFacts, SetPreference, SetPolicy, Interrupt, vars

\* A promotion is judged once, and only weakened after that.
LEMMA JobsLastStep ==
    ASSUME Sound, Lasting, [Next]_vars, NEW p \in Promoters, job'[p] # NoJob
    PROVE  JobLasts(p)'
<1>0. FactsOK /\ JobsOK
  BY TypeParts DEF Sound
<1>1. ASSUME job'[p] = job[p] PROVE JobLasts(p)'
  BY <1>1 DEF Lasting, JobLasts, At
<1>2. ASSUME NEW q \in Promoters, q # p, NEW new, job' = [job EXCEPT ![q] = new]
      PROVE  JobLasts(p)'
  BY <1>0, <1>1, <1>2 DEF JobsOK
<1>3. ASSUME NEW q \in Promoters, Return(q) PROVE JobLasts(p)'
  <2> q # p
    BY <1>0, <1>3 DEF Return, JobsOK
  <2> QED BY <1>2, <1>3 DEF Return
<1>4. ASSUME NEW q \in Promoters, Observe(q) PROVE JobLasts(p)'
  <2>1. PICK obs \in Observations :
           job' = [job EXCEPT ![q] =
             [pc |-> "reading", claim |-> obs[1], scope |-> obs[2],
              conf |-> Assigned(obs[1], obs[3]), lasts |-> Durable(obs[1], obs[3]),
              target |-> NoFact, fact |-> NoFact]]
    BY <1>4 DEF Observe
  <2>2. CASE q # p
    BY <1>2, <2>1, <2>2
  <2>3. CASE q = p
    <3> DEFINE conf == Assigned(obs[1], obs[3])
               lasts == Durable(obs[1], obs[3])
    <3>1. job'[p].conf = conf /\ job'[p].lasts = lasts
      BY <1>0, <2>1, <2>3 DEF JobsOK
    <3>2. conf \in Assignable /\ (lasts <=> conf >= 900)
      BY AssignedIsAssignable, DurableIsTrusted
    <3> HIDE DEF conf, lasts
    <3> QED BY <3>1, <3>2 DEF JobLasts, Assignable
  <2> QED BY <2>2, <2>3
<1>5. ASSUME NEW q \in Promoters, NEW conf, NEW target, Proceed(q, conf, target),
             /\ job[q].lasts => conf >= 700
             /\ conf >= 900 => job[q].lasts
      PROVE  JobLasts(p)'
  <2> DEFINE new == [pc |-> IF Kind[job[q].claim] = "fact" THEN "embedding" ELSE "setting",
                     claim |-> job[q].claim, scope |-> job[q].scope, conf |-> conf,
                     lasts |-> job[q].lasts, target |-> target, fact |-> NoFact]
  <2>1. job' = [job EXCEPT ![q] = new]
    BY <1>5 DEF Proceed
  <2>2. new.pc # "reading" /\ new.conf = conf /\ new.lasts = job[q].lasts
    OBVIOUS
  <2> HIDE DEF new
  <2>3. CASE q # p
    BY <1>2, <2>1, <2>3
  <2>4. CASE q = p
    <3> job'[p] = new
      BY <1>0, <2>1, <2>4 DEF JobsOK
    <3> QED BY <1>5, <2>2, <2>4 DEF JobLasts, At
  <2> QED BY <2>3, <2>4
<1>6. ASSUME NEW q \in Promoters, ReadFacts(q) PROVE JobLasts(p)'
  <2>1. job[q].conf \in Assignable /\ (job[q].lasts <=> job[q].conf >= 900)
    <3>1. At(q, "reading") /\ job[q] # NoJob
      BY <1>6 DEF ReadFacts, At
    <3> QED BY <3>1 DEF Sound, SupersededByStronger, Lasting, JobLasts
  <2>2. ASSUME NEW target, Proceed(q, job[q].conf, target) PROVE JobLasts(p)'
    <3> DEFINE conf == job[q].conf
    <3>1. conf >= 900 => conf >= 700
      BY <2>1 DEF Assignable
    <3> HIDE DEF conf
    <3> QED BY <1>5, <2>1, <2>2, <3>1 DEF conf
  <2>3. CASE Proceed(q, Weakened(job[q].conf), NoFact)
    <3> DEFINE conf == Weakened(job[q].conf)
    <3>1. conf < 900 /\ (job[q].lasts => conf >= 700) /\ conf \in Confidence
      BY <2>1, WeakenedLasts, WeakenedIsConfidence, AssignableIsConfidence
    <3> HIDE DEF conf
    <3>2. ~(conf >= 900)
      BY <3>1 DEF Confidence
    <3> QED BY <1>5, <2>3, <3>1, <3>2 DEF conf
  <2> QED BY <1>3, <1>6, <2>2, <2>3 DEF ReadFacts
<1>7. ASSUME NEW q \in Promoters, InsertFact(q) PROVE JobLasts(p)'
  <2>1. CASE Return(q)
    BY <1>3, <2>1
  <2>2. CASE ~Return(q)
    <3>1. PICK i \in FactIds :
             job' = [job EXCEPT ![q] =
               [pc |-> "superseding", claim |-> job[q].claim, scope |-> job[q].scope,
                conf |-> job[q].conf, lasts |-> job[q].lasts,
                target |-> job[q].target, fact |-> i]]
      BY <1>7, <2>2 DEF InsertFact
    <3>2. CASE q # p
      BY <1>2, <3>1, <3>2
    <3>3. CASE q = p
      <4>1. /\ job'[p].pc = "superseding" /\ job'[p].conf = job[p].conf
            /\ job'[p].lasts = job[p].lasts
        BY <1>0, <3>1, <3>3 DEF JobsOK
      <4>2. JobLasts(p)
        BY <1>7, <3>3 DEF InsertFact, At, Lasting
      <4> QED BY <4>1, <4>2 DEF JobLasts, At
    <3> QED BY <3>2, <3>3
  <2> QED BY <2>1, <2>2
<1>8. CASE UNCHANGED job
  BY <1>1, <1>8
<1> QED
  BY <1>3, <1>4, <1>6, <1>7, <1>8
     DEF Next, Promote, SupersedeFact, SetPreference, SetPolicy, Interrupt, Expire, vars

\* No fact without a TTL gives way to one that expires.
THEOREM LastingYieldsToLastingHolds == Spec => []LastingYieldsToLasting
<1>1. Init => Lasting
  BY DEF Init, Lasting, Known
<1>2. Sound /\ Lasting /\ [Next]_vars => Lasting'
  <2> SUFFICES ASSUME Sound, Lasting, [Next]_vars PROVE Lasting'
    OBVIOUS
  <2>1. \A i \in Known' : RowLasts(i)'
    BY RowsLastStep
  <2>2. \A p \in Promoters : job'[p] # NoJob => JobLasts(p)'
    BY JobsLastStep
  <2> QED BY <2>1, <2>2 DEF Lasting
<1>3. Sound /\ Lasting => LastingYieldsToLasting
  <2> SUFFICES ASSUME Sound, Lasting, NEW i \in FactIds, Superseded(i),
                      facts[i].ttl = "none"
               PROVE  facts[facts[i].by].ttl = "none"
    BY DEF LastingYieldsToLasting
  <2> DEFINE n == facts[i].by
  <2>0. RowsSound
    BY SoundParts DEF Sound
  <2>1. n \in Known /\ Replaces(facts[n].conf, facts[n].scope, i)
    BY <2>0 DEF RowsSound, Justified
  <2>2. RowLasts(i) /\ RowLasts(n)
    BY <2>1 DEF Lasting, Superseded
  <2>3. i \in Known /\ FactsOK
    BY TypeParts DEF Superseded, Sound
  <2>4. facts[i].conf \in Confidence
    BY <2>3, KnownIsFact DEF Fact
  <2> HIDE DEF n
  <2>5. facts[n].conf \in Assignable /\ facts[n].conf > facts[i].conf + 150
    BY <2>1 DEF Replaces, Outweighs
  <2>6. facts[i].conf >= 700
    BY <2>2 DEF RowLasts
  <2>7. facts[n].conf >= 900
    <3> DEFINE new == facts[n].conf
               old == facts[i].conf
    <3>1. old \in Confidence /\ new \in Assignable
      BY <2>4, <2>5
    <3>2. old >= 700 /\ new > old + 150
      BY <2>5, <2>6
    <3> HIDE DEF new, old
    <3>3. new \in Nat /\ new > 850
      BY <3>1, <3>2 DEF Confidence, Assignable
    <3>4. new >= 900
      BY <3>1, <3>3 DEF Assignable
    <3> QED BY <3>4 DEF new
  <2> QED BY <2>2, <2>7 DEF RowLasts, n
<1> QED BY <1>1, <1>2, <1>3, SoundHolds, PTL DEF Spec
=============================================================================
