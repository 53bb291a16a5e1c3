------------------------ MODULE AttemptSteps_proofs ------------------------
(***************************************************************************)
(* Theorems about the two steps that follow the execution of an attempt:   *)
(* the validation of its result (ValidationPipeline), for any set of       *)
(* agents and executions of any length, and the promotion of its workspace *)
(* (SourcePromotion), for any number of runs.  The two share no state.     *)
(*                                                                         *)
(* That no stale source replaces a newer one holds whatever operations of  *)
(* a promotion fail; the other theorems about it need that the removal of  *)
(* the backup and the rename of the recovery do not.                       *)
(***************************************************************************)
EXTENDS ValidationPipeline, SourcePromotion, WellFoundedInduction, TLAPS

----------------------------------------------------------------------------
(* Validation: what the validators may report. *)

\* An answer comes out as an opinion.
LEMMA NamedIsOpinion ==
    ASSUME NEW a \in Answers
    PROVE  Named(a) \in Opinions
BY DEF Answers, Named, Decisions, Opinions

\* Every result has an opinion, and only an outage leaves it without an answer.
LEMMA JudgementFields ==
    ASSUME NEW j \in Judgements
    PROVE  /\ j.opinion \in Opinions
           /\ ~j.answered => j.opinion = "manual_review"
<1>1. CASE \E p, o : j = Says(p, o) /\ o \in Opinions
  BY <1>1 DEF Says
<1>2. CASE j = ImageOutage
  BY <1>2 DEF ImageOutage, Opinions
<1>3. \A a \in Answers : Sanitised(a) \in Opinions
  BY NamedIsOpinion DEF Sanitised, Opinions
<1>4. CASE j \in CodeChange \cup TestBuilder \cup DocumentWriter
  BY <1>1, <1>3, <1>4 DEF CodeChange, TestBuilder, DocumentWriter, Opinions
<1>5. CASE j \in CommandRunner
  BY <1>1, <1>5, NamedIsOpinion DEF CommandRunner, Opinions
<1>6. CASE j \in ImageGeneration
  BY <1>1, <1>2, <1>6 DEF ImageGeneration, Decisions, Opinions
<1> QED
  BY <1>4, <1>5, <1>6 DEF Judgements

----------------------------------------------------------------------------
(* The invariant. *)

\* The results are those of validators, and a decision is that of the results
\* there are.
Founded ==
    /\ results \in Seq(Judgements)
    /\ Judged => verdict = AggregateVerdict /\ results # <<>>

\* Running a validator, its failure and the aggregation keep results and verdict
\* founded.
LEMMA FoundedStep == Founded /\ [ValidationNext]_validationVars => Founded'
<1> SUFFICES ASSUME Founded, [ValidationNext]_validationVars PROVE Founded'
  OBVIOUS
<1>1. CASE UNCHANGED validationVars
  BY <1>1 DEF validationVars, Founded, Judged, AggregateVerdict, Upgraded, Aggregate, Heard, Said
<1>2. CASE RunValidator
  <2>1. PICK r \in Results(Head(queue)) : results' = Append(results, r)
    BY <1>2 DEF RunValidator
  <2>2. r \in Judgements
    BY DEF Results
  <2>3. results' \in Seq(Judgements)
    BY <2>1, <2>2 DEF Founded
  <2>4. ~Judged'
    BY <1>2 DEF RunValidator, Judged, Decisions
  <2> QED
    BY <2>3, <2>4 DEF Founded
<1>3. CASE ValidatorRaises
  BY <1>3 DEF ValidatorRaises, Founded, Judged, Decisions
<1>4. CASE Conclude
  <2>1. results' = results
    BY <1>4 DEF Conclude
  <2>2. AggregateVerdict' = AggregateVerdict
    BY <2>1 DEF AggregateVerdict, Upgraded, Aggregate, Heard, Said
  <2>3. CASE results = <<>>
    BY <1>4, <2>1, <2>3 DEF Conclude, Founded, Judged, Decisions
  <2>4. CASE results # <<>>
    BY <1>4, <2>1, <2>2, <2>4 DEF Conclude, Founded
  <2> QED
    BY <2>3, <2>4
<1> QED
  BY <1>1, <1>2, <1>3, <1>4 DEF ValidationNext

\* In every reachable state a decision follows from what the validators said.
THEOREM VerdictsAreFounded == ValidationSpec => []Founded
<1>1. ValidationInit => Founded
  BY DEF ValidationInit, Founded, Judged, Decisions
<1> QED
  BY <1>1, FoundedStep, PTL DEF ValidationSpec

----------------------------------------------------------------------------
(* What the decision says of the results. *)

\* An opinion is heard as its decision.
LEMMA Hearing ==
    ASSUME Founded, NEW i \in DOMAIN results
    PROVE  /\ results[i] \in Judgements
           /\ results[i].opinion \in Opinions
           /\ Decision(results[i].opinion) \in Heard
<1>1. results[i] \in Judgements
  BY DEF Founded
<1> QED
  BY <1>1, JudgementFields DEF Heard

\* A task is closed as completed over no failure, no gap that was named and no
\* demand for review, however many validators agree otherwise
\* (aggregate_validation_results).
THEOREM NoObjectionIsOverruled == ValidationSpec => []CompletedIsUncontested
<1>1. Founded => CompletedIsUncontested
  <2> SUFFICES ASSUME Founded, FinalTaskStatus = "completed"
               PROVE  CompletedIsUncontested
    BY DEF CompletedIsUncontested
  <2>1. verdict = "completed" /\ AggregateVerdict = "completed"
    BY DEF FinalTaskStatus, Founded, Judged, Decisions
  <2>2. \A i \in DOMAIN results : Decision(results[i].opinion) \in Heard
    BY Hearing
  <2>3. "completed" \in Heard /\ "failed" \notin Heard /\ "manual_review" \notin Heard
    BY <2>1 DEF AggregateVerdict, Upgraded, Aggregate
  <2>4. ~Said("failed") /\ ~Said("manual_review")
    BY <2>2, <2>3 DEF Said, Decision
  <2>5. ~Said("gap")
    BY <2>1, <2>2 DEF AggregateVerdict, Upgraded, Aggregate, Said, Decision
  <2>6. Said("completed")
    BY <2>3 DEF Heard, Said, Decision
  <2> QED
    BY <2>4, <2>5, <2>6 DEF CompletedIsUncontested
<1> QED
  BY <1>1, VerdictsAreFounded, PTL

\* Where a validator goes on without an answer of its model, the task is
\* neither completed nor partial (ImageGenerationAgentValidator).
THEOREM NothingIsApprovedUnasked == ValidationSpec => []OutageIsNoApproval
<1>1. Founded => OutageIsNoApproval
  <2> SUFFICES ASSUME Founded, NEW i \in DOMAIN results, ~results[i].answered
               PROVE  FinalTaskStatus \in {"failed", "none"}
    BY DEF OutageIsNoApproval
  <2>1. results[i].opinion = "manual_review"
    BY Hearing, JudgementFields
  <2>2. "manual_review" \in Heard
    BY <2>1, Hearing DEF Decision
  <2>3. AggregateVerdict = "manual_review"
    BY <2>2 DEF AggregateVerdict, Upgraded, Aggregate
  <2>4. verdict \notin {"completed", "partial"}
    BY <2>3 DEF Founded, Judged, Decisions
  <2> QED
    BY <2>4 DEF FinalTaskStatus
<1> QED
  BY <1>1, VerdictsAreFounded, PTL

----------------------------------------------------------------------------
(* Validation: who stands for the decision. *)

\* A set of numbers that is not empty has a least element.
LEMMA Least ==
    ASSUME NEW S, S \subseteq Nat, S # {}
    PROVE  \E m \in S : \A j \in S : m <= j
<1> DEFINE Less == {p \in Nat \X Nat : p[1] < p[2]}
<1>1. IsWellFoundedOn(Less, Nat)
  BY NatLessThanWellFounded, Zenon DEF OpToRel
<1>2. PICK m \in S : \A j \in S : <<j, m>> \notin Less
  BY <1>1, WFMin, Zenon
<1>3. \A j \in S : ~ (j < m)
  BY <1>2
<1>4. \A j \in S : j \in Nat /\ m \in Nat
  OBVIOUS
<1>5. \A j \in S : m <= j
  BY <1>3, <1>4
<1> QED
  BY <1>5

\* The result whose summary is shown for the decision is one result, and it
\* never claims more than the decision (_pick_primary_result).
THEOREM TheSpokesmanIsHonest == ValidationSpec => []SpokesmanIsHonest
<1>1. Founded => SpokesmanIsHonest
  <2> SUFFICES ASSUME Founded, Judged
               PROVE  \E i \in Spokesman :
                         /\ Spokesman = {i}
                         /\ Rank(Decision(results[i].opinion)) <= Rank(verdict)
    BY DEF SpokesmanIsHonest
  <2> DEFINE Saying(d) == {i \in DOMAIN results : Decision(results[i].opinion) = d}
             best == IF AggregateVerdict # "partial" THEN AggregateVerdict
                     ELSE IF "partial" \in Heard     THEN "partial"
                     ELSE "failed"
  <2>1. verdict = AggregateVerdict /\ results # <<>> /\ results \in Seq(Judgements)
    BY DEF Founded
  <2>2. Heard # {} /\ Heard \subseteq Decisions
    <3>1. 1 \in DOMAIN results
      BY <2>1
    <3>2. \A i \in DOMAIN results : results[i].opinion \in Opinions
      BY Hearing
    <3> QED
      BY <3>1, <3>2 DEF Heard, Decision, Opinions, Decisions
  <2>3. best \in Heard /\ Rank(best) <= Rank(verdict)
    <3>1. CASE AggregateVerdict = "manual_review"
      BY <2>1, <3>1 DEF AggregateVerdict, Upgraded, Aggregate, Rank
    <3>2. CASE AggregateVerdict = "failed"
      BY <2>1, <3>2 DEF AggregateVerdict, Upgraded, Aggregate, Rank
    <3>3. CASE AggregateVerdict = "completed"
      BY <2>1, <3>3 DEF AggregateVerdict, Upgraded, Aggregate, Rank
    <3>4. CASE AggregateVerdict = "partial"
      <4>1. "manual_review" \notin Heard /\ Heard # {"failed"} /\ Heard # {"completed"}
        BY <3>4 DEF AggregateVerdict, Upgraded, Aggregate
      <4>2. "partial" \in Heard \/ "failed" \in Heard
        BY <2>2, <4>1 DEF Decisions
      <4> QED
        BY <2>1, <3>4, <4>2 DEF Rank
    <3> QED
      BY <3>1, <3>2, <3>3, <3>4 DEF AggregateVerdict, Aggregate
  <2> HIDE DEF best
  <2>4. Saying(best) # {} /\ Saying(best) \subseteq Nat
    BY <2>1, <2>3 DEF Heard
  <2>5. PICK i \in Saying(best) : \A j \in Saying(best) : i <= j
    BY <2>4, Least
  <2>6. Spokesman = {k \in Saying(best) : \A j \in Saying(best) : k <= j}
    BY DEF Spokesman, best
  <2>7. Spokesman = {i}
    BY <2>4, <2>5, <2>6
  <2> QED
    BY <2>3, <2>5, <2>7
<1> QED
  BY <1>1, VerdictsAreFounded, PTL

----------------------------------------------------------------------------
(* Who is selected: an argument about the first counterexample takes the    *)
(* place of induction over the sequence.                                    *)

\* f goes through the first N elements of s.
Firsts(f, s, S, N) ==
    f = [n \in 0 .. N |->
            IF n = 0 THEN <<>>
            ELSE IF s[n] \in S /\ ~Contains(f[n - 1], s[n])
                 THEN Append(f[n - 1], s[n])
                 ELSE f[n - 1]]

\* The loop over a sequence has a result for every prefix.
LEMMA FirstsExist ==
    ASSUME NEW s, NEW S, NEW N \in Nat
    PROVE  \E f : Firsts(f, s, S, N)
<1> DEFINE Next1(q, n) == IF s[n] \in S /\ ~Contains(q, s[n]) THEN Append(q, s[n]) ELSE q
           Bad == {k \in Nat : ~ \E f : Firsts(f, s, S, k)}
<1>0. \A f, k : Firsts(f, s, S, k) <=>
                   f = [n \in 0 .. k |-> IF n = 0 THEN <<>> ELSE Next1(f[n - 1], n)]
  BY DEF Firsts
<1> HIDE DEF Next1
<1>1. SUFFICES ASSUME Bad # {} PROVE FALSE
  OBVIOUS
<1>2. PICK k \in Bad : \A j \in Bad : k <= j
  BY <1>1, Least
<1>3. k \in Nat /\ ~ \E f : Firsts(f, s, S, k)
  OBVIOUS
<1>4. CASE k = 0
  <2> DEFINE f == [n \in 0 .. 0 |-> <<>>]
  <2>1. f = [n \in 0 .. k |-> IF n = 0 THEN <<>> ELSE Next1(f[n - 1], n)]
    BY <1>4
  <2> QED
    BY <1>0, <1>3, <2>1
<1>5. CASE k # 0
  <2>1. k - 1 \in Nat /\ k - 1 \notin Bad
    BY <1>2, <1>3, <1>5
  <2>2. PICK f : Firsts(f, s, S, k - 1)
    BY <2>1
  <2> DEFINE g == [n \in 0 .. k |-> IF n = k THEN Next1(f[k - 1], k) ELSE f[n]]
             h == [n \in 0 .. k |-> IF n = 0 THEN <<>> ELSE Next1(g[n - 1], n)]
  <2>3. \A n \in 0 .. k - 1 : f[n] = IF n = 0 THEN <<>> ELSE Next1(f[n - 1], n)
    BY <1>0, <2>2
  <2>4. \A n \in 0 .. k - 1 : g[n] = f[n]
    BY <1>3
  <2>5. ASSUME NEW n \in 0 .. k PROVE g[n] = h[n]
    <3>1. CASE n = k
      <4>1. n # 0 /\ n - 1 \in 0 .. k - 1
        BY <1>3, <1>5, <3>1
      <4>2. h[n] = Next1(g[n - 1], n) /\ g[n] = Next1(f[n - 1], n)
        BY <3>1, <4>1
      <4> QED
        BY <2>4, <4>1, <4>2
    <3>2. CASE n # k /\ n # 0
      <4>1. n \in 0 .. k - 1 /\ n - 1 \in 0 .. k - 1
        BY <1>3, <3>2
      <4>2. h[n] = Next1(g[n - 1], n) /\ g[n] = f[n] /\ f[n] = Next1(f[n - 1], n)
        BY <2>3, <3>2, <4>1
      <4> QED
        BY <2>4, <4>1, <4>2
    <3>3. CASE n # k /\ n = 0
      <4>1. n \in 0 .. k - 1
        BY <1>3, <3>3
      <4>2. h[n] = <<>> /\ g[n] = f[n] /\ f[n] = <<>>
        BY <2>3, <3>3, <4>1
      <4> QED
        BY <4>2
    <3> QED
      BY <3>1, <3>2, <3>3
  <2>6. g = h
    BY <2>5
  <2>7. Firsts(g, s, S, k)
    BY <1>0, <2>6
  <2> QED
    BY <1>3, <2>7
<1> QED
  BY <1>4, <1>5

\* The selection, element by element.
LEMMA FirstOfByElements ==
    ASSUME NEW s, Len(s) \in Nat, NEW S
    PROVE  \E f : /\ \A n \in 0 .. Len(s) :
                        f[n] = IF n = 0 THEN <<>>
                               ELSE IF s[n] \in S /\ ~Contains(f[n - 1], s[n])
                                    THEN Append(f[n - 1], s[n])
                                    ELSE f[n - 1]
                  /\ FirstOf(s, S) = f[Len(s)]
<1> DEFINE N == Len(s)
<1> HIDE DEF N
<1>1. N \in Nat
  BY DEF N
<1>2. \E f : Firsts(f, s, S, N)
  BY <1>1, FirstsExist
<1> DEFINE up == CHOOSE f : f = [n \in 0 .. N |->
                                   IF n = 0 THEN <<>>
                                   ELSE IF s[n] \in S /\ ~Contains(f[n - 1], s[n])
                                        THEN Append(f[n - 1], s[n])
                                        ELSE f[n - 1]]
<1>3. up = [n \in 0 .. N |-> IF n = 0 THEN <<>>
                             ELSE IF s[n] \in S /\ ~Contains(up[n - 1], s[n])
                                  THEN Append(up[n - 1], s[n])
                                  ELSE up[n - 1]]
  BY <1>2 DEF Firsts
<1>4. FirstOf(s, S) = up[N]
  BY DEF FirstOf, N
<1> HIDE DEF up
<1>5. \A n \in 0 .. N : up[n] = IF n = 0 THEN <<>>
                                ELSE IF s[n] \in S /\ ~Contains(up[n - 1], s[n])
                                     THEN Append(up[n - 1], s[n])
                                     ELSE up[n - 1]
  BY <1>3
<1> QED
  BY <1>4, <1>5 DEF N

\* q has the elements of s in S among the first n, each once.
Picks(q, s, S, T, n) ==
    /\ q \in Seq(T)
    /\ \A i \in 1 .. n : s[i] \in S => Contains(q, s[i])
    /\ \A i, j \in 1 .. Len(q) : q[i] = q[j] => i = j

\* A new item put behind distinct ones leaves them distinct.
LEMMA PicksAppend ==
    ASSUME NEW T, NEW q \in Seq(T), NEW x \in T, ~Contains(q, x),
           \A i, j \in 1 .. Len(q) : q[i] = q[j] => i = j
    PROVE  /\ Append(q, x) \in Seq(T)
           /\ Contains(Append(q, x), x)
           /\ \A y : Contains(q, y) => Contains(Append(q, x), y)
           /\ \A i, j \in 1 .. Len(Append(q, x)) :
                 Append(q, x)[i] = Append(q, x)[j] => i = j
<1> DEFINE r == Append(q, x)
<1>1. /\ r \in Seq(T) /\ Len(q) \in Nat /\ Len(r) = Len(q) + 1
      /\ r[Len(q) + 1] = x
      /\ \A i \in 1 .. Len(q) : r[i] = q[i]
  OBVIOUS
<1> HIDE DEF r
<1>2. \A i \in 1 .. Len(q) : q[i] # x
  BY DEF Contains
<1>3. \A i \in 1 .. Len(r) : i \in 1 .. Len(q) \/ i = Len(q) + 1
  BY <1>1
<1>4. Contains(r, x)
  BY <1>1 DEF Contains
<1>5. \A y : Contains(q, y) => Contains(r, y)
  BY <1>1 DEF Contains
<1>6. ASSUME NEW i \in 1 .. Len(r), NEW j \in 1 .. Len(r), r[i] = r[j]
      PROVE  i = j
  <2>1. CASE i \in 1 .. Len(q) /\ j \in 1 .. Len(q)
    BY <1>1, <1>6, <2>1
  <2>2. CASE i = Len(q) + 1 /\ j = Len(q) + 1
    BY <2>2
  <2>3. ~ (i \in 1 .. Len(q) /\ j = Len(q) + 1)
    BY <1>1, <1>2, <1>6
  <2>4. ~ (i = Len(q) + 1 /\ j \in 1 .. Len(q))
    BY <1>1, <1>2, <1>6
  <2> QED
    BY <1>3, <2>1, <2>2, <2>3, <2>4
<1> QED
  BY <1>1, <1>4, <1>5, <1>6 DEF r

\* Every element of s in S is picked, and none twice.
LEMMA FirstOfPicks ==
    ASSUME NEW T, NEW s \in Seq(T), NEW S
    PROVE  Picks(FirstOf(s, S), s, S, T, Len(s))
<1> DEFINE N == Len(s)
<1>1. N \in Nat /\ \A n \in 1 .. N : s[n] \in T
  OBVIOUS
<1>2. PICK f : /\ \A n \in 0 .. N : f[n] = IF n = 0 THEN <<>>
                                  ELSE IF s[n] \in S /\ ~Contains(f[n - 1], s[n])
                                       THEN Append(f[n - 1], s[n])
                                       ELSE f[n - 1]
               /\ FirstOf(s, S) = f[N]
  BY <1>1, FirstOfByElements
<1> DEFINE Bad == {n \in 0 .. N : ~ Picks(f[n], s, S, T, n)}
<1> HIDE DEF N
<1>3. SUFFICES ASSUME Bad # {} PROVE FALSE
  <2>1. N \in 0 .. N /\ N \notin Bad
    BY <1>1, <1>3
  <2> QED
    BY <1>2, <2>1 DEF N
<1>4. Bad \in SUBSET Nat
  BY <1>1
<1>5. PICK n \in Bad : \A j \in Bad : n <= j
  BY <1>3, <1>4, Least
<1>6. n \in 0 .. N /\ ~ Picks(f[n], s, S, T, n)
  OBVIOUS
<1>7. CASE n = 0
  <2>1. f[n] = <<>> /\ 1 .. n = {}
    BY <1>2, <1>6, <1>7
  <2>2. Len(<<>>) = 0 /\ <<>> \in Seq(T) /\ 1 .. 0 = {}
    OBVIOUS
  <2> QED
    BY <1>6, <2>1, <2>2 DEF Picks
<1>8. CASE n # 0
  <2>1. n - 1 \in 0 .. N /\ n - 1 \notin Bad /\ n \in 1 .. N
    BY <1>1, <1>5, <1>6, <1>8
  <2>2. Picks(f[n - 1], s, S, T, n - 1)
    BY <2>1
  <2>3. \A i \in 1 .. n : i \in 1 .. n - 1 \/ i = n
    BY <1>1, <1>6
  <2> DEFINE q == f[n - 1]
             x == s[n]
  <2>4. f[n] = IF x \in S /\ ~Contains(q, x) THEN Append(q, x) ELSE q
    BY <1>2, <1>6, <1>8
  <2>5. x \in T
    BY <1>1, <2>1
  <2>6. /\ q \in Seq(T)
        /\ \A i \in 1 .. n - 1 : s[i] \in S => Contains(q, s[i])
        /\ \A i, j \in 1 .. Len(q) : q[i] = q[j] => i = j
    BY <2>2 DEF Picks
  <2>7. CASE x \in S /\ ~Contains(q, x)
    <3> HIDE DEF q
    <3> DEFINE y == x
    <3>1. y \in T /\ ~Contains(q, y)
      BY <2>5, <2>7
    <3> HIDE DEF y
    <3>2. /\ Append(q, y) \in Seq(T)
          /\ Contains(Append(q, y), y)
          /\ \A z : Contains(q, z) => Contains(Append(q, y), z)
          /\ \A i, j \in 1 .. Len(Append(q, y)) :
                Append(q, y)[i] = Append(q, y)[j] => i = j
      BY <2>6, <3>1, PicksAppend
    <3>3. f[n] = Append(q, y)
      BY <2>4, <2>7 DEF y
    <3>4. \A i \in 1 .. n : s[i] \in S => Contains(f[n], s[i])
      BY <2>3, <2>6, <3>2, <3>3 DEF y
    <3> QED
      BY <1>6, <3>2, <3>3, <3>4 DEF Picks
  <2>8. CASE ~ (x \in S /\ ~Contains(q, x))
    <3>1. f[n] = q
      BY <2>4, <2>8
    <3>2. \A i \in 1 .. n : s[i] \in S => Contains(f[n], s[i])
      BY <2>3, <2>6, <2>8, <3>1
    <3> QED
      BY <1>6, <2>6, <3>1, <3>2 DEF Picks
  <2> QED
    BY <2>7, <2>8
<1> QED
  BY <1>7, <1>8

\* Every agent that left evidence and has a validator is selected, once.
LEMMA SelectionIsComplete ==
    ASSUME NEW c \in Seq(Producers), NEW e \in Seq(Producers)
    PROVE  /\ Selected(c, e) \in Seq(Producers)
           /\ \A i, j \in 1 .. Len(Selected(c, e)) :
                 Selected(c, e)[i] = Selected(c, e)[j] => i = j
           /\ \A p \in Registered \ Ignored :
                 Contains(e, p) => Contains(Selected(c, e), p)
<1> DEFINE all == c \o e
           open == Open(e)
           ordered == FirstOf(all, open)
           chosen == FirstOf(ordered, Registered)
<1>1. all \in Seq(Producers)
  OBVIOUS
<1>2. \A i \in 1 .. Len(e) : \E k \in 1 .. Len(all) : all[k] = e[i]
  <2> SUFFICES ASSUME NEW i \in 1 .. Len(e)
               PROVE  \E k \in 1 .. Len(all) : all[k] = e[i]
    OBVIOUS
  <2>1. Len(c) + i \in 1 .. Len(all) /\ all[Len(c) + i] = e[i]
    OBVIOUS
  <2> QED
    BY <2>1
<1>3. Ordered(c, e) = ordered /\ Selected(c, e) = chosen
  BY DEF Ordered, Selected
<1> HIDE DEF all, open
<1>4. Picks(ordered, all, open, Producers, Len(all))
  BY <1>1, FirstOfPicks
<1> HIDE DEF ordered
<1>5. Picks(chosen, ordered, Registered, Producers, Len(ordered))
  BY <1>4, FirstOfPicks DEF Picks
<1> HIDE DEF chosen
<1>6. ASSUME NEW p \in Registered \ Ignored, Contains(e, p)
      PROVE  Contains(chosen, p)
  <2>1. PICK i \in 1 .. Len(e) : e[i] = p
    BY <1>6 DEF Contains
  <2>2. p \in open
    BY <2>1 DEF open, Open, ToSet
  <2>3. Contains(ordered, p)
    BY <1>2, <1>4, <2>1, <2>2 DEF Picks
  <2> QED
    BY <1>5, <1>6, <2>3 DEF Picks, Contains
<1> QED
  BY <1>3, <1>5, <1>6 DEF Picks

\* At first nobody is heard and the selection is queued.
LEMMA HeardInOrderInit == ValidationInit => HeardInOrder
<1> SUFFICES ASSUME ValidationInit PROVE HeardInOrder
  OBVIOUS
<1>1. called \in Seq(Producers) /\ evidence \in Seq(Producers)
  <2>1. ASSUME NEW n, NEW s \in SeqOf(Producers, n) PROVE s \in Seq(Producers)
    <3>1. PICK m \in 0 .. n : s \in [1 .. m -> Producers]
      BY <2>1 DEF SeqOf
    <3>2. m \in Nat
      OBVIOUS
    <3> QED
      BY <3>1, <3>2
  <2> QED
    BY <2>1 DEF ValidationInit, Orders
<1>2. Selected(called, evidence) \in Seq(Producers)
  BY <1>1, SelectionIsComplete
<1> DEFINE chosen == Selected(called, evidence)
<1>3. queue = chosen /\ results = <<>> /\ ~Judged
  BY DEF ValidationInit, Judged, Decisions
<1> HIDE DEF chosen
<1>4. /\ Len(<<>>) = 0 /\ DOMAIN <<>> = {} /\ <<>> \in Seq(Judgements)
      /\ chosen \in Seq(Producers)
  BY <1>2 DEF chosen
<1>5. /\ Len(results) + Len(queue) = Len(chosen)
      /\ \A i \in DOMAIN queue : queue[i] = chosen[Len(results) + i]
  BY <1>3, <1>4
<1> QED
  BY <1>1, <1>3, <1>4, <1>5 DEF HeardInOrder, chosen

\* A validator that runs moves from the queue to the results.
LEMMA HeardInOrderStep == HeardInOrder /\ [ValidationNext]_validationVars => HeardInOrder'
<1> SUFFICES ASSUME HeardInOrder, [ValidationNext]_validationVars PROVE HeardInOrder'
  OBVIOUS
<1> DEFINE chosen == Selected(called, evidence)
<1>1. /\ called \in Seq(Producers) /\ evidence \in Seq(Producers)
      /\ results \in Seq(Judgements) /\ queue \in Seq(Producers)
      /\ Len(results) + Len(queue) = Len(chosen)
      /\ \A i \in DOMAIN results : results[i].by = chosen[i]
      /\ \A i \in DOMAIN queue : queue[i] = chosen[Len(results) + i]
      /\ Judged => queue = <<>>
  BY DEF HeardInOrder
<1>2. called' = called /\ evidence' = evidence
  BY DEF ValidationNext, RunValidator, ValidatorRaises, Conclude, validationVars
<1>3. chosen' = chosen
  BY <1>2 DEF Selected, Ordered, FirstOf, Open
<1> HIDE DEF chosen
<1>4. SUFFICES /\ results' \in Seq(Judgements) /\ queue' \in Seq(Producers)
               /\ Len(results') + Len(queue') = Len(chosen)
               /\ \A i \in DOMAIN results' : results'[i].by = chosen[i]
               /\ \A i \in DOMAIN queue' : queue'[i] = chosen[Len(results') + i]
               /\ Judged' => queue' = <<>>
  BY <1>1, <1>2, <1>3 DEF HeardInOrder, chosen
<1>5. CASE RunValidator
  <2>1. PICK r \in Results(Head(queue)) : results' = Append(results, r)
    BY <1>5 DEF RunValidator
  <2>2. r \in Judgements /\ r.by = Head(queue)
    BY DEF Results
  <2>3. queue # <<>> /\ queue' = Tail(queue) /\ ~Judged'
    BY <1>5 DEF RunValidator, Judged, Decisions
  <2> DEFINE a == Len(results)
             b == Len(queue)
  <2>4. /\ a \in Nat /\ b \in Nat /\ b # 0
        /\ DOMAIN results = 1 .. a /\ DOMAIN queue = 1 .. b
    BY <1>1, <2>3
  <2>5. /\ queue' \in Seq(Producers) /\ Len(queue') = b - 1
        /\ DOMAIN queue' = 1 .. b - 1
        /\ \A i \in 1 .. b - 1 : queue'[i] = queue[i + 1]
        /\ Head(queue) = queue[1]
    BY <1>1, <2>3
  <2>6. /\ results' \in Seq(Judgements) /\ Len(results') = a + 1
        /\ DOMAIN results' = 1 .. a + 1
        /\ \A i \in 1 .. a : results'[i] = results[i]
        /\ results'[a + 1] = r
    BY <1>1, <2>1, <2>2
  <2>8. \A i \in 1 .. a : results[i].by = chosen[i]
    BY <1>1, <2>4
  <2>9. \A i \in 1 .. b : queue[i] = chosen[a + i]
    <3>1. \A i \in DOMAIN queue : queue[i] = chosen[a + i]
      BY <1>1
    <3> QED
      BY <2>4, <3>1, Zenon
  <2>10. a + b = Len(chosen)
    BY <1>1
  <2> HIDE DEF a, b
  <2>7. queue[1] = chosen[a + 1]
    <3>1. 1 \in 1 .. b
      BY <2>4
    <3> QED
      BY <2>9, <3>1
  <2>11. ASSUME NEW i \in DOMAIN results' PROVE results'[i].by = chosen[i]
    <3>1. CASE i = a + 1
      BY <2>2, <2>5, <2>6, <2>7, <3>1
    <3>2. CASE i # a + 1
      <4>1. i \in 1 .. a
        BY <2>4, <2>6, <3>2
      <4> QED
        BY <2>6, <2>8, <4>1
    <3> QED
      BY <3>1, <3>2
  <2>12. ASSUME NEW i \in DOMAIN queue' PROVE queue'[i] = chosen[Len(results') + i]
    <3>1. i \in 1 .. b - 1 /\ i + 1 \in 1 .. b
      BY <2>4, <2>5
    <3>2. queue'[i] = chosen[a + (i + 1)]
      BY <2>5, <2>9, <3>1
    <3>3. a + (i + 1) = Len(results') + i
      BY <2>4, <2>6, <3>1
    <3> QED
      BY <3>2, <3>3
  <2>13. Len(results') + Len(queue') = Len(chosen)
    BY <2>4, <2>5, <2>6, <2>10
  <2> QED
    BY <2>3, <2>5, <2>6, <2>11, <2>12, <2>13
<1>6. CASE ValidatorRaises
  BY <1>1, <1>6 DEF ValidatorRaises, Judged, Decisions
<1>7. CASE Conclude
  BY <1>1, <1>7 DEF Conclude
<1>8. CASE UNCHANGED validationVars
  BY <1>1, <1>8 DEF validationVars, Judged
<1> QED
  BY <1>5, <1>6, <1>7, <1>8 DEF ValidationNext

\* A decision on an execution has heard every agent that left evidence and has
\* a validator, each once, whatever sequence of calls the orchestrator reports
\* (select_validators_for_task, validate_execution_result).
THEOREM NobodyIsPassedOver == ValidationSpec => []EveryoneIsHeard
<1>1. HeardInOrder => EveryoneIsHeard
  <2> SUFFICES ASSUME HeardInOrder, Judged
               PROVE  /\ \A p \in Registered \ Ignored :
                            Contains(evidence, p) =>
                               \E i \in DOMAIN results : results[i].by = p
                      /\ \A i, j \in DOMAIN results :
                            results[i].by = results[j].by => i = j
    BY DEF EveryoneIsHeard
  <2> DEFINE chosen == Selected(called, evidence)
  <2>1. /\ called \in Seq(Producers) /\ evidence \in Seq(Producers)
        /\ results \in Seq(Judgements) /\ queue = <<>>
        /\ Len(results) + Len(queue) = Len(chosen)
        /\ \A i \in DOMAIN results : results[i].by = chosen[i]
    BY DEF HeardInOrder
  <2>2. /\ \A i, j \in 1 .. Len(chosen) : chosen[i] = chosen[j] => i = j
        /\ \A p \in Registered \ Ignored :
              Contains(evidence, p) => Contains(chosen, p)
    BY <2>1, SelectionIsComplete
  <2> HIDE DEF chosen
  <2>3. DOMAIN results = 1 .. Len(chosen)
    BY <2>1
  <2>4. \A i \in 1 .. Len(chosen) : results[i].by = chosen[i]
    BY <2>1, <2>3
  <2>5. ASSUME NEW p \in Registered \ Ignored, Contains(evidence, p)
        PROVE  \E i \in DOMAIN results : results[i].by = p
    <3>1. Contains(chosen, p)
      BY <2>2, <2>5
    <3>2. PICK i \in 1 .. Len(chosen) : chosen[i] = p
      BY <3>1, Zenon DEF Contains
    <3> QED
      BY <2>3, <2>4, <3>2
  <2>6. \A i, j \in DOMAIN results : results[i].by = results[j].by => i = j
    BY <2>2, <2>3, <2>4
  <2> QED
    BY <2>5, <2>6
<1> QED
  BY <1>1, HeardInOrderInit, HeardInOrderStep, PTL DEF ValidationSpec

----------------------------------------------------------------------------
(* Promotion: trees. *)

\* What the fields of a tree are.
LEMMA TreeFields ==
    ASSUME NEW R, NEW w
    PROVE  Tree(R, w).there /\ Tree(R, w).runs = R /\ Tree(R, w).whole = w
BY DEF Tree

\* A directory that is not there has no run and is not whole.
LEMMA AbsentFields ==
    Absent \in Dirs /\ ~Absent.there /\ ~Absent.whole /\ Absent.runs = {}
BY DEF Absent, Dirs

\* A tree of runs is a directory.
LEMMA TreesAreDirs ==
    ASSUME NEW R \in SUBSET Runs, NEW w \in BOOLEAN
    PROVE  Tree(R, w) \in Dirs
BY DEF Dirs, Tree

\* A whole directory is there, and breaking one leaves its runs.
LEMMA DirFields ==
    ASSUME NEW d \in Dirs
    PROVE  /\ d.there \in BOOLEAN /\ d.whole \in BOOLEAN /\ d.runs \subseteq Runs
           /\ d.whole => d.there
           /\ ~d.there => d = Absent
           /\ Broken(d) \in Dirs /\ Broken(d).there /\ ~Broken(d).whole
           /\ Broken(d).runs = d.runs
<1>1. Broken(d).there /\ ~Broken(d).whole /\ Broken(d).runs = d.runs
  BY TreeFields DEF Broken
<1>2. CASE d = Absent
  <2>1. d.runs = {} /\ ~d.there /\ ~d.whole
    BY <1>2, AbsentFields
  <2>2. d.there \in BOOLEAN /\ d.whole \in BOOLEAN
    BY <1>2 DEF Absent
  <2>3. Broken(d) \in Dirs
    BY <2>1, TreesAreDirs DEF Broken
  <2> QED
    BY <1>1, <1>2, <2>1, <2>2, <2>3
<1>3. CASE d \in [there : {TRUE}, runs : SUBSET Runs, whole : BOOLEAN]
  <2>1. d.there = TRUE /\ d.whole \in BOOLEAN /\ d.runs \in SUBSET Runs
    BY <1>3
  <2>2. Broken(d) \in Dirs
    BY <2>1, TreesAreDirs DEF Broken
  <2> QED
    BY <1>1, <2>1, <2>2
<1> QED
  BY <1>2, <1>3 DEF Dirs

\* A directory just made has no run and is not whole.
LEMMA EmptyFields ==
    Empty \in Dirs /\ Empty.there /\ ~Empty.whole /\ Empty.runs = {}
BY DEF Empty, Dirs, Tree

----------------------------------------------------------------------------
(* Fresh trees, whatever fails. *)

\* A project without a source has nothing stale.
LEMMA FreshInit == Init => FreshTrees
<1> SUFFICES ASSUME Init PROVE FreshTrees
  OBVIOUS
<1>1. source \in Dirs /\ staging \in Dirs /\ backup \in Dirs
  BY TreesAreDirs, AbsentFields DEF Init
<1>2. TypeOK
  BY <1>1, PromotionAssumption DEF Init, TypeOK, Fates, PromotePoints
<1>3. Promoted = {}
  BY DEF Init, Promoted
<1> QED
  BY <1>2, <1>3, AbsentFields DEF Init, FreshTrees, NoStaleSource

\* What TypeOK says of the three directories, so that their fields can be used.
LEMMA Directories ==
    ASSUME TypeOK
    PROVE  /\ source \in Dirs /\ staging \in Dirs /\ backup \in Dirs
           /\ source.whole => source.there
           /\ backup.whole => backup.there
           /\ source.runs \subseteq Runs /\ backup.runs \subseteq Runs
           /\ staging.runs \subseteq Runs
BY DirFields DEF TypeOK

\* A call under way is that of a run which is not promoted yet.
LEMMA CallUnderWay ==
    ASSUME TypeOK, pc \in PromotePoints
    PROVE  run \in Runs /\ fate[run] = "under way" /\ run \notin Promoted
BY DEF TypeOK, Promoted

\* When a call does not end, only its point changes.
LEMMA ProceedTypes ==
    ASSUME TypeOK, NEW point \in PromotePoints, pc \in PromotePoints, Proceed(point)
    PROVE  /\ pc' \in {"idle"} \cup EnsurePoints \cup PromotePoints
           /\ run' \in Runs \cup {NoRun} /\ ready' \in BOOLEAN
           /\ fate' \in [Runs -> Fates]
           /\ (run' # NoRun) <=> (pc' \in PromotePoints)
           /\ \A r \in Runs : (fate'[r] = "under way") <=> (r = run')
           /\ Promoted' = Promoted /\ run' = run
BY DEF TypeOK, Proceed, Promoted

\* When it ends, its run has a fate and the call is over.
LEMMA EndTypes ==
    ASSUME TypeOK, pc \in PromotePoints, NEW how \in {"returned", "raised"}, End(how)
    PROVE  /\ pc' \in {"idle"} \cup EnsurePoints \cup PromotePoints
           /\ run' \in Runs \cup {NoRun} /\ ready' \in BOOLEAN
           /\ fate' \in [Runs -> Fates]
           /\ (run' # NoRun) <=> (pc' \in PromotePoints)
           /\ \A r \in Runs : (fate'[r] = "under way") <=> (r = run')
           /\ Promoted' = IF how = "returned" THEN Promoted \cup {run} ELSE Promoted
<1>1. run \in Runs /\ fate[run] = "under way"
  BY CallUnderWay
<1>2. pc' = "idle" /\ "idle" \notin PromotePoints /\ run' = NoRun /\ ready' = FALSE
  BY DEF End, PromotePoints
<1>3. fate' \in [Runs -> Fates] /\ \A r \in Runs : fate'[r] = IF r = run THEN how ELSE fate[r]
  BY <1>1 DEF End, TypeOK, Fates
<1>4. \A r \in Runs : r # NoRun
  BY PromotionAssumption
<1>5. \A r \in Runs : (fate'[r] = "under way") <=> (r = run')
  BY <1>1, <1>2, <1>3, <1>4 DEF TypeOK
<1>6. Promoted' = IF how = "returned" THEN Promoted \cup {run} ELSE Promoted
  BY <1>1, <1>3 DEF Promoted
<1> QED
  BY <1>2, <1>3, <1>5, <1>6

\* What a step does to the types, action by action.
LEMMA EnsureTypes ==
    ASSUME TypeOK, Ensure \/ EnsureStep
    PROVE  TypeOK' /\ Promoted' = Promoted
<1>1. Promoted' = Promoted
  BY DEF Ensure, EnsureStep, Sweep, Recover, DropOrphan, MakeSource, Promoted
<1>2. run = NoRun /\ run' = run /\ fate' = fate /\ ready' \in BOOLEAN
  BY DEF Ensure, EnsureStep, Sweep, Recover, DropOrphan, MakeSource, TypeOK,
         PromotePoints
<1>3. pc' \in {"idle"} \cup EnsurePoints /\ pc' \notin PromotePoints
  BY DEF Ensure, EnsureStep, Sweep, Recover, DropOrphan, MakeSource,
         PromotePoints, EnsurePoints
<1>4. source' \in {source, backup, Empty}
  BY DEF Ensure, dirs, EnsureStep, Sweep, Recover, DropOrphan, MakeSource
<1>5. staging' \in {staging, Absent, Broken(staging)}
  BY DEF Ensure, dirs, EnsureStep, Sweep, Recover, DropOrphan, MakeSource
<1>6. backup' \in {backup, Absent, Broken(backup)}
  BY DEF Ensure, dirs, EnsureStep, Sweep, Recover, DropOrphan, MakeSource
<1>7. source \in Dirs /\ staging \in Dirs /\ backup \in Dirs
  BY DEF TypeOK
<1>8. source' \in Dirs /\ staging' \in Dirs /\ backup' \in Dirs
  BY <1>4, <1>5, <1>6, <1>7, DirFields, AbsentFields, EmptyFields
<1> QED
  BY <1>1, <1>2, <1>3, <1>8 DEF TypeOK

\* Each step of a promotion leaves directories.
LEMMA PromotionTypes ==
    ASSUME TypeOK, PromotionStep
    PROVE  TypeOK'
<1>1. pc \in PromotePoints
  BY DEF PromotionStep, BeginStaging, Stage, Retire, Swap, DropBackup, Rollback,
         Restore, Cleanup, PromotePoints
<1>2. run \in Runs
  BY <1>1, CallUnderWay
<1>3. staging' \in {staging, Absent, Empty, Broken(staging),
                    Tree(source.runs \cup {run}, source.whole)}
  BY DEF PromotionStep, BeginStaging, Stage, Retire, Swap, DropBackup, Rollback,
         Restore, Cleanup
<1>4. source' \in {source, staging, backup, Absent, Broken(source)}
  BY DEF PromotionStep, BeginStaging, Stage, Retire, Swap, DropBackup, Rollback,
         Restore, Cleanup
<1>5. backup' \in {backup, source, Absent, Broken(backup)}
  BY DEF PromotionStep, BeginStaging, Stage, Retire, Swap, DropBackup, Rollback,
         Restore, Cleanup
<1>6. source \in Dirs /\ staging \in Dirs /\ backup \in Dirs
  BY DEF TypeOK
<1>7. Tree(source.runs \cup {run}, source.whole) \in Dirs
  BY <1>2, <1>6, DirFields, TreesAreDirs
<1>8. source' \in Dirs /\ staging' \in Dirs /\ backup' \in Dirs
  BY <1>3, <1>4, <1>5, <1>6, <1>7, DirFields, AbsentFields, EmptyFields
<1>9. (\E point \in PromotePoints : Proceed(point))
         \/ (\E how \in {"returned", "raised"} : End(how))
  BY DEF PromotionStep, BeginStaging, Stage, Retire, Swap, DropBackup, Rollback,
         Restore, Cleanup, PromotePoints, Raise
<1>10. CASE \E point \in PromotePoints : Proceed(point)
  BY <1>1, <1>8, <1>10, ProceedTypes DEF TypeOK
<1>11. CASE \E how \in {"returned", "raised"} : End(how)
  BY <1>1, <1>8, <1>11, EndTypes DEF TypeOK
<1> QED
  BY <1>9, <1>10, <1>11

\* So does its beginning, which returns nothing yet.
LEMMA BeginTypes ==
    ASSUME TypeOK, NEW r \in Runs, Promote(r)
    PROVE  TypeOK' /\ Promoted' = Promoted
<1>1. pc' = "staging" /\ run' = r /\ UNCHANGED <<dirs, ready>>
  BY DEF Promote
<1>2. fate' = [fate EXCEPT ![r] = "under way"] /\ fate[r] = "none"
  BY DEF Promote
<1>3. run = NoRun /\ \A q \in Runs : fate[q] # "under way"
  BY PromotionAssumption DEF Promote, TypeOK, PromotePoints
<1>4. fate' \in [Runs -> Fates] /\ \A q \in Runs : (fate'[q] = "under way") <=> (q = r)
  BY <1>2, <1>3 DEF TypeOK, Fates
<1>5. Promoted' = Promoted
  BY <1>2 DEF TypeOK, Promoted
<1> QED
  BY <1>1, <1>4, <1>5, PromotionAssumption DEF TypeOK, PromotePoints, dirs

\* So does a crash, which returns nothing.
LEMMA CrashTypes ==
    ASSUME TypeOK, Crash
    PROVE  TypeOK' /\ Promoted' = Promoted
<1>1. fate' \in [Runs -> Fates] /\ \A r \in Runs : fate'[r] # "under way"
  BY DEF Crash, TypeOK, Fates
<1>2. \A r \in Runs : r # NoRun
  BY PromotionAssumption
<1>3. Promoted' = Promoted
  BY DEF Crash, TypeOK, Promoted
<1> QED
  BY <1>1, <1>2, <1>3 DEF Crash, TypeOK, PromotePoints, dirs

\* A stutter and the disjuncts of Next: every step keeps the types.
LEMMA Types ==
    ASSUME TypeOK, [Next]_vars
    PROVE  TypeOK'
<1>1. CASE UNCHANGED vars
  BY <1>1 DEF TypeOK, vars, dirs
<1>2. CASE Next
  BY <1>2, EnsureTypes, PromotionTypes, BeginTypes, CrashTypes DEF Next
<1> QED
  BY <1>1, <1>2

----------------------------------------------------------------------------
(* Whatever fails, no stale source. *)

\* No step, failure or crash puts an older tree before a newer one.
LEMMA FreshStep == FreshTrees /\ [Next]_vars => FreshTrees'
<1> SUFFICES ASSUME FreshTrees, [Next]_vars PROVE FreshTrees'
  OBVIOUS
<1>1. TypeOK /\ TypeOK'
  BY Types DEF FreshTrees
<1>2. /\ source \in Dirs /\ staging \in Dirs /\ backup \in Dirs
      /\ source.whole => source.there /\ Promoted \subseteq source.runs
      /\ backup.whole => backup.there /\ Promoted \subseteq backup.runs
  BY <1>1, Directories DEF FreshTrees, NoStaleSource
<1>3. pc \in PromotePoints => run \in Runs /\ run \notin Promoted
  BY <1>1, CallUnderWay
<1>4. CASE Promoted' = Promoted /\ UNCHANGED dirs /\ pc' \notin {"retiring", "swapping", "dropping"}
  BY <1>1, <1>2, <1>4 DEF FreshTrees, NoStaleSource, dirs
<1>5. CASE UNCHANGED vars
  <2>1. Promoted' = Promoted
    BY <1>5 DEF vars, Promoted
  <2> QED
    BY <1>1, <1>5, <2>1 DEF FreshTrees, NoStaleSource, vars, dirs
<1>6. CASE Ensure \/ EnsureStep
  <2>1. Promoted' = Promoted
    BY <1>1, <1>6, EnsureTypes
  <2>2. pc' \notin {"retiring", "swapping", "dropping"}
    BY <1>6 DEF Ensure, EnsureStep, Sweep, Recover, DropOrphan, MakeSource
  <2>3. source' \in {source, backup, Empty}
    BY <1>6 DEF Ensure, dirs, EnsureStep, Sweep, Recover, DropOrphan, MakeSource
  <2>4. backup' \in {backup, Absent, Broken(backup)}
    BY <1>6 DEF Ensure, dirs, EnsureStep, Sweep, Recover, DropOrphan, MakeSource
  <2>5. source'.whole => Promoted \subseteq source'.runs
    BY <1>2, <2>3, EmptyFields
  <2>6. backup'.whole => Promoted \subseteq backup'.runs
    BY <1>2, <2>4, AbsentFields, DirFields
  <2> QED
    BY <1>1, <2>1, <2>2, <2>5, <2>6 DEF FreshTrees, NoStaleSource
<1>7. CASE \E r \in Runs : Promote(r)
  <2>1. PICK r \in Runs : Promote(r)
    BY <1>7
  <2>2. Promoted' = Promoted
    BY <1>1, <2>1, BeginTypes
  <2> QED
    BY <1>4, <2>1, <2>2 DEF Promote
<1>8. CASE Crash
  BY <1>1, <1>4, <1>8, CrashTypes DEF Crash
<1>9. CASE Swap
  <2>1. pc = "swapping" /\ pc \in PromotePoints /\ backup' = backup /\ Promoted' = Promoted
    BY <1>9 DEF Swap, PromotePoints, Proceed, Promoted
  <2>2. CASE source' = staging /\ pc' = "dropping" /\ run' = run
    <3>1. staging.whole => Promoted \cup {run} \subseteq staging.runs
      BY <2>1 DEF FreshTrees
    <3> QED
      BY <1>1, <1>2, <2>1, <2>2, <3>1 DEF FreshTrees, NoStaleSource
  <2>3. CASE source' = source /\ pc' = "rollback"
    BY <1>1, <1>2, <2>1, <2>3 DEF FreshTrees, NoStaleSource
  <2> QED
    BY <1>9, <2>2, <2>3 DEF Swap, Proceed
<1>10. CASE Stage
  <2>1. pc \in PromotePoints /\ source' = source /\ backup' = backup /\ Promoted' = Promoted
    BY <1>10 DEF Stage, PromotePoints, Proceed, Promoted
  <2>2. CASE staging' = Tree(source.runs \cup {run}, source.whole) /\ pc' = "retiring" /\ run' = run
    <3>1. staging'.whole => Promoted \cup {run} \subseteq staging'.runs
      BY <1>2, <2>2, TreeFields
    <3> QED
      BY <1>1, <1>2, <2>1, <2>2, <3>1 DEF FreshTrees, NoStaleSource
  <2>3. CASE pc' = "rollback"
    BY <1>1, <1>2, <2>1, <2>3 DEF FreshTrees, NoStaleSource
  <2> QED
    BY <1>10, <2>2, <2>3 DEF Stage, Proceed
<1>11. CASE Retire
  <2>1. /\ pc = "retiring" /\ staging' = staging /\ run' = run /\ Promoted' = Promoted
        /\ pc' \in {"swapping", "rollback"}
        /\ source' \in {source, Absent} /\ backup' \in {backup, source}
    BY <1>11 DEF Retire, Proceed, Promoted
  <2> QED
    BY <1>1, <1>2, <2>1, AbsentFields DEF FreshTrees, NoStaleSource
<1>12. CASE DropBackup
  <2>1. pc = "dropping" /\ source' = source
    BY <1>12 DEF DropBackup
  <2>2. source.whole => run \in source.runs
    BY <2>1 DEF FreshTrees
  <2>3. CASE backup' \in {backup, Broken(backup)} /\ run' = run /\ fate' = fate
             /\ pc' \in {"dropping", "rollback"}
    <3>1. Promoted' = Promoted
      BY <2>3 DEF Promoted
    <3>2. backup'.whole => Promoted \subseteq backup'.runs
      BY <1>2, <2>3, DirFields
    <3> QED
      BY <1>1, <1>2, <2>1, <2>2, <2>3, <3>1, <3>2 DEF FreshTrees, NoStaleSource
  <2>4. CASE backup' = Absent /\ End("returned")
    <3>1. Promoted' = Promoted \cup {run}
      BY <1>1, <2>1, <2>4, EndTypes DEF PromotePoints
    <3>2. pc' = "idle"
      BY <2>4 DEF End
    <3> QED
      BY <1>1, <1>2, <2>1, <2>2, <2>4, <3>1, <3>2, AbsentFields
      DEF FreshTrees, NoStaleSource
  <2> QED
    BY <1>12, <2>3, <2>4 DEF DropBackup, Proceed
<1>13. CASE BeginStaging \/ Rollback \/ Restore \/ Cleanup
  <2>1. pc \in PromotePoints
    BY <1>13 DEF BeginStaging, Rollback, Restore, Cleanup, PromotePoints
  <2>2. Promoted' = Promoted
    <3>1. (\E point \in PromotePoints : Proceed(point)) \/ End("raised")
      BY <1>13 DEF BeginStaging, Rollback, Restore, Cleanup, PromotePoints, Raise
    <3> QED
      BY <1>1, <2>1, <3>1, EndTypes, ProceedTypes
  <2>3. pc' \notin {"retiring", "swapping", "dropping"}
    BY <1>13 DEF BeginStaging, Rollback, Restore, Cleanup, Proceed, Raise, End
  <2>4. source' \in {source, backup, Absent, Broken(source)}
    BY <1>13 DEF BeginStaging, Rollback, Restore, Cleanup
  <2>5. backup' \in {backup, Absent, Broken(backup)}
    BY <1>13 DEF BeginStaging, Rollback, Restore, Cleanup
  <2>6. source'.whole => Promoted \subseteq source'.runs
    BY <1>2, <2>4, AbsentFields, DirFields
  <2>7. backup'.whole => Promoted \subseteq backup'.runs
    BY <1>2, <2>5, AbsentFields, DirFields
  <2> QED
    BY <1>1, <2>2, <2>3, <2>6, <2>7 DEF FreshTrees, NoStaleSource
<1> QED
  BY <1>5, <1>6, <1>7, <1>8, <1>9, <1>10, <1>11, <1>12, <1>13 DEF Next, PromotionStep

\* A source with all of its files has every run whose promotion returned: an
\* older tree never takes the place of a newer one, whichever operations of
\* promote_workspace_to_source or of the recovery fail.
THEOREM OlderTreesStayBehind == Spec => []NoStaleSource
<1>1. FreshTrees => NoStaleSource
  BY DEF FreshTrees
<1> QED
  BY FreshInit, FreshStep, <1>1, PTL DEF Spec

----------------------------------------------------------------------------
(* When the removal of the backup and the rename of the recovery do not     *)
(* fail, a tree to go on with is always there.                              *)

\* The fields of the trees that actions make.
LEMMA Made ==
    /\ ~Absent.there /\ ~Absent.whole /\ Absent.runs = {}
    /\ \A d : Broken(d).there /\ ~Broken(d).whole /\ Broken(d).runs = d.runs
    /\ \A R, w : Tree(R, w).there /\ Tree(R, w).runs = R /\ Tree(R, w).whole = w
BY AbsentFields, TreeFields DEF Broken

\* Every step leaves one of the two trees to go on with.
LEMMA OneTreeStep ==
    ASSUME Survivable, PromotionInv, [Next]_vars
    PROVE  OneTree'
<1>1. OneTree
  BY DEF PromotionInv
<1>2. "drop" \notin Faults /\ "recover" \notin Faults
  BY DEF Survivable
<1>3. CASE UNCHANGED vars
  BY <1>1, <1>3 DEF OneTree, vars, dirs
<1>4. CASE Ensure
  BY <1>1, <1>4 DEF Ensure, OneTree, dirs
<1>5. CASE Sweep
  BY <1>1, <1>5 DEF Sweep, OneTree
<1>6. CASE Recover
  BY <1>1, <1>2, <1>6, Made DEF Recover, OneTree
<1>7. CASE DropOrphan
  BY <1>1, <1>7, Made DEF DropOrphan, OneTree
<1>8. CASE MakeSource
  BY <1>1, <1>8 DEF MakeSource, OneTree
<1>9. CASE \E r \in Runs : Promote(r)
  BY <1>1, <1>9 DEF Promote, OneTree, dirs
<1>10. CASE BeginStaging
  BY <1>1, <1>10, Made DEF BeginStaging, OneTree, Proceed, Raise, End
<1>11. CASE Stage
  BY <1>1, <1>11 DEF Stage, OneTree, Proceed
<1>12. CASE Retire
  BY <1>1, <1>12, Made DEF Retire, OneTree, Proceed
<1>13. CASE Swap
  BY <1>1, <1>13 DEF Swap, OneTree, Proceed, PromotionInv, StagingAddsRun
<1>14. CASE DropBackup
  BY <1>1, <1>2, <1>14, Made DEF DropBackup, OneTree, Proceed, End
<1>15. CASE Rollback
  BY <1>1, <1>15 DEF Rollback, OneTree, Proceed
<1>16. CASE Restore
  BY <1>1, <1>16, Made DEF Restore, OneTree, Proceed, Raise, End
<1>17. CASE Cleanup
  BY <1>1, <1>17 DEF Cleanup, OneTree, Raise, End
<1>18. CASE Crash
  BY <1>1, <1>18 DEF Crash, OneTree, dirs
<1> QED
  BY <1>3, <1>4, <1>5, <1>6, <1>7, <1>8, <1>9, <1>10, <1>11, <1>12, <1>13, <1>14,
     <1>15, <1>16, <1>17, <1>18 DEF Next, EnsureStep, PromotionStep

\* Until the swap the staging tree is the tree it will replace with one run more.
LEMMA StagingStep ==
    ASSUME PromotionInv, [Next]_vars
    PROVE  StagingAddsRun'
<1>1. OneTree /\ StagingAddsRun
  BY DEF PromotionInv
<1>2. CASE UNCHANGED vars
  BY <1>1, <1>2 DEF StagingAddsRun, Surviving, vars, dirs
<1>3. CASE Stage
  BY <1>1, <1>3, Made DEF Stage, StagingAddsRun, OneTree, Surviving, Proceed
<1>4. CASE Retire
  BY <1>1, <1>4, Made DEF Retire, StagingAddsRun, OneTree, Surviving, Proceed
<1>5. CASE ~(Stage \/ Retire) /\ Next
  <2>1. pc' \notin {"retiring", "swapping"}
    BY <1>5 DEF Next, Ensure, EnsureStep, Sweep, Recover, DropOrphan, MakeSource,
       Promote, PromotionStep, BeginStaging, Swap, DropBackup, Rollback, Restore,
       Cleanup, Proceed, Raise, End, Crash
  <2> QED
    BY <2>1 DEF StagingAddsRun
<1> QED
  BY <1>2, <1>3, <1>4, <1>5

\* A promotion that raises has removed its run from every tree that is kept.
LEMMA RefusalStep ==
    ASSUME Survivable, PromotionInv, [Next]_vars
    PROVE  NothingRefused'
<1>1. OneTree /\ NothingRefused /\ StagingAddsRun
  BY DEF PromotionInv
<1>2. "drop" \notin Faults /\ "recover" \notin Faults
  BY DEF Survivable
<1>3. TypeOK /\ TypeOK'
  BY Types DEF PromotionInv, FreshTrees
<1>4. /\ source.runs \subseteq Runs /\ backup.runs \subseteq Runs
      /\ \A r \in Runs : r # NoRun /\ (fate[r] = "under way" <=> r = run)
      /\ fate \in [Runs -> Fates]
      /\ pc \in PromotePoints => run \in Runs
  BY <1>3, Directories, PromotionAssumption DEF TypeOK
<1>5. CASE UNCHANGED vars
  BY <1>1, <1>5 DEF NothingRefused, Kept, vars, dirs
<1>6. CASE Ensure \/ Sweep
  BY <1>1, <1>6 DEF Ensure, Sweep, NothingRefused, Kept, dirs
<1>7. CASE Recover
  BY <1>1, <1>2, <1>7, Made DEF Recover, NothingRefused, Kept
<1>8. CASE DropOrphan
  BY <1>1, <1>8, Made DEF DropOrphan, NothingRefused, Kept
<1>9. CASE MakeSource
  BY <1>1, <1>9 DEF MakeSource, NothingRefused, Kept, OneTree
<1>10. CASE \E r \in Runs : Promote(r)
  <2>1. PICK r \in Runs : Promote(r)
    BY <1>10
  <2>2. \A q \in Runs : fate[q] \in {"returned", "cut off"} => fate'[q] = fate[q]
    BY <1>4, <2>1 DEF Promote
  <2> QED
    BY <1>1, <1>4, <2>1, <2>2 DEF Promote, NothingRefused, Kept, dirs
<1>11. CASE Crash
  <2>1. \A r \in Runs : fate'[r] = IF r = run THEN "cut off" ELSE fate[r]
    BY <1>11 DEF Crash
  <2> QED
    BY <1>1, <1>4, <1>11, <2>1 DEF Crash, NothingRefused, Kept, dirs
<1>12. CASE Stage \/ Rollback
  BY <1>1, <1>12, Made DEF Stage, Rollback, Proceed, NothingRefused, Kept, OneTree
<1>13. CASE Retire
  BY <1>1, <1>13, Made DEF Retire, Proceed, NothingRefused, Kept
<1>14. CASE Swap
  BY <1>1, <1>14, Made DEF Swap, Proceed, NothingRefused, Kept, StagingAddsRun,
     OneTree, Surviving
<1>15. CASE DropBackup
  <2>1. CASE UNCHANGED <<source, run, fate>> /\ backup' = Broken(backup) /\ pc' = pc
    BY <1>1, <2>1, Made DEF NothingRefused, Kept
  <2>2. CASE backup' = Absent /\ End("returned")
    <3>1. pc = "dropping" /\ source' = source /\ pc' = "idle"
      BY <1>15, <2>2 DEF DropBackup, End
    <3>2. \A r \in Runs : fate'[r] = IF r = run THEN "returned" ELSE fate[r]
      BY <1>4, <2>2 DEF End
    <3> QED
      BY <1>1, <1>4, <2>2, <3>1, <3>2, Made DEF NothingRefused, Kept
  <2> QED
    BY <1>2, <1>15, <2>1, <2>2 DEF DropBackup, Proceed
<1>16. CASE BeginStaging \/ Restore \/ Cleanup
  <2>1. pc \in PromotePoints /\ pc # "dropping" /\ pc' # "dropping"
    BY <1>16 DEF BeginStaging, Restore, Cleanup, PromotePoints, Proceed, Raise, End
  <2>2. source'.runs \in {source.runs, backup.runs, {}}
    BY <1>16, Made DEF BeginStaging, Restore, Cleanup
  <2>3. backup'.runs \in {backup.runs, {}}
    BY <1>16, Made DEF BeginStaging, Restore, Cleanup
  <2>4. (\E point \in PromotePoints : Proceed(point)) \/ End("raised")
    BY <1>16 DEF BeginStaging, Restore, Cleanup, PromotePoints, Raise
  <2>5. \A r \in Runs : fate[r] \in {"returned", "cut off"} => fate'[r] = fate[r]
    BY <1>4, <2>1, <2>4 DEF Proceed, End
  <2> QED
    BY <1>1, <1>4, <2>1, <2>2, <2>3, <2>5 DEF NothingRefused, Kept
<1> QED
  BY <1>5, <1>6, <1>7, <1>8, <1>9, <1>10, <1>11, <1>12, <1>13, <1>14, <1>15, <1>16
  DEF Next, EnsureStep, PromotionStep

\* The inductive invariant, given that the two removals and renames succeed.
THEOREM PromotionInvariance ==
    ASSUME Survivable
    PROVE  Spec => []PromotionInv
<1>1. Init => PromotionInv
  <2> SUFFICES ASSUME Init PROVE PromotionInv
    OBVIOUS
  <2>1. FreshTrees
    BY FreshInit
  <2>2. OneTree /\ NothingRefused /\ StagingAddsRun
    BY Made DEF Init, OneTree, NothingRefused, Kept, StagingAddsRun
  <2> QED
    BY <2>1, <2>2 DEF PromotionInv
<1>2. PromotionInv /\ [Next]_vars => PromotionInv'
  BY FreshStep, OneTreeStep, RefusalStep, StagingStep DEF PromotionInv
<1> QED
  BY <1>1, <1>2, PTL DEF Spec

\* What ensure_project_storage leaves to the readers of the source is whole,
\* with every promoted overlay and none that was refused.
THEOREM ReadersFindASoundSource ==
    ASSUME Survivable
    PROVE  Spec => []SourceIsSound
<1>1. PromotionInv => SourceIsSound
  BY DEF PromotionInv, FreshTrees, NoStaleSource, OneTree, NothingRefused, Kept,
     SourceIsSound, AtRest, Refused
<1> QED
  BY <1>1, PromotionInvariance, PTL

\* At every point of a promotion, of its rollback and of the recovery, a whole
\* tree with every promoted overlay is on disk.
THEOREM NothingPromotedIsLost ==
    ASSUME Survivable
    PROVE  Spec => []SomeTreeSurvives
<1>1. PromotionInv => SomeTreeSurvives
  BY DEF PromotionInv, FreshTrees, NoStaleSource, OneTree, SomeTreeSurvives
<1> QED
  BY <1>1, PromotionInvariance, PTL

----------------------------------------------------------------------------
(* The refinement: the renames of a promotion add a run at once.            *)

\* A step adds at most one run to the tree a recovery would come to, and takes
\* none away.
LEMMA OneRunAtATime ==
    ASSUME Survivable, PromotionInv, [Next]_vars
    PROVE  [Atomically!Next]_(Surviving.runs)
<1>1. OneTree /\ StagingAddsRun /\ TypeOK
  BY DEF PromotionInv, FreshTrees
<1>2. "drop" \notin Faults /\ "recover" \notin Faults
  BY DEF Survivable
<1>3. CASE Swap
  <2>1. run \in Runs /\ pc = "swapping"
    BY <1>1, <1>3, CallUnderWay DEF Swap, PromotePoints
  <2>2. Surviving.runs' \in {Surviving.runs, Surviving.runs \cup {run}}
    BY <1>1, <1>3, <2>1 DEF Swap, StagingAddsRun, Surviving
  <2> QED
    BY <2>1, <2>2 DEF Atomically!Next, Atomically!Apply
<1>4. CASE UNCHANGED vars \/ Ensure \/ Sweep \/ Crash \/ \E r \in Runs : Promote(r)
  BY <1>4 DEF vars, Ensure, Sweep, Crash, Promote, dirs, Surviving
<1>5. CASE Recover
  BY <1>1, <1>2, <1>5, Made DEF Recover, OneTree, Surviving
<1>6. CASE DropOrphan \/ MakeSource
  BY <1>1, <1>6 DEF DropOrphan, MakeSource, OneTree, Surviving
<1>7. CASE BeginStaging \/ Stage
  BY <1>1, <1>7 DEF BeginStaging, Stage, OneTree, Surviving
<1>8. CASE Retire
  BY <1>1, <1>8, Made DEF Retire, OneTree, Surviving
<1>9. CASE DropBackup
  BY <1>1, <1>9 DEF DropBackup, OneTree, Surviving
<1>10. CASE Rollback
  BY <1>1, <1>10 DEF Rollback, OneTree, Surviving
<1>11. CASE Restore
  BY <1>1, <1>11, Made DEF Restore, OneTree, Surviving
<1>12. CASE Cleanup
  BY <1>12 DEF Cleanup, Surviving
<1> QED
  BY <1>3, <1>4, <1>5, <1>6, <1>7, <1>8, <1>9, <1>10, <1>11, <1>12
  DEF Next, EnsureStep, PromotionStep

\* The tree a recovery would come to changes as SourceTree says: by one run at
\* a time, at once, wherever the process dies.
THEOREM SwapIsAtomic ==
    ASSUME Survivable
    PROVE  Spec => ImplementsSourceTree
<1>1. Init => Atomically!Init
  BY Made DEF Init, Atomically!Init, Surviving
<1>2. PromotionInv /\ [Next]_vars => [Atomically!Next]_(Surviving.runs)
  BY OneRunAtATime
<1> QED
  BY <1>1, <1>2, PromotionInvariance, PTL DEF Spec, ImplementsSourceTree, Atomically!Spec
============================================================================
