------------------------ MODULE RecoveryChain_proofs ------------------------
(***************************************************************************)
(* Theorems about RecoveryChain, for every set of rows, every shape of the *)
(* plan and every number of tasks that a decision may create.              *)
(***************************************************************************)
EXTENDS RecoveryChain, FiniteSetTheorems, WellFoundedInduction, TLAPS

----------------------------------------------------------------------------
(* The invariant holds at first. *)

\* The rows of the plan come from no recovery.
LEMMA ChainInvInit == Init => ChainInv
<1> SUFFICES ASSUME Init PROVE ChainInv
  OBVIOUS
<1>1. TypeOK
  BY RecoveryAssumption DEF Init, TypeOK, Results, Replaced
<1>2. AbsentIsBlank /\ OutcomeIsStatus
  BY DEF Init, AbsentIsBlank, OutcomeIsStatus, Exists, Troubled
<1>3. FollowupsHaveASource /\ RecoveriesHaveASource /\ DepthIsCapped
  BY DEF Init, FollowupsHaveASource, RecoveriesHaveASource, DepthIsCapped,
         MaxFollowupDepth
<1>4. SourceStaysReplaced /\ FollowupContinuesPartialWork /\ ReplacementIsNotReplaced
  BY DEF Init, SourceStaysReplaced, FollowupContinuesPartialWork,
         ReplacementIsNotReplaced
<1> QED
  BY <1>1, <1>2, <1>3, <1>4 DEF ChainInv

----------------------------------------------------------------------------
(* What the corrections leave of a decision. *)

\* A task is reatomized only if it does not replace another, and followed up
\* only if it was done in part and its own depth is below the cap.
LEMMA Corrected ==
    ASSUME NEW t \in Tasks, NEW proposed \in Actions, TypeOK, Troubled(t)
    PROVE  /\ EffectiveAction(t, proposed) \in Actions
           /\ EffectiveAction(t, proposed) = "reatomize" => t \notin recovery
           /\ EffectiveAction(t, proposed) = "insert_followup" =>
                 state[t] = "partial" /\ depth[t] < MaxFollowupDepth
<1>1. depth[t] \in Nat
  BY DEF TypeOK
<1> QED
  BY <1>1 DEF EffectiveAction, RepetitionCap, DepthCap, AntiCascade,
              NothingToFollowUp, Actions, Troubled, MaxFollowupDepth

\* The row a task comes from is a row, is closed, and is not run again.
LEMMA SourceIsClosed ==
    ASSUME ChainInv, NEW t \in Tasks, source[t] # NoTask
    PROVE  /\ source[t] \in Tasks
           /\ state[source[t]] \in Replaced
           /\ Exists(source[t]) /\ ~Troubled(source[t])
           /\ state[source[t]] # "pending"
BY DEF ChainInv, TypeOK, SourceStaysReplaced, Replaced, Exists, Troubled

----------------------------------------------------------------------------
(* Steps that create no row. *)

\* The status of one row that is pending, failed or done in part becomes a
\* status a row at work can have.
LEMMA StatusStep ==
    ASSUME ChainInv, NEW t \in Tasks,
           NEW s \in {"pending"} \cup Results,
           state[t] = "pending" \/ Troubled(t),
           state' = [state EXCEPT ![t] = s],
           outcome' = IF s = "pending" THEN outcome ELSE [outcome EXCEPT ![t] = s],
           decided' \subseteq Tasks,
           UNCHANGED rows
    PROVE  ChainInv'
<1>1. TypeOK
  BY DEF ChainInv
<1>2. TypeOK'
  BY <1>1 DEF TypeOK, rows, Results
<1>3. Exists(t)
  BY DEF Exists, Troubled
<1>4. ASSUME NEW u \in Tasks PROVE Exists(u)' <=> Exists(u)
  BY <1>1, <1>3 DEF Exists, TypeOK, Results
<1>5. AbsentIsBlank'
  BY <1>4 DEF ChainInv, AbsentIsBlank, rows
<1>6. OutcomeIsStatus'
  BY <1>1 DEF ChainInv, OutcomeIsStatus, Troubled, TypeOK, Results
<1>7. (FollowupsHaveASource /\ RecoveriesHaveASource /\ DepthIsCapped
         /\ ReplacementIsNotReplaced)'
  BY DEF ChainInv, FollowupsHaveASource, RecoveriesHaveASource, DepthIsCapped,
         ReplacementIsNotReplaced, rows
<1>8. ASSUME NEW u \in Tasks, source[u] # NoTask
      PROVE  source[u] # t /\ state'[source[u]] = state[source[u]]
                           /\ outcome'[source[u]] = outcome[source[u]]
  BY <1>1, <1>8, SourceIsClosed DEF TypeOK
<1>9. SourceStaysReplaced'
  BY <1>8 DEF ChainInv, SourceStaysReplaced, rows
<1>10. FollowupContinuesPartialWork'
  BY <1>8 DEF ChainInv, FollowupContinuesPartialWork, FollowupsHaveASource, rows
<1> QED
  BY <1>2, <1>5, <1>6, <1>7, <1>9, <1>10 DEF ChainInv

----------------------------------------------------------------------------
(* Steps that create rows. *)

\* N are the rows one decision about t creates; the facts are those that
\* Materialize has with the decision as it was corrected.
LEMMA CreationStep ==
    ASSUME ChainInv, NEW t \in Tasks, Troubled(t),
           NEW action \in {"reatomize", "insert_followup"},
           action = "reatomize" => t \notin recovery,
           action = "insert_followup" =>
              state[t] = "partial" /\ depth[t] < MaxFollowupDepth,
           NEW N \in SUBSET {u \in Tasks : ~Exists(u)},
           MarkSource(t, N, action),
           parent' = [u \in Tasks |-> IF u \in N THEN parent[t] ELSE parent[u]],
           recovery' = IF action = "reatomize" THEN recovery \cup N ELSE recovery,
           depth' = [u \in Tasks |->
                       IF u \in N /\ action = "insert_followup"
                       THEN depth[t] + 1 ELSE depth[u]],
           source' = [u \in Tasks |-> IF u \in N THEN t ELSE source[u]],
           decided' = decided \cup {t},
           UNCHANGED outcome
    PROVE  ChainInv'
<1>1. TypeOK /\ t \notin N /\ N \subseteq Tasks
  BY DEF ChainInv, Exists, Troubled
<1>2. depth[t] \in Nat /\ parent[t] \in Parents \cup {NoTask}
  BY <1>1 DEF TypeOK
<1>3. /\ state'[t] \in Replaced
      /\ \A u \in N : state'[u] = "pending"
      /\ \A u \in Tasks \ (N \cup {t}) : state'[u] = state[u]
  BY <1>1 DEF MarkSource, Replaced
<1>4. TypeOK'
  <2>1. state' \in [Tasks -> {"absent", "pending"} \cup Results \cup Replaced]
    BY <1>1 DEF MarkSource, TypeOK, Replaced
  <2>2. depth' \in [Tasks -> Nat]
    BY <1>1, <1>2 DEF TypeOK
  <2>3. parent' \in [Tasks -> Parents \cup {NoTask}]
    BY <1>1, <1>2 DEF TypeOK
  <2> QED
    BY <1>1, <2>1, <2>2, <2>3 DEF TypeOK
<1>5. ASSUME NEW u \in Tasks PROVE Exists(u)' <=> Exists(u) \/ u \in N
  BY <1>1, <1>3 DEF Exists, Replaced, Troubled
<1>6. AbsentIsBlank'
  BY <1>1, <1>5 DEF ChainInv, AbsentIsBlank
<1>7. OutcomeIsStatus'
  <2> SUFFICES ASSUME NEW u \in Tasks, Troubled(u)' PROVE outcome'[u] = state'[u]
    BY DEF OutcomeIsStatus
  <2>1. u \notin N /\ u # t
    BY <1>3 DEF Troubled, Replaced
  <2> QED
    BY <1>3, <2>1 DEF ChainInv, OutcomeIsStatus, Troubled
<1>8. FollowupsHaveASource' /\ RecoveriesHaveASource'
  BY <1>1, RecoveryAssumption
  DEF ChainInv, FollowupsHaveASource, RecoveriesHaveASource, TypeOK
<1>9. DepthIsCapped'
  BY <1>1, <1>2 DEF ChainInv, DepthIsCapped, MaxFollowupDepth, TypeOK
<1>10. SourceStaysReplaced'
  <2> SUFFICES ASSUME NEW u \in Tasks, source'[u] # NoTask
               PROVE  state'[source'[u]] \in Replaced
    BY DEF SourceStaysReplaced
  <2>1. CASE u \in N
    BY <1>1, <1>3, <2>1
  <2>2. CASE u \notin N
    <3>1. source'[u] = source[u] /\ source[u] # NoTask
      BY <2>2
    <3>2. source[u] \in Tasks /\ state[source[u]] \in Replaced /\ source[u] \notin N
      BY <3>1, SourceIsClosed DEF Exists
    <3> QED
      BY <1>3, <3>1, <3>2
  <2> QED
    BY <2>1, <2>2
<1>11. FollowupContinuesPartialWork'
  <2> SUFFICES ASSUME NEW u \in Tasks, depth'[u] > 0
               PROVE  outcome[source'[u]] = "partial"
    BY DEF FollowupContinuesPartialWork
  <2>1. CASE u \in N
    <3>1. depth[u] = 0
      BY <2>1 DEF ChainInv, AbsentIsBlank
    <3>2. action = "insert_followup"
      BY <2>1, <3>1
    <3> QED
      BY <2>1, <3>2 DEF ChainInv, OutcomeIsStatus, Troubled
  <2>2. CASE u \notin N
    BY <2>2 DEF ChainInv, FollowupContinuesPartialWork
  <2> QED
    BY <2>1, <2>2
<1>12. ReplacementIsNotReplaced'
  <2> SUFFICES ASSUME NEW u \in recovery' PROVE source'[u] \notin recovery'
    BY DEF ReplacementIsNotReplaced
  <2>1. u \in Tasks
    BY <1>1 DEF TypeOK
  <2>2. CASE u \in N
    <3>1. u \notin recovery
      BY <2>2 DEF ChainInv, AbsentIsBlank
    <3>2. t \notin recovery /\ t \notin N /\ source'[u] = t
      BY <1>1, <2>1, <2>2, <3>1
    <3> QED
      BY <3>2
  <2>3. CASE u \notin N
    <3>1. u \in recovery /\ source'[u] = source[u]
      BY <2>1, <2>3
    <3>2. source[u] # NoTask /\ source[u] \notin recovery
      BY <3>1 DEF ChainInv, RecoveriesHaveASource, ReplacementIsNotReplaced
    <3>3. source[u] \notin N
      BY <2>1, <3>2, SourceIsClosed
    <3> QED
      BY <3>1, <3>2, <3>3
  <2> QED
    BY <2>2, <2>3
<1> QED
  BY <1>4, <1>6, <1>7, <1>8, <1>9, <1>10, <1>11, <1>12 DEF ChainInv

----------------------------------------------------------------------------
(* One step per action. *)

\* Decisions, executions and retries keep the invariant of the chains.
LEMMA ChainInvStep == ChainInv /\ [Next]_vars => ChainInv'
<1> SUFFICES ASSUME ChainInv, [Next]_vars PROVE ChainInv'
  OBVIOUS
<1>0. TypeOK
  BY DEF ChainInv
<1>1. CASE UNCHANGED vars
  BY <1>1 DEF ChainInv, vars, TypeOK, AbsentIsBlank, OutcomeIsStatus, Exists,
              Troubled, FollowupsHaveASource, RecoveriesHaveASource,
              DepthIsCapped, SourceStaysReplaced,
              FollowupContinuesPartialWork, ReplacementIsNotReplaced
<1>2. ASSUME NEW t \in Tasks, Execute(t) PROVE ChainInv'
  <2>1. PICK r \in Results : /\ state' = [state EXCEPT ![t] = r]
                             /\ outcome' = [outcome EXCEPT ![t] = r]
    BY <1>2 DEF Execute
  <2>2. r # "pending" /\ decided' \subseteq Tasks
    BY <1>0, <1>2 DEF Execute, Results, TypeOK
  <2> QED
    BY <1>2, <2>1, <2>2, StatusStep DEF Execute
<1>3. ASSUME NEW t \in Tasks, Retry(t) PROVE ChainInv'
  <2>1. decided' \subseteq Tasks
    BY <1>0, <1>3 DEF Retry, TypeOK
  <2> QED
    BY <1>3, <2>1, StatusStep DEF Retry
<1>4. ASSUME NEW t \in Tasks, Materialize(t) PROVE ChainInv'
  <2>1. Troubled(t) /\ decided' = decided \cup {t} /\ UNCHANGED outcome
    BY <1>4 DEF Materialize
  <2>2. PICK proposed \in Actions :
          LET action == EffectiveAction(t, proposed) IN
          IF action = "manual_review"
          THEN UNCHANGED <<state, rows>>
          ELSE \E N \in SUBSET {u \in Tasks : ~Exists(u)} :
                 /\ N # {} /\ Cardinality(N) <= MaxCreated
                 /\ MarkSource(t, N, action)
                 /\ parent' = [u \in Tasks |->
                                 IF u \in N THEN parent[t] ELSE parent[u]]
                 /\ recovery' = IF action = "reatomize" THEN recovery \cup N
                                                        ELSE recovery
                 /\ depth' = [u \in Tasks |->
                                IF u \in N /\ action = "insert_followup"
                                THEN depth[t] + 1 ELSE depth[u]]
                 /\ source' = [u \in Tasks |->
                                 IF u \in N THEN t ELSE source[u]]
    BY <1>4 DEF Materialize
  <2> DEFINE action == EffectiveAction(t, proposed)
  <2>3. /\ action \in Actions
        /\ action = "reatomize" => t \notin recovery
        /\ action = "insert_followup" =>
              state[t] = "partial" /\ depth[t] < MaxFollowupDepth
    BY <1>0, <2>1, Corrected
  <2>4. CASE action = "manual_review"
    <3>1. UNCHANGED <<state, rows, outcome>> /\ decided' \subseteq Tasks
      BY <1>0, <2>1, <2>2, <2>4 DEF TypeOK
    <3> QED
      BY <3>1 DEF ChainInv, rows, TypeOK, AbsentIsBlank, OutcomeIsStatus,
                  Exists, Troubled, FollowupsHaveASource,
                  RecoveriesHaveASource, DepthIsCapped, SourceStaysReplaced,
                  FollowupContinuesPartialWork, ReplacementIsNotReplaced
  <2>5. CASE action # "manual_review"
    <3>1. action \in {"reatomize", "insert_followup"}
      BY <2>3, <2>5 DEF Actions
    <3> HIDE DEF action
    <3>2. PICK N \in SUBSET {u \in Tasks : ~Exists(u)} :
                 /\ MarkSource(t, N, action)
                 /\ parent' = [u \in Tasks |->
                                 IF u \in N THEN parent[t] ELSE parent[u]]
                 /\ recovery' = IF action = "reatomize" THEN recovery \cup N
                                                        ELSE recovery
                 /\ depth' = [u \in Tasks |->
                                IF u \in N /\ action = "insert_followup"
                                THEN depth[t] + 1 ELSE depth[u]]
                 /\ source' = [u \in Tasks |->
                                 IF u \in N THEN t ELSE source[u]]
      BY <2>2, <2>5 DEF action
    <3> QED
      BY <2>1, <2>3, <3>1, <3>2, CreationStep
  <2> QED
    BY <2>4, <2>5
<1> QED
  BY <1>1, <1>2, <1>3, <1>4 DEF Next

----------------------------------------------------------------------------
(* Lineages: arguments about the first counterexample take the place of     *)
(* induction.                                                               *)

\* A set of numbers has a least one.
LEMMA Least ==
    ASSUME NEW S \in SUBSET Nat, S # {}
    PROVE  \E m \in S : \A n \in S : m <= n
<1> DEFINE Less == {p \in Nat \X Nat : p[1] < p[2]}
<1>1. IsWellFoundedOn(Less, Nat)
  BY NatLessThanWellFounded, Zenon DEF OpToRel
<1>2. PICK m \in S : \A n \in S : <<n, m>> \notin Less
  BY <1>1, WFMin, Zenon
<1>3. ASSUME NEW n \in S PROVE m <= n
  <2>1. n \in Nat /\ m \in Nat /\ <<n, m>> \notin Less
    BY <1>2
  <2> QED
    BY <2>1
<1> QED
  BY <1>3

\* The tasks of S and those they come from.
Up(S) == S \cup ({source[u] : u \in S} \ {NoTask})

\* f counts the links of the chain of t as far as N.
Links(f, t, N) == f = [n \in 0 .. N |-> IF n = 0 THEN {t} ELSE Up(f[n - 1])]

\* From each task a lineage can be followed back for any number of links.
LEMMA LinksExist ==
    ASSUME NEW t, NEW N \in Nat
    PROVE  \E f : Links(f, t, N)
<1> DEFINE Bad == {k \in Nat : ~ \E f : Links(f, t, k)}
<1>1. SUFFICES ASSUME Bad # {} PROVE FALSE
  OBVIOUS
<1>2. PICK k \in Bad : \A j \in Bad : k <= j
  BY <1>1, Least
<1>3. k \in Nat /\ ~ \E f : Links(f, t, k)
  OBVIOUS
<1>4. CASE k = 0
  <2> DEFINE f == [n \in 0 .. 0 |-> {t}]
  <2>1. f = [n \in 0 .. k |-> IF n = 0 THEN {t} ELSE Up(f[n - 1])]
    BY <1>4
  <2> QED
    BY <1>3, <2>1 DEF Links
<1>5. CASE k # 0
  <2>1. k - 1 \in Nat /\ k - 1 \notin Bad
    BY <1>2, <1>3, <1>5
  <2>2. PICK f : Links(f, t, k - 1)
    BY <2>1
  <2> DEFINE g == [n \in 0 .. k |-> IF n = k THEN Up(f[k - 1]) ELSE f[n]]
             h == [n \in 0 .. k |-> IF n = 0 THEN {t} ELSE Up(g[n - 1])]
  <2>3. \A n \in 0 .. k - 1 : f[n] = IF n = 0 THEN {t} ELSE Up(f[n - 1])
    BY <2>2 DEF Links
  <2>4. \A n \in 0 .. k - 1 : g[n] = f[n]
    BY <1>3
  <2>5. ASSUME NEW n \in 0 .. k PROVE g[n] = h[n]
    <3>1. CASE n = k
      <4>1. n # 0 /\ n - 1 \in 0 .. k - 1
        BY <1>3, <1>5, <3>1
      <4>2. h[n] = Up(g[n - 1]) /\ g[n] = Up(f[n - 1])
        BY <3>1, <4>1
      <4> QED
        BY <2>4, <4>1, <4>2
    <3>2. CASE n # k /\ n # 0
      <4>1. n \in 0 .. k - 1 /\ n - 1 \in 0 .. k - 1
        BY <1>3, <3>2
      <4>2. h[n] = Up(g[n - 1]) /\ g[n] = f[n] /\ f[n] = Up(f[n - 1])
        BY <2>3, <3>2, <4>1
      <4> QED
        BY <2>4, <4>1, <4>2
    <3>3. CASE n # k /\ n = 0
      <4>1. n \in 0 .. k - 1
        BY <1>3, <3>3
      <4>2. h[n] = {t} /\ g[n] = f[n] /\ f[n] = {t}
        BY <2>3, <3>3, <4>1
      <4> QED
        BY <4>2
    <3> QED
      BY <3>1, <3>2, <3>3
  <2>6. g = h
    BY <2>5
  <2>7. Links(g, t, k)
    BY <2>6 DEF Links
  <2> QED
    BY <1>3, <2>7
<1> QED
  BY <1>4, <1>5

\* The lineage, link by link.
LEMMA LineageByLinks ==
    ASSUME NEW t \in Tasks
    PROVE  \E f : /\ \A n \in 0 .. Cardinality(Tasks) :
                        f[n] = IF n = 0 THEN {t} ELSE Up(f[n - 1])
                  /\ Lineage(t) = f[Cardinality(Tasks)]
<1> DEFINE N == Cardinality(Tasks)
<1>1. N \in Nat
  BY RecoveryAssumption, FS_CardinalityType
<1> HIDE DEF N
<1>2. \E f : Links(f, t, N)
  BY <1>1, LinksExist
<1> DEFINE up == CHOOSE f : f = [n \in 0 .. N |-> IF n = 0 THEN {t} ELSE Up(f[n - 1])]
<1>3. up = [n \in 0 .. N |-> IF n = 0 THEN {t} ELSE Up(up[n - 1])]
  BY <1>2 DEF Links
<1>4. Lineage(t) = up[N]
  BY DEF Lineage, Up, N
<1> HIDE DEF up
<1>5. \A n \in 0 .. N : up[n] = IF n = 0 THEN {t} ELSE Up(up[n - 1])
  BY <1>3
<1> QED
  BY <1>4, <1>5 DEF N

\* A lineage without a replacement is the task, its source and the source of
\* that, each counting one follow-up less.
LEMMA ShortLineage ==
    ASSUME TypeOK, DepthIsCapped, DepthCounts, NEW t \in Tasks,
           Lineage(t) \cap recovery = {}
    PROVE  \A u \in Lineage(t) :
              \/ u = t
              \/ u = source[t]
              \/ u \in Tasks /\ depth[u] = 0
<1> DEFINE N == Cardinality(Tasks)
<1>1. N \in Nat
  BY RecoveryAssumption, FS_CardinalityType
<1>2. PICK f : /\ \A n \in 0 .. N : f[n] = IF n = 0 THEN {t} ELSE Up(f[n - 1])
               /\ Lineage(t) = f[N]
  BY LineageByLinks
<1> HIDE DEF N
<1>3. \A n \in 0 .. N : n # 0 => f[n] = Up(f[n - 1])
  BY <1>2
\* The links only grow.
<1>4. \A n \in 0 .. N : f[n] \subseteq f[N]
  <2> DEFINE Bad == {k \in 0 .. N : ~ (f[N - k] \subseteq f[N])}
  <2>1. SUFFICES ASSUME Bad # {} PROVE FALSE
    <3>1. ASSUME NEW n \in 0 .. N PROVE f[n] \subseteq f[N]
      <4>1. N - n \in 0 .. N /\ N - (N - n) = n
        BY <1>1
      <4>2. N - n \notin Bad
        BY <2>1
      <4> QED
        BY <4>1, <4>2
    <3> QED
      BY <3>1
  <2>0. Bad \in SUBSET Nat
    BY <1>1
  <2>2. PICK k \in Bad : \A j \in Bad : k <= j
    BY <2>0, <2>1, Least
  <2>3. k \in 0 .. N /\ ~ (f[N - k] \subseteq f[N])
    OBVIOUS
  <2>4. k # 0
    <3>1. ASSUME k = 0 PROVE FALSE
      <4>1. N - k = N
        BY <1>1, <3>1
      <4> QED
        BY <2>3, <4>1
    <3> QED
      BY <3>1
  <2>5. k - 1 \in 0 .. N /\ k - 1 \notin Bad
    BY <1>1, <2>2, <2>3, <2>4
  <2>6. f[N - (k - 1)] \subseteq f[N]
    BY <2>5
  <2>7. /\ N - (k - 1) \in 0 .. N /\ N - (k - 1) # 0
        /\ N - (k - 1) - 1 = N - k
    BY <1>1, <2>3, <2>4
  <2>8. f[N - (k - 1)] = Up(f[N - k])
    BY <1>3, <2>7
  <2> QED
    BY <2>3, <2>6, <2>8 DEF Up
<1> DEFINE Near(u) == \/ u = t
                      \/ u = source[t] /\ u \in Tasks /\ depth[t] = depth[u] + 1
                      \/ u \in Tasks /\ depth[u] = 0
<1>5. \A n \in 0 .. N : \A u \in f[n] : Near(u)
  <2> DEFINE Bad == {n \in 0 .. N : ~ \A u \in f[n] : Near(u)}
  <2>1. SUFFICES ASSUME Bad # {} PROVE FALSE
    OBVIOUS
  <2>0. Bad \in SUBSET Nat
    BY <1>1
  <2>2. PICK n \in Bad : \A j \in Bad : n <= j
    BY <2>0, <2>1, Least
  <2>3. PICK u \in f[n] : ~ Near(u)
    OBVIOUS
  <2>4. n \in 0 .. N /\ n # 0
    BY <1>2, <2>3
  <2>5. n - 1 \in 0 .. N /\ n - 1 \notin Bad
    BY <1>1, <2>2, <2>4
  <2>6. \A w \in f[n - 1] : Near(w)
    BY <2>5
  <2>7. u \in Up(f[n - 1])
    BY <1>3, <2>4
  <2>8. PICK w \in f[n - 1] : u = source[w] /\ u # NoTask
    BY <2>3, <2>6, <2>7 DEF Up
  <2>9. w \in Tasks /\ w \notin recovery
    <3>1. w \in f[N]
      BY <1>4, <2>5
    <3> QED
      BY <1>2, <2>6, <3>1
  <2>10. u \in Tasks /\ depth[w] = depth[u] + 1
    BY <2>8, <2>9 DEF TypeOK, DepthCounts
  <2>11. /\ depth[u] \in Nat /\ depth[w] \in Nat /\ depth[t] \in Nat
         /\ depth[t] <= MaxFollowupDepth
    BY <2>9, <2>10 DEF TypeOK, DepthIsCapped
  <2>12. CASE w = t
    BY <2>3, <2>8, <2>10, <2>12
  <2>13. CASE depth[t] = depth[w] + 1
    <3>1. depth[u] = 0
      BY <2>10, <2>11, <2>13 DEF MaxFollowupDepth
    <3> QED
      BY <2>3, <2>10, <3>1
  <2>14. CASE depth[w] = 0
    BY <2>10, <2>11, <2>14
  <2> QED
    BY <2>6, <2>12, <2>13, <2>14
<1>6. N \in 0 .. N
  BY <1>1
<1> QED
  BY <1>2, <1>5, <1>6

\* If depths count the links and are capped, chains of follow-ups end.
LEMMA ShortLineagesEnd ==
    ASSUME TypeOK, DepthIsCapped, DepthCounts
    PROVE  FollowupsEnd
<1> SUFFICES ASSUME NEW t \in Tasks, Lineage(t) \cap recovery = {}
             PROVE  ~ (Cardinality({u \in Lineage(t) : depth[u] > 0}) > MaxFollowupDepth)
  BY DEF FollowupsEnd
<1> DEFINE F == {u \in Lineage(t) : depth[u] > 0}
           a == t
           b == source[t]
<1>1. F \subseteq {a} \cup {b}
  BY ShortLineage DEF TypeOK
<1> HIDE DEF F, a, b
<1>2. /\ IsFiniteSet({a}) /\ Cardinality({a}) = 1
      /\ IsFiniteSet({b}) /\ Cardinality({b}) = 1
  BY FS_Singleton
<1>3. /\ IsFiniteSet({a} \cup {b})
      /\ Cardinality({a} \cup {b}) = 1 + 1 - Cardinality({a} \cap {b})
  BY <1>2, FS_Union
<1>4. Cardinality({a} \cap {b}) \in Nat
  BY <1>2, FS_Intersection, FS_CardinalityType
<1>5. IsFiniteSet(F) /\ Cardinality(F) <= Cardinality({a} \cup {b})
  BY <1>1, <1>3, FS_Subset
<1>6. Cardinality(F) \in Nat
  BY <1>5, FS_CardinalityType
<1>7. Cardinality(F) <= 2
  BY <1>3, <1>4, <1>5, <1>6
<1> QED
  BY <1>6, <1>7 DEF F, MaxFollowupDepth

\* The counts of rows that exist are never written again.
LEMMA DepthCountsStep == ChainInv /\ DepthCounts /\ [Next]_vars => DepthCounts'
<1> SUFFICES ASSUME ChainInv, DepthCounts, [Next]_vars PROVE DepthCounts'
  OBVIOUS
<1>1. CASE UNCHANGED <<recovery, depth, source>>
  BY <1>1 DEF DepthCounts
<1>2. ASSUME NEW t \in Tasks, Materialize(t) PROVE DepthCounts'
  <2>1. Troubled(t)
    BY <1>2 DEF Materialize
  <2>2. PICK proposed \in Actions :
          LET action == EffectiveAction(t, proposed) IN
          IF action = "manual_review"
          THEN UNCHANGED <<state, rows>>
          ELSE \E N \in SUBSET {u \in Tasks : ~Exists(u)} :
                 /\ recovery' = IF action = "reatomize" THEN recovery \cup N
                                                        ELSE recovery
                 /\ depth' = [u \in Tasks |->
                                IF u \in N /\ action = "insert_followup"
                                THEN depth[t] + 1 ELSE depth[u]]
                 /\ source' = [u \in Tasks |->
                                 IF u \in N THEN t ELSE source[u]]
    BY <1>2 DEF Materialize
  <2> DEFINE action == EffectiveAction(t, proposed)
  <2>3. CASE action = "manual_review"
    BY <1>1, <2>2, <2>3 DEF rows
  <2>4. CASE action # "manual_review"
    <3>1. action \in {"reatomize", "insert_followup"}
      BY <2>1, <2>4, Corrected DEF ChainInv, Actions
    <3>2. PICK N \in SUBSET {u \in Tasks : ~Exists(u)} :
                 /\ recovery' = IF action = "reatomize" THEN recovery \cup N
                                                        ELSE recovery
                 /\ depth' = [u \in Tasks |->
                                IF u \in N /\ action = "insert_followup"
                                THEN depth[t] + 1 ELSE depth[u]]
                 /\ source' = [u \in Tasks |->
                                 IF u \in N THEN t ELSE source[u]]
      BY <2>2, <2>4
    <3> HIDE DEF action
    <3>3. t \notin N
      BY <2>1 DEF Troubled, Exists
    <3> SUFFICES ASSUME NEW u \in Tasks, source'[u] # NoTask, u \notin recovery'
                 PROVE  depth'[u] = depth'[source'[u]] + 1
      BY DEF DepthCounts
    <3>4. CASE u \in N
      BY <3>1, <3>2, <3>3, <3>4
    <3>5. CASE u \notin N
      <4>1. source'[u] = source[u] /\ source[u] # NoTask /\ u \notin recovery
        BY <3>1, <3>2, <3>5
      <4>2. source[u] \in Tasks /\ source[u] \notin N
        BY <4>1, SourceIsClosed
      <4>3. depth'[u] = depth[u] /\ depth'[source[u]] = depth[source[u]]
        BY <3>2, <3>5, <4>2
      <4> QED
        BY <4>1, <4>3 DEF DepthCounts
    <3> QED
      BY <3>4, <3>5
  <2> QED
    BY <2>3, <2>4
<1> QED
  BY <1>1, <1>2 DEF Next, Execute, Retry, rows, vars

----------------------------------------------------------------------------
(* The theorems. *)

\* The inductive invariant of the chains.
THEOREM ChainInvariance == Spec => []ChainInv
BY ChainInvInit, ChainInvStep, PTL DEF Spec

\* Whatever the model decides, a follow-up is created only for work that was
\* done in part.
THEOREM FollowupsContinue == Spec => []FollowupContinuesPartialWork
<1>1. ChainInv => FollowupContinuesPartialWork
  BY DEF ChainInv
<1> QED
  BY <1>1, ChainInvariance, PTL

\* No replacement of a task is itself replaced by smaller tasks.
THEOREM ReplacementsAreFinal == Spec => []ReplacementIsNotReplaced
<1>1. ChainInv => ReplacementIsNotReplaced
  BY DEF ChainInv
<1> QED
  BY <1>1, ChainInvariance, PTL

\* A task that others were created for is never executed again.
THEOREM WorkIsDoneOnce == Spec => []SourceStaysReplaced
<1>1. ChainInv => SourceStaysReplaced
  BY DEF ChainInv
<1> QED
  BY <1>1, ChainInvariance, PTL

\* No row counts more follow-ups than the cap, although the cap is compared
\* with the depth of the task before.
THEOREM DepthStopsAtTheCap == Spec => []DepthIsCapped
<1>1. ChainInv => DepthIsCapped
  BY DEF ChainInv
<1> QED
  BY <1>1, ChainInvariance, PTL

\* Every answer to a follow-up that did not finish is one follow-up deeper, so
\* after two the next recovery replaces the task or asks a person
\* (the caps of recovery_service.py).
THEOREM FollowupChainsEnd == Spec => []FollowupsEnd
<1>1. Init => DepthCounts
  BY DEF Init, DepthCounts
<1>2. ChainInv /\ DepthCounts => FollowupsEnd
  BY ShortLineagesEnd DEF ChainInv
<1> QED
  BY <1>1, <1>2, DepthCountsStep, ChainInvariance, PTL DEF Spec
=============================================================================
