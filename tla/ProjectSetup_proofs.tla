------------------------ MODULE ProjectSetup_proofs ------------------------
(***************************************************************************)
(* Theorems about ProjectSetup, for any number of rows, workflows, blocks  *)
(* and restarts.                                                           *)
(***************************************************************************)
EXTENDS ProjectSetup, FiniteSetTheorems, WellFoundedInduction, TLAPS

----------------------------------------------------------------------------
(* What the operators on rows keep. *)

\* The planners take the parent with the smallest id.
LEMMA Least ==
    ASSUME NEW S \in SUBSET Nat, S # {}
    PROVE  \E m \in S : \A n \in S : m <= n
<1> DEFINE Less == {p \in Nat \X Nat : p[1] < p[2]}
<1>1. IsWellFoundedOn(Less, Nat)
  BY NatLessThanWellFounded, Zenon DEF OpToRel
<1>2. PICK m \in S : \A n \in S : <<n, m>> \notin Less
  BY <1>1, WFMin, Zenon
<1>3. ASSUME NEW n \in S PROVE m <= n
  <2>1. n \in Nat /\ m \in Nat /\ <<n, m>> \notin Less
    BY <1>2
  <2> QED
    BY <2>1
<1> QED
  BY <1>3

\* What is finished stays finished over two changes of the rows.
LEMMA KeepsIsTransitive ==
    ASSUME NEW r, NEW s, NEW t, Keeps(r, s), Keeps(s, t)
    PROVE  Keeps(r, t)
BY DEF Keeps

\* And over none.
LEMMA KeepsIsReflexive ==
    ASSUME NEW r
    PROVE  Keeps(r, r)
BY DEF Keeps

\* New rows below a row that is not atomic, or below none.
LEMMA AddedKeeps ==
    ASSUME NEW rs, Tree(rs), NEW p \in Nat, NEW l \in {"high_level", "refined", "atomic"},
           NEW n \in Nat, NEW origin \in {"plan", "block"},
           p # 0 => p \in DOMAIN rs /\ rs[p].level # "atomic"
    PROVE  /\ Tree(Added(rs, p, l, n, origin))
           /\ Keeps(rs, Added(rs, p, l, n, origin))
           /\ \A i \in DOMAIN rs : Added(rs, p, l, n, origin)[i] = rs[i]
           /\ \A i \in 1 .. n :
                 /\ Len(rs) + i \in DOMAIN Added(rs, p, l, n, origin)
                 /\ Added(rs, p, l, n, origin)[Len(rs) + i].level = l
<1> DEFINE row == [level |-> l, parent |-> p, status |-> "pending",
                   origin |-> origin, call |-> Len(rs) + 1]
           new == [i \in 1 .. n |-> row]
           all == Added(rs, p, l, n, origin)
<1>1. rs \in Seq(Row) /\ Len(rs) \in Nat
  BY DEF Tree
<1>2. row \in Row
  BY <1>1 DEF Row, Hierarchy!TaskStatuses, Hierarchy!TerminalStatuses
<1>3. new \in Seq(Row) /\ Len(new) = n
  BY <1>2
<1>4. all = rs \o new
  BY DEF Added
<1> HIDE DEF all, row
<1>5. all \in Seq(Row) /\ Len(all) = Len(rs) + n
  BY <1>1, <1>3, <1>4
<1>6. \A i \in DOMAIN rs : i \in DOMAIN all /\ all[i] = rs[i]
  BY <1>1, <1>3, <1>4, <1>5
<1>7. \A i \in 1 .. n : Len(rs) + i \in DOMAIN all /\ all[Len(rs) + i] = row
  BY <1>1, <1>3, <1>4, <1>5
<1>8. \A i \in DOMAIN all : i \in DOMAIN rs \/ \E k \in 1 .. n : i = Len(rs) + k
  <2> SUFFICES ASSUME NEW i \in DOMAIN all, i \notin DOMAIN rs
               PROVE  \E k \in 1 .. n : i = Len(rs) + k
    OBVIOUS
  <2>1. i \in 1 .. Len(rs) + n /\ i \notin 1 .. Len(rs)
    BY <1>1, <1>5
  <2>2. i - Len(rs) \in 1 .. n /\ i = Len(rs) + (i - Len(rs))
    BY <1>1, <2>1
  <2> QED
    BY <2>2
<1>9. row.parent = p /\ row.level = l
  BY DEF row
<1>10. Tree(all)
  <2> SUFFICES ASSUME NEW i \in DOMAIN all, all[i].parent # 0
               PROVE  all[i].parent \in DOMAIN all /\ all[all[i].parent].level # "atomic"
    BY <1>5 DEF Tree
  <2>1. CASE i \in DOMAIN rs
    BY <1>6, <2>1 DEF Tree
  <2>2. CASE \E k \in 1 .. n : i = Len(rs) + k
    BY <1>6, <1>7, <1>9, <2>2
  <2> QED
    BY <1>8, <2>1, <2>2
<1> QED
  BY <1>6, <1>7, <1>9, <1>10 DEF Keeps, all

\* A status that is written over no finished task.
LEMMA WithStatusKeeps ==
    ASSUME NEW rs, Tree(rs), NEW S, NEW s \in Hierarchy!TaskStatuses,
           \A i \in S \cap DOMAIN rs :
              rs[i].level = "atomic" => rs[i].status # "completed"
    PROVE  /\ Tree(WithStatus(rs, S, s)) /\ Keeps(rs, WithStatus(rs, S, s))
           /\ DOMAIN WithStatus(rs, S, s) = DOMAIN rs
           /\ \A i \in DOMAIN rs :
                 /\ i \in S => WithStatus(rs, S, s)[i].status = s
                 /\ i \notin S => WithStatus(rs, S, s)[i] = rs[i]
<1> DEFINE new == WithStatus(rs, S, s)
<1>1. rs \in Seq(Row) /\ Len(rs) \in Nat /\ DOMAIN rs = 1 .. Len(rs)
  BY DEF Tree
<1>2. \A i \in DOMAIN rs : rs[i] \in Row
  BY <1>1
<1>3. \A i \in DOMAIN rs : [rs[i] EXCEPT !.status = s] \in Row
                           /\ [rs[i] EXCEPT !.status = s].level = rs[i].level
                           /\ [rs[i] EXCEPT !.status = s].parent = rs[i].parent
                           /\ [rs[i] EXCEPT !.status = s].status = s
  BY <1>2 DEF Row
<1>4. new = [i \in DOMAIN rs |->
                IF i \in S THEN [rs[i] EXCEPT !.status = s] ELSE rs[i]]
  BY DEF WithStatus
<1> HIDE DEF new
<1>5. DOMAIN new = 1 .. Len(rs) /\ \A i \in 1 .. Len(rs) : new[i] \in Row
  BY <1>1, <1>2, <1>3, <1>4
<1>6. new \in Seq(Row)
  <2>1. new = [i \in 1 .. Len(rs) |-> new[i]]
    BY <1>1, <1>4
  <2> QED
    BY <1>1, <1>5, <2>1
<1>7. \A i \in DOMAIN rs : new[i].level = rs[i].level /\ new[i].parent = rs[i].parent
  BY <1>3, <1>4
<1>8. Tree(new)
  BY <1>1, <1>5, <1>6, <1>7 DEF Tree
<1>9. Keeps(rs, new)
  BY <1>1, <1>3, <1>4, <1>5, <1>7 DEF Keeps
<1>10. \A i \in DOMAIN rs : /\ i \in S => new[i].status = s
                            /\ i \notin S => new[i] = rs[i]
  BY <1>3, <1>4
<1> QED
  BY <1>1, <1>5, <1>8, <1>9, <1>10 DEF new

\* Consolidation writes parents only, and no atomic task is a parent.
LEMMA ConsolidatedKeeps ==
    ASSUME NEW rs, Tree(rs), NEW S \in SUBSET DOMAIN rs
    PROVE  Tree(Consolidated(rs, S)) /\ Keeps(rs, Consolidated(rs, S))
<1> DEFINE Above(r, T) == {r[i].parent : i \in T} \ {0}
           Once(r, T) == [p \in DOMAIN r |->
                            IF p \in T THEN [r[p] EXCEPT !.status = Derived(r, p)]
                                       ELSE r[p]]
           parents == Above(rs, S)
           once    == Once(rs, parents)
           twice   == Once(once, Above(rs, parents))
<1>1. Consolidated(rs, S) = twice
  BY DEF Consolidated
<1>2. ASSUME NEW r, Tree(r), NEW T, \A p \in T \cap DOMAIN r : r[p].level # "atomic"
      PROVE  Tree(Once(r, T)) /\ Keeps(r, Once(r, T)) /\ DOMAIN Once(r, T) = DOMAIN r
  <2> DEFINE new == Once(r, T)
  <2>1. r \in Seq(Row) /\ Len(r) \in Nat /\ DOMAIN r = 1 .. Len(r)
    BY <1>2 DEF Tree
  <2>2. \A p \in DOMAIN r : r[p] \in Row
    BY <2>1
  <2>3. \A p \in DOMAIN r : Derived(r, p) \in Hierarchy!TaskStatuses
    BY DEF Derived, Hierarchy!DerivedStatus, Hierarchy!TaskStatuses,
       Hierarchy!TerminalStatuses
  <2>4. \A p \in DOMAIN r :
           /\ [r[p] EXCEPT !.status = Derived(r, p)] \in Row
           /\ [r[p] EXCEPT !.status = Derived(r, p)].level = r[p].level
           /\ [r[p] EXCEPT !.status = Derived(r, p)].parent = r[p].parent
    BY <2>2, <2>3 DEF Row
  <2>5. new = [p \in DOMAIN r |->
                  IF p \in T THEN [r[p] EXCEPT !.status = Derived(r, p)] ELSE r[p]]
    OBVIOUS
  <2> HIDE DEF new
  <2>6. DOMAIN new = 1 .. Len(r) /\ \A p \in 1 .. Len(r) : new[p] \in Row
    BY <2>1, <2>2, <2>4, <2>5
  <2>7. new \in Seq(Row)
    <3>1. new = [p \in 1 .. Len(r) |-> new[p]]
      BY <2>1, <2>5
    <3> QED
      BY <2>1, <2>6, <3>1
  <2>8. \A p \in DOMAIN r : new[p].level = r[p].level /\ new[p].parent = r[p].parent
    BY <2>4, <2>5
  <2>9. \A p \in DOMAIN r : r[p].level = "atomic" => new[p] = r[p]
    BY <1>2, <2>5
  <2>10. Tree(new)
    BY <1>2, <2>1, <2>6, <2>7, <2>8 DEF Tree
  <2>11. Keeps(r, new)
    BY <2>1, <2>6, <2>8, <2>9 DEF Keeps
  <2> QED
    BY <2>1, <2>6, <2>10, <2>11 DEF new
<1>3. \A T \in SUBSET DOMAIN rs : /\ Above(rs, T) \subseteq DOMAIN rs
                                 /\ \A p \in Above(rs, T) : rs[p].level # "atomic"
  BY DEF Tree
<1>4. parents \in SUBSET DOMAIN rs
  BY <1>3
<1>5. \A p \in parents \cup Above(rs, parents) : p \in DOMAIN rs /\ rs[p].level # "atomic"
  BY <1>3, <1>4
<1> HIDE DEF Above, Once, parents
<1>6. Tree(once) /\ Keeps(rs, once) /\ DOMAIN once = DOMAIN rs
  BY <1>2, <1>5
<1>7. \A p \in Above(rs, parents) \cap DOMAIN once : once[p].level # "atomic"
  BY <1>5, <1>6 DEF Keeps
<1>8. Tree(twice) /\ Keeps(once, twice)
  BY <1>2, <1>6, <1>7
<1> QED
  BY <1>1, <1>6, <1>8, KeepsIsTransitive

\* A cancellation writes over rows that are not terminal.
LEMMA CancelledKeeps ==
    ASSUME NEW rs, Tree(rs), NEW S
    PROVE  /\ Tree(Cancelled(rs, S)) /\ Keeps(rs, Cancelled(rs, S))
           /\ DOMAIN Cancelled(rs, S) = DOMAIN rs
           /\ \A i \in DOMAIN rs :
                 rs[i].status # "completed" => Cancelled(rs, S)[i].status # "completed"
<1> DEFINE Up(r, T) == {p \in {r[i].parent : i \in T} \ {0} :
                           /\ r[p].status \notin Terminal
                           /\ \A c \in Children(r, p) : r[c].status = "cancelled"}
           hit   == S \cap Active(rs)
           one   == WithStatus(rs, hit, "cancelled")
           two   == WithStatus(one, Up(one, hit), "cancelled")
           three == WithStatus(two, Up(two, Up(one, hit)), "cancelled")
<1>1. Cancelled(rs, S) = three
  BY DEF Cancelled
<1>2. "cancelled" \in Hierarchy!TaskStatuses
  BY DEF Hierarchy!TaskStatuses, Hierarchy!TerminalStatuses
<1>3. ASSUME NEW r, Tree(r), NEW T, \A i \in T \cap DOMAIN r : r[i].status \notin Terminal
      PROVE  /\ Tree(WithStatus(r, T, "cancelled")) /\ Keeps(r, WithStatus(r, T, "cancelled"))
             /\ DOMAIN WithStatus(r, T, "cancelled") = DOMAIN r
             /\ \A i \in DOMAIN r :
                   r[i].status # "completed"
                      => WithStatus(r, T, "cancelled")[i].status # "completed"
  <2>1. \A i \in T \cap DOMAIN r : r[i].status # "completed"
    BY <1>3 DEF Terminal
  <2>2. "cancelled" # "completed"
    OBVIOUS
  <2> QED
    BY <1>2, <1>3, <2>1, <2>2, WithStatusKeeps
<1>4. \A r, T : \A p \in Up(r, T) : r[p].status \notin Terminal
  OBVIOUS
<1>5. \A i \in hit : rs[i].status \notin Terminal
  BY DEF Active
<1> HIDE DEF Up, hit
<1>6. /\ Tree(one) /\ Keeps(rs, one) /\ DOMAIN one = DOMAIN rs
      /\ \A i \in DOMAIN rs : rs[i].status # "completed" => one[i].status # "completed"
  BY <1>3, <1>5
<1> HIDE DEF one
<1>7. /\ Tree(two) /\ Keeps(one, two) /\ DOMAIN two = DOMAIN one
      /\ \A i \in DOMAIN one : one[i].status # "completed" => two[i].status # "completed"
  BY <1>3, <1>4, <1>6
<1> HIDE DEF two
<1>8. /\ Tree(three) /\ Keeps(two, three) /\ DOMAIN three = DOMAIN two
      /\ \A i \in DOMAIN two : two[i].status # "completed" => three[i].status # "completed"
  BY <1>3, <1>4, <1>7
<1> HIDE DEF three
<1>9. Keeps(rs, three)
  BY <1>6, <1>7, <1>8, KeepsIsTransitive
<1> QED
  BY <1>1, <1>6, <1>7, <1>8, <1>9

----------------------------------------------------------------------------
(* The rows, step by step.                                                  *)

\* The open session makes progress, and what it did is committed or not yet.
Progress == /\ Tree(view') /\ Keeps(view, view')
            /\ table' = view' \/ table' = table

Safe == /\ Tree(table') /\ Tree(view') /\ Keeps(table', view')
        /\ Keeps(table, table')

\* Flushing rows and committing them keeps what is finished.
LEMMA ProgressIsSafe ==
    ASSUME RowsOK, Progress
    PROVE  Safe
BY KeepsIsTransitive, KeepsIsReflexive DEF RowsOK, Progress, Safe

\* So does a rollback of the session.
LEMMA RollbackIsSafe ==
    ASSUME RowsOK, table' = table, view' = table
    PROVE  Safe
BY KeepsIsReflexive DEF RowsOK, Safe

\* So does a step that leaves the rows.
LEMMA NoChangeIsSafe ==
    ASSUME RowsOK, UNCHANGED rows
    PROVE  Safe
BY KeepsIsReflexive DEF RowsOK, Safe, rows

\* An answer of a planner, accepted or rejected, only adds rows below one that is
\* not atomic.
LEMMA AnswerMakesProgress ==
    ASSUME Tree(view), NEW p \in Nat, NEW l \in {"high_level", "refined", "atomic"},
           p # 0 => p \in DOMAIN view /\ view[p].level # "atomic",
           Answered(p, l, "plan") \/ Unanswered
    PROVE  Progress /\ pc' \in {pc, "failed"}
<1>1. CASE Answered(p, l, "plan")
  <2>1. PICK n \in 1 .. MaxChildren :
           view' = Added(view, p, l, n, "plan")
    BY <1>1 DEF Answered
  <2>2. n \in Nat
    BY SetupAssumption
  <2>3. Tree(view') /\ Keeps(view, view')
    BY <2>1, <2>2, AddedKeeps
  <2>4. table' = view' \/ table' = table
    BY <1>1 DEF Answered
  <2>5. pc' \in {pc, "failed"}
    BY <1>1 DEF Answered, Goto
  <2> QED
    BY <2>3, <2>4, <2>5 DEF Progress
<1>2. CASE Unanswered
  BY <1>2, KeepsIsReflexive DEF Unanswered, Progress, Goto, rows
<1> QED
  BY <1>1, <1>2

\* The first of some rows is one of them.
LEMMA LeastRow ==
    ASSUME Tree(view), NEW T \in SUBSET DOMAIN view, T # {}
    PROVE  (CHOOSE p \in T : \A q \in T : p <= q) \in T
<1>1. T \subseteq Nat
  BY DEF Tree
<1>2. \E p \in T : \A q \in T : p <= q
  BY <1>1, Least
<1> QED
  BY <1>2

\* The plan of the project, a refinement and a decomposition make progress.
LEMMA PlanningStep ==
    ASSUME RowsOK, Planning
    PROVE  Progress /\ pc' \in {"plan", "refine", "atomise", "execute", "failed"}
<1>1. Tree(view)
  BY DEF RowsOK
<1>2. CASE PlanProject
  <2>1. CASE Goto("refine") /\ UNCHANGED rows
    BY <1>1, <2>1, KeepsIsReflexive DEF Goto, Progress, rows
  <2>2. CASE Answered(0, "high_level", "plan") \/ Unanswered
    <3>1. Progress /\ pc' \in {pc, "failed"}
      BY <1>1, <2>2, AnswerMakesProgress
    <3> QED
      BY <1>2, <3>1 DEF PlanProject
  <2> QED
    BY <1>2, <2>1, <2>2 DEF PlanProject
<1>3. CASE Refine
  <2> DEFINE todo == IF refinement THEN Unrefined(view) ELSE {}
             goal == CHOOSE g \in todo : \A h \in todo : g <= h
  <2>1. CASE todo = {}
    BY <1>1, <1>3, <2>1, KeepsIsReflexive DEF Refine, Goto, Progress, rows
  <2>2. CASE todo # {}
    <3>1. todo \in SUBSET DOMAIN view
      BY DEF Unrefined, Pending, At
    <3>2. goal \in todo
      BY <1>1, <2>2, <3>1, LeastRow
    <3>3. goal \in DOMAIN view /\ view[goal].level # "atomic"
      BY <3>2 DEF Unrefined, Pending, At
    <3>4. goal \in Nat
      BY <1>1, <3>3 DEF Tree
    <3>5. Answered(goal, "refined", "plan") \/ Unanswered
      BY <1>3, <2>2 DEF Refine
    <3>6. Progress /\ pc' \in {pc, "failed"}
      BY <1>1, <3>3, <3>4, <3>5, AnswerMakesProgress
    <3> QED
      BY <1>3, <3>6 DEF Refine
  <2> QED
    BY <2>1, <2>2
<1>4. CASE Atomise
  <2>1. CASE Undecomposed(view, refinement) = {}
    BY <1>1, <1>4, <2>1, KeepsIsReflexive DEF Atomise, Goto, Progress, rows
  <2>2. CASE Undecomposed(view, refinement) # {}
    <3> DEFINE all   == Undecomposed(view, refinement)
               first == IF refinement THEN "refined" ELSE "high_level"
               now   == IF all \cap At(view, first) # {}
                        THEN all \cap At(view, first) ELSE all
               next  == CHOOSE p \in now : \A q \in now : p <= q
    <3>1. now \subseteq all /\ now # {}
      BY <2>2
    <3>2. all \subseteq DOMAIN view /\ \A p \in all : view[p].level # "atomic"
      BY DEF Undecomposed, Pending, At
    <3>3. NextParent(view, refinement) = next
      BY DEF NextParent
    <3> HIDE DEF now, all
    <3>4. next \in now
      BY <1>1, <3>1, <3>2, LeastRow
    <3>5. next \in DOMAIN view /\ view[next].level # "atomic"
      BY <3>1, <3>2, <3>4
    <3>6. next \in Nat
      BY <1>1, <3>5 DEF Tree
    <3>7. Answered(next, "atomic", "plan") \/ Unanswered
      BY <1>4, <2>2, <3>3 DEF Atomise
    <3>8. Progress /\ pc' \in {pc, "failed"}
      BY <1>1, <3>5, <3>6, <3>7, AnswerMakesProgress
    <3> QED
      BY <1>4, <3>8 DEF Atomise
  <2> QED
    BY <2>1, <2>2
<1> QED
  BY <1>2, <1>3, <1>4 DEF Planning

\* A workflow executes pending tasks only.
LEMMA ExecuteStep ==
    ASSUME RowsOK, Execute
    PROVE  /\ Progress
           /\ pc' # "failed" => pc' = "ending" /\ table' = view'
<1> DEFINE ready == Pending(view, "atomic")
<1>1. Tree(view)
  BY DEF RowsOK
<1>2. /\ ready \subseteq DOMAIN view
      /\ \A i \in ready : view[i].status = "pending"
  BY DEF Pending, At
<1>3. {"completed", "awaiting_review", "failed"} \subseteq Hierarchy!TaskStatuses
  BY DEF Hierarchy!TaskStatuses, Hierarchy!TerminalStatuses
<1> HIDE DEF ready
<1>4. CASE Goto("failed") /\ UNCHANGED rows
  <2>1. view' = view /\ table' = table /\ pc' = "failed"
    BY <1>4 DEF Goto, rows
  <2> QED
    BY <1>1, <2>1, KeepsIsReflexive DEF Progress
<1>5. CASE /\ view' = Consolidated(WithStatus(view, ready, "completed"), ready)
           /\ table' = view' /\ Goto("ending")
  <2> DEFINE done == WithStatus(view, ready, "completed")
  <2>1. Tree(done) /\ Keeps(view, done) /\ DOMAIN done = DOMAIN view
    BY <1>1, <1>2, <1>3, WithStatusKeeps
  <2> HIDE DEF done
  <2>2. Tree(Consolidated(done, ready)) /\ Keeps(done, Consolidated(done, ready))
    BY <1>2, <2>1, ConsolidatedKeeps
  <2>3. view' = Consolidated(done, ready)
    BY <1>5 DEF done
  <2> QED
    BY <1>5, <2>1, <2>2, <2>3, KeepsIsTransitive DEF Progress, Goto
<1>6. CASE \E t \in ready, s \in {"awaiting_review", "failed"} :
           \E done \in SUBSET (ready \ {t}) :
              /\ view' = Consolidated(
                             WithStatus(WithStatus(view, done, "completed"), {t}, s),
                             done \cup {t})
              /\ table' = view' /\ Goto("ending")
  <2> PICK t \in ready, s \in {"awaiting_review", "failed"} :
           \E done \in SUBSET (ready \ {t}) :
              /\ view' = Consolidated(
                             WithStatus(WithStatus(view, done, "completed"), {t}, s),
                             done \cup {t})
              /\ table' = view' /\ Goto("ending")
    BY <1>6
  <2>1. PICK done \in SUBSET (ready \ {t}) :
              /\ view' = Consolidated(
                             WithStatus(WithStatus(view, done, "completed"), {t}, s),
                             done \cup {t})
              /\ table' = view' /\ Goto("ending")
    OBVIOUS
  <2> DEFINE some == WithStatus(view, done, "completed")
             all  == WithStatus(some, {t}, s)
  <2>2. /\ Tree(some) /\ Keeps(view, some) /\ DOMAIN some = DOMAIN view
        /\ some[t] = view[t]
    BY <1>1, <1>2, <1>3, <2>1, WithStatusKeeps
  <2> HIDE DEF some
  <2>3. Tree(all) /\ Keeps(some, all) /\ DOMAIN all = DOMAIN some
    <3>1. \A i \in {t} \cap DOMAIN some : some[i].status # "completed"
      BY <1>2, <2>1, <2>2
    <3> QED
      BY <1>3, <2>1, <2>2, <3>1, WithStatusKeeps
  <2> HIDE DEF all
  <2>4. done \cup {t} \in SUBSET DOMAIN all
    BY <1>2, <2>1, <2>2, <2>3
  <2>5. /\ Tree(Consolidated(all, done \cup {t}))
        /\ Keeps(all, Consolidated(all, done \cup {t}))
    BY <2>3, <2>4, ConsolidatedKeeps
  <2>6. view' = Consolidated(all, done \cup {t})
    BY <2>1 DEF all, some
  <2>7. Keeps(view, view')
    BY <2>2, <2>3, <2>5, <2>6, KeepsIsTransitive
  <2> QED
    BY <2>1, <2>5, <2>6, <2>7 DEF Progress, Goto
<1> QED
  BY <1>4, <1>5, <1>6 DEF Execute, ready

\* The answers to a review: the task under review waits again, and rows that
\* are open are cancelled, superseded or joined by new ones.
LEMMA AnswerStep ==
    ASSUME RowsOK, Answer
    PROVE  RowsOK' /\ Keeps(table, table')
<1>1. Tree(view) /\ Tree(table) /\ Keeps(table, view)
  BY DEF RowsOK
<1>2. {"pending", "superseded"} \subseteq Hierarchy!TaskStatuses
  BY DEF Hierarchy!TaskStatuses, Hierarchy!TerminalStatuses
<1>3. CASE AnswerProject
  <2>1. UNCHANGED rows /\ pc' = "environment"
    BY <1>3 DEF AnswerProject, Launch
  <2> QED
    BY <2>1, NoChangeIsSafe DEF RowsOK, Safe
<1>4. CASE TryAgain /\ review \in DOMAIN view /\ view[review].status # "completed"
  <2>1. Tree(view') /\ Keeps(view, view')
    BY <1>1, <1>2, <1>4, WithStatusKeeps DEF TryAgain
  <2>2. table' = view' /\ pc' = "environment"
    BY <1>4 DEF TryAgain, Launch
  <2> QED
    BY <2>1, <2>2, ProgressIsSafe DEF RowsOK, Progress, Safe
<1>5. CASE Narrow
  <2>1. view = table /\ review \in DOMAIN view /\ view[review].status # "completed"
    BY <1>5 DEF RowsOK, Narrow, Reviewed
  <2> QED
    BY <1>4, <1>5, <2>1 DEF Narrow
<1>6. CASE Reintegrate
  BY <1>4, <1>6 DEF Reintegrate, RowsOK
<1>7. CASE Moderate
  <2>1. PICK S \in SUBSET DOMAIN view : view' = Cancelled(view, S)
    BY <1>7 DEF Moderate
  <2>2. /\ view = table /\ review \in DOMAIN table
        /\ table[review].status # "completed"
    BY <1>7 DEF RowsOK, Moderate, Reviewed
  <2>3. /\ Tree(view') /\ Keeps(view, view')
        /\ review \in DOMAIN view' /\ view'[review].status # "completed"
    BY <1>1, <2>1, <2>2, CancelledKeeps
  <2>4. table' = table /\ review' = review /\ pc' = "blocks"
    BY <1>7 DEF Moderate, Goto
  <2> QED
    BY <2>3, <2>4, ProgressIsSafe DEF RowsOK, Progress, Safe
<1>8. CASE CreateBlock
  <2>1. review \in DOMAIN view /\ view[review].status # "completed"
    BY <1>8 DEF RowsOK, CreateBlock
  <2>2. Progress /\ review \in DOMAIN view' /\ view'[review] = view[review]
    <3>1. PICK n \in 1 .. MaxChildren :
             \/ /\ view' = Added(Added(view, 0, "high_level", 1, "block"),
                                 Len(view) + 1, "atomic", n, "block")
                /\ table' = view'
             \/ /\ \E p \in At(view, "high_level") :
                      view' = Added(view, p, "atomic", n, "block")
                /\ UNCHANGED table
      BY <1>8 DEF CreateBlock
    <3>2. n \in Nat
      BY SetupAssumption
    <3>3. CASE /\ view' = Added(Added(view, 0, "high_level", 1, "block"),
                                Len(view) + 1, "atomic", n, "block")
               /\ table' = view'
      <4> DEFINE goal == Added(view, 0, "high_level", 1, "block")
      <4>1. /\ Tree(goal) /\ Keeps(view, goal)
            /\ \A i \in DOMAIN view : goal[i] = view[i]
            /\ Len(view) + 1 \in DOMAIN goal /\ goal[Len(view) + 1].level = "high_level"
        BY <1>1, AddedKeeps
      <4> HIDE DEF goal
      <4> DEFINE place == Len(view) + 1
      <4>2. place \in Nat /\ place \in DOMAIN goal /\ goal[place].level # "atomic"
        BY <1>1, <4>1 DEF Tree
      <4>5. view' = Added(goal, place, "atomic", n, "block")
        BY <3>3 DEF goal
      <4> HIDE DEF place
      <4>3. /\ Tree(view') /\ Keeps(goal, view')
            /\ \A i \in DOMAIN goal : view'[i] = goal[i]
        BY <3>2, <4>1, <4>2, <4>5, AddedKeeps
      <4>4. Keeps(view, view')
        BY <4>1, <4>3, KeepsIsTransitive
      <4> QED
        BY <2>1, <3>3, <4>1, <4>3, <4>4 DEF Progress, Keeps
    <3>4. CASE /\ \E p \in At(view, "high_level") :
                     view' = Added(view, p, "atomic", n, "block")
               /\ UNCHANGED table
      <4>1. PICK p \in At(view, "high_level") :
               view' = Added(view, p, "atomic", n, "block")
        BY <3>4
      <4>2. p \in Nat /\ p \in DOMAIN view /\ view[p].level # "atomic"
        BY <1>1 DEF At, Tree
      <4>3. /\ Tree(view') /\ Keeps(view, view')
            /\ \A i \in DOMAIN view : view'[i] = view[i]
        BY <1>1, <3>2, <4>1, <4>2, AddedKeeps
      <4> QED
        BY <2>1, <3>4, <4>3 DEF Progress, Keeps
    <3> QED
      BY <3>1, <3>3, <3>4
  <2>3. review' = review /\ pc' = "blocks"
    BY <1>8 DEF CreateBlock, Goto
  <2> QED
    BY <2>1, <2>2, <2>3, ProgressIsSafe DEF RowsOK, Safe
<1>9. CASE Disrupt
  <2>1. \A i \in Active(view) : view[i].status # "completed"
    BY DEF Active, Terminal
  <2>2. Tree(view') /\ Keeps(view, view')
    BY <1>1, <1>2, <1>9, <2>1, WithStatusKeeps DEF Disrupt
  <2>3. table' = view' /\ pc' = "replan"
    BY <1>9 DEF Disrupt, Goto
  <2> QED
    BY <2>2, <2>3, ProgressIsSafe DEF RowsOK, Progress, Safe
<1>10. CASE Replan
  <2>1. PICK n \in 1 .. MaxChildren : view' = Added(view, 0, "high_level", n, "plan")
    BY <1>10 DEF Replan
  <2>2. n \in Nat
    BY SetupAssumption
  <2>3. Tree(view') /\ Keeps(view, view')
    BY <1>1, <2>1, <2>2, AddedKeeps
  <2>4. table' = view' /\ pc' = "environment"
    BY <1>10 DEF Replan, Launch
  <2> QED
    BY <2>3, <2>4, ProgressIsSafe DEF RowsOK, Progress, Safe
<1>11. CASE AnswerFails
  <2>1. view' = table /\ table' = table /\ pc' = "idle"
    BY <1>11 DEF AnswerFails, Goto
  <2> QED
    BY <2>1, RollbackIsSafe DEF RowsOK, Safe
<1> QED
  BY <1>3, <1>5, <1>6, <1>7, <1>8, <1>9, <1>10, <1>11 DEF Answer

\* Every step keeps the rows in order and what is finished in them.
LEMMA RowsStep ==
    ASSUME RowsOK, [Next]_vars
    PROVE  RowsOK' /\ Keeps(table, table')
<1>1. CASE Environment
  <2>1. view' = view /\ table' = table
    BY <1>1 DEF Environment, PlanEnvironment, StartContainer, InstallPackages,
       SeedGradleWrapper, SmokeTest, Repair, rows
  <2>2. pc' \notin {"idle", "ending", "blocks"}
    BY <1>1 DEF Environment, PlanEnvironment, StartContainer, InstallPackages,
       SeedGradleWrapper, SmokeTest, Repair, Goto
  <2> QED
    BY <2>1, <2>2, NoChangeIsSafe DEF RowsOK, Safe, rows
<1>2. CASE Planning
  BY <1>2, PlanningStep, ProgressIsSafe DEF RowsOK, Safe
<1>3. CASE Execute
  BY <1>3, ExecuteStep, ProgressIsSafe DEF RowsOK, Safe
<1>4. CASE Report
  <2>1. /\ pc' \in {"idle", "ending"}
        /\ view' = table'
        /\ table' \in {view, table}
    BY <1>4 DEF Report, Goto
  <2>2. Tree(table') /\ Keeps(table, table') /\ Keeps(table', view')
    BY <2>1, KeepsIsReflexive DEF RowsOK
  <2> QED
    BY <2>1, <2>2 DEF RowsOK
<1>5. CASE Teardown
  <2>1. view' = view /\ table' = table /\ pc' = "idle" /\ pc = "ending"
    BY <1>5 DEF Teardown, Goto, rows
  <2> QED
    BY <2>1, NoChangeIsSafe DEF RowsOK, Safe, rows
<1>6. CASE StartProject
  <2>1. PICK n \in 1 .. MaxChildren : table' = Added(table, 0, "high_level", n, "plan")
    BY <1>6 DEF StartProject
  <2>2. n \in Nat
    BY SetupAssumption
  <2>3. view = table /\ view' = table' /\ pc' = "environment"
    BY <1>6 DEF StartProject, Launch, RowsOK
  <2>4. Tree(view') /\ Keeps(view, view')
    BY <2>1, <2>2, <2>3, AddedKeeps DEF RowsOK
  <2> QED
    BY <2>3, <2>4, ProgressIsSafe DEF RowsOK, Progress, Safe
<1>7. CASE ResumePaused \/ RunEndpoint
  <2>1. UNCHANGED rows /\ pc' = "environment"
    BY <1>7 DEF ResumePaused, RunEndpoint, Launch
  <2> QED
    BY <2>1, NoChangeIsSafe DEF RowsOK, Safe
<1>8. CASE Answer
  BY <1>8, AnswerStep
<1>9. CASE Crash
  <2>1. view' = table /\ table' = table /\ pc' = "idle"
    BY <1>9 DEF Crash
  <2> QED
    BY <2>1, RollbackIsSafe DEF RowsOK, Safe
<1>10. CASE UNCHANGED vars
  <2>1. view' = view /\ table' = table /\ pc' = pc /\ review' = review
    BY <1>10 DEF vars
  <2> QED
    BY <2>1, KeepsIsReflexive DEF RowsOK
<1> QED
  BY <1>1, <1>2, <1>3, <1>4, <1>5, <1>6, <1>7, <1>8, <1>9, <1>10 DEF Next

----------------------------------------------------------------------------
(* The environment, step by step.                                           *)

\* A container is only worked on in a session, and a session is closed.
LEMMA EnvironmentStep ==
    ASSUME EnvironmentOK, [Next]_vars
    PROVE  EnvironmentOK'
<1> USE DEF EnvironmentOK, PlansInAProvenEnvironment, Goto
<1>1. CASE PlanEnvironment
  BY <1>1 DEF PlanEnvironment, env
<1>2. CASE StartContainer
  BY <1>2 DEF StartContainer, env
<1>3. CASE InstallPackages
  BY <1>3 DEF InstallPackages, Stopped, env
<1>4. CASE SeedGradleWrapper
  BY <1>4 DEF SeedGradleWrapper, Stopped, env
<1>5. CASE SmokeTest
  BY <1>5 DEF SmokeTest
<1>6. CASE Repair
  BY <1>6 DEF Repair, Stopped, env
<1>7. CASE Planning
  <2>1. /\ UNCHANGED env /\ caller' = caller
        /\ pc \in {"plan", "refine", "atomise", "execute"}
        /\ pc' \in {"plan", "refine", "atomise", "execute", "failed"}
    BY <1>7 DEF Planning, PlanProject, Refine, Atomise, Answered, Unanswered
  <2> QED
    BY <2>1 DEF env
<1>8. CASE Execute
  BY <1>8 DEF Execute, env
<1>9. CASE Report
  BY <1>9 DEF Report, env
<1>10. CASE Teardown
  BY <1>10 DEF Teardown, Stopped
<1>11. CASE StartProject \/ ResumePaused \/ RunEndpoint \/ AnswerProject
  BY <1>11 DEF StartProject, ResumePaused, RunEndpoint, AnswerProject, Launch, env
<1>12. CASE Narrow \/ Reintegrate \/ Replan
  BY <1>12 DEF Narrow, Reintegrate, Replan, TryAgain, Launch, env
<1>13. CASE Moderate \/ CreateBlock \/ Disrupt \/ AnswerFails
  BY <1>13 DEF Moderate, CreateBlock, Disrupt, AnswerFails, Reviewed, env
<1>14. CASE Crash
  BY <1>14 DEF Crash
<1>15. CASE UNCHANGED vars
  BY <1>15 DEF vars
<1> QED
  BY <1>1, <1>2, <1>3, <1>4, <1>5, <1>6, <1>7, <1>8, <1>9, <1>10, <1>11, <1>12, <1>13,
     <1>14, <1>15 DEF Next, Environment, Answer

----------------------------------------------------------------------------
(* What is cut once stays cut once.                                         *)

\* s has the rows of r, and opens no goal again that nobody has cut.
Steady(r, s) ==
    /\ DOMAIN s = DOMAIN r
    /\ \A i \in DOMAIN r :
          /\ s[i].level = r[i].level /\ s[i].parent = r[i].parent
          /\ s[i].origin = r[i].origin /\ s[i].call = r[i].call
          /\ r[i].level = "high_level" /\ s[i].status \notin Terminal
                => r[i].status \notin Terminal \/ Children(r, i) # {}

\* Two changes of statuses are one.
LEMMA SteadyIsTransitive ==
    ASSUME NEW r, NEW s, NEW t, Steady(r, s), Steady(s, t)
    PROVE  Steady(r, t)
BY DEF Steady, Children

\* No change is one of statuses.
LEMMA SteadyIsReflexive ==
    ASSUME NEW r
    PROVE  Steady(r, r)
BY DEF Steady

\* A change of statuses leaves every goal cut as it was.
LEMMA SteadyKeepsCuts ==
    ASSUME NEW r, NEW s, Tree(r), Steady(r, s), CutOnce(r)
    PROVE  CutOnce(s)
<1>1. \A i : Uncut(s, i) => Uncut(r, i)
  <2> SUFFICES ASSUME NEW i, Uncut(s, i) PROVE Uncut(r, i)
    OBVIOUS
  <2>1. i \in DOMAIN r /\ Children(r, i) = {}
    BY DEF Uncut, At, Steady, Children
  <2> QED
    BY <2>1 DEF Uncut, At, Steady
<1>2. \A i \in DOMAIN r : r[i].parent # 0 => r[i].parent \in DOMAIN r
  BY DEF Tree
<1>3. \A i \in DOMAIN s : /\ i \in DOMAIN r
                          /\ s[i].level = r[i].level /\ s[i].parent = r[i].parent
                          /\ s[i].origin = r[i].origin /\ s[i].call = r[i].call
  BY DEF Steady
<1>4. \A i \in DOMAIN s : s[i].parent # 0 => s[s[i].parent].level = r[r[i].parent].level
  BY <1>2, <1>3 DEF Steady
<1>5. \A i, j \in DOMAIN s : Uncut(s, i) /\ Uncut(s, j) => s[i].call = s[j].call
  BY <1>1, <1>3 DEF CutOnce
<1> QED
  BY <1>3, <1>4, <1>5 DEF CutOnce

\* One write of a status.
LEMMA WithStatusIsSteady ==
    ASSUME NEW rs, Tree(rs), NEW S, NEW s,
           s \in Terminal \/ \A i \in S \cap DOMAIN rs : rs[i].level # "high_level"
    PROVE  Steady(rs, WithStatus(rs, S, s))
<1>1. \A i \in DOMAIN rs : rs[i] \in Row
  BY DEF Tree
<1>2. \A i \in DOMAIN rs : LET new == [rs[i] EXCEPT !.status = s]
                           IN  /\ new.level = rs[i].level /\ new.parent = rs[i].parent
                               /\ new.origin = rs[i].origin /\ new.call = rs[i].call
                               /\ new.status = s
  BY <1>1 DEF Row
<1> DEFINE new == WithStatus(rs, S, s)
<1>3. DOMAIN new = DOMAIN rs
  BY DEF WithStatus
<1>4. ASSUME NEW i \in DOMAIN rs, i \in S
      PROVE  /\ new[i].level = rs[i].level /\ new[i].parent = rs[i].parent
             /\ new[i].origin = rs[i].origin /\ new[i].call = rs[i].call
             /\ new[i].status = s
  BY <1>2, <1>4 DEF WithStatus
<1>5. ASSUME NEW i \in DOMAIN rs, i \notin S
      PROVE  new[i] = rs[i]
  BY <1>5 DEF WithStatus
<1> HIDE DEF new
<1>6. Steady(rs, new)
  BY <1>3, <1>4, <1>5 DEF Steady
<1> QED
  BY <1>6 DEF new

\* Consolidation writes rows that have children.
LEMMA ConsolidatedIsSteady ==
    ASSUME NEW rs, Tree(rs), NEW S \in SUBSET DOMAIN rs
    PROVE  Steady(rs, Consolidated(rs, S))
<1> DEFINE Above(r, T) == {r[i].parent : i \in T} \ {0}
           Once(r, T) == [p \in DOMAIN r |->
                            IF p \in T THEN [r[p] EXCEPT !.status = Derived(r, p)]
                                       ELSE r[p]]
           parents == Above(rs, S)
           once    == Once(rs, parents)
           twice   == Once(once, Above(rs, parents))
<1>1. Consolidated(rs, S) = twice
  BY DEF Consolidated
<1>2. ASSUME NEW r, \A i \in DOMAIN r : r[i] \in Row,
             NEW T, \A p \in T \cap DOMAIN r : Children(r, p) # {}
      PROVE  Steady(r, Once(r, T)) /\ \A i \in DOMAIN r : Once(r, T)[i] \in Row
  <2> DEFINE new == Once(r, T)
  <2>1. \A p \in DOMAIN r : Derived(r, p) \in Hierarchy!TaskStatuses
    BY DEF Derived, Hierarchy!DerivedStatus, Hierarchy!TaskStatuses,
       Hierarchy!TerminalStatuses
  <2>2. \A p \in DOMAIN r :
           LET row == [r[p] EXCEPT !.status = Derived(r, p)]
           IN  /\ row \in Row
               /\ row.level = r[p].level /\ row.parent = r[p].parent
               /\ row.origin = r[p].origin /\ row.call = r[p].call
    BY <1>2, <2>1 DEF Row
  <2>3. DOMAIN new = DOMAIN r
    OBVIOUS
  <2>4. \A p \in DOMAIN r : p \notin T => new[p] = r[p]
    OBVIOUS
  <2>5. \A p \in DOMAIN r : p \in T => new[p] = [r[p] EXCEPT !.status = Derived(r, p)]
    OBVIOUS
  <2> HIDE DEF new
  <2>6. \A p \in DOMAIN r : /\ new[p] \in Row
                            /\ new[p].level = r[p].level /\ new[p].parent = r[p].parent
                            /\ new[p].origin = r[p].origin /\ new[p].call = r[p].call
    BY <1>2, <2>2, <2>4, <2>5
  <2>7. Steady(r, new)
    BY <1>2, <2>3, <2>4, <2>6 DEF Steady
  <2> QED
    BY <2>6, <2>7 DEF new
<1>3. \A T \in SUBSET DOMAIN rs : \A p \in Above(rs, T) : Children(rs, p) # {}
  BY DEF Children
<1>4. parents \in SUBSET DOMAIN rs
  BY DEF Tree
<1>5. \A p \in parents \cup Above(rs, parents) : Children(rs, p) # {}
  BY <1>3, <1>4
<1>6. \A i \in DOMAIN rs : rs[i] \in Row
  BY DEF Tree
<1> HIDE DEF Above, Once, parents
<1>7. Steady(rs, once) /\ \A i \in DOMAIN rs : once[i] \in Row
  BY <1>2, <1>5, <1>6
<1> HIDE DEF once
<1>8. /\ \A i \in DOMAIN once : once[i] \in Row
      /\ \A p \in Above(rs, parents) \cap DOMAIN once : Children(once, p) # {}
  BY <1>5, <1>7 DEF Steady, Children
<1>9. Steady(once, twice)
  BY <1>2, <1>8
<1> QED
  BY <1>1, <1>7, <1>9, SteadyIsTransitive

\* A cancellation closes rows only.
LEMMA CancelledIsSteady ==
    ASSUME NEW rs, Tree(rs), NEW S
    PROVE  Steady(rs, Cancelled(rs, S))
<1> DEFINE Up(r, T) == {p \in {r[i].parent : i \in T} \ {0} :
                           /\ r[p].status \notin Terminal
                           /\ \A c \in Children(r, p) : r[c].status = "cancelled"}
           hit   == S \cap Active(rs)
           one   == WithStatus(rs, hit, "cancelled")
           two   == WithStatus(one, Up(one, hit), "cancelled")
           three == WithStatus(two, Up(two, Up(one, hit)), "cancelled")
<1>1. Cancelled(rs, S) = three
  BY DEF Cancelled
<1>2. "cancelled" \in Terminal /\ "cancelled" # "completed"
      /\ "cancelled" \in Hierarchy!TaskStatuses
  BY DEF Terminal, Hierarchy!TaskStatuses, Hierarchy!TerminalStatuses
<1>3. ASSUME NEW r, Tree(r), NEW T, \A i \in T \cap DOMAIN r : r[i].status \notin Terminal
      PROVE  Tree(WithStatus(r, T, "cancelled")) /\ Steady(r, WithStatus(r, T, "cancelled"))
  <2>1. \A i \in T \cap DOMAIN r : r[i].status # "completed"
    BY <1>3 DEF Terminal
  <2>2. Tree(WithStatus(r, T, "cancelled"))
    BY <1>2, <1>3, <2>1, WithStatusKeeps
  <2>3. Steady(r, WithStatus(r, T, "cancelled"))
    BY <1>2, <1>3, WithStatusIsSteady
  <2> QED
    BY <2>2, <2>3
<1>4. \A r, T : \A p \in Up(r, T) : r[p].status \notin Terminal
  OBVIOUS
<1>5. \A i \in hit : rs[i].status \notin Terminal
  BY DEF Active
<1> HIDE DEF Up, hit
<1>6. Tree(one) /\ Steady(rs, one)
  BY <1>3, <1>5
<1> HIDE DEF one
<1>7. Tree(two) /\ Steady(one, two)
  BY <1>3, <1>4, <1>6
<1> HIDE DEF two
<1>8. Steady(two, three)
  BY <1>3, <1>4, <1>7
<1> HIDE DEF three
<1> QED
  BY <1>1, <1>6, <1>7, <1>8, SteadyIsTransitive

\* The rows of an answer.
LEMMA AddedRows ==
    ASSUME NEW rs, Tree(rs), NEW p \in Nat, NEW l, NEW n \in Nat, NEW origin
    PROVE  LET new == Added(rs, p, l, n, origin)
           IN  /\ Len(rs) \in Nat /\ Len(new) = Len(rs) + n
               /\ \A i \in DOMAIN rs : i \in DOMAIN new /\ new[i] = rs[i]
               /\ \A i \in DOMAIN new \ DOMAIN rs :
                     /\ new[i].level = l /\ new[i].parent = p
                     /\ new[i].origin = origin /\ new[i].call = Len(rs) + 1
                     /\ new[i].status = "pending"
<1> DEFINE row == [level |-> l, parent |-> p, status |-> "pending",
                   origin |-> origin, call |-> Len(rs) + 1]
           more == [i \in 1 .. n |-> row]
           new == Added(rs, p, l, n, origin)
<1>1. rs \in Seq(Row) /\ Len(rs) \in Nat /\ DOMAIN rs = 1 .. Len(rs)
  BY DEF Tree
<1>2. new = rs \o more
  BY DEF Added
<1>7. /\ row.level = l /\ row.parent = p /\ row.origin = origin
      /\ row.call = Len(rs) + 1 /\ row.status = "pending"
  OBVIOUS
<1> HIDE DEF row, new
<1>3. more \in Seq({row}) /\ Len(more) = n
  OBVIOUS
<1>4. /\ Len(new) = Len(rs) + n
      /\ \A i \in 1 .. Len(rs) + n : new[i] = IF i <= Len(rs) THEN rs[i] ELSE more[i - Len(rs)]
      /\ DOMAIN new = 1 .. Len(rs) + n
  BY <1>1, <1>2, <1>3
<1>5. \A i \in DOMAIN new \ DOMAIN rs : new[i] = row
  BY <1>1, <1>4
<1>6. \A i \in DOMAIN rs : i \in DOMAIN new /\ new[i] = rs[i]
  BY <1>1, <1>4
<1> QED
  BY <1>1, <1>4, <1>5, <1>6, <1>7 DEF new

\* An answer with n tasks adds n rows.
LEMMA AddedLength ==
    ASSUME NEW rs, Tree(rs), NEW p \in Nat, NEW l, NEW n \in Nat, NEW origin
    PROVE  Len(Added(rs, p, l, n, origin)) = Len(rs) + n
<1> DEFINE more == [i \in 1 .. n |->
                      [level |-> l, parent |-> p, status |-> "pending",
                       origin |-> origin, call |-> Len(rs) + 1]]
<1>1. rs \in Seq(Row) /\ Added(rs, p, l, n, origin) = rs \o more
  BY DEF Tree, Added
<1>2. \E R : more \in Seq(R) /\ rs \in Seq(R)
  <2> DEFINE row == [level |-> l, parent |-> p, status |-> "pending",
                     origin |-> origin, call |-> Len(rs) + 1]
  <2>1. more \in Seq(Row \cup {row}) /\ rs \in Seq(Row \cup {row})
    BY <1>1
  <2> HIDE DEF row, more
  <2> QED
    BY <2>1
<1>3. Len(more) = n
  OBVIOUS
<1> HIDE DEF more
<1>4. Len(rs \o more) = Len(rs) + Len(more)
  BY <1>2
<1> QED
  BY <1>1, <1>3, <1>4

\* An answer cuts what was not cut: the rows of a plan are added below a parent
\* that has none of their level, or when no other goal is open and uncut.
LEMMA AddedKeepsCuts ==
    ASSUME NEW rs, Tree(rs), CutOnce(rs), NEW p \in Nat, NEW l, NEW n \in Nat, NEW origin,
           p # 0 => p \in DOMAIN rs,
           origin = "plan" /\ p # 0 =>
              /\ ChildrenAt(rs, p, l) = {}
              /\ IF refinement THEN l = "atomic" => rs[p].level # "high_level"
                 ELSE l # "refined",
           origin = "plan" /\ l = "high_level" => \A i \in DOMAIN rs : ~ Uncut(rs, i)
    PROVE  CutOnce(Added(rs, p, l, n, origin))
<1> DEFINE new == Added(rs, p, l, n, origin)
<1>1. /\ \A i \in DOMAIN rs : i \in DOMAIN new /\ new[i] = rs[i]
      /\ \A i \in DOMAIN new \ DOMAIN rs :
            /\ new[i].level = l /\ new[i].parent = p
            /\ new[i].origin = origin /\ new[i].call = Len(rs) + 1
            /\ new[i].status = "pending"
  BY AddedRows
<1> HIDE DEF new
<1>2. \A i \in DOMAIN rs : rs[i].parent # 0 => rs[i].parent \in DOMAIN rs
  BY DEF Tree
<1>3. ASSUME NEW i \in DOMAIN new, NEW j \in DOMAIN new,
             new[i].origin = "plan", new[j].origin = "plan",
             new[i].parent = new[j].parent, new[i].parent # 0,
             new[i].level = new[j].level
      PROVE  new[i].call = new[j].call
  <2>1. ASSUME NEW a \in DOMAIN new, NEW b \in DOMAIN new, a \in DOMAIN rs, b \notin DOMAIN rs,
               new[a].origin = "plan", new[b].origin = "plan",
               new[a].parent = new[b].parent, new[b].parent # 0,
               new[a].level = new[b].level
        PROVE  FALSE
    <3>1. rs[a].parent = p /\ rs[a].level = l /\ p # 0 /\ origin = "plan"
      BY <1>1, <2>1
    <3>2. a \in ChildrenAt(rs, p, l)
      BY <2>1, <3>1 DEF ChildrenAt, Children, At
    <3> QED
      BY <3>1, <3>2
  <2>2. CASE i \in DOMAIN rs /\ j \in DOMAIN rs
    BY <1>1, <1>3, <2>2 DEF CutOnce
  <2>3. CASE i \notin DOMAIN rs /\ j \notin DOMAIN rs
    BY <1>1, <2>3
  <2> QED
    BY <1>3, <2>1, <2>2, <2>3
<1>4. ASSUME NEW i \in DOMAIN new, new[i].origin = "plan", new[i].parent # 0
      PROVE  IF refinement
             THEN new[i].level = "atomic" => new[new[i].parent].level # "high_level"
             ELSE new[i].level # "refined"
  <2>1. CASE i \in DOMAIN rs
    BY <1>1, <1>2, <1>4, <2>1 DEF CutOnce
  <2>2. CASE i \notin DOMAIN rs
    BY <1>1, <1>4, <2>2
  <2> QED
    BY <2>1, <2>2
<1>5. ASSUME NEW i \in DOMAIN new, NEW j \in DOMAIN new, Uncut(new, i), Uncut(new, j)
      PROVE  new[i].call = new[j].call
  <2>1. ASSUME NEW a \in DOMAIN rs, Uncut(new, a)
        PROVE  Uncut(rs, a)
    BY <1>1, <2>1 DEF Uncut, At, Children
  <2>2. ASSUME NEW a \in DOMAIN new, a \notin DOMAIN rs, Uncut(new, a)
        PROVE  origin = "plan" /\ l = "high_level"
    BY <1>1, <2>2 DEF Uncut, At
  <2>3. CASE i \in DOMAIN rs /\ j \in DOMAIN rs
    BY <1>1, <1>5, <2>1, <2>3 DEF CutOnce
  <2>4. CASE i \notin DOMAIN rs /\ j \notin DOMAIN rs
    BY <1>1, <2>4
  <2>5. ~ (i \in DOMAIN rs /\ j \notin DOMAIN rs) /\ ~ (i \notin DOMAIN rs /\ j \in DOMAIN rs)
    BY <1>5, <2>1, <2>2
  <2> QED
    BY <2>3, <2>4, <2>5
<1>6. CutOnce(new)
  BY <1>3, <1>4, <1>5 DEF CutOnce
<1> QED
  BY <1>6 DEF new

\* What the planner's steps keep of the rows, with the number of rows.
Cut(rs) == CutOnce(rs) /\ Len(rs) <= MaxTasks

\* Rows cut in order stay so while the mode of refinement stays.
LEMMA CutsAreRigid ==
    ASSUME refinement' = refinement, Cut(table'), Cut(view')
    PROVE  /\ CutOnce(table)' /\ CutOnce(view)'
           /\ Len(table') <= MaxTasks /\ Len(view') <= MaxTasks
BY DEF Cut, CutOnce

\* Rows that change their statuses alone stay cut in order.
LEMMA SteadyIsCut ==
    ASSUME NEW r, NEW s, Tree(r), Tree(s), Steady(r, s), Cut(r)
    PROVE  Cut(s)
<1>1. CutOnce(s)
  BY SteadyKeepsCuts DEF Cut
<1>2. Len(s) = Len(r)
  <2>1. DOMAIN r = 1 .. Len(r) /\ DOMAIN s = 1 .. Len(s) /\ Len(r) \in Nat /\ Len(s) \in Nat
    BY DEF Tree
  <2>2. DOMAIN s = DOMAIN r
    BY DEF Steady
  <2> DEFINE a == Len(r)
             b == Len(s)
  <2>3. 1 .. a = 1 .. b /\ a \in Nat /\ b \in Nat
    BY <2>1, <2>2
  <2> HIDE DEF a, b
  <2>4. ~ (a < b)
    <3>1. ASSUME a < b PROVE FALSE
      <4>1. b \in 1 .. b /\ b \notin 1 .. a
        BY <2>3, <3>1
      <4> QED
        BY <2>3, <4>1
    <3> QED
      BY <3>1
  <2>5. ~ (b < a)
    <3>1. ASSUME b < a PROVE FALSE
      <4>1. a \in 1 .. a /\ a \notin 1 .. b
        BY <2>3, <3>1
      <4> QED
        BY <2>3, <4>1
    <3> QED
      BY <3>1
  <2>6. a = b
    BY <2>3, <2>4, <2>5
  <2> QED
    BY <2>6 DEF a, b
<1> QED
  BY <1>1, <1>2 DEF Cut

\* A goal below which a plan has atomic tasks was not refined, and the parts of
\* a goal, like the atomic tasks of a parent, come from one call.
LEMMA CutMeansOneDecomposition ==
    ASSUME Tree(table), CutOnce(table)
    PROVE  OneDecomposition
<1>1. ASSUME NEW S, \A i, j \in S : table[i].call = table[j].call
      PROVE  Cardinality(CallsOf(S)) <= 1
  <2>1. CASE S = {}
    <3>1. CallsOf(S) = {}
      BY <2>1 DEF CallsOf
    <3> QED
      BY <3>1, FS_EmptySet
  <2>2. CASE S # {}
    <3>1. PICK i \in S : TRUE
      BY <2>2
    <3>2. CallsOf(S) = {table[i].call}
      BY <1>1, <3>1 DEF CallsOf
    <3> DEFINE c == table[i].call
    <3>3. Cardinality({c}) = 1
      BY FS_Singleton
    <3>4. Cardinality(CallsOf(S)) = 1
      BY <3>2, <3>3
    <3> HIDE DEF c
    <3> QED
      BY <3>4
  <2> QED
    BY <2>1, <2>2
<1>2. \A p \in DOMAIN table : p # 0
  BY DEF Tree
<1>3. ASSUME NEW p \in DOMAIN table, NEW l \in {"refined", "atomic"}
      PROVE  Cardinality(CallsOf(Plan(p, l))) <= 1
  <2>1. \A i, j \in Plan(p, l) : table[i].call = table[j].call
    BY <1>2 DEF Plan, ChildrenAt, Children, At, CutOnce
  <2> QED
    BY <1>1, <2>1
<1>4. ASSUME NEW p \in DOMAIN table, table[p].level = "high_level"
      PROVE  Plan(p, "refined") = {} \/ Plan(p, "atomic") = {}
  <2>1. CASE refinement
    <3>1. Plan(p, "atomic") = {}
      BY <1>2, <1>4, <2>1 DEF Plan, ChildrenAt, Children, At, CutOnce
    <3> QED
      BY <3>1
  <2>2. CASE ~ refinement
    <3>1. Plan(p, "refined") = {}
      BY <1>2, <1>4, <2>2 DEF Plan, ChildrenAt, Children, At, CutOnce
    <3> QED
      BY <3>1
  <2> QED
    BY <2>1, <2>2
<1> DEFINE open == {p \in Plan(0, "high_level") \cap Active(table) : Children(table, p) = {}}
<1>5. Cardinality(CallsOf(open)) <= 1
  <2>1. \A i \in open : i \in DOMAIN table /\ Uncut(table, i)
    BY DEF Plan, ChildrenAt, At, Active, Uncut
  <2>2. \A i, j \in open : table[i].call = table[j].call
    BY <2>1 DEF CutOnce
  <2> QED
    BY <1>1, <2>2
<1> QED
  BY <1>3, <1>4, <1>5 DEF OneDecomposition

----------------------------------------------------------------------------
(* The cuts, step by step.                                                  *)

Cuts == /\ Cut(view') /\ Cut(table')
        /\ refinement' = refinement

\* A plan's answer is flushed, and committed or not.
LEMMA AnswerCuts ==
    ASSUME Tree(view), Cut(view), Cut(table), NEW p \in Nat, NEW l,
           p # 0 => /\ p \in DOMAIN view
                    /\ ChildrenAt(view, p, l) = {}
                    /\ IF refinement THEN l = "atomic" => view[p].level # "high_level"
                       ELSE l # "refined",
           l = "high_level" => \A i \in DOMAIN view : ~ Uncut(view, i),
           Answered(p, l, "plan") \/ Unanswered
    PROVE  Cuts
<1>1. CASE Answered(p, l, "plan")
  <2>1. PICK n \in 1 .. MaxChildren :
           /\ Len(view) + n <= MaxTasks
           /\ view' = Added(view, p, l, n, "plan")
    BY <1>1 DEF Answered
  <2>2. n \in Nat
    BY SetupAssumption
  <2>3. CutOnce(view')
    BY <2>1, <2>2, AddedKeepsCuts DEF Cut
  <2>4. Len(view') <= MaxTasks
    BY <2>1, <2>2, AddedRows
  <2>5. table' = view' \/ table' = table
    BY <1>1 DEF Answered
  <2>6. refinement' = refinement
    BY <1>1 DEF Answered, Goto
  <2> QED
    BY <2>3, <2>4, <2>5, <2>6 DEF Cut, Cuts
<1>2. CASE Unanswered
  BY <1>2 DEF Unanswered, Goto, rows, Cuts
<1> QED
  BY <1>1, <1>2

\* The goals come once, their parts when they have none, and atomic tasks
\* where there are neither.
LEMMA PlanningCuts ==
    ASSUME RowsOK, PlanningOK, Planning
    PROVE  /\ Cuts
           /\ pc' = "atomise" /\ refinement => Unrefined(view') = {}
<1>1. Tree(view) /\ Cut(view) /\ Cut(table)
  BY DEF RowsOK, PlanningOK, Cut
<1>2. CASE PlanProject
  <2>0. pc' # "atomise"
    BY <1>2 DEF PlanProject, Answered, Unanswered, Goto
  <2>1. CASE Goto("refine") /\ UNCHANGED rows
    BY <1>1, <2>0, <2>1 DEF Goto, rows, Cuts
  <2>2. CASE ~ Planned(view) /\ (Answered(0, "high_level", "plan") \/ Unanswered)
    <3>1. \A i \in DOMAIN view : ~ Uncut(view, i)
      BY <2>2 DEF Planned, Uncut
    <3>2. Cuts
      BY <1>1, <2>2, <3>1, AnswerCuts
    <3> QED
      BY <2>0, <3>2
  <2> QED
    BY <1>2, <2>1, <2>2 DEF PlanProject
<1>3. CASE Refine
  <2> DEFINE todo == IF refinement THEN Unrefined(view) ELSE {}
             goal == CHOOSE g \in todo : \A h \in todo : g <= h
  <2>1. CASE todo = {}
    <3>1. Goto("atomise") /\ UNCHANGED rows
      BY <1>3, <2>1 DEF Refine
    <3>2. Cuts
      BY <1>1, <3>1 DEF Goto, rows, Cuts
    <3> QED
      BY <2>1, <3>1, <3>2 DEF rows
  <2>2. CASE todo # {}
    <3>1. todo \in SUBSET DOMAIN view
      BY DEF Unrefined, Pending, At
    <3>2. goal \in todo
      BY <1>1, <2>2, <3>1, LeastRow
    <3>3. refinement /\ goal \in Unrefined(view)
      BY <2>2, <3>2
    <3>4. goal \in DOMAIN view /\ ChildrenAt(view, goal, "refined") = {}
      BY <3>3 DEF Unrefined, Pending, At
    <3>5. goal \in Nat
      BY <1>1, <3>4 DEF Tree
    <3>6. Answered(goal, "refined", "plan") \/ Unanswered
      BY <1>3, <2>2 DEF Refine
    <3>7. Cuts
      BY <1>1, <3>3, <3>4, <3>5, <3>6, AnswerCuts
    <3>8. pc' # "atomise"
      BY <1>3, <3>6 DEF Refine, Answered, Unanswered, Goto
    <3> QED
      BY <3>7, <3>8
  <2> QED
    BY <2>1, <2>2
<1>4. CASE Atomise
  <2>0. pc = "atomise" /\ (refinement => Unrefined(view) = {})
    BY <1>4 DEF Atomise, PlanningOK
  <2>1. CASE Undecomposed(view, refinement) = {}
    <3>1. Goto("execute") /\ UNCHANGED rows
      BY <1>4, <2>1 DEF Atomise
    <3> QED
      BY <1>1, <3>1 DEF Goto, rows, Cuts
  <2>2. CASE Undecomposed(view, refinement) # {}
    <3> DEFINE all   == Undecomposed(view, refinement)
               first == IF refinement THEN "refined" ELSE "high_level"
               now   == IF all \cap At(view, first) # {}
                        THEN all \cap At(view, first) ELSE all
               next  == CHOOSE p \in now : \A q \in now : p <= q
    <3>1. now \subseteq all /\ now # {}
      BY <2>2
    <3>2. all \subseteq DOMAIN view
      BY DEF Undecomposed, Pending, At
    <3>3. \A p \in all :
             /\ ChildrenAt(view, p, "atomic") = {}
             /\ refinement => view[p].level # "high_level"
      <4> SUFFICES ASSUME NEW p \in all
                   PROVE  /\ ChildrenAt(view, p, "atomic") = {}
                          /\ ~ (refinement /\ view[p].level = "high_level")
        OBVIOUS
      <4>1. ChildrenAt(view, p, "atomic") = {}
        BY DEF Undecomposed
      <4>2. ASSUME refinement, view[p].level = "high_level" PROVE FALSE
        <5>1. p \in Pending(view, "high_level") /\ ChildrenAt(view, p, "refined") = {}
          BY <4>2 DEF Undecomposed, Pending, At
        <5> QED
          BY <2>0, <4>2, <5>1 DEF Unrefined
      <4> QED
        BY <4>1, <4>2
    <3>4. NextParent(view, refinement) = next
      BY DEF NextParent
    <3> HIDE DEF now, all
    <3>5. next \in now
      BY <1>1, <3>1, <3>2, LeastRow
    <3>6. /\ next \in DOMAIN view /\ ChildrenAt(view, next, "atomic") = {}
          /\ refinement => view[next].level # "high_level"
      BY <3>1, <3>2, <3>3, <3>5
    <3>7. next \in Nat
      BY <1>1, <3>6 DEF Tree
    <3>8. Answered(next, "atomic", "plan") \/ Unanswered
      BY <1>4, <2>2, <3>4 DEF Atomise
    <3> HIDE DEF next
    <3>9. Cuts
      BY <1>1, <3>6, <3>7, <3>8, AnswerCuts
    <3>10. ASSUME pc' = "atomise", refinement
           PROVE  Unrefined(view') = {}
      <4>1. Answered(next, "atomic", "plan")
        BY <3>8, <3>10 DEF Unanswered, Goto
      <4>2. PICK n \in 1 .. MaxChildren : view' = Added(view, next, "atomic", n, "plan")
        BY <4>1 DEF Answered
      <4>3. n \in Nat
        BY SetupAssumption
      <4>4. /\ \A i \in DOMAIN view : i \in DOMAIN view' /\ view'[i] = view[i]
            /\ \A i \in DOMAIN view' \ DOMAIN view : view'[i].level = "atomic"
        BY <1>1, <3>7, <4>2, <4>3, AddedRows
      <4>5. ASSUME NEW p \in Unrefined(view') PROVE FALSE
        <5>1. p \in DOMAIN view' /\ view'[p].level = "high_level" /\ view'[p].status = "pending"
              /\ ChildrenAt(view', p, "refined") = {}
          BY DEF Unrefined, Pending, At
        <5>2. p \in Pending(view, "high_level")
          BY <4>4, <5>1 DEF Pending, At
        <5>3. ChildrenAt(view, p, "refined") = {}
          BY <4>4, <5>1 DEF ChildrenAt, Children, At
        <5> QED
          BY <2>0, <3>10, <5>2, <5>3 DEF Unrefined
      <4> QED
        BY <4>5
    <3> QED
      BY <3>9, <3>10
  <2> QED
    BY <2>1, <2>2
<1> QED
  BY <1>2, <1>3, <1>4 DEF Planning

\* A workflow closes atomic tasks, and what it writes above them has children.
LEMMA ExecuteCuts ==
    ASSUME RowsOK, PlanningOK, Execute
    PROVE  Cuts /\ review' \in {review} \cup At(table', "atomic")
<1> DEFINE ready == Pending(view, "atomic")
<1>1. Tree(view) /\ Cut(view) /\ Cut(table)
  BY DEF RowsOK, PlanningOK, Cut
<1>2. /\ ready \subseteq DOMAIN view
      /\ \A i \in ready : view[i].status = "pending" /\ view[i].level = "atomic"
  BY DEF Pending, At
<1>3. /\ {"completed", "awaiting_review", "failed"} \subseteq Hierarchy!TaskStatuses
      /\ "completed" \in Terminal
  BY DEF Hierarchy!TaskStatuses, Hierarchy!TerminalStatuses, Terminal
<1>0. refinement' = refinement
  BY DEF Execute, Goto
<1> HIDE DEF ready
<1>4. CASE Goto("failed") /\ UNCHANGED <<rows, review>>
  BY <1>0, <1>1, <1>4 DEF rows, Cuts
<1>5. CASE /\ view' = Consolidated(WithStatus(view, ready, "completed"), ready)
           /\ table' = view' /\ UNCHANGED review
  <2> DEFINE done == WithStatus(view, ready, "completed")
  <2>1. Tree(done) /\ DOMAIN done = DOMAIN view
    BY <1>1, <1>2, <1>3, WithStatusKeeps
  <2>2. Steady(view, done)
    BY <1>1, <1>3, WithStatusIsSteady
  <2>3. view' = Consolidated(done, ready)
    BY <1>5
  <2> HIDE DEF done
  <2>4. Tree(view') /\ Steady(done, view')
    BY <1>2, <2>1, <2>3, ConsolidatedKeeps, ConsolidatedIsSteady
  <2>5. Steady(view, view')
    BY <2>2, <2>4, SteadyIsTransitive
  <2>6. Cut(view')
    BY <1>1, <2>4, <2>5, SteadyIsCut
  <2> QED
    BY <1>0, <1>5, <2>6 DEF Cuts
<1>6. CASE \E t \in ready, s \in {"awaiting_review", "failed"} :
           \E done \in SUBSET (ready \ {t}) :
              /\ view' = Consolidated(
                             WithStatus(WithStatus(view, done, "completed"), {t}, s),
                             done \cup {t})
              /\ table' = view'
              /\ review' \in {t, review}
  <2> PICK t \in ready, s \in {"awaiting_review", "failed"} :
           \E done \in SUBSET (ready \ {t}) :
              /\ view' = Consolidated(
                             WithStatus(WithStatus(view, done, "completed"), {t}, s),
                             done \cup {t})
              /\ table' = view'
              /\ review' \in {t, review}
    BY <1>6
  <2>1. PICK done \in SUBSET (ready \ {t}) :
              /\ view' = Consolidated(
                             WithStatus(WithStatus(view, done, "completed"), {t}, s),
                             done \cup {t})
              /\ table' = view'
              /\ review' \in {t, review}
    OBVIOUS
  <2> DEFINE some == WithStatus(view, done, "completed")
             all  == WithStatus(some, {t}, s)
  <2>2. /\ Tree(some) /\ Keeps(view, some) /\ DOMAIN some = DOMAIN view
        /\ some[t] = view[t]
    BY <1>1, <1>2, <1>3, <2>1, WithStatusKeeps
  <2>3. Steady(view, some)
    BY <1>1, <1>3, WithStatusIsSteady
  <2>4. view' = Consolidated(all, done \cup {t})
    BY <2>1
  <2> HIDE DEF some
  <2>5. Tree(all) /\ DOMAIN all = DOMAIN some
    <3>1. \A i \in {t} \cap DOMAIN some : some[i].status # "completed"
      BY <1>2, <2>1, <2>2
    <3> QED
      BY <1>3, <2>1, <2>2, <3>1, WithStatusKeeps
  <2>6. Steady(some, all)
    <3>1. \A i \in {t} \cap DOMAIN some : some[i].level # "high_level"
      BY <1>2, <2>2
    <3> QED
      BY <2>2, <3>1, WithStatusIsSteady
  <2> HIDE DEF all
  <2>7. done \cup {t} \in SUBSET DOMAIN all
    BY <1>2, <2>1, <2>2, <2>5
  <2>8. Tree(view') /\ Steady(all, view')
    BY <2>4, <2>5, <2>7, ConsolidatedKeeps, ConsolidatedIsSteady
  <2>9. Steady(view, view')
    BY <2>3, <2>6, <2>8, SteadyIsTransitive
  <2>10. Cut(view')
    BY <1>1, <2>8, <2>9, SteadyIsCut
  <2>11. t \in At(view', "atomic")
    BY <1>2, <2>9 DEF Steady, At
  <2> QED
    BY <1>0, <2>1, <2>10, <2>11 DEF Cuts
<1> QED
  BY <1>4, <1>5, <1>6 DEF Execute, ready

\* The answers to a review cancel, supersede, put back an atomic task, or plan
\* when no row is open.
LEMMA AnswersCut ==
    ASSUME RowsOK, PlanningOK, Answer
    PROVE  /\ Cuts
           /\ review' \in {0, review}
           /\ pc' = "replan" => Active(view') = {}
           /\ pc' # "atomise"
<1>1. /\ Tree(view) /\ Tree(table) /\ Keeps(table, view)
      /\ Cut(view) /\ Cut(table)
  BY DEF RowsOK, PlanningOK, Cut
<1>2. /\ {"pending", "superseded"} \subseteq Hierarchy!TaskStatuses
      /\ "superseded" \in Terminal
  BY DEF Hierarchy!TaskStatuses, Hierarchy!TerminalStatuses, Terminal
<1>3. CASE AnswerProject
  BY <1>1, <1>3 DEF AnswerProject, Launch, rows, Cuts
<1>4. ASSUME TryAgain, review \in DOMAIN view, view[review].status # "completed",
             refinement' = refinement
      PROVE  /\ Cuts
             /\ review' = 0 /\ pc' = "environment"
  <2>1. view[review].level = "atomic"
    <3>1. DOMAIN view = 1 .. Len(view) /\ Len(view) \in Nat
      BY <1>1 DEF Tree
    <3>2. Len(view) <= MaxTasks /\ MaxTasks \in Nat
      BY <1>1, SetupAssumption DEF Cut
    <3>3. review # 0 /\ review # Anchorless
      BY <1>4, <3>1, <3>2 DEF Anchorless
    <3>4. review \in At(table, "atomic")
      BY <3>3 DEF PlanningOK
    <3> QED
      BY <1>1, <3>4 DEF At, Keeps
  <2>2. view' = WithStatus(view, {review}, "pending")
    BY <1>4 DEF TryAgain
  <2>3. Tree(view')
    BY <1>1, <1>2, <1>4, <2>2, WithStatusKeeps
  <2>4. Steady(view, view')
    <3>1. \A i \in {review} \cap DOMAIN view : view[i].level # "high_level"
      BY <2>1
    <3> QED
      BY <1>1, <2>2, <3>1, WithStatusIsSteady
  <2>5. Cut(view')
    BY <1>1, <2>3, <2>4, SteadyIsCut
  <2> QED
    BY <1>4, <2>5 DEF TryAgain, Launch, Cuts
<1>5. CASE Narrow
  <2>1. view = table /\ review \in DOMAIN view /\ view[review].status # "completed"
    BY <1>5 DEF RowsOK, Narrow, Reviewed
  <2>2. TryAgain /\ refinement' = refinement
    BY <1>5 DEF Narrow
  <2>3. Cuts /\ review' = 0 /\ pc' = "environment"
    BY <1>4, <2>1, <2>2
  <2> QED
    BY <2>3
<1>6. CASE Reintegrate
  <2>1. review \in DOMAIN view /\ view[review].status # "completed"
    BY <1>6 DEF RowsOK, Reintegrate
  <2>2. TryAgain /\ refinement' = refinement
    BY <1>6 DEF Reintegrate
  <2>3. Cuts /\ review' = 0 /\ pc' = "environment"
    BY <1>4, <2>1, <2>2
  <2> QED
    BY <2>3
<1>7. CASE Moderate
  <2>1. PICK S \in SUBSET DOMAIN view : view' = Cancelled(view, S)
    BY <1>7 DEF Moderate
  <2>2. Tree(view') /\ Steady(view, view')
    BY <1>1, <2>1, CancelledKeeps, CancelledIsSteady
  <2>3. Cut(view')
    BY <1>1, <2>2, SteadyIsCut
  <2> QED
    BY <1>1, <1>7, <2>3 DEF Moderate, Goto, Cuts
<1>8. CASE CreateBlock
  <2>1. PICK n \in 1 .. MaxChildren :
           \/ /\ Len(view) + n < MaxTasks
              /\ view' = Added(Added(view, 0, "high_level", 1, "block"),
                               Len(view) + 1, "atomic", n, "block")
              /\ table' = view'
           \/ /\ Len(view) + n <= MaxTasks
              /\ \E p \in At(view, "high_level") :
                    view' = Added(view, p, "atomic", n, "block")
              /\ UNCHANGED table
    BY <1>8 DEF CreateBlock
  <2>2. n \in Nat /\ Len(view) \in Nat /\ MaxTasks \in Nat
    BY <1>1, SetupAssumption DEF Tree
  <2>3. Cut(view')
    <3>1. CASE /\ Len(view) + n < MaxTasks
               /\ view' = Added(Added(view, 0, "high_level", 1, "block"),
                                Len(view) + 1, "atomic", n, "block")
      <4> DEFINE goal == Added(view, 0, "high_level", 1, "block")
                 place == Len(view) + 1
      <4>1. /\ Tree(goal) /\ place \in DOMAIN goal
        BY <1>1, AddedKeeps
      <4>2. CutOnce(goal)
        BY <1>1, AddedKeepsCuts DEF Cut
      <4>3. Len(goal) = Len(view) + 1
        BY <1>1, AddedLength
      <4>4. view' = Added(goal, place, "atomic", n, "block") /\ place \in Nat
        BY <2>2, <3>1
      <4> HIDE DEF goal, place
      <4>5. CutOnce(view')
        BY <2>2, <4>1, <4>2, <4>4, AddedKeepsCuts
      <4>6. Len(view') = Len(goal) + n
        BY <2>2, <4>1, <4>4, AddedLength
      <4> QED
        BY <2>2, <3>1, <4>3, <4>5, <4>6 DEF Cut
    <3>2. CASE /\ Len(view) + n <= MaxTasks
               /\ \E p \in At(view, "high_level") :
                     view' = Added(view, p, "atomic", n, "block")
      <4>1. PICK p \in At(view, "high_level") :
               view' = Added(view, p, "atomic", n, "block")
        BY <3>2
      <4>2. p \in Nat /\ p \in DOMAIN view
        BY <1>1 DEF At, Tree
      <4>3. CutOnce(view')
        BY <1>1, <2>2, <4>1, <4>2, AddedKeepsCuts DEF Cut
      <4>4. Len(view') = Len(view) + n
        BY <1>1, <2>2, <4>1, <4>2, AddedLength
      <4> QED
        BY <3>2, <4>3, <4>4 DEF Cut
    <3> QED
      BY <2>1, <3>1, <3>2
  <2>4. table' = view' \/ table' = table
    BY <2>1
  <2>5. /\ refinement' = refinement /\ review' = review /\ pc' = "blocks"
    BY <1>8 DEF CreateBlock, Goto
  <2> QED
    BY <1>1, <2>3, <2>4, <2>5 DEF Cuts
<1>9. CASE Disrupt
  <2>1. \A i \in Active(view) : view[i].status # "completed"
    BY DEF Active, Terminal
  <2>2. view' = WithStatus(view, Active(view), "superseded")
    BY <1>9 DEF Disrupt
  <2>3. /\ Tree(view') /\ DOMAIN view' = DOMAIN view
        /\ \A i \in DOMAIN view :
              /\ i \in Active(view) => view'[i].status = "superseded"
              /\ i \notin Active(view) => view'[i] = view[i]
    BY <1>1, <1>2, <2>1, <2>2, WithStatusKeeps
  <2>4. Steady(view, view')
    BY <1>1, <1>2, <2>2, WithStatusIsSteady
  <2>5. Cut(view')
    BY <1>1, <2>3, <2>4, SteadyIsCut
  <2>6. Active(view') = {}
    BY <1>2, <2>3 DEF Active
  <2>7. table' = view' /\ pc' = "replan" /\ review' = review /\ refinement' = refinement
    BY <1>9 DEF Disrupt, Goto
  <2> QED
    BY <2>5, <2>6, <2>7 DEF Cuts
<1>10. CASE Replan
  <2>1. PICK n \in 1 .. MaxChildren : /\ Len(view) + n <= MaxTasks
                                      /\ view' = Added(view, 0, "high_level", n, "plan")
    BY <1>10 DEF Replan
  <2>2. n \in Nat
    BY SetupAssumption
  <2>3. \A i \in DOMAIN view : ~ Uncut(view, i)
    BY <1>10 DEF PlanningOK, Replan, Uncut, Active, At
  <2>4. CutOnce(view')
    BY <1>1, <2>1, <2>2, <2>3, AddedKeepsCuts DEF Cut
  <2>5. Len(view') = Len(view) + n
    BY <1>1, <2>1, <2>2, AddedLength
  <2>6. /\ table' = view' /\ pc' = "environment" /\ review' = 0
        /\ refinement' = refinement
    BY <1>10 DEF Replan, Launch
  <2> QED
    BY <2>1, <2>4, <2>5, <2>6 DEF Cut, Cuts
<1>11. CASE AnswerFails
  <2>1. /\ view' = table /\ table' = table /\ pc' = "idle" /\ review' = review
        /\ refinement' = refinement
    BY <1>11 DEF AnswerFails, Goto
  <2> QED
    BY <1>1, <2>1 DEF Cuts
<1> QED
  BY <1>3, <1>5, <1>6, <1>7, <1>8, <1>9, <1>10, <1>11 DEF Answer

\* No step cuts a goal a second time.
LEMMA PlanningKept ==
    ASSUME RowsOK, PlanningOK, [Next]_vars
    PROVE  PlanningOK'
<1>1. /\ Tree(view) /\ Tree(table) /\ Cut(view) /\ Cut(table)
  BY DEF RowsOK, PlanningOK, Cut
<1>2. ASSUME Cuts, review' \in {0, Anchorless, review} \cup At(table', "atomic"),
             pc' = "replan" => Active(view') = {},
             pc' = "atomise" /\ refinement => Unrefined(view') = {}
      PROVE  PlanningOK'
  <2>1. At(table, "atomic") \subseteq At(table', "atomic")
    BY RowsStep DEF Keeps, At
  <2>2. review' \in {0, Anchorless} \cup At(table', "atomic")
    BY <1>2, <2>1 DEF PlanningOK
  <2>3. refinement' = refinement
    BY <1>2 DEF Cuts
  <2>4. /\ CutOnce(table)' /\ CutOnce(view)'
        /\ Len(table') <= MaxTasks /\ Len(view') <= MaxTasks
    BY <1>2, <2>3, CutsAreRigid DEF Cuts
  <2>5. Unrefined(view)' = Unrefined(view') /\ Active(view)' = Active(view')
        /\ At(table, "atomic")' = At(table', "atomic")
    BY DEF Unrefined, Active, At
  <2> QED
    BY <1>2, <2>2, <2>3, <2>4, <2>5 DEF PlanningOK, Anchorless
<1>3. CASE Environment
  <2>1. /\ view' = view /\ table' = table /\ refinement' = refinement /\ review' = review
        /\ pc' \notin {"replan", "atomise"}
    BY <1>3 DEF Environment, PlanEnvironment, StartContainer, InstallPackages,
       SeedGradleWrapper, SmokeTest, Repair, rows, Goto
  <2> QED
    BY <1>1, <1>2, <2>1 DEF Cuts
<1>4. CASE Planning
  <2>1. review' = review /\ pc' # "replan"
    BY <1>4 DEF Planning, PlanProject, Refine, Atomise, Answered, Unanswered, Goto
  <2> QED
    BY <1>2, <1>4, <2>1, PlanningCuts
<1>5. CASE Execute
  <2>1. pc' \notin {"replan", "atomise"}
    BY <1>5 DEF Execute, Goto
  <2> QED
    BY <1>2, <1>5, <2>1, ExecuteCuts
<1>6. CASE Report
  <2>1. /\ view' \in {view, table} /\ table' \in {view, table}
        /\ review' \in {Anchorless, review} /\ refinement' = refinement
        /\ pc' \notin {"replan", "atomise"}
    BY <1>6 DEF Report, Goto
  <2> QED
    BY <1>1, <1>2, <2>1 DEF Cuts
<1>7. CASE Teardown
  <2>1. /\ view' = view /\ table' = table /\ refinement' = refinement /\ review' = review
        /\ pc' = "idle"
    BY <1>7 DEF Teardown, Goto, rows
  <2> QED
    BY <1>1, <1>2, <2>1 DEF Cuts
<1>8. CASE StartProject
  <2>1. PICK n \in 1 .. MaxChildren : /\ Len(table) + n <= MaxTasks
                                      /\ table' = Added(table, 0, "high_level", n, "plan")
    BY <1>8 DEF StartProject
  <2>2. n \in Nat
    BY SetupAssumption
  <2>3. \A i \in DOMAIN table : ~ Uncut(table, i)
    BY <1>8 DEF StartProject, Uncut, Active, At
  <2>4. CutOnce(table')
    BY <1>1, <2>1, <2>2, <2>3, AddedKeepsCuts DEF Cut
  <2>5. Len(table') = Len(table) + n
    BY <1>1, <2>1, <2>2, AddedLength
  <2>6. /\ view' = table' /\ pc' = "environment" /\ review' = review
        /\ refinement' = refinement
    BY <1>8 DEF StartProject, Launch
  <2> QED
    BY <1>2, <2>1, <2>4, <2>5, <2>6 DEF Cut, Cuts
<1>9. CASE ResumePaused \/ RunEndpoint
  <2>1. /\ view' = view /\ table' = table /\ refinement' = refinement /\ review' = review
        /\ pc' = "environment"
    BY <1>9 DEF ResumePaused, RunEndpoint, Launch, rows
  <2> QED
    BY <1>1, <1>2, <2>1 DEF Cuts
<1>10. CASE Answer
  BY <1>2, <1>10, AnswersCut
<1>11. CASE Crash
  <2>1. /\ view' = table /\ table' = table /\ refinement' = refinement /\ review' = review
        /\ pc' = "idle"
    BY <1>11 DEF Crash
  <2> QED
    BY <1>1, <1>2, <2>1 DEF Cuts
<1>12. CASE UNCHANGED vars
  <2>1. /\ view' = view /\ table' = table /\ refinement' = refinement /\ review' = review
        /\ pc' = pc
    BY <1>12 DEF vars
  <2> QED
    BY <1>1, <1>2, <2>1 DEF Cuts, PlanningOK
<1> QED
  BY <1>3, <1>4, <1>5, <1>6, <1>7, <1>8, <1>9, <1>10, <1>11, <1>12 DEF Next

----------------------------------------------------------------------------
(* The theorems.                                                            *)

\* The inductive invariant of planning, environments and reviews.
THEOREM SetupInvariance == Spec => []SetupInv
<1>1. Init => SetupInv
  <2> SUFFICES ASSUME Init PROVE SetupInv
    OBVIOUS
  <2>1. table = <<>> /\ view = <<>> /\ pc = "idle"
    BY DEF Init
  <2>2. RowsOK
    BY <2>1 DEF RowsOK, Tree, Keeps
  <2>3. EnvironmentOK
    BY DEF Init, EnvironmentOK, PlansInAProvenEnvironment
  <2> QED
    BY <2>2, <2>3 DEF SetupInv
<1>2. SetupInv /\ [Next]_vars => SetupInv'
  BY RowsStep, EnvironmentStep DEF SetupInv
<1> QED
  BY <1>1, <1>2, PTL DEF Spec

\* Whatever docker, the installers and the smoke test answer, planning and
\* execution have a session and a container that passed
\* (run_project_workflow after the environment phase).
THEOREM NothingIsPlannedUnproven == Spec => []PlansInAProvenEnvironment
<1>1. SetupInv => PlansInAProvenEnvironment
  BY DEF SetupInv, EnvironmentOK
<1> QED
  BY <1>1, SetupInvariance, PTL

\* However the workflows and turns of the chat end, no session of theirs is
\* left (the finally of _run_workflow_background).
THEOREM TheChatClosesItsSession == Spec => []ChatLeavesNoSession
<1>1. SetupInv => ChatLeavesNoSession
  BY DEF SetupInv, EnvironmentOK, ChatLeavesNoSession
<1> QED
  BY <1>1, SetupInvariance, PTL

\* No planning, no failure and no answer to a review takes back an atomic task
\* that was completed (resumption_service.py).
THEOREM NothingFinishedIsUndone == Spec => FinishedWorkSurvives
<1> DEFINE Survives == \A i \in DOMAIN table :
                          table[i].level = "atomic" /\ table[i].status = "completed"
                              => table'[i].status = "completed"
<1>1. SetupInv /\ [Next]_vars => [Survives]_vars
  BY RowsStep DEF SetupInv, Keeps
<1> QED
  BY <1>1, SetupInvariance, PTL DEF Spec, FinishedWorkSurvives

\* Whatever fails, restarts or is answered, planning is not done twice: a goal
\* is cut into parts or into atomic tasks, by one answer of the model, and the
\* goals nobody has cut yet are of one plan (the reuse branches of
\* _run_technical_refinement_phase and _run_atomic_generation_phase,
\* start_project and the disruptive answer of resumption_service.py).
THEOREM NothingIsPlannedTwice == Spec => []OneDecomposition
<1>1. Init => PlanningOK
  <2> SUFFICES ASSUME Init PROVE PlanningOK
    OBVIOUS
  <2>1. table = <<>> /\ view = <<>> /\ pc = "idle" /\ review = 0
    BY DEF Init
  <2>2. DOMAIN table = {} /\ DOMAIN view = {} /\ Len(table) = 0 /\ Len(view) = 0
    BY <2>1
  <2>3. CutOnce(table) /\ CutOnce(view)
    BY <2>2 DEF CutOnce, Uncut, At
  <2> QED
    BY <2>1, <2>2, <2>3, SetupAssumption DEF PlanningOK
<1>2. SetupInv /\ PlanningOK /\ [Next]_vars => PlanningOK'
  BY PlanningKept DEF SetupInv
<1>3. SetupInv /\ PlanningOK => OneDecomposition
  BY CutMeansOneDecomposition DEF SetupInv, RowsOK, PlanningOK
<1> QED
  BY <1>1, <1>2, <1>3, SetupInvariance, PTL DEF Spec
=============================================================================
