-------------------------- MODULE BatchPlanner_proofs --------------------------
(***************************************************************************)
(* plan_batch_picks computes the FEFO plan, whatever the pool, quantities, *)
(* dates and request: the loop keeps its invariant, what it returns is the *)
(* only plan of the contract, and it gives up only when there is none.     *)
(***************************************************************************)
EXTENDS BatchPlanner, FefoPlan_proofs

-----------------------------------------------------------------------------
(* The contract. *)

\* Where one member has less and none has more, the total is less.
LEMMA TotalLess ==
  ASSUME NEW S, IsFiniteSet(S), NEW x \in S,
         NEW f, NEW g, \A y \in S : f[y] \in Nat /\ g[y] \in Nat /\ f[y] <= g[y],
         f[x] < g[x]
  PROVE  Total(f, S) < Total(g, S)
<1> DEFINE rest == S \ {x}
<1>1. IsFiniteSet(rest) /\ IsFiniteSet({x}) /\ S = {x} \cup rest /\ {x} \cap rest = {}
  BY FS_Difference, FS_Singleton
<1>2. Total(f, S) = Total(f, {x}) + Total(f, rest)
  BY <1>1, TotalUnion
<1>3. Total(g, S) = Total(g, {x}) + Total(g, rest)
  BY <1>1, TotalUnion
<1>4. Total(f, rest) <= Total(g, rest)
  BY <1>1, TotalMonotone
<1>5. Total(f, {x}) = f[x] /\ Total(g, {x}) = g[x]
  BY TotalSingle
<1>6. Total(f, rest) \in Nat /\ Total(g, rest) \in Nat
  BY <1>1, TotalType
<1> QED
  BY <1>2, <1>3, <1>4, <1>5, <1>6

\* Of two FEFO plans for a pool, neither gives less than the other anywhere.
LEMMA NoPlanGivesLess ==
  ASSUME NEW S, IsFiniteSet(S), NEW order, NEW free, NEW n,
         \A b, c \in S : b # c => <<b, c>> \in order \/ <<c, b>> \in order,
         NEW p, NEW q, \A b \in S : p[b] \in Nat /\ q[b] \in Nat /\ free[b] \in Nat,
         IsFefoPlan(p, S, free, n, order), IsFefoPlan(q, S, free, n, order),
         NEW b \in S
  PROVE  ~(p[b] < q[b])
<1> SUFFICES ASSUME p[b] < q[b] PROVE FALSE
  OBVIOUS
<1>1. /\ \A c \in S : p[c] <= free[c] /\ q[c] <= free[c]
      /\ \A c, d \in S : p[c] > 0 /\ <<d, c>> \in order => p[d] = free[d]
      /\ \A c, d \in S : q[c] > 0 /\ <<d, c>> \in order => q[d] = free[d]
      /\ Total(p, S) = n /\ Total(q, S) = n
  BY DEF IsFefoPlan
<1>2. PICK c \in S : q[c] < p[c]
  <2> SUFFICES ASSUME \A c \in S : ~(q[c] < p[c]) PROVE FALSE
    OBVIOUS
  <2>1. Total(p, S) < Total(q, S)
    BY TotalLess
  <2>2. Total(p, S) \in Nat
    BY TotalType
  <2> QED
    BY <1>1, <2>1, <2>2
<1>3. CASE <<b, c>> \in order
  <2>1. p[c] > 0
    BY <1>2
  <2>2. p[b] = free[b]
    BY <1>1, <1>3, <2>1
  <2> QED
    BY <1>1, <2>2
<1>4. CASE <<c, b>> \in order
  <2>1. q[b] > 0
    OBVIOUS
  <2>2. q[c] = free[c]
    BY <1>1, <1>4, <2>1
  <2> QED
    BY <1>1, <1>2, <2>2
<1>5. b # c
  BY <1>2
<1> QED
  BY <1>3, <1>4, <1>5

\* What min() of two numbers returns.
LEMMA MinOfTwo ==
  ASSUME NEW m \in Nat, NEW n \in Nat
  PROVE  /\ Min({m, n}) \in {m, n} /\ Min({m, n}) <= m /\ Min({m, n}) <= n
<1>1. \E x \in {m, n} : \A y \in {m, n} : x =< y
  OBVIOUS
<1>2. Min({m, n}) \in {m, n} /\ \A y \in {m, n} : Min({m, n}) =< y
  BY <1>1 DEF Min
<1> QED
  BY <1>2

-----------------------------------------------------------------------------
(* The loop. *)

\* What the loop has picked is a FEFO plan of the batches visited so far,
\* which are the earliest of the pool; it stops when the request is filled.
PicksAreFefo ==
  /\ \A b \in pool : picks[b] <= Free[b]
  /\ \A b, c \in pool : picks[b] > 0 /\ <<c, b>> \in Earlier => picks[c] = Free[c]
  /\ \A b \in pool \ unvisited, c \in unvisited : <<b, c>> \in Earlier

Progress ==
  /\ available = Total(Free, pool \ unvisited)
  /\ outcome = "planning" => remaining > 0 \/ requested = 0
  /\ outcome = "planned" => remaining = 0
  /\ outcome = "insufficient" =>
       unvisited = {} /\ remaining > 0 /\ \A b \in pool : picks[b] = Free[b]

PlannerInv == TypeOK /\ LoopInvariant /\ PicksAreFefo /\ Progress

LEMMA Bounds ==
  /\ MaxPhysical \in Nat /\ MaxReserved \in Nat /\ MaxRequest \in Nat /\ LastDate \in Nat
<1> QED
  BY PlannerAssumption

\* Expiry dates and batch codes order the batches totally.
LEMMA EarlierIsTotal ==
  ASSUME TypeOK
  PROVE  /\ \A b, c \in Batches : b # c => <<b, c>> \in Earlier \/ <<c, b>> \in Earlier
         /\ \A b, c \in Batches : ~(<<b, c>> \in Earlier /\ <<c, b>> \in Earlier)
<1>1. Batches \subseteq Nat /\ \A b \in Batches : bestBefore[b] \in Nat
  BY PlannerAssumption, Bounds DEF TypeOK
<1>2. \A b, c \in Batches : b # c => ExpiresBefore(b, c) \/ ExpiresBefore(c, b)
  BY <1>1 DEF ExpiresBefore
<1>3. \A b, c \in Batches : ~(ExpiresBefore(b, c) /\ ExpiresBefore(c, b))
  BY <1>1 DEF ExpiresBefore
<1> QED
  BY <1>2, <1>3 DEF Earlier

LEMMA FreeType ==
  ASSUME TypeOK
  PROVE  /\ \A b \in Batches : Free[b] \in 0 .. MaxPhysical
         /\ IsFiniteSet(pool) /\ \A S \in SUBSET pool : IsFiniteSet(S)
<1>1. ASSUME NEW b \in Batches
      PROVE  Free[b] \in 0 .. MaxPhysical
  <2>1. physical[b] \in 0 .. MaxPhysical /\ reserved[b] \in 0 .. MaxReserved
    BY DEF TypeOK
  <2>2. Free[b] = IF reserved[b] < physical[b] THEN physical[b] - reserved[b] ELSE 0
    BY DEF Free, Allocatable
  <2> QED
    BY <2>1, <2>2, Bounds
<1>2. IsFiniteSet(pool)
  BY PlannerAssumption, FS_Subset DEF TypeOK
<1> QED
  BY <1>1, <1>2, FS_Subset

LEMMA Init_Inv == Init => PlannerInv
<1> SUFFICES ASSUME Init PROVE PlannerInv
  OBVIOUS
<1>1. TypeOK
  BY Bounds DEF Init, TypeOK
<1>2. Total(picks, pool) = 0 /\ Total(Free, pool \ unvisited) = 0
  <2>1. \A b \in pool : picks[b] = 0
    BY <1>1 DEF Init, TypeOK
  <2>2. \A b \in pool \ unvisited : Free[b] = 0
    BY DEF Init
  <2> QED
    BY <2>1, <2>2, TotalZero
<1>3. LoopInvariant
  BY <1>1, <1>2, Bounds DEF Init, TypeOK, LoopInvariant
<1>4. PicksAreFefo
  BY <1>1, FreeType DEF Init, TypeOK, PicksAreFefo
<1>5. Progress
  BY <1>1, <1>2, Bounds DEF Init, TypeOK, Progress
<1> QED
  BY <1>1, <1>3, <1>4, <1>5 DEF PlannerInv

LEMMA VisitKeepsInv ==
  ASSUME PlannerInv, VisitNextBatch
  PROVE  PlannerInv'
<1>1. PICK b \in unvisited :
        /\ \A c \in unvisited \ {b} : <<b, c>> \in Earlier
        /\ picks' = [picks EXCEPT ![b] = Min({Free[b], remaining})]
        /\ remaining' = remaining - Min({Free[b], remaining})
        /\ outcome' = IF Free[b] > 0 /\ Min({Free[b], remaining}) = remaining
                      THEN "planned" ELSE "planning"
        /\ available' = available + Free[b]
        /\ unvisited' = unvisited \ {b}
  BY DEF VisitNextBatch
<1>2. /\ outcome = "planning" /\ requested > 0
      /\ UNCHANGED <<pool, physical, reserved, bestBefore, requested>>
  BY DEF VisitNextBatch, arguments
<1>3. /\ TypeOK /\ LoopInvariant /\ PicksAreFefo /\ Progress
  BY DEF PlannerInv
<1>4. /\ b \in pool /\ b \in Batches /\ pool \subseteq Batches /\ unvisited \subseteq pool
      /\ Free[b] \in 0 .. MaxPhysical /\ remaining \in 0 .. MaxRequest
      /\ requested \in 0 .. MaxRequest /\ available \in Nat
  BY <1>1, <1>3, FreeType DEF TypeOK
<1>5. PICK taken \in Nat :
        /\ taken = Min({Free[b], remaining}) /\ taken \in {Free[b], remaining}
        /\ taken <= Free[b] /\ taken <= remaining
  <2>1. Free[b] \in Nat /\ remaining \in Nat
    BY <1>4, Bounds
  <2> QED
    BY <2>1, MinOfTwo
<1>6. /\ picks' = [picks EXCEPT ![b] = taken]
      /\ remaining' = remaining - taken
      /\ outcome' = IF Free[b] > 0 /\ taken = remaining THEN "planned" ELSE "planning"
  BY <1>1, <1>5
<1>7. Free' = Free /\ Earlier' = Earlier
  BY <1>2 DEF Free, Earlier, ExpiresBefore
<1>8. /\ picks \in [Batches -> 0 .. MaxPhysical] /\ picks[b] = 0
      /\ picks'[b] = taken /\ \A c \in Batches \ {b} : picks'[c] = picks[c]
  BY <1>3, <1>4, <1>6 DEF TypeOK, LoopInvariant
<1>9. remaining > 0
  BY <1>2, <1>3 DEF Progress
<1>10. TypeOK'
  <2>1. taken \in 0 .. MaxPhysical /\ remaining - taken \in 0 .. MaxRequest
    BY <1>4, <1>5, Bounds
  <2>2. picks' \in [Batches -> 0 .. MaxPhysical]
    BY <1>6, <1>8, <2>1
  <2>3. available' \in Nat
    BY <1>1, <1>4, Bounds
  <2>4. outcome' \in {"planning", "planned", "insufficient", "invalid"}
    BY <1>6
  <2>5. unvisited' \subseteq pool'
    BY <1>1, <1>2, <1>4
  <2> QED
    BY <1>2, <1>3, <1>6, <2>1, <2>2, <2>3, <2>4, <2>5 DEF TypeOK
<1>11. LoopInvariant'
  <2>1. Total(picks', pool) = Total(picks, pool) + taken
    <3>1. IsFiniteSet(pool) /\ \A c \in pool : picks[c] \in Nat
      BY <1>3, <1>4, <1>8, FreeType, Bounds
    <3>2. picks'[b] = picks[b] + taken /\ \A c \in pool \ {b} : picks'[c] = picks[c]
      BY <1>4, <1>5, <1>8
    <3> QED
      BY <1>4, <1>5, <3>1, <3>2, TotalOneMore
  <2>2. Total(picks, pool) \in Nat
    BY <1>3, <1>4, <1>8, FreeType, TotalType, Bounds
  <2>3. remaining' + Total(picks', pool') = requested'
    BY <1>2, <1>3, <1>4, <1>5, <1>6, <2>1, <2>2 DEF LoopInvariant
  <2>4. outcome' = "planning" => \A c \in pool' \ unvisited' : picks'[c] = Free'[c]
    <3>1. outcome' = "planning" => taken = Free[b]
      BY <1>4, <1>5, <1>6, <1>9, Bounds
    <3>2. \A c \in pool \ unvisited : picks[c] = Free[c]
      BY <1>2, <1>3 DEF LoopInvariant
    <3> QED
      BY <1>1, <1>2, <1>4, <1>7, <1>8, <3>1, <3>2
  <2>5. \A c \in (Batches \ pool') \cup unvisited' : picks'[c] = 0
    BY <1>1, <1>2, <1>3, <1>4, <1>8 DEF LoopInvariant
  <2> QED
    BY <2>3, <2>4, <2>5 DEF LoopInvariant
<1>12. PicksAreFefo'
  <2>1. \A c \in pool \ unvisited : picks[c] = Free[c]
    BY <1>2, <1>3 DEF LoopInvariant
  <2>2. /\ \A c, d \in pool : c # d => <<c, d>> \in Earlier \/ <<d, c>> \in Earlier
        /\ \A c, d \in pool : ~(<<c, d>> \in Earlier /\ <<d, c>> \in Earlier)
    BY <1>3, <1>4, EarlierIsTotal
  <2>3. \A c \in pool' : picks'[c] <= Free'[c]
    BY <1>2, <1>3, <1>4, <1>5, <1>7, <1>8 DEF PicksAreFefo
  <2>4. ASSUME NEW c \in pool', NEW d \in pool', picks'[c] > 0, <<d, c>> \in Earlier'
        PROVE  picks'[d] = Free'[d]
    <3>1. c \in pool /\ d \in pool /\ <<d, c>> \in Earlier /\ d # c
      BY <1>2, <1>7, <2>2, <2>4
    <3>2. CASE c = b
      <4>1. d \notin unvisited
        BY <1>1, <2>2, <3>1, <3>2, <1>4
      <4>2. picks[d] = Free[d]
        BY <2>1, <3>1, <4>1
      <4> QED
        BY <1>4, <1>7, <1>8, <3>1, <3>2, <4>2
    <3>3. CASE c # b
      <4>1. picks[c] > 0
        BY <1>4, <1>8, <2>4, <3>1, <3>3
      <4>2. c \notin unvisited
        BY <1>3, <3>1, <4>1 DEF LoopInvariant
      <4>3. d # b
        BY <1>1, <1>3, <1>4, <2>2, <3>1, <4>2 DEF PicksAreFefo
      <4>4. picks[d] = Free[d]
        BY <1>3, <3>1, <4>1 DEF PicksAreFefo
      <4> QED
        BY <1>4, <1>7, <1>8, <3>1, <4>3, <4>4
    <3> QED
      BY <3>2, <3>3
  <2>5. \A c \in pool' \ unvisited', d \in unvisited' : <<c, d>> \in Earlier'
    BY <1>1, <1>2, <1>3, <1>7 DEF PicksAreFefo
  <2> QED
    BY <2>3, <2>4, <2>5 DEF PicksAreFefo
<1>13. Progress'
  <2>1. available' = Total(Free', pool' \ unvisited')
    <3> DEFINE visited == pool \ unvisited
    <3>1. pool \ unvisited' = visited \cup {b} /\ visited \cap {b} = {}
      BY <1>1, <1>4
    <3>2. IsFiniteSet(visited) /\ IsFiniteSet({b})
      BY <1>3, <1>4, FreeType
    <3>3. \A c \in visited \cup {b} : Free[c] \in Nat
      BY <1>3, <1>4, FreeType, Bounds
    <3>4. Total(Free, visited \cup {b}) = Total(Free, visited) + Total(Free, {b})
      BY <3>1, <3>2, <3>3, TotalUnion
    <3>5. Total(Free, {b}) = Free[b]
      BY <3>3, TotalSingle
    <3>6. available = Total(Free, visited)
      BY <1>3 DEF Progress
    <3> HIDE DEF visited
    <3> QED
      BY <1>1, <1>2, <1>7, <3>1, <3>4, <3>5, <3>6
  <2>2. outcome' = "planning" => remaining' > 0
    BY <1>4, <1>5, <1>6, <1>9, Bounds
  <2>3. outcome' = "planned" => remaining' = 0
    BY <1>4, <1>5, <1>6, Bounds
  <2> QED
    BY <1>6, <2>1, <2>2, <2>3 DEF Progress
<1> QED
  BY <1>10, <1>11, <1>12, <1>13 DEF PlannerInv

LEMMA Step_Inv == PlannerInv /\ [Next]_vars => PlannerInv'
<1> SUFFICES ASSUME PlannerInv, [Next]_vars PROVE PlannerInv'
  OBVIOUS
<1>1. CASE VisitNextBatch
  BY <1>1, VisitKeepsInv
<1>2. ASSUME UNCHANGED <<arguments, unvisited, remaining, available, picks>>,
             outcome' \in {"insufficient", "invalid"} \/ outcome' = outcome,
             outcome' = "insufficient" /\ outcome # "insufficient" =>
               unvisited = {} /\ outcome = "planning" /\ requested > 0
      PROVE  PlannerInv'
  <2>1. UNCHANGED <<pool, physical, reserved, bestBefore, requested, unvisited, remaining,
                    available, picks>> /\ Free' = Free /\ Earlier' = Earlier
    BY <1>2 DEF arguments, Free, Earlier, ExpiresBefore
  <2>2. TypeOK'
    BY <1>2, <2>1 DEF PlannerInv, TypeOK
  <2>3. LoopInvariant'
    BY <1>2, <2>1 DEF PlannerInv, LoopInvariant
  <2>4. PicksAreFefo'
    BY <2>1 DEF PlannerInv, PicksAreFefo
  <2>5. Progress'
    <3>1. requested \in Nat /\ requested > 0 => requested # 0
      BY Bounds DEF PlannerInv, TypeOK
    <3> QED
      BY <1>2, <2>1, <3>1, Bounds DEF PlannerInv, TypeOK, LoopInvariant, Progress
  <2> QED
    BY <2>2, <2>3, <2>4, <2>5 DEF PlannerInv
<1>3. CASE RefuseRequest
  BY <1>2, <1>3 DEF RefuseRequest
<1>4. CASE RunShort
  BY <1>2, <1>4 DEF RunShort
<1>5. CASE UNCHANGED vars
  BY <1>2, <1>5 DEF vars
<1> QED
  BY <1>1, <1>3, <1>4, <1>5 DEF Next

LEMMA Spec_Inv == Spec => []PlannerInv
<1> QED
  BY Init_Inv, Step_Inv, PTL DEF Spec

-----------------------------------------------------------------------------
(* What a call returns. *)

\* While it runs, what is picked and what remains are the request, for any
\* pool; the arguments and results keep their ranges.
THEOREM LoopIsRight == Spec => [](TypeOK /\ LoopInvariant)
<1>1. PlannerInv => TypeOK /\ LoopInvariant
  BY DEF PlannerInv
<1> QED
  BY <1>1, Spec_Inv, PTL

\* Two FEFO plans for the same call are the same plan.
LEMMA OnePlan ==
  ASSUME TypeOK, NEW p \in FefoPlans, NEW q \in FefoPlans
  PROVE  p = q
<1>1. /\ p \in [Batches -> 0 .. MaxPhysical] /\ q \in [Batches -> 0 .. MaxPhysical]
      /\ IsFefoPlan(p, pool, Free, requested, Earlier)
      /\ IsFefoPlan(q, pool, Free, requested, Earlier)
  BY DEF FefoPlans
<1>2. /\ IsFiniteSet(pool) /\ pool \subseteq Batches
      /\ \A b \in pool : p[b] \in Nat /\ q[b] \in Nat /\ Free[b] \in Nat
      /\ \A b, c \in pool : b # c => <<b, c>> \in Earlier \/ <<c, b>> \in Earlier
  BY <1>1, FreeType, EarlierIsTotal, Bounds DEF TypeOK
<1>3. \A b \in pool : ~(p[b] < q[b])
  BY <1>1, <1>2, NoPlanGivesLess
<1>4. \A b \in pool : ~(q[b] < p[b])
  BY <1>1, <1>2, NoPlanGivesLess
<1>5. \A b \in Batches \ pool : p[b] = 0 /\ q[b] = 0
  BY <1>1 DEF IsFefoPlan
<1>6. \A b \in Batches : p[b] = q[b]
  BY <1>2, <1>3, <1>4, <1>5
<1> QED
  BY <1>1, <1>6

\* reservations/planning.py: a returned plan serves the request first expired
\* first out, and it is the only plan that does.
THEOREM PlansAreFefo == Spec => []PlanIsTheFefoPlan
<1>1. PlannerInv => PlanIsTheFefoPlan
  <2> SUFFICES ASSUME PlannerInv, outcome = "planned" PROVE FefoPlans = {picks}
    BY DEF PlanIsTheFefoPlan
  <2>1. TypeOK /\ LoopInvariant /\ PicksAreFefo /\ remaining = 0
    BY DEF PlannerInv, Progress
  <2>2. Total(picks, pool) \in Nat
    BY <2>1, FreeType, TotalType, Bounds DEF TypeOK
  <2>3. Total(picks, pool) = requested
    BY <2>1, <2>2 DEF LoopInvariant
  <2>4. \A b \in DOMAIN picks \ pool : picks[b] = 0
    BY <2>1 DEF TypeOK, LoopInvariant
  <2>5. IsFefoPlan(picks, pool, Free, requested, Earlier)
    BY <2>1, <2>3, <2>4 DEF IsFefoPlan, PicksAreFefo
  <2>6. picks \in FefoPlans
    BY <2>1, <2>5 DEF FefoPlans, TypeOK
  <2>7. \A p \in FefoPlans : p = picks
    BY <2>1, <2>6, OnePlan
  <2> QED
    BY <2>6, <2>7
<1> QED
  BY <1>1, Spec_Inv, PTL

\* InsufficientStock is raised only where no plan exists, and the shortfall it
\* names is the pool's.
THEOREM ShortagesAreReal == Spec => []RefusalsAreJustified
<1>1. PlannerInv => RefusalsAreJustified
  <2> SUFFICES ASSUME PlannerInv, outcome = "insufficient"
               PROVE  FefoPlans = {} /\ available = Total(Free, pool) /\ available < requested
    BY DEF RefusalsAreJustified
  <2>1. /\ TypeOK /\ LoopInvariant
        /\ available = Total(Free, pool \ unvisited) /\ unvisited = {} /\ remaining > 0
        /\ \A b \in pool : picks[b] = Free[b]
    BY DEF PlannerInv, Progress
  <2>2. pool \ unvisited = pool
    BY <2>1
  <2>3. available = Total(Free, pool)
    BY <2>1, <2>2
  <2>4. Total(picks, pool) = Total(Free, pool)
    BY <2>1, TotalEqual
  <2>5. available < requested
    BY <2>1, <2>3, <2>4, Bounds DEF TypeOK, LoopInvariant
  <2>6. ASSUME NEW p \in FefoPlans
        PROVE  FALSE
    <3>1. /\ p \in [Batches -> 0 .. MaxPhysical]
          /\ \A b \in pool : p[b] <= Free[b]
          /\ Total(p, pool) = requested
      BY DEF FefoPlans, IsFefoPlan
    <3>2. Total(p, pool) <= Total(Free, pool)
      <4>1. IsFiniteSet(pool) /\ pool \subseteq pool /\ \A b \in pool : Free[b] \in Nat
        BY <2>1, FreeType, Bounds DEF TypeOK
      <4>2. \A b \in pool : p[b] \in Nat /\ p[b] <= Free[b]
        BY <2>1, <3>1, Bounds DEF TypeOK
      <4> QED
        BY <4>1, <4>2, TotalMonotone
    <3> QED
      BY <2>1, <2>3, <2>5, <3>1, <3>2, Bounds DEF TypeOK
  <2> QED
    BY <2>3, <2>5, <2>6
<1> QED
  BY <1>1, Spec_Inv, PTL
=============================================================================
