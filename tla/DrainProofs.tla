---------------------------- MODULE DrainProofs ----------------------------
(***************************************************************************)
(* readDuePage always reads the front row: for any rows, sizes and budgets *)
(* the page of a drain holds the first due row that fits a page at all.    *)
(* The argument needs two facts the store's ORDER BY gives for free: the   *)
(* due rows are totally ordered, and a set of them has a first one.  Both  *)
(* come from numbering the rows in the order they fell due.                *)
(***************************************************************************)
EXTENDS OutboxDrain, FiniteSetTheorems, WellFoundedInduction, TLAPS

\* f numbers the due rows in the order of nextAttemptAt.
Numbers(f) ==
    \A a, b \in due : /\ <<a, b>> \in ahead <=> f[a] < f[b]
                      /\ a # b => f[a] # f[b]

\* The due rows, and only they, are ordered, by numbers up to some k.
DueOrder ==
    /\ ahead \subseteq due \X due
    /\ \E k \in Nat : \E f \in [due -> 0..k] : Numbers(f)

-----------------------------------------------------------------------------
\* A page of one row weighs what the row's envelope does.
LEMMA BytesOfOne ==
    ASSUME NEW m \in Messages
    PROVE  Bytes({m}) = Size[m]
<1> DEFINE D(g) == [s \in SUBSET {m} |->
                      IF s = {} THEN 0
                      ELSE Size[CHOOSE x \in s : TRUE] + g[s \ {CHOOSE x \in s : TRUE}]]
           iter == CHOOSE g : g = D(g)
           w == [s \in SUBSET {m} |-> IF s = {} THEN 0 ELSE Size[m]]
<1>1. Size[m] \in Nat
  BY BudgetAssumption
<1>2. \A s \in SUBSET {m} : s # {} => s = {m} /\ (CHOOSE x \in s : TRUE) = m /\ s \ {m} = {}
  OBVIOUS
<1>3. w = D(w)
  BY <1>1, <1>2
<1>4. iter = D(iter)
  <2> HIDE DEF D
  <2> QED
    BY <1>3
<1>5. Bytes({m}) = iter[{m}]
  BY DEF Bytes, MapThenSumSet, MapThenFoldSet
<1>6. iter[{}] = 0 /\ iter[{m}] = Size[m] + iter[{}]
  <2>1. D(iter)[{}] = 0 /\ D(iter)[{m}] = Size[m] + iter[{}]
    <3> HIDE DEF iter
    <3> QED
      BY <1>2
  <2> HIDE DEF D, iter
  <2> QED
    BY <1>4, <2>1
<1> HIDE DEF iter
<1> QED
  BY <1>1, <1>5, <1>6

\* A row that fits the byte budget is a page by itself.
LEMMA OneFits ==
    ASSUME NEW m \in Messages, Size[m] <= MaxPayloadBytes
    PROVE  WithinBudget({m})
<1>1. Cardinality({m}) = 1
  BY FS_Singleton
<1> QED
  BY <1>1, BytesOfOne, BudgetAssumption DEF WithinBudget

\* A set of natural numbers has a least one.
LEMMA LeastNatural ==
    ASSUME NEW T, T \subseteq Nat, T # {}
    PROVE  \E x \in T : \A y \in T : ~(y < x)
<1> DEFINE R == OpToRel(<, Nat)
<1>1. IsWellFoundedOn(R, Nat)
  BY NatLessThanWellFounded
<1>2. \E x \in T : \A y \in T : ~(<<y, x>> \in R)
  <2> HIDE DEF R
  <2> QED
    BY <1>1, WFMin
<1>3. \A x, y \in T : y < x => <<y, x>> \in R
  BY DEF OpToRel
<1> HIDE DEF R
<1> QED
  BY <1>2, <1>3

\* Of any due rows one comes before all others.
LEMMA FirstRow ==
    ASSUME DueOrder, NEW S, S \subseteq due, S # {}
    PROVE  \E m \in S : \A a \in S : /\ <<a, m>> \notin ahead
                                     /\ a # m => <<m, a>> \in ahead
<1>0. PICK k \in Nat : \E f \in [due -> 0..k] : Numbers(f)
  BY DEF DueOrder
<1>1. PICK f \in [due -> 0..k] : Numbers(f)
  BY <1>0
<1> DEFINE T == {f[a] : a \in S}
<1>2. T \subseteq Nat /\ T # {}
  OBVIOUS
<1>3. PICK x \in T : \A y \in T : ~(y < x)
  <2> HIDE DEF T
  <2> QED
    BY <1>2, LeastNatural
<1>4. PICK m \in S : x = f[m]
  OBVIOUS
<1>5. \A a \in S : ~(f[a] < f[m]) /\ f[a] \in Nat /\ f[m] \in Nat /\ (a # m => f[a] # f[m])
  <2>1. \A a \in S : f[a] \in Nat
    OBVIOUS
  <2>2. \A a \in S : f[a] \in T
    OBVIOUS
  <2> HIDE DEF T
  <2> QED
    BY <1>1, <1>3, <1>4, <2>1, <2>2 DEF Numbers
<1>6. \A a \in S : a # m => f[m] < f[a]
  BY <1>5
<1> QED
  BY <1>1, <1>5, <1>6 DEF Numbers

\* The page readDuePage returns holds the first of the eligible rows.
LEMMA PageHasFront ==
    ASSUME DueOrder, due \subseteq Messages, Eligible # {},
           NEW P \in SUBSET Eligible, IsDuePage(P)
    PROVE  \E m \in P : \A a \in Eligible : <<a, m>> \notin ahead
<1>1. PICK m \in Eligible : \A a \in Eligible : /\ <<a, m>> \notin ahead
                                                /\ a # m => <<m, a>> \in ahead
  BY FirstRow DEF Eligible
<1>2. SUFFICES ASSUME m \notin P PROVE FALSE
  BY <1>1
<1>3. P = {}
  BY <1>1, <1>2 DEF IsDuePage
<1>4. ~WithinBudget(P \cup {m})
  BY <1>1, <1>2 DEF IsDuePage
<1>5. P \cup {m} = {m}
  BY <1>3
<1> QED
  BY <1>4, <1>5, OneFits DEF Eligible

\* Rows that stop being due leave the order of the others as it was.
LEMMA NotDueKeepsOrder ==
    ASSUME DueOrder, NEW S, NotDue(S) PROVE DueOrder'
<1>0. PICK k \in Nat : \E f \in [due -> 0..k] : Numbers(f)
  BY DEF DueOrder
<1>1. PICK f \in [due -> 0..k] : Numbers(f)
  BY <1>0
<1>2. /\ due' = due \ S
      /\ ahead' = {r \in ahead : r[1] \notin S /\ r[2] \notin S}
      /\ ahead \subseteq due \X due
  BY DEF NotDue, DueOrder
<1>3. ahead' \subseteq due' \X due'
  BY <1>2
<1>4. \A a, b \in due' : <<a, b>> \in ahead' <=> <<a, b>> \in ahead
  BY <1>2
<1>5. [a \in due' |-> f[a]] \in [due' -> 0..k]
  BY <1>2
<1>6. PICK g \in [due' -> 0..k] : \A a \in due' : g[a] = f[a] /\ a \in due
  BY <1>2, <1>5
<1>7. Numbers(g)'
  BY <1>1, <1>4, <1>6 DEF Numbers
<1> QED
  BY <1>3, <1>5, <1>7 DEF DueOrder

\* A row that falls due goes behind all others.
LEMMA FallsDueKeepsOrder ==
    ASSUME DueOrder, NEW m, m \notin due,
           due' = due \cup {m}, ahead' = ahead \cup (due \X {m})
    PROVE  DueOrder'
<1>0. PICK k \in Nat : \E f \in [due -> 0..k] : Numbers(f)
  BY DEF DueOrder
<1>1. PICK f \in [due -> 0..k] : Numbers(f)
  BY <1>0
<1>2. ahead \subseteq due \X due
  BY DEF DueOrder
<1>3. ahead' \subseteq due' \X due'
  BY <1>2
<1>4. [a \in due' |-> IF a = m THEN k + 1 ELSE f[a]] \in [due' -> 0..(k + 1)]
  OBVIOUS
<1>5. PICK g \in [due' -> 0..(k + 1)] : \A a \in due' : g[a] = IF a = m THEN k + 1 ELSE f[a]
  BY <1>4
<1>6. g[m] = k + 1 /\ \A a \in due : g[a] = f[a] /\ f[a] \in 0..k
  BY <1>5
<1>7. /\ \A a, b \in due : <<a, b>> \in ahead' <=> <<a, b>> \in ahead
      /\ \A a \in due : <<a, m>> \in ahead' /\ <<m, a>> \notin ahead'
      /\ <<m, m>> \notin ahead'
  BY <1>2
<1>8. Numbers(g)'
  <2> SUFFICES ASSUME NEW a \in due', NEW b \in due'
               PROVE  /\ <<a, b>> \in ahead' <=> g[a] < g[b]
                      /\ a # b => g[a] # g[b]
    BY DEF Numbers
  <2>1. CASE a \in due /\ b \in due
    BY <1>1, <1>6, <1>7, <2>1 DEF Numbers
  <2>2. CASE a \in due /\ b = m
    BY <1>6, <1>7, <2>2
  <2>3. CASE a = m /\ b \in due
    <3>1. <<a, b>> \notin ahead'
      BY <1>7, <2>3
    <3>2. g[a] = k + 1 /\ g[b] \in 0..k
      BY <1>6, <2>3
    <3> QED
      BY <3>1, <3>2
  <2>4. CASE a = m /\ b = m
    BY <1>6, <1>7, <2>4
  <2> QED
    BY <2>1, <2>2, <2>3, <2>4
<1> QED
  BY <1>3, <1>8 DEF DueOrder

\* Every step keeps the due rows messages and in order.
LEMMA StepKeepsOrder ==
    DueOrder /\ due \subseteq Messages /\ [OutboxNext]_drainAllVars
        => DueOrder' /\ due' \subseteq Messages
<1> SUFFICES ASSUME DueOrder, due \subseteq Messages, [OutboxNext]_drainAllVars
             PROVE  DueOrder' /\ due' \subseteq Messages
  OBVIOUS
<1>1. \/ UNCHANGED <<due, ahead>>
      \/ \E S : NotDue(S)
      \/ \E m \in Messages : m \notin due /\ due' = due \cup {m} /\ ahead' = ahead \cup (due \X {m})
  BY DEF OutboxNext, drainAllVars, outboxVars, drainVars, CallerBegins, CallerSettles,
         CallerDelivers, CallerQueues, CallersThrow, RowFallsDue, RowAges, TakeEntry,
         RetrySettles, RetryDelivers, RetryFails, DrainTick, DrainEnds, StopDrain, StopReturns,
         ProcessEnds, DeleteRows, Reschedule
<1>2. CASE UNCHANGED <<due, ahead>>
  BY <1>2 DEF DueOrder, Numbers
<1>3. CASE \E S : NotDue(S)
  BY <1>3, NotDueKeepsOrder DEF NotDue
<1>4. CASE \E m \in Messages :
              m \notin due /\ due' = due \cup {m} /\ ahead' = ahead \cup (due \X {m})
  BY <1>4, FallsDueKeepsOrder
<1> QED
  BY <1>1, <1>2, <1>3, <1>4

\* Only the tick starts a drain, and it loads a due page.
LEMMA OnlyTickStarts ==
    [OutboxNext]_drainAllVars /\ ~active /\ active'
        => \E P \in SUBSET Eligible : IsDuePage(P) /\ page' = P
BY DEF OutboxNext, drainAllVars, outboxVars, drainVars, CallerBegins, CallerSettles,
       CallerDelivers, CallerQueues, CallersThrow, RowFallsDue, RowAges, TakeEntry,
       RetrySettles, RetryDelivers, RetryFails, DrainTick, DrainEnds, StopDrain, StopReturns,
       ProcessEnds

\* Whatever is queued and whatever the two budgets are, the first due row that
\* fits a page is in the page the outbox drainer reads, so rows that are too
\* large, or many, never starve it out of the read.
THEOREM FrontIsRead == OutboxSpec => FrontRowIsRead
<1> DEFINE Front == (~active /\ active' /\ Eligible # {}) =>
                       \E m \in page' : \A a \in Eligible : <<a, m>> \notin ahead
           Inv == DueOrder /\ due \subseteq Messages
<1>1. OutboxInit => Inv
  <2> SUFFICES ASSUME OutboxInit PROVE Inv
    OBVIOUS
  <2>1. [a \in due |-> 0] \in [due -> 0..0] /\ Numbers([a \in due |-> 0])
    BY DEF OutboxInit, Numbers
  <2> QED
    BY <2>1 DEF OutboxInit, DueOrder
<1>2. Inv /\ [OutboxNext]_drainAllVars => Inv'
  BY StepKeepsOrder
<1>3. Inv /\ [OutboxNext]_drainAllVars => [Front]_drainAllVars
  BY OnlyTickStarts, PageHasFront
<1>4. FrontRowIsRead <=> [][Front]_drainAllVars
  BY DEF FrontRowIsRead
<1> HIDE DEF Inv, Front
<1> QED
  BY <1>1, <1>2, <1>3, <1>4, PTL DEF OutboxSpec

=============================================================================
