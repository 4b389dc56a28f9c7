--------------------------- MODULE MeteringProofs ---------------------------
(***************************************************************************)
(* What the meters compute, for every window, limit and clock: dates,      *)
(* sums of stamps, the rolling window (limiter.ts) and the record of one   *)
(* payer of a daily budget (budget.ts).  The proofs about the pipelines    *)
(* that use the meters cite these facts and nothing else about them.       *)
(***************************************************************************)
EXTENDS Metering, FiniteSetTheorems, TLAPS

(* Dates, windows and records. *)

\* Dates of ticks are dates, and later ticks have later dates.
LEMMA DateOfTick ==
  ASSUME NEW t \in Ticks
  PROVE  DateOf(t) \in Days
  BY DayLengthAssumption, HorizonAssumption, SMTT(30) DEF DateOf, Days, Ticks

LEMMA DateOfMonotone ==
  ASSUME NEW s \in Ticks, NEW t \in Ticks, s <= t
  PROVE  DateOf(s) <= DateOf(t)
  BY DayLengthAssumption, HorizonAssumption, SMTT(30) DEF DateOf, Ticks

LEMMA PruneType ==
  ASSUME NEW stamps \in Stamps, NEW t \in Int, NEW w \in Int
  PROVE  PruneWindow(stamps, t, w) \in Stamps
  BY DEF PruneWindow, Stamps

LEMMA TakeSlotType ==
  ASSUME NEW stamps \in Stamps, NEW t \in Ticks, NEW w \in Int
  PROVE  TakeSlot(stamps, t, w) \in Stamps
<1> DEFINE pruned == PruneWindow(stamps, t, w)
<1>1. pruned \in [Ticks -> Nat]
  BY PruneType, HorizonAssumption DEF Stamps, Ticks
<1>2. TakeSlot(stamps, t, w) = [pruned EXCEPT ![t] = pruned[t] + 1]
  BY DEF TakeSlot
<1> HIDE DEF pruned
<1> QED
  BY <1>1, <1>2 DEF Stamps

\* A charged record is dated today and counts one call more than today's.
LEMMA ReservedRecord ==
  ASSUME NEW rec \in BudgetRecord, NEW t \in Ticks
  PROVE  /\ Reserved(rec, t) \in BudgetRecord
         /\ Reserved(rec, t).date = DateOf(t)
         /\ Reserved(rec, t).count = Today(rec, t).count + 1
         /\ Today(rec, t).count \in Nat
  BY DateOfTick DEF Reserved, Today, BudgetRecord

-----------------------------------------------------------------------------
(* Sums.  SumFunction is a fold by a recursive function.  The library's     *)
(* induction needs an operator; a smallest counterexample needs none.       *)

\* A set of parts of a finite set has a smallest one.
LEMMA SmallestPart ==
  ASSUME NEW S, IsFiniteSet(S), NEW P \in SUBSET SUBSET S, P # {}
  PROVE  \E U \in P : \A V \in P : ~ (V \subseteq U /\ V # U)
<1>1. IsWellFoundedOn(StrictSubsetOrdering(S), SUBSET S)
  BY FS_StrictSubsetOrderingWellFounded, FS_FiniteSubsetsOfFinite
<1>2. PICK U \in P : \A V \in P : <<V, U>> \notin StrictSubsetOrdering(S)
  BY <1>1, WFMin
<1>3. ASSUME NEW V \in P, V \subseteq U, V # U PROVE FALSE
  <2>1. <<V, U>> \in (SUBSET S) \X (SUBSET S)
    OBVIOUS
  <2>2. <<V, U>> \in StrictSubsetOrdering(S)
    BY <1>3, <2>1 DEF StrictSubsetOrdering
  <2> QED
    BY <1>2, <2>2
<1> QED
  BY <1>3

Choice(S) == CHOOSE x \in S : TRUE

LEMMA ChoiceIn == ASSUME NEW S, S # {} PROVE Choice(S) \in S
  BY DEF Choice

\* g is the table of the sums of f over the parts of S, as the fold makes it.
Sums(f, S, g) ==
  g = [s \in SUBSET S |->
         IF s = {} THEN 0 ELSE f[Choice(s)] + g[s \ {Choice(s)}]]

LEMMA SumIsChosen ==
  ASSUME NEW f, NEW S
  PROVE  SumFunctionOnSet(f, S) = (CHOOSE g : Sums(f, S, g))[S]
  BY DEF SumFunctionOnSet, FoldFunctionOnSet, MapThenFoldSet, Sums, Choice

LEMMA SumsAgree ==
  ASSUME NEW f, NEW S, IsFiniteSet(S), NEW U \in SUBSET S, NEW V \in SUBSET S,
         NEW g, NEW h, Sums(f, U, g), Sums(f, V, h)
  PROVE  \A s \in SUBSET S : s \subseteq U /\ s \subseteq V => g[s] = h[s]
<1> DEFINE P == {s \in SUBSET S : s \subseteq U /\ s \subseteq V /\ g[s] # h[s]}
<1> SUFFICES P = {}
  OBVIOUS
<1> SUFFICES ASSUME P # {} PROVE FALSE
  OBVIOUS
<1>0. P \in SUBSET SUBSET S
  OBVIOUS
<1>1. PICK s \in P : \A t \in P : ~ (t \subseteq s /\ t # s)
  <2> HIDE DEF P
  <2> QED
    BY <1>0, SmallestPart
<1>2. /\ g[s] = IF s = {} THEN 0 ELSE f[Choice(s)] + g[s \ {Choice(s)}]
      /\ h[s] = IF s = {} THEN 0 ELSE f[Choice(s)] + h[s \ {Choice(s)}]
  BY DEF Sums
<1>3. s # {}
  BY <1>2
<1>4. s \ {Choice(s)} \notin P
  BY <1>1, <1>3, ChoiceIn
<1> QED
  BY <1>2, <1>3, <1>4

LEMMA SumsExist ==
  ASSUME NEW f, NEW S, IsFiniteSet(S)
  PROVE  \A U \in SUBSET S : \E g : Sums(f, U, g)
<1> DEFINE P == {U \in SUBSET S : ~ \E g : Sums(f, U, g)}
<1> SUFFICES ASSUME P # {} PROVE FALSE
  OBVIOUS
<1>0. P \in SUBSET SUBSET S
  OBVIOUS
<1>1. PICK U \in P : \A V \in P : ~ (V \subseteq U /\ V # U)
  <2> HIDE DEF P
  <2> QED
    BY <1>0, SmallestPart
<1> DEFINE table(V) == CHOOSE g : Sums(f, V, g)
           below(s) == s \ {Choice(s)}
           h == [s \in SUBSET U |->
                   IF s = {} THEN 0 ELSE f[Choice(s)] + table(below(s))[below(s)]]
<1>2. ASSUME NEW V \in SUBSET U, V # U
      PROVE  Sums(f, V, table(V))
  BY <1>1, <1>2
<1>3. ASSUME NEW s \in SUBSET U, s # {}
      PROVE  table(below(s))[below(s)] = h[below(s)]
  <2> DEFINE t == below(s)
  <2>1. t \in SUBSET U /\ t # U
    BY <1>3, ChoiceIn
  <2>2. Sums(f, t, table(t))
    BY <1>2, <2>1
  <2>3. table(t)[t] = IF t = {} THEN 0 ELSE f[Choice(t)] + table(t)[below(t)]
    BY <2>2 DEF Sums
  <2>4. h[t] = IF t = {} THEN 0 ELSE f[Choice(t)] + table(below(t))[below(t)]
    BY <2>1
  <2>5. t # {} => table(t)[below(t)] = table(below(t))[below(t)]
    <3> SUFFICES ASSUME t # {} PROVE table(t)[below(t)] = table(below(t))[below(t)]
      OBVIOUS
    <3>1. below(t) \in SUBSET U /\ below(t) # U /\ t \in SUBSET S /\ below(t) \in SUBSET S
      BY <2>1
    <3>2. Sums(f, below(t), table(below(t)))
      BY <1>2, <3>1
    <3>3. \A s1 \in SUBSET S : s1 \subseteq t /\ s1 \subseteq below(t)
                                => table(t)[s1] = table(below(t))[s1]
      <4> HIDE DEF table, t, below
      <4> QED
        BY <3>1, <3>2, <2>2, SumsAgree
    <3> HIDE DEF table
    <3> QED
      BY <3>1, <3>3
  <2> QED
    BY <2>3, <2>4, <2>5
<1>4. Sums(f, U, h)
  <2>1. ASSUME NEW s \in SUBSET U
        PROVE  h[s] = IF s = {} THEN 0 ELSE f[Choice(s)] + h[s \ {Choice(s)}]
    <3>1. h[s] = IF s = {} THEN 0 ELSE f[Choice(s)] + table(below(s))[below(s)]
      OBVIOUS
    <3>2. s # {} => table(below(s))[below(s)] = h[s \ {Choice(s)}]
      <4> HIDE DEF h, table
      <4> QED
        BY <1>3
    <3> HIDE DEF h, table
    <3> QED
      BY <3>1, <3>2
  <2>2. h = [s \in SUBSET U |-> h[s]]
    OBVIOUS
  <2> HIDE DEF h
  <2> QED
    BY <2>1, <2>2, Zenon DEF Sums
<1> QED
  BY <1>4

\* The sum over S: nothing for the empty set, otherwise one chosen value and the rest.
LEMMA SumStep ==
  ASSUME NEW f, NEW S, IsFiniteSet(S)
  PROVE  SumFunctionOnSet(f, S)
           = IF S = {} THEN 0 ELSE f[Choice(S)] + SumFunctionOnSet(f, S \ {Choice(S)})
<1> DEFINE g == CHOOSE g : Sums(f, S, g)
           T == S \ {Choice(S)}
           h == CHOOSE h : Sums(f, T, h)
<1>1. Sums(f, S, g)
  BY SumsExist
<1>2. Sums(f, T, h)
  BY SumsExist
<1>3. g[S] = IF S = {} THEN 0 ELSE f[Choice(S)] + g[T]
  BY <1>1 DEF Sums
<1>4. g[T] = h[T]
  <2> HIDE DEF g, h
  <2>1. T \in SUBSET S /\ S \in SUBSET S
    OBVIOUS
  <2> QED
  BY <1>1, <1>2, <2>1, SumsAgree
<1> QED
  BY <1>3, <1>4, SumIsChosen

-----------------------------------------------------------------------------
(* The laws of sums of natural numbers. *)

LEMMA SumType ==
  ASSUME NEW S, IsFiniteSet(S), NEW f, \A x \in S : f[x] \in Nat
  PROVE  SumFunctionOnSet(f, S) \in Nat
<1> DEFINE P == {U \in SUBSET S : SumFunctionOnSet(f, U) \notin Nat}
<1> SUFFICES ASSUME P # {} PROVE FALSE
  OBVIOUS
<1>1. P \in SUBSET SUBSET S
  OBVIOUS
<1>2. PICK U \in P : \A V \in P : ~ (V \subseteq U /\ V # U)
  <2> HIDE DEF P
  <2> QED
    BY <1>1, SmallestPart
<1>3. IsFiniteSet(U)
  BY FS_Subset
<1>4. CASE U = {}
  <2>1. SumFunctionOnSet(f, U) = 0
    BY <1>3, <1>4, SumStep
  <2> QED
    BY <1>4, <2>1
<1>5. CASE U # {}
  <2>1. Choice(U) \in U
    BY <1>5, ChoiceIn
  <2>2. SumFunctionOnSet(f, U \ {Choice(U)}) \in Nat
    BY <1>2, <2>1
  <2>3. SumFunctionOnSet(f, U) = f[Choice(U)] + SumFunctionOnSet(f, U \ {Choice(U)})
    BY <1>3, <1>5, SumStep
  <2> QED
    BY <2>1, <2>2, <2>3
<1> QED
  BY <1>4, <1>5

LEMMA SumMonotone ==
  ASSUME NEW S, IsFiniteSet(S), NEW f, NEW g,
         \A x \in S : f[x] \in Nat /\ g[x] \in Nat /\ f[x] <= g[x]
  PROVE  SumFunctionOnSet(f, S) <= SumFunctionOnSet(g, S)
<1> DEFINE P == {U \in SUBSET S : ~ (SumFunctionOnSet(f, U) <= SumFunctionOnSet(g, U))}
<1> SUFFICES ASSUME P # {} PROVE FALSE
  OBVIOUS
<1>1. P \in SUBSET SUBSET S
  OBVIOUS
<1>2. PICK U \in P : \A V \in P : ~ (V \subseteq U /\ V # U)
  <2> HIDE DEF P
  <2> QED
    BY <1>1, SmallestPart
<1>3. IsFiniteSet(U)
  BY FS_Subset
<1>4. CASE U = {}
  <2>1. SumFunctionOnSet(f, U) = 0 /\ SumFunctionOnSet(g, U) = 0
    BY <1>3, <1>4, SumStep
  <2> QED
    BY <1>4, <2>1
<1>5. CASE U # {}
  <2> DEFINE V == U \ {Choice(U)}
  <2>1. Choice(U) \in U
    BY <1>5, ChoiceIn
  <2>2. SumFunctionOnSet(f, V) <= SumFunctionOnSet(g, V)
    BY <1>2, <2>1
  <2>3. /\ SumFunctionOnSet(f, U) = f[Choice(U)] + SumFunctionOnSet(f, V)
        /\ SumFunctionOnSet(g, U) = g[Choice(U)] + SumFunctionOnSet(g, V)
    BY <1>3, <1>5, SumStep
  <2>4. SumFunctionOnSet(f, V) \in Nat /\ SumFunctionOnSet(g, V) \in Nat
    <3>1. IsFiniteSet(V)
      BY <1>3, FS_RemoveElement
    <3>2. \A x \in V : f[x] \in Nat /\ g[x] \in Nat
      OBVIOUS
    <3> QED
      BY <3>1, <3>2, SumType
  <2> HIDE DEF V
  <2> QED
    BY <2>1, <2>2, <2>3, <2>4
<1> QED
  BY <1>4, <1>5

LEMMA SumEqual ==
  ASSUME NEW S, IsFiniteSet(S), NEW f, NEW g, \A x \in S : f[x] \in Nat /\ g[x] = f[x]
  PROVE  SumFunctionOnSet(g, S) = SumFunctionOnSet(f, S)
<1>1. SumFunctionOnSet(g, S) \in Nat /\ SumFunctionOnSet(f, S) \in Nat
  BY SumType
<1>2. /\ SumFunctionOnSet(g, S) <= SumFunctionOnSet(f, S)
      /\ SumFunctionOnSet(f, S) <= SumFunctionOnSet(g, S)
  BY SumMonotone
<1> QED
  BY <1>1, <1>2

LEMMA SumPlus ==
  ASSUME NEW S, IsFiniteSet(S), NEW f, NEW g, NEW h,
         \A x \in S : f[x] \in Nat /\ g[x] \in Nat /\ h[x] = f[x] + g[x]
  PROVE  SumFunctionOnSet(h, S) = SumFunctionOnSet(f, S) + SumFunctionOnSet(g, S)
<1> DEFINE P == {U \in SUBSET S : SumFunctionOnSet(h, U)
                                    # SumFunctionOnSet(f, U) + SumFunctionOnSet(g, U)}
<1> SUFFICES ASSUME P # {} PROVE FALSE
  OBVIOUS
<1>1. P \in SUBSET SUBSET S
  OBVIOUS
<1>2. PICK U \in P : \A V \in P : ~ (V \subseteq U /\ V # U)
  <2> HIDE DEF P
  <2> QED
    BY <1>1, SmallestPart
<1>3. IsFiniteSet(U)
  BY FS_Subset
<1>4. CASE U = {}
  <2>1. /\ SumFunctionOnSet(h, U) = 0
        /\ SumFunctionOnSet(f, U) = 0
        /\ SumFunctionOnSet(g, U) = 0
    BY <1>3, <1>4, SumStep
  <2> QED
    BY <1>4, <2>1
<1>5. CASE U # {}
  <2> DEFINE V == U \ {Choice(U)}
  <2>1. Choice(U) \in U
    BY <1>5, ChoiceIn
  <2>2. SumFunctionOnSet(h, V) = SumFunctionOnSet(f, V) + SumFunctionOnSet(g, V)
    BY <1>2, <2>1
  <2>3. /\ SumFunctionOnSet(f, U) = f[Choice(U)] + SumFunctionOnSet(f, V)
        /\ SumFunctionOnSet(g, U) = g[Choice(U)] + SumFunctionOnSet(g, V)
        /\ SumFunctionOnSet(h, U) = h[Choice(U)] + SumFunctionOnSet(h, V)
    BY <1>3, <1>5, SumStep
  <2>4. SumFunctionOnSet(f, V) \in Nat /\ SumFunctionOnSet(g, V) \in Nat
    <3>1. IsFiniteSet(V)
      BY <1>3, FS_RemoveElement
    <3>2. \A x \in V : f[x] \in Nat /\ g[x] \in Nat
      OBVIOUS
    <3> QED
      BY <3>1, <3>2, SumType
  <2>5. /\ f[Choice(U)] \in Nat /\ g[Choice(U)] \in Nat
        /\ h[Choice(U)] = f[Choice(U)] + g[Choice(U)]
    BY <2>1
  <2> HIDE DEF V
  <2>6. SumFunctionOnSet(h, U) = SumFunctionOnSet(f, U) + SumFunctionOnSet(g, U)
    BY <2>2, <2>3, <2>4, <2>5
  <2> QED
    BY <2>6
<1> QED
  BY <1>4, <1>5

\* Nothing but zeros.
LEMMA SumOfZeros ==
  ASSUME NEW S, IsFiniteSet(S), NEW f, \A x \in S : f[x] = 0
  PROVE  SumFunctionOnSet(f, S) = 0
<1> DEFINE n == SumFunctionOnSet(f, S)
<1>1. n = n + n
  BY SumPlus
<1>2. n \in Nat
  BY SumType
<1> HIDE DEF n
<1>3. n = 0
  BY <1>1, <1>2
<1> QED
  BY <1>3 DEF n

\* One value by itself, and one value more at one place.
LEMMA SumSingle ==
  ASSUME NEW S, IsFiniteSet(S), NEW x \in S
  PROVE  SumFunctionOnSet([y \in S |-> IF y = x THEN 1 ELSE 0], S) = 1
<1> DEFINE e == [y \in S |-> IF y = x THEN 1 ELSE 0]
           P == {U \in SUBSET S : SumFunctionOnSet(e, U) # IF x \in U THEN 1 ELSE 0}
<1> SUFFICES ASSUME P # {} PROVE FALSE
  OBVIOUS
<1>1. P \in SUBSET SUBSET S
  OBVIOUS
<1>2. PICK U \in P : \A V \in P : ~ (V \subseteq U /\ V # U)
  <2> HIDE DEF P
  <2> QED
    BY <1>1, SmallestPart
<1>3. IsFiniteSet(U)
  BY FS_Subset
<1>4. CASE U = {}
  <2>1. SumFunctionOnSet(e, U) = 0
    BY <1>3, <1>4, SumStep
  <2> HIDE DEF e
  <2> QED
    BY <1>4, <2>1
<1>5. CASE U # {}
  <2> DEFINE V == U \ {Choice(U)}
  <2>1. Choice(U) \in U
    BY <1>5, ChoiceIn
  <2>2. SumFunctionOnSet(e, V) = IF x \in V THEN 1 ELSE 0
    BY <1>2, <2>1
  <2>3. SumFunctionOnSet(e, U) = e[Choice(U)] + SumFunctionOnSet(e, V)
    BY <1>3, <1>5, SumStep
  <2>4. e[Choice(U)] = IF Choice(U) = x THEN 1 ELSE 0
    BY <2>1
  <2> HIDE DEF e
  <2>5. SumFunctionOnSet(e, U) = IF x \in U THEN 1 ELSE 0
    BY <2>1, <2>2, <2>3, <2>4
  <2> QED
    BY <2>5
<1> QED
  BY <1>4, <1>5

LEMMA SumRaised ==
  ASSUME NEW S, IsFiniteSet(S), NEW f, NEW g, NEW x \in S,
         \A y \in S : f[y] \in Nat /\ g[y] = f[y] + (IF y = x THEN 1 ELSE 0)
  PROVE  SumFunctionOnSet(g, S) = SumFunctionOnSet(f, S) + 1
<1> DEFINE e == [y \in S |-> IF y = x THEN 1 ELSE 0]
<1>1. \A y \in S : f[y] \in Nat /\ e[y] \in Nat /\ g[y] = f[y] + e[y]
  OBVIOUS
<1>2. SumFunctionOnSet(e, S) = 1
  BY SumSingle
<1> HIDE DEF e
<1>3. SumFunctionOnSet(g, S) = SumFunctionOnSet(f, S) + SumFunctionOnSet(e, S)
  BY <1>1, SumPlus
<1> QED
  BY <1>2, <1>3

\* The sum of the rows of a table is the sum of its columns.
LEMMA SumExchanged ==
  ASSUME NEW S, IsFiniteSet(S), NEW T, IsFiniteSet(T), NEW c \in [S -> [T -> Nat]]
  PROVE  SumFunctionOnSet([i \in S |-> SumFunctionOnSet(c[i], T)], S)
           = SumFunctionOnSet([t \in T |-> SumFunctionOnSet([i \in S |-> c[i][t]], S)], T)
<1> DEFINE row == [i \in S |-> SumFunctionOnSet(c[i], T)]
           column(t) == [i \in S |-> c[i][t]]
           sums(U) == [t \in T |-> SumFunctionOnSet(column(t), U)]
           P == {U \in SUBSET S : SumFunctionOnSet(row, U) # SumFunctionOnSet(sums(U), T)}
<1> SUFFICES ASSUME P # {} PROVE FALSE
  OBVIOUS
<1>1. P \in SUBSET SUBSET S
  OBVIOUS
<1>2. PICK U \in P : \A V \in P : ~ (V \subseteq U /\ V # U)
  <2> HIDE DEF P
  <2> QED
    BY <1>1, SmallestPart
<1>3. IsFiniteSet(U)
  BY FS_Subset
<1>4. CASE U = {}
  <2>1. SumFunctionOnSet(row, U) = 0
    BY <1>3, <1>4, SumStep
  <2>2. \A t \in T : SumFunctionOnSet(column(t), U) = 0
    BY <1>3, <1>4, SumStep
  <2>3. \A t \in T : sums(U)[t] = 0
    BY <2>2
  <2>4. SumFunctionOnSet(sums(U), T) = 0
    <3> HIDE DEF sums
    <3> QED
      BY <2>3, SumOfZeros
  <2> QED
    BY <2>1, <2>4
<1>5. CASE U # {}
  <2> DEFINE V == U \ {Choice(U)}
             i == Choice(U)
  <2>1. i \in U /\ i \in S
    BY <1>5, ChoiceIn
  <2>2. V \in SUBSET S /\ IsFiniteSet(V)
    BY <1>3, FS_RemoveElement
  <2>3. SumFunctionOnSet(row, V) = SumFunctionOnSet(sums(V), T)
    BY <1>2, <2>1, <2>2
  <2>4. SumFunctionOnSet(row, U) = row[i] + SumFunctionOnSet(row, V)
    BY <1>3, <1>5, SumStep
  <2>5. row[i] = SumFunctionOnSet(c[i], T)
    BY <2>1
  <2>6. ASSUME NEW t \in T
        PROVE  /\ c[i][t] \in Nat
               /\ sums(V)[t] \in Nat
               /\ sums(U)[t] = c[i][t] + sums(V)[t]
    <3>1. SumFunctionOnSet(column(t), U) = column(t)[i] + SumFunctionOnSet(column(t), V)
      BY <1>3, <1>5, SumStep
    <3>2. column(t)[i] = c[i][t] /\ c[i][t] \in Nat
      BY <2>1
    <3>3. SumFunctionOnSet(column(t), V) \in Nat
      <4>1. \A j \in V : column(t)[j] \in Nat
        BY <2>2
      <4> HIDE DEF column, V
      <4> QED
        BY <2>2, <4>1, SumType
    <3>4. sums(V)[t] = SumFunctionOnSet(column(t), V) /\ sums(U)[t] = SumFunctionOnSet(column(t), U)
      OBVIOUS
    <3> HIDE DEF sums, column, V, i
    <3> QED
      BY <3>1, <3>2, <3>3, <3>4
  <2>7. SumFunctionOnSet(sums(U), T) = SumFunctionOnSet(c[i], T) + SumFunctionOnSet(sums(V), T)
    <3> HIDE DEF sums, V, i
    <3> QED
      BY <2>6, SumPlus
  <2> HIDE DEF row, sums, V, i
  <2>8. SumFunctionOnSet(row, U) = SumFunctionOnSet(sums(U), T)
    BY <2>3, <2>4, <2>5, <2>7
  <2> QED
    BY <2>8
<1> QED
  BY <1>4, <1>5

\* A value is no more than the sum it is part of.
LEMMA SumCovers ==
  ASSUME NEW S, IsFiniteSet(S), NEW f, \A x \in S : f[x] \in Nat, NEW x \in S
  PROVE  f[x] <= SumFunctionOnSet(f, S)
<1> DEFINE P == {U \in SUBSET S : x \in U /\ ~ (f[x] <= SumFunctionOnSet(f, U))}
<1> SUFFICES ASSUME P # {} PROVE FALSE
  OBVIOUS
<1>1. P \in SUBSET SUBSET S
  OBVIOUS
<1>2. PICK U \in P : \A V \in P : ~ (V \subseteq U /\ V # U)
  <2> HIDE DEF P
  <2> QED
    BY <1>1, SmallestPart
<1>3. IsFiniteSet(U) /\ U # {} /\ U \subseteq S
  BY FS_Subset
<1> DEFINE V == U \ {Choice(U)}
<1>4. Choice(U) \in U
  BY <1>3, ChoiceIn
<1>5. SumFunctionOnSet(f, U) = f[Choice(U)] + SumFunctionOnSet(f, V)
  BY <1>3, SumStep
<1>6. SumFunctionOnSet(f, V) \in Nat
  <2>1. IsFiniteSet(V) /\ \A y \in V : f[y] \in Nat
    BY <1>3, FS_RemoveElement
  <2> QED
    BY <2>1, SumType
<1>7. Choice(U) = x \/ (x \in V /\ f[x] <= SumFunctionOnSet(f, V))
  BY <1>2, <1>4
<1>8. f[x] \in Nat /\ f[Choice(U)] \in Nat
  BY <1>3, <1>4
<1> HIDE DEF V
<1>9. f[x] <= SumFunctionOnSet(f, U)
  BY <1>5, <1>6, <1>7, <1>8
<1> QED
  BY <1>9

-----------------------------------------------------------------------------
(* The record of one payer of a daily budget. *)

\* The account of one payer at time t, who may be charged max calls a day.
\* The record covers what was charged on its date.  A date from now on that
\* the record is not about has not been charged: this is what makes it safe to
\* delete a record that is two days old.
AccountAt(t, record, paid, max) ==
  /\ record.date <= DateOf(t)
  /\ record.count <= max
  /\ \A d \in Days :
       /\ paid[d] <= max
       /\ d = record.date => paid[d] <= record.count
       /\ (d >= DateOf(t) /\ d # record.date) => paid[d] = 0

\* Nothing is charged and nothing is on record to begin with.
LEMMA AccountOpened ==
  ASSUME NEW t \in Ticks, NEW max \in Nat
  PROVE  AccountAt(t, NoRecord, [d \in Days |-> 0], max)
<1>1. DateOf(t) \in Nat
  BY DateOfTick DEF Days
<1> QED
  BY <1>1 DEF AccountAt, NoRecord, Never, Days

\* It stays true as time passes, and when a record that is neither today's
\* nor yesterday's is deleted.
LEMMA AccountLater ==
  ASSUME NEW s \in Ticks, NEW t \in Ticks, s <= t, NEW max \in Nat,
         NEW record \in BudgetRecord, NEW paid \in [Days -> Nat],
         AccountAt(s, record, paid, max)
  PROVE  /\ AccountAt(t, record, paid, max)
         /\ StaleDate(record, t) => AccountAt(t, NoRecord, paid, max)
<1>1. /\ DateOf(s) \in Int /\ DateOf(t) \in Int /\ DateOf(s) <= DateOf(t)
      /\ DateOf(t) >= 0
  BY DateOfTick, DateOfMonotone DEF Days
<1>2. record.date \in Int
  BY DEF BudgetRecord, Days, Never
<1>3. AccountAt(t, record, paid, max)
  BY <1>1, <1>2 DEF AccountAt, Days
<1>4. ASSUME StaleDate(record, t)
      PROVE  AccountAt(t, NoRecord, paid, max)
  <2>1. record.date # DateOf(t)
    BY <1>4 DEF StaleDate
  <2>2. \A d \in Days : d >= DateOf(t) => paid[d] = 0
    BY <1>1, <1>2, <1>3, <2>1 DEF AccountAt, Days
  <2> QED
    BY <1>1, <1>3, <2>2 DEF AccountAt, NoRecord, Never, Days
<1> QED
  BY <1>3, <1>4

\* While the record has room, so has what was charged.
LEMMA AccountHasRoom ==
  ASSUME NEW t \in Ticks, NEW max \in Nat,
         NEW record \in BudgetRecord, NEW paid \in [Days -> Nat],
         AccountAt(t, record, paid, max), HasRoom(record, t, max)
  PROVE  /\ paid[DateOf(t)] <= Today(record, t).count
         /\ paid[DateOf(t)] < max
<1>1. DateOf(t) \in Days /\ DateOf(t) \in Int
  BY DateOfTick DEF Days
<1>2. Today(record, t).count < max /\ Today(record, t).count \in Nat
  BY ReservedRecord DEF HasRoom
<1>3. paid[DateOf(t)] <= Today(record, t).count
  BY <1>1 DEF Today, AccountAt
<1> QED
  BY <1>1, <1>2, <1>3

\* One more unit on the record, with or without the call it was for.
LEMMA AccountCharged ==
  ASSUME NEW t \in Ticks, NEW max \in Nat,
         NEW record \in BudgetRecord, NEW paid \in [Days -> Nat],
         AccountAt(t, record, paid, max), HasRoom(record, t, max)
  PROVE  /\ AccountAt(t, Reserved(record, t), paid, max)
         /\ AccountAt(t, Reserved(record, t),
                      [paid EXCEPT ![DateOf(t)] = @ + 1], max)
<1> DEFINE d0 == DateOf(t)
           n0 == Today(record, t).count
<1>1. d0 \in Days /\ d0 \in Int
  BY DateOfTick DEF Days
<1>2. /\ Reserved(record, t).date = d0
      /\ Reserved(record, t).count = n0 + 1
      /\ n0 \in Nat
  BY ReservedRecord
<1>3. n0 + 1 <= max
  BY <1>2 DEF HasRoom
<1>4. paid[d0] <= n0
  BY AccountHasRoom
<1>5. ASSUME NEW d \in Days
      PROVE  /\ paid[d] <= max
             /\ d > d0 => paid[d] = 0
  BY <1>1 DEF AccountAt, BudgetRecord, Days, Never
<1> HIDE DEF d0, n0
<1>6. AccountAt(t, Reserved(record, t), paid, max)
  BY <1>1, <1>2, <1>3, <1>4, <1>5 DEF AccountAt, Days, d0
<1>7. AccountAt(t, Reserved(record, t), [paid EXCEPT ![d0] = @ + 1], max)
  BY <1>1, <1>2, <1>3, <1>4, <1>5 DEF AccountAt, Days, d0
<1> QED
  BY <1>6, <1>7 DEF d0

-----------------------------------------------------------------------------
(* The rolling window. *)

LEMMA TicksFinite == IsFiniteSet(Ticks)
  BY HorizonAssumption, FS_Interval DEF Ticks

\* The sum of a list of stamps is its sum over the ticks.
LEMMA StampsSum ==
  ASSUME NEW stamps \in Stamps
  PROVE  /\ SumFunction(stamps) = SumFunctionOnSet(stamps, Ticks)
         /\ SumFunction(stamps) \in Nat
<1>1. DOMAIN stamps = Ticks /\ \A t \in Ticks : stamps[t] \in Nat
  BY DEF Stamps
<1>2. SumFunction(stamps) = SumFunctionOnSet(stamps, Ticks)
  BY <1>1 DEF SumFunction
<1>3. SumFunctionOnSet(stamps, Ticks) \in Nat
  BY <1>1, TicksFinite, SumType
<1> QED
  BY <1>2, <1>3

\* An empty list holds nothing.
LEMMA NoStampsSum == NoStamps \in Stamps /\ SumFunction(NoStamps) = 0
<1>1. NoStamps \in Stamps
  BY DEF NoStamps, Stamps
<1>2. SumFunctionOnSet(NoStamps, Ticks) = 0
  BY TicksFinite, SumOfZeros DEF NoStamps
<1> QED
  BY <1>1, <1>2, StampsSum

\* What was let through in the last w ticks is on the stored list, though the
\* list may hold more than it need.
Covered(let, stamps, t, w) ==
  \A s \in Ticks : let[s] <= PruneWindow(stamps, t, w)[s]

\* Storing the list pruned, as every use of it does, loses nothing of it.
LEMMA CoveredWhenPruned ==
  ASSUME NEW let \in Stamps, NEW stamps \in Stamps, NEW t \in Ticks, NEW w \in Nat,
         Covered(let, stamps, t, w)
  PROVE  Covered(let, PruneWindow(stamps, t, w), t, w)
  BY HorizonAssumption DEF Covered, PruneWindow, Ticks

\* One more is let through only while the window is open: the slot is on the
\* list, and the window still holds no more than it may.
LEMMA CoveredWhenTaken ==
  ASSUME NEW let \in Stamps, NEW stamps \in Stamps, NEW t \in Ticks,
         NEW w \in Nat \ {0}, NEW max \in Nat,
         Covered(let, stamps, t, w), WindowOpen(stamps, t, w, max)
  PROVE  /\ [let EXCEPT ![t] = @ + 1] \in Stamps
         /\ Covered([let EXCEPT ![t] = @ + 1], TakeSlot(stamps, t, w), t, w)
         /\ SumFunction([let EXCEPT ![t] = @ + 1]) <= max
<1> DEFINE pruned == PruneWindow(stamps, t, w)
           after == [let EXCEPT ![t] = @ + 1]
<1>0. t \in Int /\ w \in Int
  BY HorizonAssumption DEF Ticks
<1>1. pruned \in [Ticks -> Nat]
  BY <1>0, PruneType DEF Stamps
<1>2. let \in [Ticks -> Nat] /\ after \in Stamps
  BY DEF Stamps
<1>3. \A s \in Ticks : after[s] = let[s] + (IF s = t THEN 1 ELSE 0)
  BY <1>2
<1>4. Covered(after, TakeSlot(stamps, t, w), t, w)
  <2>1. TakeSlot(stamps, t, w) = [pruned EXCEPT ![t] = pruned[t] + 1]
    BY DEF TakeSlot
  <2>2. \A s \in Ticks : PruneWindow(TakeSlot(stamps, t, w), t, w)[s]
                           = pruned[s] + (IF s = t THEN 1 ELSE 0)
    <3>1. ASSUME NEW s \in Ticks
          PROVE  PruneWindow(TakeSlot(stamps, t, w), t, w)[s]
                   = pruned[s] + (IF s = t THEN 1 ELSE 0)
      <4>1. PruneWindow(TakeSlot(stamps, t, w), t, w)[s]
              = IF t - s < w THEN TakeSlot(stamps, t, w)[s] ELSE 0
        BY DEF PruneWindow
      <4>2. ~ (t - s < w) => pruned[s] = 0 /\ s # t
        BY HorizonAssumption DEF PruneWindow, Ticks
      <4>3. TakeSlot(stamps, t, w)[s] = pruned[s] + (IF s = t THEN 1 ELSE 0)
        <5> HIDE DEF pruned
        <5> QED
          BY <1>1, <2>1
      <4> HIDE DEF pruned
      <4> QED
        BY <1>1, <4>1, <4>2, <4>3
    <3> QED
      BY <3>1
  <2> HIDE DEF pruned, after
  <2> QED
    BY <1>1, <1>2, <1>3, <2>2 DEF Covered, pruned
<1>5. SumFunctionOnSet(after, Ticks) = SumFunctionOnSet(let, Ticks) + 1
  <2> HIDE DEF after
  <2> QED
    BY <1>2, <1>3, TicksFinite, SumRaised
<1>6. SumFunctionOnSet(let, Ticks) <= SumFunctionOnSet(pruned, Ticks)
  <2>1. \A s \in Ticks : let[s] \in Nat /\ pruned[s] \in Nat /\ let[s] <= pruned[s]
    BY <1>1, <1>2 DEF Covered
  <2> HIDE DEF pruned
  <2> QED
    BY <2>1, TicksFinite, SumMonotone
<1>7. /\ SumFunction(pruned) < max
      /\ SumFunction(pruned) = SumFunctionOnSet(pruned, Ticks)
      /\ SumFunction(pruned) \in Nat
  BY <1>1, StampsSum DEF WindowOpen, Stamps
<1>8. /\ SumFunction(after) = SumFunctionOnSet(after, Ticks)
      /\ SumFunctionOnSet(let, Ticks) \in Nat
  BY <1>2, StampsSum
<1> HIDE DEF pruned, after
<1>9. SumFunction(after) <= max
  BY <1>5, <1>6, <1>7, <1>8
<1> QED
  BY <1>2, <1>4, <1>9 DEF after

\* Time passes: less is in the window, and it is still on the list.
LEMMA CoveredLater ==
  ASSUME NEW let \in Stamps, NEW stamps \in Stamps,
         NEW s \in Ticks, NEW t \in Ticks, s <= t, NEW w \in Nat,
         Covered(let, stamps, s, w)
  PROVE  /\ PruneWindow(let, t, w) \in Stamps
         /\ Covered(PruneWindow(let, t, w), stamps, t, w)
         /\ SumFunction(PruneWindow(let, t, w)) <= SumFunction(let)
<1> DEFINE later == PruneWindow(let, t, w)
<1>0. s \in Int /\ t \in Int /\ w \in Int
  BY HorizonAssumption DEF Ticks
<1>1. later \in Stamps
  BY <1>0, PruneType
<1>2. Covered(later, stamps, t, w)
  <2>1. ASSUME NEW u \in Ticks
        PROVE  later[u] <= PruneWindow(stamps, t, w)[u]
    <3>1. u \in Int
      BY HorizonAssumption DEF Ticks
    <3>2. let[u] \in Nat /\ stamps[u] \in Nat
      BY DEF Stamps
    <3>3. let[u] <= IF s - u < w THEN stamps[u] ELSE 0
      BY DEF Covered, PruneWindow
    <3> QED
      BY <1>0, <3>1, <3>2, <3>3 DEF PruneWindow
  <2> QED
    BY <2>1 DEF Covered
<1>3. SumFunctionOnSet(later, Ticks) <= SumFunctionOnSet(let, Ticks)
  <2>1. \A u \in Ticks : later[u] \in Nat /\ let[u] \in Nat /\ later[u] <= let[u]
    BY DEF PruneWindow, Stamps
  <2> HIDE DEF later
  <2> QED
    BY <2>1, TicksFinite, SumMonotone
<1> QED
  BY <1>1, <1>2, <1>3, StampsSum

\* A list whose stamps are all out of a window at least as long may go.
LEMMA CoveredWhenSwept ==
  ASSUME NEW let \in Stamps, NEW stamps \in Stamps, NEW t \in Ticks,
         NEW w \in Nat, NEW v \in Nat, w <= v,
         Covered(let, stamps, t, w), StaleStamps(stamps, t, v)
  PROVE  Covered(let, NoStamps, t, w)
<1> SUFFICES ASSUME NEW s \in Ticks
             PROVE  let[s] <= PruneWindow(NoStamps, t, w)[s]
  BY DEF Covered
<1>1. s \in Int /\ t \in Int /\ w \in Int
  BY HorizonAssumption DEF Ticks
<1>2. let[s] \in Nat /\ stamps[s] \in Nat
  BY DEF Stamps
<1>3. let[s] <= IF t - s < w THEN stamps[s] ELSE 0
  BY DEF Covered, PruneWindow
<1>4. stamps[s] > 0 => t - s >= v
  BY DEF StaleStamps
<1>5. let[s] = 0
  BY <1>1, <1>2, <1>3, <1>4
<1> QED
  BY <1>5 DEF PruneWindow, NoStamps
=============================================================================
