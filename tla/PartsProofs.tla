---------------------------- MODULE PartsProofs ----------------------------
(* The budgets of guest.c, for any allocator, any limits and any width of size_t;
   the admission of any request; the access to any catalog by dots and by call(); the
   distance of any two paths; the walk over any compiled code.                     *)
EXTENDS Parts, FiniteSetTheorems, SequenceTheorems, TLAPS

-----------------------------------------------------------------------------
(* A sum of naturals over a finite set is a number of units: of pairs of an
   element and one of the numbers up to its value.  What the fold computes then
   follows from what is known of cardinalities. *)
Units(f, S) == {u \in S \X Nat : u[2] \in 1 .. f[u[1]]}

LEMMA UnitsOfOne ==
  ASSUME NEW f, NEW x, f[x] \in Nat
  PROVE  IsFiniteSet(Units(f, {x})) /\ Cardinality(Units(f, {x})) = f[x]
<1>1. Units(f, {x}) = {x} \X (1 .. f[x]) BY DEF Units
<1>2. IsFiniteSet({x}) /\ Cardinality({x}) = 1 BY FS_Singleton
<1>3. IsFiniteSet(1 .. f[x]) /\ Cardinality(1 .. f[x]) = f[x] BY FS_Interval, SMTT(30)
<1>4. IsFiniteSet({x} \X (1 .. f[x])) /\ Cardinality({x} \X (1 .. f[x])) = 1 * f[x]
  BY <1>2, <1>3, FS_Product, ZenonT(60)
<1>5. 1 * f[x] = f[x] OBVIOUS
<1> QED BY <1>1, <1>4, <1>5

LEMMA UnitsFinite ==
  ASSUME NEW f, NEW S, IsFiniteSet(S), \A x \in S : f[x] \in Nat
  PROVE  IsFiniteSet(Units(f, S))
<1> DEFINE of == [x \in S |-> Units(f, {x})]
           all == {of[x] : x \in S}
<1>1. of \in Surjection(S, all)
  BY DEF Surjection
<1>2. IsFiniteSet(all)
  <2> HIDE DEF of, all
  <2> QED BY <1>1, FS_Surjection
<1>3. \A T \in all : IsFiniteSet(T) BY UnitsOfOne, ZenonT(60)
<1>4. IsFiniteSet(UNION all)
  <2> HIDE DEF all
  <2> QED BY <1>2, <1>3, FS_UNION
<1>5. Units(f, S) \subseteq UNION all
  <2> SUFFICES ASSUME NEW u \in Units(f, S) PROVE \E T \in all : u \in T OBVIOUS
  <2>1. u[1] \in S /\ u \in Units(f, {u[1]}) BY DEF Units
  <2>2. of[u[1]] \in all /\ of[u[1]] = Units(f, {u[1]}) BY <2>1
  <2> QED BY <2>1, <2>2
<1> HIDE DEF all
<1> QED BY <1>4, <1>5, FS_Subset

LEMMA UnitsJoin ==
  ASSUME NEW f, NEW S, IsFiniteSet(S), \A y \in S : f[y] \in Nat, NEW x \in S
  PROVE  /\ Cardinality(Units(f, S \ {x})) \in Nat
         /\ Cardinality(Units(f, S)) = f[x] + Cardinality(Units(f, S \ {x}))
<1>1. Units(f, S) = Units(f, {x}) \cup Units(f, S \ {x}) BY DEF Units
<1>2. Units(f, {x}) \cap Units(f, S \ {x}) = {} BY DEF Units
<1>3. IsFiniteSet(Units(f, {x})) /\ Cardinality(Units(f, {x})) = f[x] BY UnitsOfOne
<1>4. IsFiniteSet(S \ {x}) BY FS_RemoveElement
<1>5. IsFiniteSet(Units(f, S \ {x})) BY <1>4, UnitsFinite
<1>6. Cardinality(Units(f, S \ {x})) \in Nat BY <1>5, FS_CardinalityType
<1>7. Cardinality(Units(f, S)) = f[x] + Cardinality(Units(f, S \ {x})) - Cardinality({})
  <2>1. Cardinality(Units(f, {x}) \cup Units(f, S \ {x}))
          = Cardinality(Units(f, {x})) + Cardinality(Units(f, S \ {x}))
              - Cardinality(Units(f, {x}) \cap Units(f, S \ {x}))
    BY <1>3, <1>5, FS_Union
  <2> QED BY <1>1, <1>2, <1>3, <2>1
<1> QED BY <1>6, <1>7, FS_EmptySet

LEMMA SumCounts ==
  ASSUME NEW f, NEW S, IsFiniteSet(S), \A x \in S : f[x] \in Nat
  PROVE  SumFunctionOnSet(f, S) = Cardinality(Units(f, S))
<1> DEFINE some(s) == CHOOSE x \in s : TRUE
           Sums(g) == g = [s \in SUBSET S |-> IF s = {} THEN 0 ELSE f[some(s)] + g[s \ {some(s)}]]
           sum == CHOOSE g : Sums(g)
           count == [s \in SUBSET S |-> Cardinality(Units(f, s))]
<1>1. SumFunctionOnSet(f, S) = sum[S]
  BY DEF SumFunctionOnSet, FoldFunctionOnSet, MapThenFoldSet
<1>2. count[{}] = 0
  <2>1. Units(f, {}) = {} BY DEF Units
  <2> QED BY <2>1, FS_EmptySet
<1>3. ASSUME NEW s \in SUBSET S, s # {}
      PROVE  /\ some(s) \in s /\ s \ {some(s)} \in SUBSET S /\ s \ {some(s)} # s
             /\ count[s] = f[some(s)] + count[s \ {some(s)}]
  <2>1. some(s) \in s BY <1>3
  <2>2. IsFiniteSet(s) BY FS_Subset
  <2> HIDE DEF some
  <2> QED BY <2>1, <2>2, UnitsJoin
<1>4. Sums(count)
  <2> HIDE DEF some
  <2>1. \A s \in SUBSET S :
          Cardinality(Units(f, s)) = IF s = {} THEN 0 ELSE f[some(s)] + count[s \ {some(s)}]
    BY <1>2, <1>3
  <2> QED BY <2>1
<1>5. Sums(sum)
  <2> HIDE DEF count, Sums
  <2> QED BY <1>4
<1>6. \A s \in SUBSET S : sum[s] = IF s = {} THEN 0 ELSE f[some(s)] + sum[s \ {some(s)}]
  <2> HIDE DEF sum, some
  <2> QED BY <1>5
<1> DEFINE wrong == {s \in SUBSET S : sum[s] # count[s]}
<1>7. wrong = {}
  <2> SUFFICES ASSUME wrong # {} PROVE FALSE OBVIOUS
  <2>1. IsWellFoundedOn(StrictSubsetOrdering(S), FiniteSubsetsOf(S))
    BY FS_StrictSubsetOrderingWellFounded
  <2>2. wrong \subseteq FiniteSubsetsOf(S)
    <3>1. FiniteSubsetsOf(S) = SUBSET S BY FS_FiniteSubsetsOfFinite
    <3> QED BY <3>1
  <2>3. PICK s \in wrong : \A t \in wrong : ~(<<t, s>> \in StrictSubsetOrdering(S))
    <3> HIDE DEF wrong
    <3> QED BY <2>1, <2>2, WFMin
  <2>4. s \in SUBSET S /\ sum[s] # count[s] OBVIOUS
  <2> HIDE DEF sum, count, some
  <2>5. s # {} BY <2>4, <1>2, <1>6
  <2>6. s \ {some(s)} \notin wrong
    <3>1. <<s \ {some(s)}, s>> \in StrictSubsetOrdering(S)
      BY <2>4, <2>5, <1>3 DEF StrictSubsetOrdering
    <3> HIDE DEF wrong
    <3> QED BY <2>3, <3>1
  <2>7. sum[s \ {some(s)}] = count[s \ {some(s)}]
    BY <2>4, <2>5, <2>6, <1>3
  <2> QED BY <2>4, <2>5, <2>7, <1>3, <1>6
<1>8. sum[S] = count[S]
  <2> HIDE DEF sum, count
  <2> QED BY <1>7
<1> QED BY <1>1, <1>8

-----------------------------------------------------------------------------
(* What is held, as allocations come, go and change. *)
Sizing(s) == IsFiniteSet(DOMAIN s) /\ \A p \in DOMAIN s : s[p] \in Nat

LEMMA HeldUnits ==
  ASSUME NEW s, Sizing(s)
  PROVE  Held(s) = Cardinality(Units(s, DOMAIN s)) /\ Held(s) \in Nat
<1>1. Held(s) = Cardinality(Units(s, DOMAIN s)) BY SumCounts DEF Held, SumFunction, Sizing
<1>2. IsFiniteSet(Units(s, DOMAIN s)) BY UnitsFinite DEF Sizing
<1> QED BY <1>1, <1>2, FS_CardinalityType

LEMMA HeldNothing == ASSUME NEW s, DOMAIN s = {} PROVE Sizing(s) /\ Held(s) = 0
<1>1. Sizing(s) BY FS_EmptySet DEF Sizing
<1>2. Units(s, {}) = {} BY DEF Units
<1> QED BY <1>1, <1>2, HeldUnits, FS_EmptySet

(* Two functions that agree but for one place. *)
LEMMA HeldElsewhere ==
  ASSUME NEW s, Sizing(s), NEW t, Sizing(t), NEW p \in DOMAIN s,
         DOMAIN t \ {p} = DOMAIN s \ {p}, \A q \in DOMAIN s \ {p} : t[q] = s[q]
  PROVE  /\ s[p] <= Held(s)
         /\ Held(t) = Held(s) - s[p] + (IF p \in DOMAIN t THEN t[p] ELSE 0)
<1> DEFINE rest == Cardinality(Units(s, DOMAIN s \ {p}))
<1>1. rest \in Nat /\ Held(s) = s[p] + rest BY UnitsJoin, HeldUnits DEF Sizing
<1>2. Units(t, DOMAIN s \ {p}) = Units(s, DOMAIN s \ {p}) BY DEF Units
<1>3. CASE p \in DOMAIN t
  <2>1. Cardinality(Units(t, DOMAIN t)) = t[p] + Cardinality(Units(t, DOMAIN t \ {p}))
    BY <1>3, UnitsJoin DEF Sizing
  <2>2. Held(t) = t[p] + rest BY <1>2, <2>1, HeldUnits
  <2>3. t[p] \in Nat /\ s[p] \in Nat BY <1>3 DEF Sizing
  <2> HIDE DEF rest
  <2> QED BY <1>1, <1>3, <2>2, <2>3
<1>4. CASE p \notin DOMAIN t
  <2>1. DOMAIN t \ {p} = DOMAIN t BY <1>4
  <2>2. Held(t) = rest BY <1>2, <2>1, HeldUnits
  <2>3. s[p] \in Nat BY DEF Sizing
  <2> HIDE DEF rest
  <2> QED BY <1>1, <1>4, <2>2, <2>3
<1> QED BY <1>3, <1>4

LEMMA HeldFree ==
  ASSUME NEW s, Sizing(s), NEW p \in DOMAIN s
  PROVE  LET t == [q \in DOMAIN s \ {p} |-> s[q]]
         IN  Sizing(t) /\ s[p] <= Held(s) /\ Held(t) = Held(s) - s[p]
<1> DEFINE t == [q \in DOMAIN s \ {p} |-> s[q]]
<1>1. Sizing(t) BY FS_RemoveElement DEF Sizing
<1>2. s[p] <= Held(s) /\ Held(t) = Held(s) - s[p] + 0
  <2>1. DOMAIN t \ {p} = DOMAIN s \ {p} /\ (\A q \in DOMAIN s \ {p} : t[q] = s[q]) /\ p \notin DOMAIN t
    OBVIOUS
  <2> HIDE DEF t
  <2> QED BY <1>1, <2>1, HeldElsewhere
<1>3. Held(s) \in Nat /\ s[p] \in Nat BY HeldUnits DEF Sizing
<1> HIDE DEF t
<1>4. Held(t) = Held(s) - s[p] BY <1>2, <1>3
<1> QED BY <1>1, <1>2, <1>4 DEF t

LEMMA HeldResize ==
  ASSUME NEW s, Sizing(s), NEW p \in DOMAIN s, NEW new \in Nat
  PROVE  LET t == [s EXCEPT ![p] = new]
         IN  Sizing(t) /\ s[p] <= Held(s) /\ Held(t) = Held(s) - s[p] + new
<1> DEFINE t == [s EXCEPT ![p] = new]
<1>1. Sizing(t) BY DEF Sizing
<1>2. /\ DOMAIN t \ {p} = DOMAIN s \ {p} /\ (\A q \in DOMAIN s \ {p} : t[q] = s[q])
      /\ p \in DOMAIN t /\ t[p] = new
  OBVIOUS
<1> HIDE DEF t
<1>3. s[p] <= Held(s) /\ Held(t) = Held(s) - s[p] + new BY <1>1, <1>2, HeldElsewhere
<1> QED BY <1>1, <1>3 DEF t

LEMMA HeldAllocate ==
  ASSUME NEW s, Sizing(s), NEW p, p \notin DOMAIN s, NEW new \in Nat
  PROVE  LET t == [q \in DOMAIN s \cup {p} |-> IF q = p THEN new ELSE s[q]]
         IN  Sizing(t) /\ Held(t) = Held(s) + new
<1> DEFINE t == [q \in DOMAIN s \cup {p} |-> IF q = p THEN new ELSE s[q]]
<1>1. Sizing(t) BY FS_AddElement DEF Sizing
<1>2. p \in DOMAIN t /\ t[p] = new /\ DOMAIN s \ {p} = DOMAIN t \ {p} /\ p \notin DOMAIN s
      /\ \A q \in DOMAIN t \ {p} : s[q] = t[q]
  OBVIOUS
<1> HIDE DEF t
<1>3. Held(s) = Held(t) - new + 0 BY <1>1, <1>2, HeldElsewhere
<1>4. Held(s) \in Nat /\ Held(t) \in Nat BY <1>1, HeldUnits
<1>5. Held(t) = Held(s) + new BY <1>3, <1>4
<1> QED BY <1>1, <1>5 DEF t

-----------------------------------------------------------------------------
(* Heap.  No difference wraps, because a pointer's size is part of what is
   counted, and what is counted is within the limit. *)
LEMMA WrapSame == ASSUME NEW k \in Sizes PROVE Wrap(k) = k
BY HeapAssumption DEF Sizes, Wrap

Budgeted ==
  /\ DOMAIN size \subseteq Pointers /\ \A p \in DOMAIN size : size[p] \in 1 .. SIZE_MAX - Header
  /\ IsFiniteSet(DOMAIN size)
  /\ Accounted /\ peak_memory \in Sizes
  /\ RefusedJustly

LEMMA BudgetedSizes == Budgeted => Sizing(size) /\ Held(size) \in Nat /\ allocated \in Sizes
<1> SUFFICES ASSUME Budgeted PROVE Sizing(size) /\ Held(size) \in Nat /\ allocated \in Sizes OBVIOUS
<1>1. Sizing(size) BY HeapAssumption DEF Budgeted, Sizing
<1>2. Held(size) \in Nat BY <1>1, HeldUnits
<1> QED BY <1>1, <1>2, HeapAssumption DEF Budgeted, Accounted, Sizes

(* A resizing is refused just when the whole would be above the limit. *)
LEMMA RefusedExactly ==
  ASSUME Budgeted, NEW old \in Nat, old <= Held(size), NEW new \in Sizes
  PROVE  Refused(old, new) <=> Held(size) - old + new > memory_limit
<1>1. /\ allocated = Held(size) /\ Held(size) \in Nat /\ allocated <= memory_limit
      /\ memory_limit \in Nat /\ memory_limit <= SIZE_MAX - Header /\ SIZE_MAX \in Nat
      /\ Header \in 1 .. SIZE_MAX
  BY BudgetedSizes, HeapAssumption DEF Budgeted, Accounted
<1>2. Wrap(allocated - old) = allocated - old /\ Wrap(SIZE_MAX - Header) = SIZE_MAX - Header
  <2>1. allocated - old \in Sizes /\ SIZE_MAX - Header \in Sizes BY <1>1 DEF Sizes
  <2> QED BY <2>1, WrapSame
<1>3. new <= memory_limit => Wrap(memory_limit - new) = memory_limit - new
  <2>1. new <= memory_limit => memory_limit - new \in Sizes BY <1>1 DEF Sizes
  <2> QED BY <2>1, WrapSame
<1>4. new \in Nat BY DEF Sizes
<1> QED BY <1>1, <1>2, <1>3, <1>4 DEF Refused

LEMMA AccountExact ==
  ASSUME Budgeted, NEW old \in Nat, old <= Held(size), NEW new \in Sizes, ~Refused(old, new)
  PROVE  Account(old, new) = Held(size) - old + new /\ new <= SIZE_MAX - Header
<1>1. /\ allocated = Held(size) /\ Held(size) \in Nat /\ allocated <= memory_limit
      /\ memory_limit \in Nat /\ memory_limit <= SIZE_MAX - Header /\ SIZE_MAX \in Nat
      /\ Header \in 1 .. SIZE_MAX
  BY BudgetedSizes, HeapAssumption DEF Budgeted, Accounted
<1>2. new \in Nat /\ Held(size) - old + new <= memory_limit BY <1>1, RefusedExactly DEF Sizes
<1>3. allocated - old \in Sizes /\ allocated - old + new \in Sizes BY <1>1, <1>2 DEF Sizes
<1>4. Account(old, new) = allocated - old + new BY <1>3, WrapSame DEF Account
<1>5. new <= SIZE_MAX - Header BY <1>1, <1>2
<1> QED BY <1>1, <1>4, <1>5

LEMMA ResizeStep ==
  ASSUME Budgeted, Running, NEW old \in Nat, old <= Held(size), NEW new \in 1 .. SIZE_MAX,
         NEW sizes, Sizing(sizes), DOMAIN sizes \subseteq Pointers,
         \A p \in DOMAIN sizes : sizes[p] = new \/ (p \in DOMAIN size /\ sizes[p] = size[p]),
         Held(sizes) = Held(size) - old + new,
         Resize(old, new, sizes)
  PROVE  Budgeted'
<1>0. new \in Sizes /\ new >= 1 BY HeapAssumption DEF Sizes
<1>1. CASE size' = sizes /\ ~Refused(old, new) /\ allocated' = Account(old, new)
           /\ peak_memory' = Peak(old, new) /\ highest' = Larger(highest, Held(sizes))
           /\ UNCHANGED ended
  <2>1. Account(old, new) = Held(sizes) /\ new <= SIZE_MAX - Header
    BY <1>0, <1>1, AccountExact
  <2>2. Held(sizes) <= memory_limit BY <1>0, <1>1, RefusedExactly, BudgetedSizes, HeldUnits, HeapAssumption
  <2>3. Accounted'
    <3>1. peak_memory' = highest' BY <1>1, <2>1 DEF Peak, Budgeted, Accounted
    <3>2. Held(size') = Held(sizes) BY <1>1
    <3> QED BY <1>1, <2>1, <2>2, <3>1, <3>2 DEF Accounted, Held
  <2>4. peak_memory' \in Sizes
    <3>1. Account(old, new) \in Sizes
      BY <2>1, <2>2, HeldUnits, HeapAssumption DEF Sizes
    <3> QED BY <1>1, <3>1 DEF Peak, Larger, Budgeted
  <2>5. \A p \in DOMAIN size' : size'[p] \in 1 .. SIZE_MAX - Header
    BY <1>0, <1>1, <2>1, HeapAssumption DEF Budgeted
  <2>6. RefusedJustly' BY <1>1 DEF RefusedJustly, Running
  <2> QED BY <1>1, <2>3, <2>4, <2>5, <2>6 DEF Budgeted, Sizing
<1>2. CASE Exit("exit_125") /\ \/ Refused(old, new) /\ asked' = [bytes |-> new, old |-> old, by |-> "budget"]
                               \/ asked' = [bytes |-> new, old |-> old, by |-> "malloc"]
  <2>1. UNCHANGED <<size, allocated, peak_memory, highest>> BY <1>2 DEF Exit
  <2>2. Held(size') = Held(size) BY <2>1
  <2>3. RefusedJustly'
    BY <1>0, <1>2, <2>2, RefusedExactly DEF RefusedJustly, Held
  <2>4. Accounted' BY <2>1, <2>2 DEF Accounted, Budgeted, Held
  <2> QED BY <2>1, <2>3, <2>4 DEF Budgeted
<1> QED BY <1>1, <1>2 DEF Resize

LEMMA BudgetedStep == Budgeted /\ [Next]_vars => Budgeted'
<1> SUFFICES ASSUME Budgeted, [Next]_vars PROVE Budgeted' OBVIOUS
<1>s. Sizing(size) /\ Held(size) \in Nat BY BudgetedSizes
<1>1. ASSUME NEW p \in Pointers, Free(p) PROVE Budgeted'
  <2>1. p \in DOMAIN size /\ size[p] \in Nat BY <1>1, <1>s DEF Free, Sizing
  <2> DEFINE rest == [q \in DOMAIN size \ {p} |-> size[q]]
  <2>2. Sizing(rest) /\ size[p] <= Held(size) /\ Held(rest) = Held(size) - size[p]
    BY <1>s, <2>1, HeldFree
  <2>3. /\ size' = rest /\ allocated' = Wrap(allocated - size[p])
        /\ UNCHANGED <<peak_memory, ended, asked, highest>> /\ ended = "no"
    BY <1>1 DEF Free, Running
  <2>4. DOMAIN rest \subseteq DOMAIN size /\ \A q \in DOMAIN rest : rest[q] = size[q] OBVIOUS
  <2> HIDE DEF rest
  <2>5. allocated = Held(size) /\ allocated <= memory_limit BY DEF Budgeted, Accounted
  <2>6. allocated - size[p] \in Sizes
    BY <1>s, <2>1, <2>2, <2>5, HeapAssumption DEF Sizes
  <2>7. allocated' = Held(rest) BY <2>2, <2>3, <2>5, <2>6, WrapSame
  <2>8. Accounted'
    <3>1. Held(size') = Held(rest) BY <2>3
    <3>2. Held(rest) <= memory_limit BY <1>s, <2>1, <2>2, <2>5, HeapAssumption
    <3> QED BY <2>3, <2>7, <3>1, <3>2 DEF Accounted, Budgeted, Held
  <2>9. RefusedJustly' BY <2>3 DEF RefusedJustly
  <2> QED BY <2>2, <2>3, <2>4, <2>8, <2>9 DEF Budgeted, Sizing
<1>2. ASSUME NEW p \in Pointers, NEW new \in Sizes, Allocate(p, new) PROVE Budgeted'
  <2> DEFINE more == [q \in DOMAIN size \cup {p} |-> IF q = p THEN new ELSE size[q]]
  <2>1. p \notin DOMAIN size /\ new > 0 /\ Running /\ Resize(0, new, more) BY <1>2 DEF Allocate
  <2>2. new \in Nat /\ new \in 1 .. SIZE_MAX BY <2>1, HeapAssumption DEF Sizes
  <2>3. Sizing(more) /\ Held(more) = Held(size) + new BY <1>s, <2>1, <2>2, HeldAllocate
  <2>4. /\ DOMAIN more \subseteq Pointers
        /\ \A q \in DOMAIN more : more[q] = new \/ (q \in DOMAIN size /\ more[q] = size[q])
    BY DEF Budgeted
  <2> HIDE DEF more
  <2>5. 0 <= Held(size) /\ Held(more) = Held(size) - 0 + new BY <1>s, <2>2, <2>3
  <2> QED BY <2>1, <2>2, <2>3, <2>4, <2>5, ResizeStep
<1>3. ASSUME NEW p \in Pointers, NEW new \in Sizes, Reallocate(p, new) PROVE Budgeted'
  <2> DEFINE changed == [size EXCEPT ![p] = new]
  <2>1. p \in DOMAIN size /\ new > 0 /\ Running /\ Resize(size[p], new, changed)
    BY <1>3 DEF Reallocate
  <2>2. new \in Nat /\ new \in 1 .. SIZE_MAX /\ size[p] \in Nat
    BY <1>s, <2>1, HeapAssumption DEF Sizes, Sizing
  <2>3. Sizing(changed) /\ size[p] <= Held(size) /\ Held(changed) = Held(size) - size[p] + new
    BY <1>s, <2>1, <2>2, HeldResize
  <2>4. /\ DOMAIN changed \subseteq Pointers
        /\ \A q \in DOMAIN changed : changed[q] = new \/ (q \in DOMAIN size /\ changed[q] = size[q])
    BY DEF Budgeted
  <2> HIDE DEF changed
  <2> QED BY <2>1, <2>2, <2>3, <2>4, ResizeStep
<1>4. CASE Instruction
  <2>1. UNCHANGED <<size, allocated, peak_memory, asked, highest>> /\ ended' \in {"no", "exit_124"}
    BY <1>4 DEF Instruction, Running
  <2>2. Held(size') = Held(size) BY <2>1
  <2>3. Accounted' BY <2>1, <2>2 DEF Accounted, Budgeted, Held
  <2> QED BY <2>1, <2>3 DEF Budgeted, RefusedJustly
<1>5. CASE UNCHANGED vars
  <2>1. Held(size') = Held(size) BY <1>5 DEF vars
  <2>2. Accounted' BY <1>5, <2>1 DEF Accounted, Budgeted, Held, vars
  <2>3. RefusedJustly' BY <1>5, <2>1 DEF RefusedJustly, Budgeted, Held, vars
  <2> QED BY <1>5, <2>2, <2>3 DEF Budgeted, vars
<1> QED BY <1>1, <1>2, <1>3, <1>4, <1>5 DEF Next, Finished

(* While the program runs, every instruction counted has been executed. *)
Counted ==
  /\ instructions \in Nat /\ executed \in Nat
  /\ ended = "no" => instructions = executed /\ executed <= instruction_limit
  /\ instructions <= instruction_limit + 1
  /\ ended \in {"no", "exit_124", "exit_125"}
  /\ InstructionsExact

LEMMA CountedStep == Counted /\ [Next]_vars => Counted'
<1> SUFFICES ASSUME Counted, [Next]_vars PROVE Counted' OBVIOUS
<1> USE DEF Counted, InstructionsExact
<1>1. ASSUME UNCHANGED <<instructions, executed>>, ended' \in {ended, "exit_125"}
      PROVE  Counted'
  BY <1>1
<1>2. ASSUME NEW p \in Pointers, NEW new \in Sizes,
             Free(p) \/ Allocate(p, new) \/ Reallocate(p, new)
      PROVE  Counted'
  <2>1. UNCHANGED <<instructions, executed>> /\ ended' \in {ended, "exit_125"}
    BY <1>2 DEF Free, Allocate, Reallocate, Resize, Exit
  <2> QED BY <1>1, <2>1
<1>3. ASSUME NEW p \in Pointers, Free(p) PROVE Counted'
  BY <1>1, <1>3 DEF Free
<1>4. CASE Instruction
  BY <1>4, HeapAssumption DEF Instruction, OverBudget, Running
<1>5. CASE UNCHANGED vars BY <1>5 DEF vars
<1> QED BY <1>2, <1>3, <1>4, <1>5 DEF Next, Finished

(* BudgetsExact (guest.c:41-64): what is counted is what is held, the peak is the
   true one, an allocation is refused only when it does not fit, and the last
   instruction of the budget is executed. *)
THEOREM BudgetsAreExact == Spec => []BudgetsExact
<1>1. Init => Budgeted /\ Counted
  <2>1. ASSUME Init PROVE DOMAIN size = {} /\ Held(size) = 0 /\ IsFiniteSet(DOMAIN size)
    <3>1. DOMAIN size = {} BY <2>1 DEF Init
    <3> QED BY <3>1, HeldNothing DEF Sizing
  <2> QED BY <2>1, HeapAssumption
       DEF Init, Budgeted, Counted, InstructionsExact, Accounted, RefusedJustly, Sizes
<1>2. Budgeted /\ Counted => BudgetsExact
  BY BudgetedSizes, HeapAssumption DEF Budgeted, Counted, BudgetsExact, TypeOK
<1> QED BY <1>1, <1>2, BudgetedStep, CountedStep, PTL DEF Spec

-----------------------------------------------------------------------------
(* Admission.  Reading fills a request in; what a process writes of a valid one
   reads as the same request. *)
LEMMA FilledIn ==
  ASSUME NEW r \in A!RawRequests
  PROVE  /\ A!Deserialized(r) \in A!Requests
         /\ A!Deserialized(r).shape = r.shape
<1> DEFINE l == IF r.limits = <<>> THEN A!DefaultLimits
                ELSE [r.limits[1] EXCEPT !.cpu_ms = IF @ = A!Absent THEN A!DefaultLimits.cpu_ms ELSE @]
           f == IF r.filename.length = A!Absent THEN [length |-> 19, safe |-> TRUE] ELSE r.filename
           g == IF r.globals = "absent" THEN "empty" ELSE r.globals
<1>1. l \in A!LimitsOf(Nat)
  <2>1. A!DefaultLimits \in A!LimitsOf(Nat) BY DEF A!DefaultLimits, A!LimitsOf
  <2>2. ASSUME r.limits # <<>> PROVE r.limits[1] \in A!LimitsOf(Nat \cup {A!Absent})
    BY <2>2 DEF A!RawRequests, A!Members
  <2>3. ASSUME r.limits # <<>>
        PROVE  [r.limits[1] EXCEPT !.cpu_ms = IF @ = A!Absent THEN A!DefaultLimits.cpu_ms ELSE @]
                 \in A!LimitsOf(Nat)
    BY <2>2, <2>3, SMTT(30) DEF A!LimitsOf, A!DefaultLimits
  <2> QED BY <2>1, <2>3
<1>2. f \in [length : Nat, safe : BOOLEAN] BY DEF A!RawRequests, A!Members
<1>3. g \in {"absent", "empty", "ctx", "deep_ctx", "other_key", "array"}
  BY DEF A!RawRequests, A!Members
<1>4. A!Deserialized(r) = [r EXCEPT !.limits = l, !.filename = f, !.globals = g]
  BY DEF A!Deserialized
<1> HIDE DEF l, f, g
<1>5. A!Deserialized(r) =
        [shape |-> r.shape, protocol |-> r.protocol, execution_id |-> r.execution_id, limits |-> l,
         source |-> r.source, filename |-> f, globals |-> g, catalog |-> r.catalog]
  BY <1>4 DEF A!RawRequests, A!Members
<1>6. /\ r.shape \in {"ok", "unknown_member", "missing_member", "wrong_type"}
      /\ r.protocol \in BOOLEAN /\ r.execution_id \in Nat
      /\ r.source \in [length : Nat, nul : BOOLEAN]
      /\ r.catalog \in [count : Nat, longest : Nat, safe : BOOLEAN]
  BY DEF A!RawRequests, A!Members
<1> QED BY <1>1, <1>2, <1>3, <1>5, <1>6 DEF A!Requests, A!Members

LEMMA WrittenOut ==
  ASSUME NEW r \in A!Requests, A!Valid(r)
  PROVE  LET w == [r EXCEPT !.limits = <<@>>]
         IN  w \in A!RawRequests /\ w.shape = r.shape /\ w.limits = <<r.limits>> /\ A!Deserialized(w) = r
<1> DEFINE w == [r EXCEPT !.limits = <<@>>]
<1>1. r.limits \in A!LimitsOf(Nat) /\ r.filename.length \in Nat /\ r.globals # "absent"
  BY DEF A!Requests, A!Members, A!Valid
<1>2. r.limits \in A!LimitsOf(Nat \cup {A!Absent}) BY <1>1 DEF A!LimitsOf
<1>3. <<r.limits>> \in [{1} -> A!LimitsOf(Nat \cup {A!Absent})] BY <1>2
<1>4. w \in A!RawRequests BY <1>3 DEF A!RawRequests, A!Requests, A!Members
<1>5. w.shape = r.shape /\ w.limits = <<r.limits>> /\ w.filename = r.filename /\ w.globals = r.globals
  BY DEF A!Requests, A!Members
<1>6. w.limits # <<>> /\ w.limits[1] = r.limits BY <1>5
<1>7. [r.limits EXCEPT !.cpu_ms = IF @ = A!Absent THEN A!DefaultLimits.cpu_ms ELSE @] = r.limits
  BY <1>1 DEF A!LimitsOf, A!Absent
<1>8. A!Deserialized(w) = [w EXCEPT !.limits = r.limits, !.filename = r.filename, !.globals = r.globals]
  <2> DEFINE l == IF w.limits = <<>> THEN A!DefaultLimits
                  ELSE [w.limits[1] EXCEPT !.cpu_ms = IF @ = A!Absent THEN A!DefaultLimits.cpu_ms ELSE @]
             f == IF w.filename.length = A!Absent THEN [length |-> 19, safe |-> TRUE] ELSE w.filename
             g == IF w.globals = "absent" THEN "empty" ELSE w.globals
  <2>1. A!Deserialized(w) = [w EXCEPT !.limits = l, !.filename = f, !.globals = g]
    BY DEF A!Deserialized
  <2>2. l = r.limits
    <3> HIDE DEF w
    <3> QED BY <1>6, <1>7
  <2>3. f = r.filename BY <1>1, <1>5 DEF A!Absent
  <2>4. g = r.globals BY <1>1, <1>5
  <2> HIDE DEF l, f, g
  <2> QED BY <2>1, <2>2, <2>3, <2>4
<1>9. [w EXCEPT !.limits = r.limits, !.filename = r.filename, !.globals = r.globals] = r
  <2>1. [w EXCEPT !.limits = r.limits] = r BY Zenon DEF A!Requests, A!Members
  <2>2. [r EXCEPT !.filename = r.filename] = r BY DEF A!Requests, A!Members
  <2>3. [r EXCEPT !.globals = r.globals] = r BY DEF A!Requests, A!Members
  <2> HIDE DEF w
  <2>4. [w EXCEPT !.limits = r.limits, !.filename = r.filename, !.globals = r.globals]
          = [[[w EXCEPT !.limits = r.limits] EXCEPT !.filename = r.filename] EXCEPT !.globals = r.globals]
    OBVIOUS
  <2> QED BY ONLY <2>1, <2>2, <2>3, <2>4, Zenon
<1> QED BY <1>4, <1>5, <1>8, <1>9

(* What the next reader will find, and what has been found out about a request by
   the time it is forwarded, confined, prepared and run. *)
Found == a_at \in {"forward", "enter", "values", "native"}

Placed ==
  /\ raw \in A!RawRequests /\ party \in A!Parties
  /\ a_at \in {"read", "forward", "enter", "values", "native", "failed"}
  /\ bytes \in 0 .. MaxFrame + 1 /\ (party = "guest" => bytes <= MaxFrame)
  /\ execution \in Nat
  /\ a_at = "forward" => party # "guest"
  /\ a_at \in {"enter", "values", "native"} => party = "guest"

Unread ==
  a_at = "read" =>
    /\ request = <<>> /\ execution = 0
    /\ party = "guest" => /\ A!Present(raw) /\ A!Valid(A!Deserialized(raw))
                          /\ raw.limits = <<A!Deserialized(raw).limits>>

Usable ==
  /\ request # <<>> => request = <<request[1]>> /\ request[1] \in A!Requests
                       /\ (party = "guest" => raw.limits = <<request[1].limits>>)
  /\ Found => /\ request # <<>> /\ request[1].shape = "ok" /\ A!Valid(request[1])
              /\ execution = request[1].execution_id
  /\ a_at = "native" => request[1].globals # "deep_ctx"

Told ==
  /\ a_at = "failed" <=> told.by # "nobody"
  /\ A!Identified
  /\ party = "guest" /\ a_at = "failed" => told.why \in {"enter", "values"}

Admitted == Placed /\ Unread /\ Usable /\ Told

LEMMA AdmittedStep == Admitted /\ [A!Next]_(A!vars) => Admitted'
<1> SUFFICES ASSUME Admitted, [A!Next]_(A!vars) PROVE Admitted' OBVIOUS
<1> USE DEF Admitted, Placed, Unread, Usable, Told, Found, A!Identified, A!Parties
<1>1. CASE A!Read
  <2> DEFINE r == A!Deserialized(raw)
  <2>0. a_at = "read" /\ request = <<>> /\ execution = 0 BY <1>1 DEF A!Read
  <2>1. CASE A!TooLong(bytes) \/ ~A!Present(raw)
    <3>1. party # "guest"
      BY <2>0, <2>1, PartsAssumption DEF A!TooLong, A!AdmissionAssumption
    <3>2. A!Fail("frame", execution) /\ UNCHANGED request BY <1>1, <2>1 DEF A!Read
    <3> QED BY <2>0, <3>1, <3>2 DEF A!Fail
  <2>2. CASE ~A!TooLong(bytes) /\ A!Present(raw)
    <3>1. r \in A!Requests /\ r.shape = "ok" BY <2>2, FilledIn DEF A!Present
    <3>2. request' = <<r>> /\ raw' = raw /\ party' = party /\ bytes' = bytes
      BY <1>1, <2>2 DEF A!Read, A!Fail
    <3>3. bytes <= MaxFrame
      BY <2>2, PartsAssumption DEF A!TooLong, A!AdmissionAssumption
    <3>4. party = "guest" => A!Valid(r) /\ raw.limits = <<r.limits>> BY <2>0
    <3>5. CASE ~A!Valid(r)
      <4>1. A!Fail("invalid", r.execution_id) BY <1>1, <2>2, <3>5 DEF A!Read, A!Identity
      <4>2. r.execution_id \in Nat BY <3>1 DEF A!Requests, A!Members
      <4> HIDE DEF r
      <4> QED BY <3>1, <3>2, <3>3, <3>4, <3>5, <4>1, <4>2 DEF A!Fail
    <3>6. CASE A!Valid(r)
      <4>1. /\ execution' = r.execution_id /\ told' = told
            /\ a_at' = IF party = "guest" THEN "enter" ELSE "forward"
        BY <1>1, <2>2, <3>6 DEF A!Read, A!Identity
      <4>2. r.execution_id \in Nat BY <3>1 DEF A!Requests, A!Members
      <4> HIDE DEF r
      <4> QED BY <2>0, <3>1, <3>2, <3>3, <3>4, <3>6, <4>1, <4>2
    <3> QED BY <3>5, <3>6
  <2> QED BY <2>1, <2>2
<1>2. CASE A!Forward
  <2>1. PICK more \in {0, Defaults} :
          IF A!TooLong(bytes + more) THEN A!Fail("oversized", execution) /\ UNCHANGED request
          ELSE /\ raw' = [request[1] EXCEPT !.limits = <<@>>] /\ bytes' = bytes + more
               /\ request' = <<>> /\ party' = "guest" /\ a_at' = "read" /\ execution' = 0
               /\ UNCHANGED told
    BY <1>2, SMT DEF A!Forward
  <2>2. a_at = "forward" /\ party = "supervisor" BY <1>2, SMT DEF A!Forward
  <2>3. CASE A!TooLong(bytes + more) BY <2>1, <2>2, <2>3, SMT DEF A!Fail
  <2>4. CASE ~A!TooLong(bytes + more)
    <3> DEFINE r == request[1]
               w == [r EXCEPT !.limits = <<@>>]
    <3>1. r \in A!Requests /\ A!Valid(r) /\ r.shape = "ok" BY <2>2, SMT
    <3>2. w \in A!RawRequests /\ w.shape = r.shape /\ w.limits = <<r.limits>> /\ A!Deserialized(w) = r
      <4> HIDE DEF r
      <4> QED BY <3>1, WrittenOut
    <3>3. raw' = w /\ bytes' = bytes + more /\ request' = <<>> /\ party' = "guest" /\ a_at' = "read"
          /\ execution' = 0 /\ told' = told
      BY <2>1, <2>4, SMT
    <3>4. bytes' \in 0 .. MaxFrame
      BY <2>4, <3>3, PartsAssumption, SMT DEF A!TooLong, A!AdmissionAssumption
    <3>5. A!Valid(A!Deserialized(raw')) /\ A!Present(raw') /\ raw'.limits = <<A!Deserialized(raw').limits>>
      <4> HIDE DEF w, r
      <4> QED BY <3>1, <3>2, <3>3 DEF A!Present
    <3> HIDE DEF w, r
    <3>6. Placed' BY <3>2, <3>3, <3>4, PartsAssumption DEF A!AdmissionAssumption
    <3>7. Unread' BY <3>3, <3>5, SMTT(30) DEF A!Valid, A!Deserialized, A!Present
    <3>8. Usable' /\ Told' BY <2>2, <3>3
    <3> QED BY <3>6, <3>7, <3>8
  <2> QED BY <2>3, <2>4, SMT
<1>3. CASE A!UnknownMode BY <1>3 DEF A!UnknownMode, A!Fail
<1>4. CASE A!Enter BY <1>4 DEF A!Enter, A!Fail
<1>5. CASE A!Prepare
  <2>1. request[1] \in A!Requests /\ a_at = "values" /\ A!Valid(request[1]) /\ party = "guest"
        /\ execution = request[1].execution_id /\ request' = request
    BY <1>5 DEF A!Prepare
  <2>2. CASE a_at' = "native"
    <3>1. A!Levels[request[1].globals] <= MaxDepth \/ ~(A!Levels[request[1].globals] > MaxDepth)
      BY <1>5, <2>2 DEF A!Prepare, A!Fail
    <3>2. request[1].globals # "deep_ctx"
      BY <3>1, PartsAssumption DEF A!Levels, A!AdmissionAssumption
    <3> QED BY <1>5, <2>1, <2>2, <3>2 DEF A!Prepare, A!Fail
  <2>3. CASE A!Fail("values", execution) BY <2>1, <2>3 DEF A!Fail
  <2> QED BY <1>5, <2>2, <2>3 DEF A!Prepare
<1>6. CASE A!Over \/ UNCHANGED A!vars
  <2>1. UNCHANGED <<raw, bytes, request, party, a_at, execution, told>>
    BY <1>6 DEF A!Over, A!vars
  <2> QED BY <2>1, SMT
<1> QED BY <1>1, <1>2, <1>3, <1>4, <1>5, <1>6 DEF A!Next

LEMMA AdmittedSafe == Admitted => FailuresTrue /\ NativeSafe
<1> SUFFICES ASSUME Admitted PROVE FailuresTrue /\ NativeSafe OBVIOUS
<1> USE DEF Admitted, Placed, Usable, Told, Found
<1>1. FailuresTrue BY DEF FailuresTrue, A!FailuresTrue, A!TypeOK, A!GuestAgrees
<1>2. ASSUME a_at = "native"
      PROVE  LET r == request[1]
                 l == r.limits
             IN /\ l.wall_ms > 0 /\ l.cpu_ms > 0 /\ l.instructions > 0
                /\ l.memory_bytes > 0 /\ l.memory_bytes + 65536 < 2147483647
                /\ l.result_bytes + l.log_bytes < MaxFrame
                /\ r.source.length <= l.source_bytes /\ ~r.source.nul
                /\ r.filename.length <= 128 /\ r.filename.safe
                /\ r.globals # "deep_ctx"
                /\ party = "guest" /\ told.by = "nobody"
  <2>1. /\ A!Valid(request[1]) /\ request[1] \in A!Requests
        /\ request[1].globals # "deep_ctx" /\ party = "guest" /\ told.by = "nobody"
    BY <1>2
  <2> DEFINE r == request[1]
             l == r.limits
  <2>2. /\ A!InLimits(l) /\ r.source.length <= l.source_bytes /\ ~r.source.nul
        /\ r.filename.length <= 128 /\ r.filename.safe
    BY <2>1, SMTT(30) DEF A!Valid
  <2>3. /\ l.wall_ms > 0 /\ l.cpu_ms > 0 /\ l.instructions > 0
        /\ l.memory_bytes > 0 /\ l.memory_bytes + 65536 < 2147483647
        /\ l.result_bytes + l.log_bytes < MaxFrame
    <3>1. A!InLimits(l) /\ l \in A!LimitsOf(Nat)
      BY <2>1, <2>2 DEF A!Requests, A!Members
    <3> HIDE DEF l
    <3> HIDE DEF Admitted
    <3>2. /\ l.wall_ms \in Nat /\ l.cpu_ms \in Nat /\ l.instructions \in Nat
          /\ l.memory_bytes \in Nat /\ l.result_bytes \in Nat /\ l.log_bytes \in Nat
      BY <3>1 DEF A!LimitsOf
    <3>3. /\ 1 <= l.wall_ms /\ 1 <= l.cpu_ms /\ 1 <= l.instructions
          /\ 1048576 <= l.memory_bytes /\ l.memory_bytes <= 134217728
          /\ l.result_bytes <= 4194304 /\ l.log_bytes <= 1048576
      BY <3>1, SMT DEF A!InLimits, A!Within
    <3>4. MaxFrame \in Nat /\ MaxFrame > 4194304 + 1048576
      BY PartsAssumption, SMT DEF A!AdmissionAssumption
    <3> QED BY <3>2, <3>3, <3>4, SMT
  <2> HIDE DEF l
  <2> QED BY <2>1, <2>2, <2>3 DEF l
<1> QED BY <1>1, <1>2 DEF NativeSafe, A!NativeSafe

LEMMA AdmittedAlways == A!Spec => []Admitted
<1>1. A!Init => Admitted
  BY PartsAssumption DEF A!Init, Admitted, Placed, Unread, Usable, Found, Told, A!Identified,
     A!Parties, A!AdmissionAssumption
<1> QED BY <1>1, AdmittedStep, PTL DEF A!Spec

(* FailuresTrue, whatever requests arrive: the guest reads the request and the limits the
   supervisor forwards and fails only at what the supervisor does not look at, and a
   failure names the execution as soon as that is known (main.rs:39-62, supervisor.rs:69). *)
THEOREM FailuresAreTrue == A!Spec => []FailuresTrue
<1>1. Admitted => FailuresTrue BY AdmittedSafe
<1> QED BY <1>1, AdmittedAlways, PTL

(* NativeSafe, whatever requests arrive: before a program runs in C, its limits, names
   and values were tested in the process that runs it (protocol.rs:110-170). *)
THEOREM NativeIsSafe == A!Spec => []NativeSafe
<1>1. Admitted => NativeSafe BY AdmittedSafe
<1> QED BY <1>1, AdmittedAlways, PTL

-----------------------------------------------------------------------------
(* Dispatch.  Strings are sequences of characters. *)
Characters == Letters \cup {Dot}

LEMMA StringSeq ==
  ASSUME NEW s
  PROVE  s \in D!Strings <=> s \in Seq(Characters) /\ Len(s) \in 0 .. MaxPath
<1>1. MaxPath \in Nat BY PartsAssumption DEF D!DispatchAssumption
<1>2. ASSUME s \in D!Strings PROVE s \in Seq(Characters) /\ Len(s) \in 0 .. MaxPath
  <2>1. PICK k \in 0 .. MaxPath : s \in [1 .. k -> Characters] BY <1>2 DEF D!Strings, Characters
  <2>2. s \in Seq(Characters) BY <1>1, <2>1, SeqDef
  <2>3. DOMAIN s = 1 .. Len(s) /\ Len(s) \in Nat BY <2>2, LenProperties
  <2>4. Len(s) = k BY <1>1, <2>1, <2>3
  <2> QED BY <2>1, <2>2, <2>4
<1>3. ASSUME s \in Seq(Characters), Len(s) \in 0 .. MaxPath PROVE s \in D!Strings
  <2>1. s \in [1 .. Len(s) -> Characters] BY <1>3, LenProperties
  <2> QED BY <1>3, <2>1 DEF D!Strings, Characters
<1> QED BY <1>2, <1>3

LEMMA LeastOf ==
  ASSUME NEW S \in SUBSET Nat, S # {}
  PROVE  D!Min(S) \in S /\ \A k \in S : D!Min(S) <= k
<1>1. PICK least \in S : \A k \in S : ~(<<k, least>> \in OpToRel(<, Nat))
  BY NatLessThanWellFounded, WFMin
<1>2. \A k \in S : least <= k
  <2> SUFFICES ASSUME NEW k \in S PROVE least <= k OBVIOUS
  <2>1. ~(<<k, least>> \in OpToRel(<, Nat)) BY <1>1
  <2>2. ~(k < least) BY <2>1 DEF OpToRel
  <2> QED BY <2>2
<1> QED BY <1>1, <1>2 DEF D!Min

(* The target cut after its k-th character; where a name of it ends. *)
Cut(k) == SubSeq(target, 1, k)
Ends(k) == k \in 1 .. Len(target) /\ (k = Len(target) \/ target[k + 1] = Dot)

Targeted == target \in D!Strings /\ D!Writable(target) /\ catalog \in Catalogs

LEMMA TargetFacts ==
  ASSUME Targeted
  PROVE  /\ target \in Seq(Characters) /\ Len(target) \in 1 .. MaxPath /\ Len(target) \in Nat
         /\ DOMAIN target = 1 .. Len(target) /\ MaxPath \in Nat
         /\ catalog \subseteq D!Strings /\ <<>> \notin catalog
<1>1. target \in Seq(Characters) /\ Len(target) \in 0 .. MaxPath BY StringSeq DEF Targeted
<1>2. target # <<>> BY DEF Targeted, D!Writable
<1>3. Len(target) \in Nat \ {0} /\ DOMAIN target = 1 .. Len(target) BY <1>1, <1>2, EmptySeq, LenProperties
<1>4. MaxPath \in Nat /\ catalog \subseteq D!Strings \ {<<>>}
  BY PartsAssumption DEF D!DispatchAssumption, Targeted
<1> QED BY <1>1, <1>3, <1>4

LEMMA Cuts ==
  ASSUME Targeted, NEW k \in 0 .. Len(target)
  PROVE  /\ Cut(k) \in D!Strings /\ Cut(k) \in Seq(Characters) /\ Len(Cut(k)) = k
         /\ \A i \in 1 .. k : Cut(k)[i] = target[i]
<1>1. k \in Int /\ 1 \in Int /\ \A i \in 1 .. k : target[i] \in Characters
  BY TargetFacts, ElementOfSeq
<1>2. /\ Cut(k) \in Seq(Characters) /\ Len(Cut(k)) = IF 1 <= k THEN k - 1 + 1 ELSE 0
      /\ \A i \in 1 .. k - 1 + 1 : Cut(k)[i] = target[1 + i - 1]
  BY <1>1, SubSeqProperties DEF Cut
<1>3. Len(Cut(k)) = k BY <1>2, TargetFacts
<1>4. \A i \in 1 .. k : Cut(k)[i] = target[i] BY <1>2, TargetFacts
<1> QED BY <1>2, <1>3, <1>4, TargetFacts, StringSeq

LEMMA WholeCut == ASSUME Targeted PROVE Cut(Len(target)) = target
BY TargetFacts, SubSeqFull DEF Cut

LEMMA AboveCut == ASSUME NEW s PROVE s \in D!Above(target) <=> \E k : Ends(k) /\ s = Cut(k)
BY DEF D!Above, Ends, Cut

(* The object held stands for the target up to the end of one of its names. *)
Standing ==
  /\ Len(path) \in 0 .. Len(target) /\ path = Cut(Len(path))
  /\ Len(path) = 0 \/ Ends(Len(path))

Start == IF Len(path) = 0 THEN 0 ELSE Len(path) + 1

LEMMA RestFacts ==
  ASSUME Targeted, Standing, path # target
  PROVE  /\ Len(path) < Len(target) /\ Start \in 0 .. Len(target) - 1
         /\ Len(path) # 0 => target[Len(path) + 1] = Dot
         /\ target[Start + 1] # Dot
         /\ D!Rest = SubSeq(target, Start + 1, Len(target))
         /\ D!Rest \in Seq(Characters) /\ Len(D!Rest) = Len(target) - Start
         /\ DOMAIN D!Rest = 1 .. Len(target) - Start
         /\ \A i \in 1 .. Len(target) - Start : D!Rest[i] = target[Start + i]
<1>0. /\ Len(target) \in Nat /\ Len(target) >= 1 /\ target \in Seq(Characters)
      /\ DOMAIN target = 1 .. Len(target) /\ Len(path) \in Nat /\ Len(path) <= Len(target)
  BY TargetFacts DEF Standing
<1>1. Len(path) < Len(target)
  <2>1. Len(path) # Len(target) BY WholeCut DEF Standing
  <2> QED BY <1>0, <2>1
<1>2. Len(path) # 0 => target[Len(path) + 1] = Dot BY <1>0, <1>1 DEF Standing, Ends
<1>3. \A k \in 1 .. Len(target) : target[k] = Dot =>
        k > 1 /\ k < Len(target) /\ target[k - 1] # Dot /\ target[k + 1] # Dot
  BY <1>0 DEF Targeted, D!Writable
<1>4. Start \in 0 .. Len(target) - 1 /\ target[Start + 1] # Dot
  <2>1. CASE Len(path) = 0 BY <1>0, <1>3, <2>1 DEF Start
  <2>2. CASE Len(path) # 0
    <3>1. Len(path) + 1 \in 1 .. Len(target) /\ target[Len(path) + 1] = Dot BY <1>0, <1>1, <1>2, <2>2
    <3>2. Len(path) + 1 < Len(target) /\ target[Len(path) + 1 + 1] # Dot BY <1>3, <3>1
    <3> QED BY <1>0, <2>2, <3>2 DEF Start
  <2> QED BY <2>1, <2>2
<1>5. D!Rest = SubSeq(target, Start + 1, Len(target))
  <2>1. CASE Len(path) = 0
    <3>1. path = <<>>
      <4>1. path = SubSeq(target, 1, 0) BY <2>1 DEF Standing, Cut
      <4> QED BY <4>1, SubSeqEmpty
    <3>2. SubSeq(target, 1, Len(target)) = target BY <1>0, SubSeqFull
    <3> QED BY <2>1, <3>1, <3>2 DEF D!Rest, Start
  <2>2. CASE Len(path) # 0
    <3>1. path # <<>> BY <2>2, EmptySeq
    <3> QED BY <1>0, <2>2, <3>1 DEF D!Rest, Start
  <2> QED BY <2>1, <2>2
<1>6. Start + 1 \in Int /\ Len(target) \in Int /\ \A i \in Start + 1 .. Len(target) : target[i] \in Characters
  BY <1>0, <1>4, ElementOfSeq
<1>7. /\ D!Rest \in Seq(Characters)
      /\ Len(D!Rest) = IF Start + 1 <= Len(target) THEN Len(target) - (Start + 1) + 1 ELSE 0
      /\ \A i \in 1 .. Len(target) - (Start + 1) + 1 : D!Rest[i] = target[Start + 1 + i - 1]
  BY <1>5, <1>6, SubSeqProperties
<1>8. Len(D!Rest) = Len(target) - Start BY <1>0, <1>4, <1>7
<1>9. \A i \in 1 .. Len(target) - Start : D!Rest[i] = target[Start + i] BY <1>0, <1>4, <1>7
<1>10. DOMAIN D!Rest = 1 .. Len(target) - Start BY <1>7, <1>8, LenProperties
<1> QED BY <1>1, <1>2, <1>4, <1>5, <1>7, <1>8, <1>9, <1>10

(* The next name reaches from there to the next dot, or to the end. *)
LEMMA NameFacts ==
  ASSUME Targeted, Standing, path # target
  PROVE  \E m \in 1 .. Len(target) - Start :
           /\ D!Name = SubSeq(D!Rest, 1, m)
           /\ m = Len(target) - Start \/ target[Start + m + 1] = Dot
           /\ \A i \in 1 .. m : target[Start + i] # Dot
<1> DEFINE ends == {k - 1 : k \in {i \in DOMAIN D!Rest : D!Rest[i] = Dot}} \cup {Len(D!Rest)}
           m == D!Min(ends)
<1>0. Len(target) \in Nat /\ Start \in Nat /\ Start < Len(target) BY TargetFacts, RestFacts
<1>1. /\ DOMAIN D!Rest = 1 .. Len(target) - Start /\ Len(D!Rest) = Len(target) - Start
      /\ \A i \in 1 .. Len(target) - Start : D!Rest[i] = target[Start + i]
      /\ target[Start + 1] # Dot
  BY RestFacts
<1>2. ends \in SUBSET Nat /\ ends # {} BY <1>0, <1>1
<1>3. m \in ends /\ \A k \in ends : m <= k
  <2> HIDE DEF ends
  <2> QED BY <1>2, LeastOf
<1>4. D!Name = SubSeq(D!Rest, 1, m) BY DEF D!Name
<1>5. m \in Nat /\ m <= Len(target) - Start BY <1>1, <1>2, <1>3
<1>6. m = Len(target) - Start \/ (m + 1 \in 1 .. Len(target) - Start /\ target[Start + (m + 1)] = Dot)
  <2>1. CASE m = Len(D!Rest) BY <1>1, <2>1
  <2>2. CASE m # Len(D!Rest)
    <3>1. PICK k \in {i \in DOMAIN D!Rest : D!Rest[i] = Dot} : m = k - 1 BY <1>3, <2>2
    <3>2. k \in 1 .. Len(target) - Start /\ target[Start + k] = Dot BY <1>1, <3>1
    <3>3. k = m + 1
      <4> HIDE DEF m
      <4> QED BY <1>0, <3>1, <3>2
    <3> QED BY <3>2, <3>3
  <2> QED BY <2>1, <2>2
<1>7. \A i \in 1 .. m : target[Start + i] # Dot
  <2> SUFFICES ASSUME NEW i \in 1 .. m, target[Start + i] = Dot PROVE FALSE OBVIOUS
  <2>1. i \in 1 .. Len(target) - Start
    <3> HIDE DEF m
    <3> QED BY <1>0, <1>5
  <2>2. i - 1 \in ends BY <1>1, <2>1
  <2>3. m <= i - 1 BY <1>3, <2>2
  <2> HIDE DEF m
  <2> QED BY <1>5, <2>3
<1> HIDE DEF m
<1>8. m # 0 BY <1>0, <1>1, <1>6
<1>9. Start + (m + 1) = Start + m + 1 BY <1>0, <1>5
<1>10. m \in 1 .. Len(target) - Start BY <1>0, <1>5, <1>8
<1>11. m = Len(target) - Start \/ target[Start + m + 1] = Dot BY <1>6, <1>9
<1> QED BY <1>4, <1>7, <1>10, <1>11

(* So the path of the next access is the target up to where that name ends, the
   first end behind the object. *)
LEMMA NextAccess ==
  ASSUME Targeted, Standing, path # target
  PROVE  \E e \in 1 .. Len(target) :
           /\ Ends(e) /\ e > Len(path) /\ (\A k : Ends(k) /\ k > Len(path) => k >= e)
           /\ D!Joined(path, D!Name) = Cut(e)
           /\ D!Last <=> e = Len(target)
           /\ D!Name \in D!Names
           /\ \/ Cut(e) = D!Name
              \/ /\ Len(Cut(e)) > Len(D!Name)
                 /\ SubSeq(Cut(e), Len(Cut(e)) - Len(D!Name), Len(Cut(e))) = <<Dot>> \o D!Name
<1> DEFINE p == Len(path)
<1>0. /\ Len(target) \in Nat /\ target \in Seq(Characters) /\ MaxPath \in Nat
      /\ Len(target) <= MaxPath /\ p \in Nat /\ p < Len(target) /\ Start \in 0 .. Len(target) - 1
  BY TargetFacts, RestFacts DEF Standing
<1>1. PICK m \in 1 .. Len(target) - Start :
        /\ D!Name = SubSeq(D!Rest, 1, m)
        /\ m = Len(target) - Start \/ target[Start + m + 1] = Dot
        /\ \A i \in 1 .. m : target[Start + i] # Dot
  BY NameFacts
<1> DEFINE e == Start + m
<1>2. e \in 1 .. Len(target) /\ e \in Nat /\ e > p /\ m \in Nat /\ e <= Len(target)
  BY <1>0 DEF Start
<1>3. Ends(e) BY <1>0, <1>1, <1>2 DEF Ends
<1>4. ASSUME NEW k, Ends(k), k > p PROVE k >= e
  <2> SUFFICES ASSUME k < e PROVE FALSE BY <1>0, <1>2, <1>4 DEF Ends
  <2>1. k \in Nat /\ target[k + 1] = Dot BY <1>0, <1>2, <1>4 DEF Ends
  <2>2. k + 1 - Start \in 1 .. m BY <1>0, <1>2, <1>4, <2>1 DEF Start
  <2>3. target[Start + (k + 1 - Start)] # Dot BY <1>1, <2>2
  <2>4. Start + (k + 1 - Start) = k + 1 BY <1>0, <2>1
  <2> QED BY <2>1, <2>3, <2>4
<1>5. D!Name = SubSeq(target, Start + 1, e)
  <2>1. D!Rest = SubSeq(target, Start + 1, Len(target)) BY RestFacts
  <2>2. /\ Start + 1 \in 1 .. Len(target) /\ Len(target) \in 1 .. Len(target)
        /\ 1 \in 1 .. Len(target) - (Start + 1) + 1 /\ m \in 1 .. Len(target) - (Start + 1) + 1
    BY <1>0
  <2>3. SubSeq(SubSeq(target, Start + 1, Len(target)), 1, m)
          = SubSeq(target, Start + 1 + 1 - 1, Start + 1 + m - 1)
    BY <1>0, <2>2, SubSeqOfSubSeq
  <2>4. Start + 1 + 1 - 1 = Start + 1 /\ Start + 1 + m - 1 = e BY <1>0, <1>2
  <2> QED BY <1>1, <2>1, <2>3, <2>4
<1>6. /\ D!Name \in Seq(Characters) /\ Len(D!Name) = m
      /\ \A i \in 1 .. m : D!Name[i] = target[Start + i]
  <2>1. /\ Start + 1 \in Int /\ e \in Int /\ \A i \in Start + 1 .. e : target[i] \in Characters
    BY <1>0, <1>2, ElementOfSeq
  <2>2. /\ D!Name \in Seq(Characters) /\ Len(D!Name) = IF Start + 1 <= e THEN e - (Start + 1) + 1 ELSE 0
        /\ \A i \in 1 .. e - (Start + 1) + 1 : D!Name[i] = target[Start + 1 + i - 1]
    BY <1>5, <2>1, SubSeqProperties
  <2>3. Len(D!Name) = m BY <1>0, <1>2, <2>2
  <2>4. \A i \in 1 .. m : D!Name[i] = target[Start + i] BY <1>0, <1>2, <2>2
  <2> QED BY <2>2, <2>3, <2>4
<1>7. D!Name \in D!Names
  <2>1. D!Name \in D!Strings
    <3>1. Len(D!Name) \in 0 .. MaxPath BY <1>0, <1>2, <1>6
    <3>2. D!Name \in Seq(Characters) BY <1>6
    <3>3. D!Name \in D!Strings <=> D!Name \in Seq(Characters) /\ Len(D!Name) \in 0 .. MaxPath
      BY StringSeq
    <3> QED BY <3>1, <3>2, <3>3
  <2>2. D!Name # <<>>
    <3>1. m # 0 /\ Len(<<>>) = 0 BY <1>0, <1>1
    <3> QED BY <1>6, <3>1
  <2>3. DOMAIN D!Name = 1 .. m BY <1>6, LenProperties
  <2>4. \A k \in DOMAIN D!Name : D!Name[k] # Dot BY <1>1, <1>6, <2>3
  <2> QED BY <2>1, <2>2, <2>4 DEF D!Names
<1>8. D!Last <=> e = Len(target)
  <2>1. Len(D!Rest) = Len(target) - Start BY RestFacts
  <2> QED BY <1>0, <1>2, <1>6, <2>1 DEF D!Last
<1>9. CASE p = 0
  <2>1. path = <<>>
    <3>1. path = SubSeq(target, 1, 0) BY <1>9 DEF Standing, Cut
    <3> QED BY <3>1, SubSeqEmpty
  <2>2. D!Joined(path, D!Name) = D!Name BY <1>6, <2>1, ConcatEmptySeq DEF D!Joined
  <2>3. D!Name = Cut(e) BY <1>5, <1>9 DEF Cut, Start
  <2> QED BY <1>2, <1>3, <1>4, <1>7, <1>8, <2>2, <2>3
<1>10. CASE p # 0
  <2>0. Start = p + 1 /\ target[p + 1] = Dot /\ p + 1 \in 1 .. Len(target) /\ 1 \in 1 .. Len(target)
    BY <1>0, <1>10, RestFacts DEF Start
  <2>1. path # <<>> BY <1>10, EmptySeq
  <2>2. path \in Seq(Characters) /\ Dot \in Characters
    <3>1. p \in 0 .. Len(target) /\ path = Cut(p) BY DEF Standing
    <3> QED BY <3>1, Cuts DEF Characters
  <2>3. Append(path, Dot) = Cut(p + 1)
    <3>1. Append(path, Dot) = path \o <<Dot>> BY <2>2, AppendIsConcat
    <3>2. p + 1 - 1 = p BY <1>0
    <3>3. SubSeq(target, 1, p + 1) = SubSeq(target, 1, p + 1 - 1) \o <<target[p + 1]>>
      <4>1. target \in Seq(Characters) /\ 1 \in 1 .. Len(target) /\ p + 1 \in 1 .. Len(target)
        BY <1>0, <2>0
      <4> QED BY <4>1, SubSeqRecursiveSecond
    <3>4. path = SubSeq(target, 1, p) BY DEF Standing, Cut
    <3>5. SubSeq(target, 1, p + 1) = path \o <<Dot>> BY <2>0, <3>2, <3>3, <3>4
    <3> QED BY <3>1, <3>5 DEF Cut
  <2>4. D!Joined(path, D!Name) = Cut(e)
    <3>1. D!Joined(path, D!Name) = SubSeq(target, 1, p + 1) \o SubSeq(target, p + 1 + 1, e)
      BY <1>5, <2>0, <2>1, <2>3 DEF D!Joined, Cut
    <3>2. 1 \in 1 .. Len(target) + 1 /\ p + 1 \in 1 - 1 .. Len(target) /\ e \in p + 1 .. Len(target)
      BY <1>0, <1>2, <2>0
    <3>3. SubSeq(target, 1, p + 1) \o SubSeq(target, p + 1 + 1, e) = SubSeq(target, 1, e)
      BY <1>0, <3>2, ConcatAdjacentSubSeq
    <3> QED BY <3>1, <3>3 DEF Cut
  <2>5. Len(Cut(e)) = e /\ e - Len(D!Name) = p + 1 BY <1>0, <1>2, <1>6, <2>0, Cuts
  <2>6. SubSeq(Cut(e), p + 1, e) = <<Dot>> \o D!Name
    <3>1. 1 \in 1 .. Len(target) /\ e \in 1 .. Len(target) /\ p + 1 \in 1 .. e - 1 + 1
          /\ e \in 1 .. e - 1 + 1 /\ e \in p + 1 .. Len(target)
      BY <1>0, <1>2, <2>0
    <3>2. SubSeq(SubSeq(target, 1, e), p + 1, e) = SubSeq(target, 1 + (p + 1) - 1, 1 + e - 1)
      BY <1>0, <3>1, SubSeqOfSubSeq
    <3>3. 1 + (p + 1) - 1 = p + 1 /\ 1 + e - 1 = e BY <1>0, <1>2
    <3>4. SubSeq(target, p + 1, e) = <<target[p + 1]>> \o SubSeq(target, p + 1 + 1, e)
      BY <1>0, <2>0, <3>1, SubSeqRecursiveFirst
    <3> QED BY <1>5, <2>0, <3>2, <3>3, <3>4 DEF Cut
  <2>7. Len(Cut(e)) > Len(D!Name) BY <1>0, <1>2, <1>6, <2>5
  <2> QED BY <1>2, <1>3, <1>4, <1>7, <1>8, <2>4, <2>5, <2>6, <2>7
<1> QED BY <1>9, <1>10

-----------------------------------------------------------------------------
(* What the outcomes say of the whole path. *)
Unlisted(n) == \A k : Ends(k) /\ k <= n => Cut(k) \notin catalog
LeadsOn     == \E c \in catalog : target \in D!Above(c)
OwnName     == \E n \in Own : /\ n \in D!Names
                              /\ \E s \in D!Above(target) :
                                   \/ s = n
                                   \/ /\ Len(s) > Len(n)
                                      /\ SubSeq(s, Len(s) - Len(n), Len(s)) = <<Dot>> \o n

Pends    == outcome.path = <<>> /\ path = <<>>
Called   == /\ dotted => \E e : /\ Ends(e) /\ outcome.path = Cut(e) /\ Cut(e) \in catalog
                                /\ Unlisted(e - 1)
            /\ ~dotted => outcome.path = target /\ target \in catalog
Unknown  == dotted => Unlisted(Len(target)) /\ (~arguments => ~LeadsOn)
Leading  == outcome.path = path /\ dotted /\ D!Below(path) /\ (path = target => ~arguments)

Dispatched ==
  /\ Targeted /\ Standing /\ Unlisted(Len(path))
  /\ dotted \in BOOLEAN /\ arguments \in BOOLEAN /\ outcome \in D!Outcome
  /\ outcome.is = "pending" => Pends
  /\ outcome.is = "raise" => catalog = {}
  /\ outcome.is = "call" => Called
  /\ outcome.is = "unknown" => Unknown
  /\ outcome.is = "object" => Leading
  /\ outcome.is = "own" => OwnName

(* A listed path behind the end of a name makes the path before it lead on. *)
LEMMA LeadsPast ==
  ASSUME Targeted, NEW e, NEW k, Ends(e), Ends(k), e < k, Cut(k) \in catalog
  PROVE  D!Below(Cut(e))
<1>0. Len(target) \in Nat BY TargetFacts
<1>1. /\ Len(target) \in Nat /\ e \in 1 .. Len(target) /\ k \in 1 .. Len(target)
      /\ e # Len(target) /\ target[e + 1] = Dot
  BY <1>0 DEF Ends
<1>2. /\ Len(Cut(k)) = k /\ Len(Cut(e)) = e /\ \A i \in 1 .. k : Cut(k)[i] = target[i] BY <1>1, Cuts
<1>3. Cut(k)[e + 1] = Dot BY <1>1, <1>2
<1>4. SubSeq(Cut(k), 1, e) = Cut(e)
  <2>1. 1 \in 1 .. Len(target) /\ k \in 1 .. Len(target) /\ 1 \in 1 .. k - 1 + 1 /\ e \in 1 .. k - 1 + 1
    BY <1>1
  <2>2. target \in Seq(Characters) BY TargetFacts
  <2>3. SubSeq(SubSeq(target, 1, k), 1, e) = SubSeq(target, 1 + 1 - 1, 1 + e - 1)
    BY <2>1, <2>2, SubSeqOfSubSeq
  <2>4. 1 + 1 - 1 = 1 /\ 1 + e - 1 = e BY <1>1
  <2> QED BY <2>3, <2>4 DEF Cut
<1> QED BY <1>2, <1>3, <1>4 DEF D!Below

(* A listed path that goes on behind the target makes every path on the way to
   the target lead on. *)
LEMMA LeadsBeyond ==
  ASSUME Targeted, Unlisted(Len(target)), LeadsOn, NEW e, Ends(e)
  PROVE  D!Below(Cut(e))
<1>1. PICK c \in catalog : target \in D!Above(c) BY DEF LeadsOn
<1>2. PICK k \in 1 .. Len(c) : (k = Len(c) \/ c[k + 1] = Dot) /\ target = SubSeq(c, 1, k)
  BY <1>1 DEF D!Above
<1>3. /\ c \in Seq(Characters) /\ Len(c) \in Nat /\ Len(target) \in Nat /\ e \in 1 .. Len(target)
      /\ Len(target) \in 1 .. Len(target)
  <2>1. Len(target) \in 1 .. MaxPath /\ Len(target) \in Nat /\ MaxPath \in Nat BY TargetFacts
  <2>2. c \in D!Strings BY <1>1, TargetFacts
  <2>3. c \in Seq(Characters) /\ Len(c) \in 0 .. MaxPath BY <2>2, StringSeq
  <2>4. e \in 1 .. Len(target) BY DEF Ends
  <2> QED BY <2>1, <2>3, <2>4
<1>4. Len(target) = k /\ \A i \in 1 .. k : target[i] = c[i]
  <2>1. 1 \in Int /\ k \in Int /\ \A i \in 1 .. k : c[i] \in Characters BY <1>2, <1>3, ElementOfSeq
  <2>2. /\ Len(SubSeq(c, 1, k)) = IF 1 <= k THEN k - 1 + 1 ELSE 0
        /\ \A i \in 1 .. k - 1 + 1 : SubSeq(c, 1, k)[i] = c[1 + i - 1]
    BY <2>1, SubSeqProperties
  <2>3. 1 <= k /\ k - 1 + 1 = k /\ \A i \in 1 .. k : 1 + i - 1 = i BY <1>2, <1>3
  <2> QED BY <1>2, <2>2, <2>3
<1>5. k # Len(c)
  <2>1. Ends(Len(target)) BY <1>3 DEF Ends
  <2>2. target \notin catalog BY <1>3, <2>1, WholeCut DEF Unlisted
  <2>3. SubSeq(c, 1, Len(c)) = c BY <1>3, SubSeqFull
  <2> QED BY <1>1, <1>2, <2>2, <2>3
<1>6. SubSeq(c, 1, e) = Cut(e)
  <2>1. 1 \in 1 .. Len(c) /\ k \in 1 .. Len(c) /\ 1 \in 1 .. k - 1 + 1 /\ e \in 1 .. k - 1 + 1
    BY <1>2, <1>3, <1>4
  <2>2. SubSeq(SubSeq(c, 1, k), 1, e) = SubSeq(c, 1 + 1 - 1, 1 + e - 1)
    BY <1>3, <2>1, SubSeqOfSubSeq
  <2>3. 1 + 1 - 1 = 1 /\ 1 + e - 1 = e BY <1>3
  <2> QED BY <1>2, <2>2, <2>3 DEF Cut
<1>7. c[e + 1] = Dot
  <2>1. CASE e = Len(target) BY <1>2, <1>4, <1>5, <2>1
  <2>2. CASE e # Len(target)
    <3>1. target[e + 1] = Dot /\ e + 1 \in 1 .. k BY <1>3, <1>4, <2>2 DEF Ends
    <3> QED BY <1>4, <3>1
  <2> QED BY <2>1, <2>2
<1>8. Len(Cut(e)) = e
  <2>1. e \in 0 .. Len(target) BY <1>3
  <2> QED BY <2>1, Cuts
<1>9. e < Len(c) BY <1>2, <1>3, <1>4, <1>5
<1> QED BY <1>1, <1>6, <1>7, <1>8, <1>9 DEF D!Below

(* No access changes what is written and what is listed. *)
LEMMA SameTarget ==
  ASSUME UNCHANGED <<catalog, target>>
  PROVE  /\ Targeted' <=> Targeted
         /\ LeadsOn' <=> LeadsOn
         /\ OwnName' <=> OwnName
         /\ \A k : (Ends(k)' <=> Ends(k)) /\ Cut(k)' = Cut(k)
         /\ \A n : Unlisted(n)' <=> Unlisted(n)
<1>1. \A k : (Ends(k)' <=> Ends(k)) /\ Cut(k)' = Cut(k) BY DEF Ends, Cut
<1>2. \A n : Unlisted(n)' <=> Unlisted(n) BY <1>1 DEF Unlisted
<1>3. Targeted' <=> Targeted BY DEF Targeted
<1>4. LeadsOn' <=> LeadsOn BY DEF LeadsOn
<1>5. OwnName' <=> OwnName BY DEF OwnName
<1> QED BY <1>1, <1>2, <1>3, <1>4, <1>5

LEMMA AccessStep ==
  ASSUME Dispatched, D!app_dispatch, UNCHANGED <<catalog, target, dotted, arguments>>
  PROVE  Dispatched'
<1> DEFINE s == D!Joined(path, D!Name)
<1>0. /\ Targeted /\ Standing /\ Unlisted(Len(path)) /\ path # target /\ dotted = TRUE
      /\ arguments \in BOOLEAN /\ path \in D!Strings /\ dotted \in BOOLEAN
  <2>1. path \in D!Strings
    <3>1. Len(path) \in 0 .. Len(target) /\ path = Cut(Len(path)) BY DEF Dispatched, Standing
    <3> QED BY <3>1, Cuts DEF Dispatched
  <2> QED BY <2>1 DEF Dispatched, D!app_dispatch
<1>1. PICK e \in 1 .. Len(target) :
        /\ Ends(e) /\ e > Len(path) /\ (\A k : Ends(k) /\ k > Len(path) => k >= e)
        /\ s = Cut(e)
        /\ D!Last <=> e = Len(target)
        /\ D!Name \in D!Names
        /\ \/ Cut(e) = D!Name
           \/ /\ Len(Cut(e)) > Len(D!Name)
              /\ SubSeq(Cut(e), Len(Cut(e)) - Len(D!Name), Len(Cut(e))) = <<Dot>> \o D!Name
  BY <1>0, NextAccess
<1> HIDE DEF s
<1>2. Len(target) \in Nat /\ Len(path) \in Nat /\ e \in 0 .. Len(target)
  BY <1>0, TargetFacts DEF Standing
<1>3. Len(Cut(e)) = e /\ Cut(e) \in D!Strings BY <1>0, <1>2, Cuts
<1>4. Unlisted(e - 1)
  <2> SUFFICES ASSUME NEW k, Ends(k), k <= e - 1 PROVE Cut(k) \notin catalog BY DEF Unlisted
  <2>1. k <= Len(path)
    <3>1. k \in 1 .. Len(target) BY DEF Ends
    <3> QED BY <1>1, <1>2, <3>1
  <2> QED BY <1>0, <2>1 DEF Unlisted
<1>5. /\ Targeted' /\ (LeadsOn' <=> LeadsOn) /\ (OwnName' <=> OwnName)
      /\ \A k : (Ends(k)' <=> Ends(k)) /\ Cut(k)' = Cut(k)
      /\ \A n : Unlisted(n)' <=> Unlisted(n)
  BY <1>0, SameTarget
<1>6. dotted' = TRUE /\ arguments' = arguments BY <1>0
<1>7. CASE D!Name \in Own
  <2>1. outcome' = [is |-> "own", path |-> path] /\ path' = path
    BY <1>7 DEF D!app_dispatch, D!Come
  <2>2. OwnName
    <3>1. Cut(e) \in D!Above(target) BY <1>1, AboveCut
    <3> QED BY <1>1, <1>7, <3>1 DEF OwnName
  <2>3. Standing' BY <1>0, <1>5, <2>1 DEF Standing
  <2>4. Unlisted(Len(path))' BY <1>0, <1>5, <2>1 DEF Unlisted
  <2>5. outcome' \in D!Outcome /\ outcome'.is = "own" BY <1>0, <2>1 DEF D!Outcome
  <2> QED BY <1>0, <1>5, <1>6, <2>2, <2>3, <2>4, <2>5 DEF Dispatched
<1>8. CASE D!Name \notin Own /\ s \in catalog
  <2>1. outcome' = [is |-> "call", path |-> Cut(e)] /\ path' = path
    BY <1>1, <1>8 DEF D!app_dispatch, D!Come, D!Listed, s
  <2>3. Standing' BY <1>0, <1>5, <2>1 DEF Standing
  <2>4. Unlisted(Len(path))' BY <1>0, <1>5, <2>1 DEF Unlisted
  <2>5. outcome' \in D!Outcome /\ outcome'.is = "call" BY <1>3, <2>1 DEF D!Outcome
  <2>6. Called'
    <3>1. Ends(e)' /\ Cut(e)' = Cut(e) /\ Unlisted(e - 1)' BY <1>1, <1>4, <1>5
    <3>2. outcome'.path = Cut(e) /\ Cut(e) \in catalog' BY <1>1, <1>8, <2>1
    <3> QED BY <1>6, <3>1, <3>2 DEF Called
  <2> QED BY <1>0, <1>5, <1>6, <2>3, <2>4, <2>5, <2>6 DEF Dispatched
<1>9. CASE D!Name \notin Own /\ s \notin catalog /\ ~(D!Last /\ arguments) /\ D!Below(s)
  <2>1. outcome' = [is |-> "object", path |-> Cut(e)] /\ path' = Cut(e)
    BY <1>1, <1>9 DEF D!app_dispatch, D!Come, D!Listed, s
  <2>3. Standing'
    <3>1. Len(path') = e /\ Len(target') = Len(target) BY <1>3, <2>1
    <3>2. path' = Cut(e)' /\ Ends(e)' BY <1>1, <1>5, <2>1
    <3> QED BY <1>2, <3>1, <3>2 DEF Standing
  <2>4. Unlisted(Len(path))'
    <3>1. Unlisted(e)
      <4> SUFFICES ASSUME NEW k, Ends(k), k <= e PROVE Cut(k) \notin catalog BY DEF Unlisted
      <4>1. k \in 1 .. Len(target) BY DEF Ends
      <4>2. k = e \/ k <= e - 1 BY <1>2, <4>1
      <4> QED BY <1>1, <1>4, <1>9, <4>2 DEF Unlisted
    <3>2. Len(path') = e BY <1>3, <2>1
    <3>3. Unlisted(e)' BY <1>5, <3>1
    <3> QED BY <3>2, <3>3 DEF Unlisted
  <2>5. outcome' \in D!Outcome /\ outcome'.is = "object" BY <1>3, <2>1 DEF D!Outcome
  <2>6. Leading'
    <3>1. D!Below(path)'
      <4>1. D!Below(Cut(e)) BY <1>1, <1>9
      <4> QED BY <2>1, <4>1 DEF D!Below
    <3>2. path' = target' => ~arguments'
      <4> SUFFICES ASSUME path' = target' PROVE ~arguments BY <1>6
      <4>1. e = Len(target) BY <1>3, <2>1
      <4> QED BY <1>1, <1>9, <4>1
    <3> QED BY <1>6, <2>1, <3>1, <3>2 DEF Leading
  <2> QED BY <1>0, <1>5, <1>6, <2>3, <2>4, <2>5, <2>6 DEF Dispatched
<1>10. CASE D!Name \notin Own /\ s \notin catalog /\ ~(~(D!Last /\ arguments) /\ D!Below(s))
  <2>1. outcome' = [is |-> "unknown", path |-> Cut(e)] /\ path' = path
    BY <1>1, <1>10 DEF D!app_dispatch, D!Come, D!Listed, s
  <2>3. Standing' BY <1>0, <1>5, <2>1 DEF Standing
  <2>4. Unlisted(Len(path))' BY <1>0, <1>5, <2>1 DEF Unlisted
  <2>5. outcome' \in D!Outcome /\ outcome'.is = "unknown" BY <1>3, <2>1 DEF D!Outcome
  <2>6. Unlisted(Len(target))
    <3> SUFFICES ASSUME NEW k, Ends(k), Cut(k) \in catalog PROVE FALSE BY DEF Unlisted
    <3>1. k \in 1 .. Len(target) BY DEF Ends
    <3>2. e < k
      <4>1. ~(k <= e - 1) BY <1>4 DEF Unlisted
      <4>2. k # e BY <1>1, <1>10
      <4> QED BY <1>2, <3>1, <4>1, <4>2
    <3>3. D!Below(s) BY <1>0, <1>1, <3>2, LeadsPast
    <3>4. ~D!Last BY <1>1, <1>2, <3>1, <3>2
    <3> QED BY <1>10, <3>3, <3>4
  <2>7. ~arguments => ~LeadsOn
    <3> SUFFICES ASSUME ~arguments, LeadsOn PROVE FALSE OBVIOUS
    <3>1. D!Below(s) BY <1>0, <1>1, <2>6, LeadsBeyond
    <3> QED BY <1>10, <3>1
  <2>8. Unknown'
    <3>1. Len(target)' = Len(target) OBVIOUS
    <3>2. Unlisted(Len(target))' BY <1>5, <2>6, <3>1 DEF Unlisted
    <3> QED BY <1>5, <1>6, <2>7, <3>2 DEF Unknown
  <2> QED BY <1>0, <1>5, <1>6, <2>3, <2>4, <2>5, <2>8 DEF Dispatched
<1> QED BY <1>7, <1>8, <1>9, <1>10

LEMMA DispatchedStep == Dispatched /\ [D!Next]_(D!vars) => Dispatched'
<1> SUFFICES ASSUME Dispatched, [D!Next]_(D!vars) PROVE Dispatched'
  OBVIOUS
<1>1. ASSUME D!app_root, UNCHANGED <<catalog, target, dotted, arguments>> PROVE Dispatched'
  <2>1. /\ Targeted' /\ (\A k : (Ends(k)' <=> Ends(k)) /\ Cut(k)' = Cut(k))
        /\ \A n : Unlisted(n)' <=> Unlisted(n)
    BY <1>1, SameTarget DEF Dispatched
  <2>2. outcome' = [is |-> "raise", path |-> <<>>] /\ path' = path /\ catalog' = {}
    BY <1>1 DEF D!app_root, D!Come
  <2>3. outcome' \in D!Outcome
    <3>1. outcome.path = <<>> /\ outcome \in D!Outcome BY <1>1 DEF D!app_root, Dispatched, Pends
    <3> QED BY <2>2, <3>1 DEF D!Outcome
  <2>4. Standing' BY <1>1, <2>1, <2>2 DEF Standing, Dispatched
  <2>5. Unlisted(Len(path))' BY <2>2 DEF Unlisted
  <2> QED BY <1>1, <2>1, <2>2, <2>3, <2>4, <2>5 DEF Dispatched
<1>2. ASSUME D!app_call, UNCHANGED <<catalog, target, dotted, arguments>> PROVE Dispatched'
  <2>1. /\ Targeted' /\ (\A k : (Ends(k)' <=> Ends(k)) /\ Cut(k)' = Cut(k))
        /\ \A n : Unlisted(n)' <=> Unlisted(n)
    BY <1>2, SameTarget DEF Dispatched
  <2>2. ~dotted /\ path' = path /\ target \in D!Strings
    BY <1>2 DEF D!app_call, Dispatched, Targeted
  <2>3. Standing' BY <1>2, <2>1, <2>2 DEF Standing, Dispatched
  <2>4. Unlisted(Len(path))' BY <2>1, <2>2 DEF Unlisted, Dispatched
  <2>5. CASE target \in catalog
    <3>1. outcome' = [is |-> "call", path |-> target] BY <1>2, <2>5 DEF D!app_call, D!Come, D!Listed
    <3>2. outcome' \in D!Outcome /\ outcome'.is = "call" BY <2>2, <3>1 DEF D!Outcome
    <3>3. Called' BY <1>2, <2>2, <2>5, <3>1 DEF Called
    <3> QED BY <1>2, <2>1, <2>3, <2>4, <3>2, <3>3 DEF Dispatched
  <2>6. CASE target \notin catalog
    <3>1. outcome' = [is |-> "unknown", path |-> target]
      BY <1>2, <2>6 DEF D!app_call, D!Come, D!Listed
    <3>2. outcome' \in D!Outcome /\ outcome'.is = "unknown" BY <2>2, <3>1 DEF D!Outcome
    <3>3. Unknown' BY <1>2, <2>2 DEF Unknown
    <3> QED BY <1>2, <2>1, <2>3, <2>4, <3>2, <3>3 DEF Dispatched
  <2> QED BY <2>5, <2>6
<1>3. ASSUME UNCHANGED D!vars PROVE Dispatched'
  <2>0. UNCHANGED <<catalog, target, dotted, arguments, path, outcome>> BY <1>3 DEF D!vars
  <2>1. /\ Targeted' /\ (LeadsOn' <=> LeadsOn) /\ (OwnName' <=> OwnName)
        /\ (\A k : (Ends(k)' <=> Ends(k)) /\ Cut(k)' = Cut(k))
        /\ \A n : Unlisted(n)' <=> Unlisted(n)
    BY <2>0, SameTarget DEF Dispatched
  <2>2. Standing' BY <2>0, <2>1 DEF Standing, Dispatched
  <2>3. Unlisted(Len(path))' BY <2>0, <2>1 DEF Unlisted, Dispatched
  <2>4. Pends' <=> Pends BY <2>0 DEF Pends
  <2>5. Called' <=> Called BY <2>0, <2>1 DEF Called
  <2>6. Unknown' <=> Unknown
    <3>1. Unlisted(Len(target))' <=> Unlisted(Len(target)) BY <2>0, <2>1 DEF Unlisted
    <3> QED BY <2>0, <2>1, <3>1 DEF Unknown
  <2>7. Leading' <=> Leading
    <3>1. D!Below(path)' <=> D!Below(path) BY <2>0 DEF D!Below
    <3> QED BY <2>0, <3>1 DEF Leading
  <2> QED BY <2>0, <2>1, <2>2, <2>3, <2>4, <2>5, <2>6, <2>7 DEF Dispatched
<1> QED BY <1>1, <1>2, <1>3, AccessStep DEF D!Next, D!Done, D!vars

LEMMA DispatchedMeans == Dispatched => AccessMeans
<1> SUFFICES ASSUME Dispatched PROVE AccessMeans
  OBVIOUS
<1> DEFINE listed == D!Above(target) \cap catalog
           names == {n \in D!Names : \E s \in D!Above(target) :
                       \/ s = n
                       \/ /\ Len(s) > Len(n)
                          /\ SubSeq(s, Len(s) - Len(n), Len(s)) = <<Dot>> \o n}
<1>1. /\ Targeted /\ Standing /\ outcome \in D!Outcome /\ target \in D!Strings
      /\ Len(target) \in Nat /\ Len(target) >= 1 /\ catalog \subseteq D!Strings
  <2>1. Targeted BY DEF Dispatched
  <2> QED BY <2>1, TargetFacts DEF Dispatched, Targeted
<1>2. Ends(Len(target)) /\ Cut(Len(target)) = target BY <1>1, WholeCut DEF Ends
<1>3. D!TypeOK
  <2>1. Len(path) \in 0 .. Len(target) /\ path = Cut(Len(path)) BY <1>1 DEF Standing
  <2>2. path \in D!Strings BY <1>1, <2>1, Cuts
  <2>3. outcome.is = "object" => outcome.path = path BY DEF Dispatched, Leading
  <2> QED BY <1>1, <2>2, <2>3 DEF D!TypeOK
<1>4. D!CallsListed
  <2> SUFFICES ASSUME outcome.is = "call"
               PROVE  /\ outcome.path \in catalog /\ outcome.path \in D!Above(target)
                      /\ ~dotted => outcome.path = target
    BY DEF D!CallsListed
  <2>1. Called /\ dotted \in BOOLEAN BY DEF Dispatched
  <2>2. CASE dotted
    <3>1. PICK e : Ends(e) /\ outcome.path = Cut(e) /\ Cut(e) \in catalog BY <2>1, <2>2 DEF Called
    <3> QED BY <2>2, <3>1, AboveCut
  <2>3. CASE ~dotted
    <3>1. outcome.path = target /\ target \in catalog BY <2>1, <2>3 DEF Called
    <3>2. target \in D!Above(target) BY <1>2, AboveCut
    <3> QED BY <3>1, <3>2
  <2> QED BY <2>2, <2>3
<1>5. ASSUME D!Over, dotted, catalog # {}, names \cap Own = {}
      PROVE  /\ listed # {} => outcome = [is |-> "call", path |-> D!Shortest(listed)]
             /\ listed = {} /\ ~arguments /\ (\E c \in catalog : target \in D!Above(c))
                  => outcome = [is |-> "object", path |-> target]
             /\ listed = {} /\ ~(~arguments /\ (\E c \in catalog : target \in D!Above(c)))
                  => outcome.is = "unknown"
  <2>1. outcome.is \in {"call", "unknown", "object"} /\ (outcome.is = "object" => path = target)
    <3>1. outcome.is # "own"
      <4>1. ~OwnName BY <1>5 DEF OwnName
      <4> QED BY <4>1 DEF Dispatched
    <3>2. outcome.is # "raise" BY <1>5 DEF Dispatched
    <3>3. outcome.is # "pending"
      <4>1. outcome.is = "pending" => path = <<>> BY DEF Dispatched, Pends
      <4>2. target # <<>> BY <1>1 DEF Targeted, D!Writable
      <4> QED BY <1>5, <4>1, <4>2 DEF D!Over
    <3>4. outcome.is \in {"pending", "raise", "call", "unknown", "object", "own"} BY <1>1 DEF D!Outcome
    <3> QED BY <1>5, <3>1, <3>2, <3>3, <3>4 DEF D!Over
  <2>2. CASE outcome.is = "call"
    <3>1. PICK e : Ends(e) /\ outcome.path = Cut(e) /\ Cut(e) \in catalog /\ Unlisted(e - 1)
      BY <1>5, <2>2 DEF Dispatched, Called
    <3>2. Cut(e) \in listed BY <3>1, AboveCut
    <3>3. e \in 1 .. Len(target) /\ e \in 0 .. Len(target) /\ Len(Cut(e)) = e
      <4>1. e \in 1 .. Len(target) /\ e \in 0 .. Len(target) BY <1>1, <3>1 DEF Ends
      <4> QED BY <1>1, <4>1, Cuts
    <3>4. ASSUME NEW s \in listed PROVE e <= Len(s) /\ (Len(s) <= e => s = Cut(e))
      <4>1. PICK k : Ends(k) /\ s = Cut(k) BY <3>4, AboveCut
      <4>2. k \in 1 .. Len(target) /\ k \in 0 .. Len(target) BY <1>1, <4>1 DEF Ends
      <4>3. Len(s) = k BY <1>1, <4>1, <4>2, Cuts
      <4>4. ~(k <= e - 1) BY <3>1, <4>1 DEF Unlisted
      <4>5. e <= k BY <3>3, <4>2, <4>4
      <4>6. k <= e => k = e BY <3>3, <4>2, <4>5
      <4> QED BY <4>1, <4>3, <4>5, <4>6
    <3> HIDE DEF listed
    <3>5. D!Shortest(listed) = Cut(e)
      <4>1. \A t \in listed : Len(Cut(e)) <= Len(t) BY <3>3, <3>4
      <4>2. D!Shortest(listed) \in listed /\ \A t \in listed : Len(D!Shortest(listed)) <= Len(t)
        BY <3>2, <4>1 DEF D!Shortest
      <4>3. Len(D!Shortest(listed)) <= e BY <3>2, <3>3, <4>2
      <4> QED BY <3>4, <4>2, <4>3
    <3>6. outcome = [is |-> outcome.is, path |-> outcome.path] BY <1>1 DEF D!Outcome
    <3> QED BY <2>2, <3>1, <3>2, <3>5, <3>6
  <2>3. ASSUME Unlisted(Len(target)) PROVE listed = {}
    <3> SUFFICES ASSUME NEW s \in listed PROVE FALSE OBVIOUS
    <3>1. PICK k : Ends(k) /\ s = Cut(k) BY AboveCut
    <3>2. k <= Len(target) BY <1>1, <3>1 DEF Ends
    <3> QED BY <2>3, <3>1, <3>2 DEF Unlisted
  <2>4. CASE outcome.is = "unknown"
    <3>1. Unlisted(Len(target)) /\ (~arguments => ~LeadsOn) BY <1>5, <2>4 DEF Dispatched, Unknown
    <3>2. listed = {} BY <2>3, <3>1
    <3> HIDE DEF listed
    <3> QED BY <2>4, <3>1, <3>2 DEF LeadsOn
  <2>5. CASE outcome.is = "object"
    <3>1. path = target /\ outcome.path = target /\ D!Below(target) /\ ~arguments
      BY <2>1, <2>5 DEF Dispatched, Leading
    <3>2. listed = {} BY <2>3, <3>1 DEF Dispatched
    <3>3. \E c \in catalog : target \in D!Above(c)
      <4>1. PICK c \in catalog : /\ Len(c) > Len(target) /\ SubSeq(c, 1, Len(target)) = target
                                 /\ c[Len(target) + 1] = Dot
        BY <3>1 DEF D!Below
      <4>2. Len(c) \in Nat
        <5>1. c \in Seq(Characters) BY <1>1, StringSeq
        <5> QED BY <5>1, LenProperties
      <4>3. Len(target) \in 1 .. Len(c) BY <1>1, <4>1, <4>2
      <4> QED BY <4>1, <4>3 DEF D!Above
    <3>4. outcome = [is |-> outcome.is, path |-> outcome.path] BY <1>1 DEF D!Outcome
    <3> HIDE DEF listed
    <3> QED BY <2>5, <3>1, <3>2, <3>3, <3>4
  <2> QED BY <2>1, <2>2, <2>4, <2>5
<1>6. D!DottedMeans
  <2> HIDE DEF listed, names
  <2> SUFFICES ASSUME D!Over, dotted, catalog # {}, names \cap Own = {}
               PROVE  CASE listed # {} -> outcome = [is |-> "call", path |-> D!Shortest(listed)]
                        [] listed = {} /\ ~arguments /\ (\E c \in catalog : target \in D!Above(c)) ->
                             outcome = [is |-> "object", path |-> target]
                        [] OTHER -> outcome.is = "unknown"
    BY DEF D!DottedMeans, listed, names
  <2> QED BY <1>5
<1> QED BY <1>3, <1>4, <1>6 DEF AccessMeans, D!AccessMeans

LEMMA DispatchedAtFirst == D!Init => Dispatched
<1> SUFFICES ASSUME D!Init PROVE Dispatched
  OBVIOUS
<1>1. Targeted /\ path = <<>> /\ outcome = [is |-> "pending", path |-> <<>>]
  BY DEF D!Init, Targeted, D!Pending
<1>2. Len(path) = 0 /\ Len(target) \in Nat BY <1>1, TargetFacts
<1>3. Standing
  <2>1. Cut(0) = <<>> BY SubSeqEmpty DEF Cut
  <2> QED BY <1>1, <1>2, <2>1 DEF Standing
<1>4. Unlisted(Len(path)) BY <1>2 DEF Unlisted, Ends
<1>5. outcome \in D!Outcome
  <2>1. <<>> \in D!Strings
    <3>1. <<>> \in Seq(Characters) /\ Len(<<>>) = 0 BY EmptySeq
    <3>2. 0 \in 0 .. MaxPath BY <1>1, TargetFacts
    <3>3. <<>> \in D!Strings <=> <<>> \in Seq(Characters) /\ Len(<<>>) \in 0 .. MaxPath
      BY StringSeq
    <3> QED BY <3>1, <3>2, <3>3
  <2> QED BY <1>1, <2>1 DEF D!Outcome
<1> QED BY <1>1, <1>3, <1>4, <1>5 DEF D!Init, Dispatched, Pends

(* A path means what the catalog says of it, however it is written: dotted
   access calls the shortest listed path on the way, and missing one it ends
   with an object that leads on or with an unknown capability; call() reaches
   the listed path it names and no other (guest.c:278-320).                  *)
THEOREM AccessMeansThePath == D!Spec => []AccessMeans
<1> QED BY DispatchedAtFirst, DispatchedStep, DispatchedMeans, PTL DEF D!Spec

-----------------------------------------------------------------------------
(* EditDistance.  What an alignment of two prefixes costs, and how the cheapest
   of one byte more on either side is made from those of one byte less.       *)
Replaced(f) == {x \in DOMAIN f : one[x] # other[f[x]]}
Price(m, n, f) == (m - Cardinality(DOMAIN f)) + (n - Cardinality(DOMAIN f)) + Cardinality(Replaced(f))
Apart(m, n) == E!Distance(SubSeq(one, 1, m), SubSeq(other, 1, n))

LEMMA AlignmentFacts ==
  ASSUME NEW m \in Nat, NEW n \in Nat, NEW f \in E!Alignments(m, n)
  PROVE  /\ f \in [DOMAIN f -> 1 .. n] /\ DOMAIN f \subseteq 1 .. m
         /\ \A x, y \in DOMAIN f : x < y => f[x] < f[y]
         /\ IsFiniteSet(DOMAIN f) /\ Cardinality(DOMAIN f) \in 0 .. m
         /\ Cardinality(DOMAIN f) \in 0 .. n
         /\ IsFiniteSet(Replaced(f)) /\ Cardinality(Replaced(f)) \in 0 .. Cardinality(DOMAIN f)
         /\ Price(m, n, f) \in Nat
<1>1. /\ f \in [DOMAIN f -> 1 .. n] /\ DOMAIN f \subseteq 1 .. m
      /\ \A x, y \in DOMAIN f : x < y => f[x] < f[y]
  BY DEF E!Alignments
<1>2. /\ IsFiniteSet(1 .. m) /\ Cardinality(1 .. m) = m
      /\ IsFiniteSet(1 .. n) /\ Cardinality(1 .. n) = n
  BY FS_Interval
<1>3. IsFiniteSet(DOMAIN f) /\ Cardinality(DOMAIN f) <= m
  BY <1>1, <1>2, FS_Subset
<1>4. f \in Injection(DOMAIN f, 1 .. n)
  <2>1. ASSUME NEW x \in DOMAIN f, NEW y \in DOMAIN f, f[x] = f[y] PROVE x = y
    <3>1. x \in 1 .. m /\ y \in 1 .. m /\ f[x] \in 1 .. n BY <1>1
    <3>2. ~(x < y) /\ ~(y < x) BY <1>1, <2>1, <3>1
    <3> QED BY <3>1, <3>2
  <2> QED BY <1>1, <2>1 DEF Injection, IsInjective
<1>5. Cardinality(DOMAIN f) <= n BY <1>2, <1>4, FS_Injection
<1>6. Replaced(f) \in SUBSET DOMAIN f BY DEF Replaced
<1>7. IsFiniteSet(Replaced(f)) /\ Cardinality(Replaced(f)) <= Cardinality(DOMAIN f)
  BY <1>3, <1>6, FS_Subset
<1>8. Cardinality(DOMAIN f) \in Nat /\ Cardinality(Replaced(f)) \in Nat
  BY <1>3, <1>7, FS_CardinalityType
<1>9. Price(m, n, f) \in Nat
  BY <1>3, <1>5, <1>8 DEF Price
<1> QED BY <1>1, <1>3, <1>5, <1>7, <1>8, <1>9

LEMMA IsAlignment ==
  ASSUME NEW m \in Nat, NEW n \in Nat, NEW K \in SUBSET (1 .. m), NEW f \in [K -> 1 .. n],
         \A x, y \in K : x < y => f[x] < f[y]
  PROVE  f \in E!Alignments(m, n)
BY DEF E!Alignments

(* The two paths, of any length up to the limit. *)
Compared == one \in E!Paths /\ other \in E!Paths

LEMMA PathFacts ==
  ASSUME Compared
  PROVE  /\ one \in Seq(Bytes) /\ Len(one) \in Nat /\ DOMAIN one = 1 .. Len(one)
         /\ other \in Seq(Bytes) /\ Len(other) \in Nat /\ DOMAIN other = 1 .. Len(other)
<1>1. one \in Seq(Bytes) /\ other \in Seq(Bytes)
  BY SeqDef, PartsAssumption, SMTT(30) DEF Compared, E!Paths, E!EditDistanceAssumption
<1> QED BY <1>1, LenProperties

LEMMA Prefixes ==
  ASSUME Compared, NEW m \in 0 .. Len(one), NEW n \in 0 .. Len(other)
  PROVE  /\ m \in Nat /\ n \in Nat
         /\ Len(SubSeq(one, 1, m)) = m /\ Len(SubSeq(other, 1, n)) = n
         /\ \A x \in 1 .. m : SubSeq(one, 1, m)[x] = one[x]
         /\ \A y \in 1 .. n : SubSeq(other, 1, n)[y] = other[y]
<1>1. /\ m \in Int /\ n \in Int /\ 1 \in Int /\ m \in Nat /\ n \in Nat
      /\ (\A x \in 1 .. m : one[x] \in Bytes) /\ (\A y \in 1 .. n : other[y] \in Bytes)
  BY PathFacts, ElementOfSeq
<1>2. /\ Len(SubSeq(one, 1, m)) = IF 1 <= m THEN m - 1 + 1 ELSE 0
      /\ \A x \in 1 .. m - 1 + 1 : SubSeq(one, 1, m)[x] = one[1 + x - 1]
  BY <1>1, SubSeqProperties
<1>3. /\ Len(SubSeq(other, 1, n)) = IF 1 <= n THEN n - 1 + 1 ELSE 0
      /\ \A y \in 1 .. n - 1 + 1 : SubSeq(other, 1, n)[y] = other[1 + y - 1]
  BY <1>1, SubSeqProperties
<1> QED BY <1>1, <1>2, <1>3

LEMMA SameCardinality == ASSUME NEW S PROVE E!Cardinality(S) = Cardinality(S)
BY DEF E!Cardinality, Cardinality

LEMMA PriceOf ==
  ASSUME Compared, NEW m \in 0 .. Len(one), NEW n \in 0 .. Len(other), NEW f \in E!Alignments(m, n)
  PROVE  E!Cost(SubSeq(one, 1, m), SubSeq(other, 1, n), f) = Price(m, n, f)
<1> DEFINE s == SubSeq(one, 1, m)
           t == SubSeq(other, 1, n)
<1>1. /\ m \in Nat /\ n \in Nat /\ Len(s) = m /\ Len(t) = n
      /\ (\A x \in 1 .. m : s[x] = one[x]) /\ (\A y \in 1 .. n : t[y] = other[y])
  BY Prefixes
<1>2. f \in [DOMAIN f -> 1 .. n] /\ DOMAIN f \subseteq 1 .. m BY <1>1, AlignmentFacts
<1> HIDE DEF s, t
<1>3. {x \in DOMAIN f : s[x] # t[f[x]]} = Replaced(f) BY <1>1, <1>2 DEF Replaced
<1>4. E!Cost(s, t, f) = (Len(s) - Cardinality(DOMAIN f)) + (Len(t) - Cardinality(DOMAIN f))
                        + Cardinality({x \in DOMAIN f : s[x] # t[f[x]]})
  BY SameCardinality DEF E!Cost
<1>5. E!Cost(s, t, f) = Price(m, n, f) BY <1>1, <1>3, <1>4, Zenon DEF Price
<1> QED BY <1>5 DEF s, t

LEMMA NothingAligned ==
  ASSUME NEW m \in Nat, NEW n \in Nat
  PROVE  <<>> \in E!Alignments(m, n) /\ Price(m, n, <<>>) = m + n
<1>1. <<>> \in [{} -> 1 .. n] /\ DOMAIN <<>> = {} OBVIOUS
<1>2. <<>> \in E!Alignments(m, n) BY <1>1 DEF E!Alignments
<1>3. Cardinality(DOMAIN <<>>) = 0 /\ Cardinality(Replaced(<<>>)) = 0
  <2>1. Replaced(<<>>) = {} BY <1>1 DEF Replaced
  <2> QED BY <1>1, <2>1, FS_EmptySet
<1> QED BY <1>2, <1>3 DEF Price

LEMMA ApartIs ==
  ASSUME Compared, NEW m \in 0 .. Len(one), NEW n \in 0 .. Len(other)
  PROVE  /\ Apart(m, n) \in Nat
         /\ \E f \in E!Alignments(m, n) : Apart(m, n) = Price(m, n, f)
         /\ \A f \in E!Alignments(m, n) : Apart(m, n) <= Price(m, n, f)
<1> DEFINE prices == {Price(m, n, f) : f \in E!Alignments(m, n)}
<1>1. m \in Nat /\ n \in Nat BY Prefixes
<1>2. prices \in SUBSET Nat /\ prices # {}
  <2>1. \A f \in E!Alignments(m, n) : Price(m, n, f) \in Nat BY <1>1, AlignmentFacts
  <2>2. <<>> \in E!Alignments(m, n) BY <1>1, NothingAligned
  <2> QED BY <2>1, <2>2
<1>3. Apart(m, n) = E!Min(prices)
  <2>1. Len(SubSeq(one, 1, m)) = m /\ Len(SubSeq(other, 1, n)) = n BY Prefixes
  <2>2. \A f \in E!Alignments(m, n) : E!Cost(SubSeq(one, 1, m), SubSeq(other, 1, n), f) = Price(m, n, f)
    BY PriceOf
  <2>3. {E!Cost(SubSeq(one, 1, m), SubSeq(other, 1, n), f) : f \in E!Alignments(m, n)} = prices
    BY <2>2
  <2> HIDE DEF prices
  <2> QED BY <2>1, <2>3 DEF Apart, E!Distance
<1>4. E!Min(prices) \in prices /\ \A k \in prices : E!Min(prices) <= k
  <2> HIDE DEF prices
  <2>1. D!Min(prices) \in prices /\ \A k \in prices : D!Min(prices) <= k BY <1>2, LeastOf
  <2> QED BY <2>1 DEF D!Min, E!Min
<1> QED BY <1>2, <1>3, <1>4

(* One byte more on one side: it is deleted, or inserted. *)
LEMMA Widened ==
  ASSUME NEW m \in Nat, NEW n \in Nat, NEW f \in E!Alignments(m, n)
  PROVE  /\ f \in E!Alignments(m + 1, n) /\ Price(m + 1, n, f) = Price(m, n, f) + 1
         /\ f \in E!Alignments(m, n + 1) /\ Price(m, n + 1, f) = Price(m, n, f) + 1
<1>1. /\ f \in [DOMAIN f -> 1 .. n] /\ DOMAIN f \subseteq 1 .. m
      /\ \A x, y \in DOMAIN f : x < y => f[x] < f[y]
      /\ Cardinality(DOMAIN f) \in 0 .. m /\ Cardinality(Replaced(f)) \in 0 .. Cardinality(DOMAIN f)
  BY AlignmentFacts
<1>2. m + 1 \in Nat /\ n + 1 \in Nat /\ DOMAIN f \in SUBSET (1 .. m + 1) /\ f \in [DOMAIN f -> 1 .. n + 1]
  BY <1>1
<1>3. f \in E!Alignments(m + 1, n) BY <1>1, <1>2, IsAlignment
<1>4. f \in E!Alignments(m, n + 1) BY <1>1, <1>2, IsAlignment
<1> QED BY <1>1, <1>3, <1>4 DEF Price

(* One byte more on both sides: one stands for the other. *)
Paired(f, m, n) == [x \in DOMAIN f \cup {m} |-> IF x = m THEN n ELSE f[x]]
Step(m, n) == IF one[m] = other[n] THEN 0 ELSE 1

LEMMA PairedPrice ==
  ASSUME NEW m \in Nat, NEW n \in Nat, NEW f \in E!Alignments(m, n)
  PROVE  LET g == Paired(f, m + 1, n + 1)
         IN g \in E!Alignments(m + 1, n + 1)
            /\ Price(m + 1, n + 1, g) = Price(m, n, f) + Step(m + 1, n + 1)
<1> DEFINE g == Paired(f, m + 1, n + 1)
<1>1. /\ f \in [DOMAIN f -> 1 .. n] /\ DOMAIN f \subseteq 1 .. m
      /\ \A x, y \in DOMAIN f : x < y => f[x] < f[y]
      /\ IsFiniteSet(DOMAIN f) /\ Cardinality(DOMAIN f) \in Nat
      /\ IsFiniteSet(Replaced(f)) /\ Cardinality(Replaced(f)) \in Nat
  BY AlignmentFacts
<1>2. m + 1 \notin DOMAIN f BY <1>1
<1>3. /\ DOMAIN g = DOMAIN f \cup {m + 1} /\ g[m + 1] = n + 1
      /\ \A x \in DOMAIN f : x # m + 1 /\ g[x] = f[x]
  BY <1>2 DEF Paired
<1>4. DOMAIN g \in SUBSET (1 .. m + 1) /\ g \in [DOMAIN g -> 1 .. n + 1]
  <2>1. DOMAIN g \in SUBSET (1 .. m + 1) BY <1>1, <1>3
  <2>2. ASSUME NEW x \in DOMAIN g PROVE g[x] \in 1 .. n + 1 BY <1>1, <1>3, <2>2
  <2>3. g = [x \in DOMAIN g |-> g[x]] BY DEF Paired
  <2> HIDE DEF g
  <2> QED BY <2>1, <2>2, <2>3
<1>5. ASSUME NEW x \in DOMAIN g, NEW y \in DOMAIN g, x < y PROVE g[x] < g[y]
  <2>1. x \in 1 .. m + 1 /\ y \in 1 .. m + 1 BY <1>4
  <2>2. x # m + 1 BY <1>5, <2>1
  <2>3. x \in DOMAIN f /\ f[x] \in 1 .. n /\ g[x] = f[x] BY <1>1, <1>3, <2>2
  <2>4. CASE y = m + 1 BY <1>3, <2>3, <2>4
  <2>5. CASE y \in DOMAIN f
    <3>1. f[y] \in 1 .. n /\ g[y] = f[y] /\ f[x] < f[y] BY <1>1, <1>3, <1>5, <2>3, <2>5
    <3> QED BY <2>3, <3>1
  <2> QED BY <1>3, <2>4, <2>5
<1>6. g \in E!Alignments(m + 1, n + 1)
  <2>1. m + 1 \in Nat /\ n + 1 \in Nat OBVIOUS
  <2> HIDE DEF g
  <2> QED BY <1>4, <1>5, <2>1, IsAlignment
<1>7. Cardinality(DOMAIN g) = Cardinality(DOMAIN f) + 1 BY <1>1, <1>2, <1>3, FS_AddElement
<1>8. Cardinality(Replaced(g)) = Cardinality(Replaced(f)) + Step(m + 1, n + 1)
  <2>1. m + 1 \notin Replaced(f) BY <1>2 DEF Replaced
  <2>2. CASE one[m + 1] = other[n + 1]
    <3>1. Replaced(g) = Replaced(f) BY <1>3, <2>2 DEF Replaced
    <3> QED BY <1>1, <2>2, <3>1 DEF Step
  <2>3. CASE one[m + 1] # other[n + 1]
    <3>1. Replaced(g) = Replaced(f) \cup {m + 1} BY <1>3, <2>3 DEF Replaced
    <3> QED BY <1>1, <2>1, <2>3, <3>1, FS_AddElement DEF Step
  <2> QED BY <2>2, <2>3
<1> HIDE DEF g
<1>9. Price(m + 1, n + 1, g) = Price(m, n, f) + Step(m + 1, n + 1)
  BY <1>1, <1>7, <1>8 DEF Price, Step
<1> QED BY <1>6, <1>9 DEF g

(* Every alignment of one byte more on both sides is one of these. *)
LEMMA Narrowed ==
  ASSUME NEW m \in Nat, NEW n \in Nat, NEW g \in E!Alignments(m + 1, n + 1)
  PROVE  \/ g \in E!Alignments(m, n + 1)
         \/ g \in E!Alignments(m + 1, n)
         \/ \E f \in E!Alignments(m, n) : g = Paired(f, m + 1, n + 1)
<1>1. m + 1 \in Nat /\ n + 1 \in Nat OBVIOUS
<1>2. /\ g \in [DOMAIN g -> 1 .. n + 1] /\ DOMAIN g \subseteq 1 .. m + 1
      /\ \A x, y \in DOMAIN g : x < y => g[x] < g[y]
  BY <1>1, AlignmentFacts
<1>3. CASE m + 1 \notin DOMAIN g
  <2>1. DOMAIN g \in SUBSET (1 .. m) BY <1>2, <1>3
  <2> QED BY <1>1, <1>2, <2>1, IsAlignment
<1>4. ASSUME m + 1 \in DOMAIN g, NEW x \in DOMAIN g, x # m + 1
      PROVE  x \in 1 .. m /\ g[x] \in 1 .. n + 1 /\ g[x] < g[m + 1] /\ g[m + 1] \in 1 .. n + 1
  <2>1. x \in 1 .. m + 1 BY <1>2
  <2>2. x < m + 1 BY <1>4, <2>1
  <2> QED BY <1>2, <1>4, <2>1, <2>2
<1>5. CASE m + 1 \in DOMAIN g /\ g[m + 1] # n + 1
  <2>1. g[m + 1] \in 1 .. n BY <1>2, <1>5
  <2>2. \A x \in DOMAIN g : g[x] \in 1 .. n BY <1>4, <1>5, <2>1
  <2>3. g \in [DOMAIN g -> 1 .. n] BY <1>2, <2>2
  <2> QED BY <1>1, <1>2, <2>3, IsAlignment
<1>6. CASE m + 1 \in DOMAIN g /\ g[m + 1] = n + 1
  <2> DEFINE f == [x \in DOMAIN g \ {m + 1} |-> g[x]]
  <2>1. DOMAIN f = DOMAIN g \ {m + 1} /\ \A x \in DOMAIN f : f[x] = g[x] OBVIOUS
  <2>2. DOMAIN f \in SUBSET (1 .. m) BY <1>4, <1>6, <2>1
  <2>3. \A x \in DOMAIN f : f[x] \in 1 .. n BY <1>4, <1>6, <2>1
  <2>4. f \in [DOMAIN f -> 1 .. n] BY <2>1, <2>3
  <2>5. \A x, y \in DOMAIN f : x < y => f[x] < f[y] BY <1>2, <2>1
  <2>6. g = Paired(f, m + 1, n + 1)
    <3>1. DOMAIN f \cup {m + 1} = DOMAIN g BY <1>6, <2>1
    <3>2. \A x \in DOMAIN g : g[x] = IF x = m + 1 THEN n + 1 ELSE f[x] BY <1>6, <2>1
    <3>3. g = [x \in DOMAIN g |-> g[x]] BY <1>2
    <3> HIDE DEF f
    <3> QED BY <3>1, <3>2, <3>3 DEF Paired
  <2>7. f \in E!Alignments(m, n)
    <3> HIDE DEF f
    <3> QED BY <2>2, <2>4, <2>5, IsAlignment
  <2> HIDE DEF f
  <2> QED BY <2>6, <2>7
<1> QED BY <1>3, <1>5, <1>6

LEMMA Borders ==
  ASSUME Compared, NEW m \in 0 .. Len(one), NEW n \in 0 .. Len(other)
  PROVE  Apart(0, n) = n /\ Apart(m, 0) = m
<1>1. m \in Nat /\ n \in Nat /\ 0 \in 0 .. Len(one) /\ 0 \in 0 .. Len(other) /\ 0 \in Nat
  BY Prefixes, PathFacts
<1>2. ASSUME NEW f, f \in E!Alignments(0, n) \/ f \in E!Alignments(m, 0)
      PROVE  Cardinality(DOMAIN f) = 0 /\ Cardinality(Replaced(f)) = 0
  <2>1. Cardinality(DOMAIN f) \in 0 .. 0 /\ Cardinality(Replaced(f)) \in 0 .. Cardinality(DOMAIN f)
    BY <1>1, <1>2, AlignmentFacts
  <2> QED BY <2>1
<1>3. PICK f \in E!Alignments(0, n) : Apart(0, n) = Price(0, n, f) BY <1>1, ApartIs
<1>4. PICK g \in E!Alignments(m, 0) : Apart(m, 0) = Price(m, 0, g) BY <1>1, ApartIs
<1> QED BY <1>1, <1>2, <1>3, <1>4 DEF Price

(* What edit_distance() computes in a cell is the distance. *)
LEMMA Cell ==
  ASSUME Compared, NEW m \in 0 .. Len(one) - 1, NEW n \in 0 .. Len(other) - 1
  PROVE  Apart(m + 1, n + 1)
           = E!Cheapest(Apart(m + 1, n) + 1, Apart(m, n + 1) + 1, Apart(m, n) + Step(m + 1, n + 1))
<1> DEFINE x == Apart(m + 1, n) + 1
           y == Apart(m, n + 1) + 1
           z == Apart(m, n) + Step(m + 1, n + 1)
           d == Apart(m + 1, n + 1)
<1>1. /\ m \in Nat /\ n \in Nat /\ m + 1 \in Nat /\ n + 1 \in Nat
      /\ m \in 0 .. Len(one) /\ m + 1 \in 0 .. Len(one)
      /\ n \in 0 .. Len(other) /\ n + 1 \in 0 .. Len(other)
  BY PathFacts
<1>2. /\ Apart(m + 1, n) \in Nat /\ Apart(m, n + 1) \in Nat /\ Apart(m, n) \in Nat /\ d \in Nat
      /\ \A g \in E!Alignments(m + 1, n + 1) : d <= Price(m + 1, n + 1, g)
      /\ \A g \in E!Alignments(m + 1, n) : Apart(m + 1, n) <= Price(m + 1, n, g)
      /\ \A g \in E!Alignments(m, n + 1) : Apart(m, n + 1) <= Price(m, n + 1, g)
      /\ \A g \in E!Alignments(m, n) : Apart(m, n) <= Price(m, n, g)
  BY <1>1, ApartIs
<1>3. x \in Nat /\ y \in Nat /\ z \in Nat BY <1>2 DEF Step
<1>4. d <= x
  <2>1. PICK f \in E!Alignments(m + 1, n) : Apart(m + 1, n) = Price(m + 1, n, f) BY <1>1, ApartIs
  <2>2. f \in E!Alignments(m + 1, n + 1) /\ Price(m + 1, n + 1, f) = Price(m + 1, n, f) + 1
    BY <1>1, Widened
  <2>3. d <= Price(m + 1, n + 1, f) BY <1>2, <2>2
  <2> QED BY <2>1, <2>2, <2>3
<1>5. d <= y
  <2>1. PICK f \in E!Alignments(m, n + 1) : Apart(m, n + 1) = Price(m, n + 1, f) BY <1>1, ApartIs
  <2>2. f \in E!Alignments(m + 1, n + 1) /\ Price(m + 1, n + 1, f) = Price(m, n + 1, f) + 1
    BY <1>1, Widened
  <2>3. d <= Price(m + 1, n + 1, f) BY <1>2, <2>2
  <2> QED BY <2>1, <2>2, <2>3
<1>6. d <= z
  <2>1. PICK f \in E!Alignments(m, n) : Apart(m, n) = Price(m, n, f) BY <1>1, ApartIs
  <2>2. /\ Paired(f, m + 1, n + 1) \in E!Alignments(m + 1, n + 1)
        /\ Price(m + 1, n + 1, Paired(f, m + 1, n + 1)) = Price(m, n, f) + Step(m + 1, n + 1)
    BY <1>1, PairedPrice
  <2>3. d <= Price(m + 1, n + 1, Paired(f, m + 1, n + 1)) BY <1>2, <2>2
  <2> QED BY <2>1, <2>2, <2>3
<1>7. x <= d \/ y <= d \/ z <= d
  <2>1. PICK g \in E!Alignments(m + 1, n + 1) : d = Price(m + 1, n + 1, g) BY <1>1, ApartIs
  <2>2. CASE g \in E!Alignments(m, n + 1)
    <3>1. Price(m + 1, n + 1, g) = Price(m, n + 1, g) + 1 BY <1>1, <2>2, Widened
    <3>2. Price(m, n + 1, g) \in Nat BY <1>1, <2>2, AlignmentFacts
    <3> QED BY <1>2, <2>1, <2>2, <3>1, <3>2
  <2>3. CASE g \in E!Alignments(m + 1, n)
    <3>1. Price(m + 1, n + 1, g) = Price(m + 1, n, g) + 1 BY <1>1, <2>3, Widened
    <3>2. Price(m + 1, n, g) \in Nat BY <1>1, <2>3, AlignmentFacts
    <3> QED BY <1>2, <2>1, <2>3, <3>1, <3>2
  <2>4. CASE \E f \in E!Alignments(m, n) : g = Paired(f, m + 1, n + 1)
    <3>1. PICK f \in E!Alignments(m, n) : g = Paired(f, m + 1, n + 1) BY <2>4
    <3>2. Price(m + 1, n + 1, g) = Price(m, n, f) + Step(m + 1, n + 1) BY <1>1, <3>1, PairedPrice
    <3>3. Price(m, n, f) \in Nat /\ Apart(m, n) <= Price(m, n, f) BY <1>1, <1>2, AlignmentFacts
    <3> QED BY <1>2, <2>1, <3>2, <3>3 DEF Step
  <2> QED BY <1>1, <2>2, <2>3, <2>4, Narrowed
<1> HIDE DEF x, y, z, d
<1>8. d \in {x, y, z} /\ \A k \in {x, y, z} : d <= k BY <1>2, <1>3, <1>4, <1>5, <1>6, <1>7
<1>9. \A e \in {x, y, z} : (\A k \in {x, y, z} : e <= k) => e = d
  BY <1>3, <1>8
<1>10. E!Cheapest(x, y, z) = d
  BY <1>8, <1>9 DEF E!Cheapest, E!Min
<1> QED BY <1>10 DEF x, y, z, d

(* No distance is above the length of the longer path. *)
LEMMA Nearby ==
  ASSUME Compared, NEW m \in 0 .. Len(one), NEW n \in 0 .. Len(other)
  PROVE  Apart(m, n) <= m \/ Apart(m, n) <= n
<1>1. m \in Nat /\ n \in Nat BY Prefixes
<1> DEFINE least == IF m <= n THEN m ELSE n
           f == [x \in 1 .. least |-> x]
<1>2. /\ least \in Nat /\ least <= m /\ least <= n /\ least \in {m, n}
      /\ DOMAIN f = 1 .. least /\ \A x \in DOMAIN f : f[x] = x
  BY <1>1
<1>3. f \in E!Alignments(m, n)
  <2> HIDE DEF least
  <2>1. DOMAIN f \in SUBSET (1 .. m) /\ f \in [DOMAIN f -> 1 .. n] BY <1>1, <1>2
  <2>2. \A x, y \in DOMAIN f : x < y => f[x] < f[y] BY <1>2
  <2> HIDE DEF f
  <2> QED BY <1>1, <2>1, <2>2, IsAlignment
<1> HIDE DEF f
<1>4. Cardinality(DOMAIN f) = least
  <2> HIDE DEF least
  <2>1. 1 \in Int /\ least \in Int BY <1>2
  <2>2. Cardinality(1 .. least) = IF 1 > least THEN 0 ELSE least - 1 + 1 BY <2>1, FS_Interval
  <2> QED BY <1>2, <2>2
<1>5. Cardinality(Replaced(f)) \in 0 .. least BY <1>1, <1>3, <1>4, AlignmentFacts
<1>6. Apart(m, n) <= Price(m, n, f) /\ Apart(m, n) \in Nat BY <1>3, ApartIs
<1>7. Price(m, n, f) <= (m - least) + (n - least) + least BY <1>1, <1>2, <1>4, <1>5 DEF Price
<1> HIDE DEF least
<1>8. Price(m, n, f) \in Nat BY <1>1, <1>3, AlignmentFacts
<1> QED BY <1>1, <1>2, <1>6, <1>7, <1>8

(* What the row and the diagonal hold, in the middle of a pass and between two. *)
Front(k) == IF k <= inner THEN outer + 1 ELSE outer

RowKept ==
  /\ Compared /\ outer \in 0 .. Len(one) /\ inner \in 0 .. Len(other)
  /\ row \in [0 .. Len(other) -> Nat] /\ e_at \in {"outer", "inner", "done"}
  /\ e_at # "inner" => \A k \in 0 .. Len(other) : row[k] = Apart(outer, k)
  /\ e_at = "inner" => /\ outer < Len(one) /\ diagonal = Apart(outer, inner)
                       /\ \A k \in 0 .. Len(other) : row[k] = Apart(Front(k), k)
  /\ e_at = "done" => outer = Len(one)

LEMMA RowKeptSays == RowKept => RowExact
<1> SUFFICES ASSUME RowKept PROVE RowExact OBVIOUS
<1>1. Compared /\ Len(one) \in Nat /\ Len(other) \in Nat /\ outer \in 0 .. Len(one)
  BY PathFacts DEF RowKept
<1>2. ASSUME NEW k \in 0 .. Len(other)
      PROVE  /\ Front(k) \in 0 .. Len(one) \/ e_at # "inner"
             /\ row[k] = Apart(IF e_at = "inner" THEN Front(k) ELSE outer, k)
  BY <1>1, <1>2 DEF RowKept, Front
<1>3. ASSUME NEW k \in 0 .. Len(other) PROVE row[k] \in 0 .. E!Max({Len(one), Len(other)})
  <2>1. row[k] <= Len(one) \/ row[k] <= Len(other)
    <3>1. PICK m \in 0 .. Len(one) : row[k] = Apart(m, k) BY <1>1, <1>2, <1>3
    <3>2. Apart(m, k) <= m \/ Apart(m, k) <= k BY <1>1, Nearby
    <3>3. Apart(m, k) \in Nat BY <1>1, ApartIs
    <3> QED BY <1>1, <3>1, <3>2, <3>3
  <2>2. row[k] \in Nat BY <1>3 DEF RowKept
  <2>3. \E x \in {Len(one), Len(other)} : \A y \in {Len(one), Len(other)} : x >= y BY <1>1
  <2>4. /\ E!Max({Len(one), Len(other)}) \in {Len(one), Len(other)}
        /\ \A y \in {Len(one), Len(other)} : E!Max({Len(one), Len(other)}) >= y
    BY <2>3 DEF E!Max
  <2> HIDE DEF RowKept
  <2> QED BY <1>1, <2>1, <2>2, <2>4
<1>4. E!TypeOK BY <1>3 DEF RowKept, E!TypeOK
<1>5. ASSUME e_at = "done" PROVE row[Len(other)] = E!Distance(one, other)
  <2>1. SubSeq(one, 1, Len(one)) = one /\ SubSeq(other, 1, Len(other)) = other
    BY <1>1, PathFacts, SubSeqFull
  <2>2. row[Len(other)] = Apart(Len(one), Len(other)) BY <1>1, <1>5 DEF RowKept
  <2> QED BY <2>1, <2>2 DEF Apart
<1>6. ASSUME e_at = "inner", NEW k \in 0 .. Len(other)
      PROVE  row[k] = E!Distance(SubSeq(one, 1, IF k <= inner THEN outer + 1 ELSE outer),
                                 SubSeq(other, 1, k))
  BY <1>2, <1>6 DEF Apart, Front
<1> QED BY <1>4, <1>5, <1>6 DEF RowExact, E!RowExact

LEMMA SamePaths ==
  ASSUME UNCHANGED <<one, other>>
  PROVE  (Compared' <=> Compared) /\ \A m, n : Apart(m, n)' = Apart(m, n) /\ Step(m, n)' = Step(m, n)
BY DEF Compared, Apart, Step

LEMMA RowStep == RowKept /\ [E!Next]_(E!vars) => RowKept'
<1> SUFFICES ASSUME RowKept, [E!Next]_(E!vars) PROVE RowKept' OBVIOUS
<1>1. /\ Compared /\ Len(one) \in Nat /\ Len(other) \in Nat
      /\ outer \in 0 .. Len(one) /\ inner \in 0 .. Len(other)
  BY PathFacts DEF RowKept
<1>2. CASE E!Outer
  <2>1. /\ UNCHANGED <<one, other, outer>> /\ e_at = "outer" /\ outer < Len(one)
        /\ e_at' = "inner" /\ inner' = 0 /\ diagonal' = row[0]
        /\ row' = [row EXCEPT ![0] = outer + 1]
    BY <1>2 DEF E!Outer
  <2>2. row \in [0 .. Len(other) -> Nat] /\ \A k \in 0 .. Len(other) : row[k] = Apart(outer, k)
    BY <2>1 DEF RowKept
  <2>3. 0 \in 0 .. Len(other) /\ outer + 1 \in 0 .. Len(one) BY <1>1, <2>1
  <2>4. Apart(outer + 1, 0) = outer + 1 BY <1>1, <2>3, Borders
  <2>5. ASSUME NEW k \in 0 .. Len(other) PROVE row'[k] = Apart(Front(k)', k)
    <3>1. CASE k = 0 BY <2>1, <2>2, <2>3, <2>4, <3>1 DEF Front
    <3>2. CASE k # 0
      <4>1. Front(k)' = outer BY <1>1, <2>1, <3>2 DEF Front
      <4> QED BY <2>1, <2>2, <3>2, <4>1
    <3> QED BY <3>1, <3>2
  <2>6. row' \in [0 .. Len(other) -> Nat] BY <1>1, <2>1, <2>2
  <2>7. diagonal' = Apart(outer, 0) BY <2>1, <2>2, <2>3
  <2> QED BY <1>1, <2>1, <2>3, <2>5, <2>6, <2>7, SamePaths DEF RowKept
<1>3. CASE E!Inner
  <2>1. /\ UNCHANGED <<one, other, outer, e_at>> /\ e_at = "inner" /\ inner < Len(other)
        /\ inner' = inner + 1 /\ diagonal' = row[inner + 1]
        /\ row' = [row EXCEPT ![inner + 1] =
             E!Cheapest(row[inner] + 1, row[inner + 1] + 1, diagonal + Step(outer + 1, inner + 1))]
    BY <1>3 DEF E!Inner, E!Diagonal, Step
  <2>2. /\ row \in [0 .. Len(other) -> Nat] /\ outer < Len(one) /\ diagonal = Apart(outer, inner)
        /\ \A k \in 0 .. Len(other) : row[k] = Apart(Front(k), k)
    BY <2>1 DEF RowKept
  <2>3. inner + 1 \in 0 .. Len(other) /\ inner \in 0 .. Len(other) - 1
        /\ outer \in 0 .. Len(one) - 1 /\ outer + 1 \in 0 .. Len(one)
    BY <1>1, <2>1, <2>2
  <2>4. row[inner] = Apart(outer + 1, inner) /\ row[inner + 1] = Apart(outer, inner + 1)
    BY <1>1, <2>2, <2>3 DEF Front
  <2>5. row' = [row EXCEPT ![inner + 1] = Apart(outer + 1, inner + 1)]
    BY <1>1, <2>1, <2>2, <2>3, <2>4, Cell
  <2>6. Apart(outer + 1, inner + 1) \in Nat BY <1>1, <2>3, ApartIs
  <2>7. row' \in [0 .. Len(other) -> Nat] BY <2>2, <2>5, <2>6
  <2>8. ASSUME NEW k \in 0 .. Len(other) PROVE row'[k] = Apart(Front(k)', k)
    <3>1. CASE k = inner + 1
      <4>1. Front(k)' = outer + 1 BY <1>1, <2>1, <3>1 DEF Front
      <4> QED BY <2>2, <2>3, <2>5, <3>1, <4>1
    <3>2. CASE k # inner + 1
      <4>1. Front(k)' = Front(k) BY <1>1, <2>1, <3>2 DEF Front
      <4> QED BY <2>2, <2>5, <3>2, <4>1
    <3> QED BY <3>1, <3>2
  <2> QED BY <1>1, <2>1, <2>2, <2>3, <2>4, <2>7, <2>8, SamePaths DEF RowKept
<1>4. CASE E!NextByte
  <2>1. /\ UNCHANGED <<one, other, inner, row, diagonal>> /\ e_at = "inner" /\ inner = Len(other)
        /\ outer' = outer + 1 /\ e_at' = "outer"
    BY <1>4 DEF E!NextByte
  <2>2. /\ row \in [0 .. Len(other) -> Nat] /\ outer < Len(one)
        /\ \A k \in 0 .. Len(other) : row[k] = Apart(Front(k), k)
    BY <2>1 DEF RowKept
  <2>3. \A k \in 0 .. Len(other) : Front(k) = outer + 1 BY <1>1, <2>1 DEF Front
  <2>4. outer' \in 0 .. Len(one) BY <1>1, <2>1, <2>2
  <2> QED BY <1>1, <2>1, <2>2, <2>3, <2>4, SamePaths DEF RowKept
<1>5. CASE E!Return
  <2>1. UNCHANGED <<one, other, outer, inner, row, diagonal>> /\ e_at = "outer"
        /\ outer = Len(one) /\ e_at' = "done"
    BY <1>5 DEF E!Return
  <2> QED BY <2>1, SamePaths DEF RowKept
<1>6. CASE UNCHANGED E!vars
  <2>1. UNCHANGED <<one, other, outer, inner, row, diagonal, e_at>> BY <1>6 DEF E!vars
  <2>2. \A k : Front(k)' = Front(k) BY <2>1 DEF Front
  <2> QED BY <2>1, <2>2, SamePaths DEF RowKept
<1> QED BY <1>2, <1>3, <1>4, <1>5, <1>6 DEF E!Next, E!Over

LEMMA RowAtFirst == E!Init => RowKept
<1> SUFFICES ASSUME E!Init PROVE RowKept OBVIOUS
<1>1. /\ Compared /\ outer = 0 /\ inner = 0 /\ e_at = "outer" /\ row = [k \in 0 .. Len(other) |-> k]
  BY DEF E!Init, Compared
<1>2. Len(one) \in Nat /\ Len(other) \in Nat /\ 0 \in 0 .. Len(one) BY <1>1, PathFacts
<1>3. \A k \in 0 .. Len(other) : Apart(0, k) = k BY <1>1, <1>2, Borders
<1> QED BY <1>1, <1>2, <1>3 DEF RowKept

(* One row suffices: whatever two paths are compared, each cell is the distance
   of two prefixes when it is read, although the row is overwritten while it is
   read, and what is returned is the distance of the paths (guest.rs:133-147). *)
THEOREM OneRowSuffices == E!Spec => []RowExact
<1> QED BY RowAtFirst, RowStep, RowKeptSays, PTL DEF E!Spec

-----------------------------------------------------------------------------
(* Profile.  How deep a block lies, and what lies in it. *)
Nesting == parent \in [Blocks \ {1} -> Blocks] /\ \A b \in Blocks \ {1} : parent[b] < b

LEMMA AreBlocks == 1 \in Blocks /\ \A b \in Blocks : b \in Nat /\ b >= 1
BY PartsAssumption DEF P!ProfileAssumption

LEMMA LeastBlock ==
  ASSUME NEW S \in SUBSET Blocks, S # {}
  PROVE  P!Min(S) \in S /\ \A b \in S : P!Min(S) <= b
<1>1. S \in SUBSET Nat BY AreBlocks
<1>2. D!Min(S) \in S /\ \A b \in S : D!Min(S) <= b BY <1>1, LeastOf
<1> QED BY <1>2 DEF D!Min, P!Min

LEMMA AboveItself == ASSUME NEW b \in Blocks PROVE b \in P!Above(b)
BY DEF P!Above

LEMMA AboveFirst == Nesting => P!Above(1) = {1}
<1>1. ASSUME NEW c \in P!Above(1) PROVE c = 1
  <2>1. {1} \in SUBSET Blocks BY AreBlocks
  <2> QED BY <1>1, <2>1 DEF P!Above
<1> QED BY <1>1, AreBlocks, AboveItself

LEMMA AboveNext ==
  ASSUME Nesting, NEW b \in Blocks \ {1}
  PROVE  P!Above(b) = {b} \cup P!Above(parent[b])
<1> DEFINE S == {b} \cup P!Above(parent[b])
<1>1. parent[b] \in Blocks BY DEF Nesting
<1>2. S \in SUBSET Blocks BY DEF P!Above
<1>3. ASSUME NEW d \in S \ {1} PROVE parent[d] \in S
  <2>1. CASE d = b BY <1>1, <2>1, AboveItself
  <2>2. CASE d \in P!Above(parent[b])
    <3>1. d \in Blocks /\ parent[d] \in Blocks BY <1>2, <1>3 DEF Nesting
    <3>2. ASSUME NEW T \in SUBSET Blocks, parent[b] \in T, \A e \in T \ {1} : parent[e] \in T
          PROVE  parent[d] \in T
      <4>1. d \in T BY <2>2, <3>2 DEF P!Above
      <4> QED BY <1>3, <3>2, <4>1
    <3>3. parent[d] \in P!Above(parent[b]) BY <3>1, <3>2 DEF P!Above
    <3> QED BY <3>3
  <2> QED BY <1>3, <2>1, <2>2
<1>4. P!Above(b) \subseteq S
  <2> SUFFICES ASSUME NEW c \in P!Above(b) PROVE c \in S OBVIOUS
  <2>1. b \in S OBVIOUS
  <2> HIDE DEF S
  <2> QED BY <1>2, <1>3, <2>1 DEF P!Above
<1>5. P!Above(parent[b]) \subseteq P!Above(b)
  <2> SUFFICES ASSUME NEW c \in P!Above(parent[b]) PROVE c \in P!Above(b) OBVIOUS
  <2>1. c \in Blocks BY DEF P!Above
  <2>2. ASSUME NEW T \in SUBSET Blocks, b \in T, \A e \in T \ {1} : parent[e] \in T PROVE c \in T
    <3>1. parent[b] \in T BY <2>2
    <3> QED BY <2>2, <3>1 DEF P!Above
  <2> QED BY <2>1, <2>2 DEF P!Above
<1> QED BY <1>4, <1>5, AboveItself

LEMMA AboveSmaller == ASSUME Nesting, NEW b \in Blocks PROVE P!Above(b) \subseteq 1 .. b
<1> DEFINE S == {c \in Blocks : c <= b}
<1>1. S \in SUBSET Blocks /\ b \in S BY AreBlocks
<1>2. ASSUME NEW d \in S \ {1} PROVE parent[d] \in S
  <2>1. d \in Blocks \ {1} /\ d <= b /\ parent[d] \in Blocks /\ parent[d] < d BY <1>2 DEF Nesting
  <2>2. b \in Nat /\ d \in Nat /\ parent[d] \in Nat BY <2>1, AreBlocks
  <2> QED BY <2>1, <2>2
<1>3. P!Above(b) \subseteq S
  <2> HIDE DEF S
  <2> QED BY <1>1, <1>2 DEF P!Above
<1> QED BY <1>3, AreBlocks

LEMMA AlikeCardinality == ASSUME NEW S PROVE P!Cardinality(S) = Cardinality(S)
BY DEF P!Cardinality, Cardinality

LEMMA Depths ==
  ASSUME Nesting, NEW b \in Blocks
  PROVE  P!Depth(b) = IF b = 1 THEN 0 ELSE P!Depth(parent[b]) + 1
<1>1. CASE b = 1
  <2>1. Cardinality({1}) = 1 BY FS_Singleton
  <2> QED BY <1>1, <2>1, AboveFirst, AlikeCardinality DEF P!Depth
<1>2. CASE b # 1
  <2>1. parent[b] \in Blocks /\ parent[b] < b /\ b \in Nat /\ parent[b] \in Nat
    BY <1>2, AreBlocks DEF Nesting
  <2>2. P!Above(parent[b]) \subseteq 1 .. parent[b] BY <2>1, AboveSmaller
  <2>3. IsFiniteSet(1 .. parent[b]) BY <2>1, FS_Interval
  <2>4. IsFiniteSet(P!Above(parent[b])) BY <2>2, <2>3, FS_Subset
  <2>5. b \notin P!Above(parent[b]) BY <2>1, <2>2
  <2>6. P!Above(b) = P!Above(parent[b]) \cup {b} BY <1>2, AboveNext
  <2>7. Cardinality(P!Above(b)) = Cardinality(P!Above(parent[b])) + 1
    BY <2>4, <2>5, <2>6, FS_AddElement
  <2>8. Cardinality(P!Above(parent[b])) \in Nat BY <2>4, FS_CardinalityType
  <2> QED BY <1>2, <2>7, <2>8, AlikeCardinality DEF P!Depth
<1> QED BY <1>1, <1>2

LEMMA FirstAbove == ASSUME Nesting, NEW b \in Blocks PROVE 1 \in P!Above(b)
<1> DEFINE S == {c \in Blocks : 1 \notin P!Above(c)}
<1> SUFFICES ASSUME S # {} PROVE FALSE OBVIOUS
<1>1. PICK c \in S : \A d \in S : c <= d
  <2> HIDE DEF S
  <2>1. S \in SUBSET Blocks BY DEF S
  <2> QED BY <2>1, LeastBlock
<1>2. c \in Blocks /\ c # 1 BY <1>1, AboveFirst
<1>3. parent[c] \in Blocks /\ parent[c] < c /\ c \in Nat /\ parent[c] \in Nat
  BY <1>2, AreBlocks DEF Nesting
<1>4. parent[c] \notin S BY <1>1, <1>3
<1> QED BY <1>1, <1>2, <1>3, <1>4, AboveNext

(* Whatever lies in a block is the block or lies in one of its own. *)
LEMMA AboveByChild ==
  ASSUME Nesting, NEW b \in Blocks, NEW d \in Blocks, b \in P!Above(d), b # d
  PROVE  \E c \in P!reps(b) : c \in P!Above(d)
<1> DEFINE S == {e \in Blocks : b \in P!Above(e) /\ b # e /\ ~\E c \in P!reps(b) : c \in P!Above(e)}
<1> SUFFICES ASSUME S # {} PROVE FALSE OBVIOUS
<1>1. PICK e \in S : \A x \in S : e <= x
  <2> HIDE DEF S
  <2>1. S \in SUBSET Blocks BY DEF S
  <2> QED BY <2>1, LeastBlock
<1>2. e \in Blocks /\ e # 1 BY <1>1, AboveFirst
<1>3. parent[e] \in Blocks /\ parent[e] < e /\ e \in Nat /\ parent[e] \in Nat
  BY <1>2, AreBlocks DEF Nesting
<1>4. P!Above(e) = {e} \cup P!Above(parent[e]) BY <1>2, AboveNext
<1>5. b \in P!Above(parent[e]) BY <1>1, <1>4
<1>6. CASE parent[e] = b
  <2>1. e \in P!reps(b) BY <1>2, <1>6 DEF P!reps
  <2> QED BY <1>1, <1>2, <2>1, AboveItself
<1>7. CASE parent[e] # b
  <2>1. parent[e] \notin S BY <1>1, <1>3
  <2> QED BY <1>1, <1>3, <1>4, <1>5, <1>7, <2>1
<1> QED BY <1>6, <1>7

(* A block is clean when nothing in it is to be refused. *)
Clean(b) == \A d \in Blocks : b \in P!Above(d) => P!Admissible(d)

LEMMA CleanByParts ==
  ASSUME Nesting, NEW b \in Blocks, P!Admissible(b), \A c \in P!reps(b) : Clean(c)
  PROVE  Clean(b)
BY AboveByChild DEF Clean

(* What the walk reads where an instruction of the compiler begins. *)
Emitted(b) == code[b].instructions

LEMMA CompiledBlock ==
  ASSUME code \in Programs, NEW b \in Blocks
  PROVE  P!Compiled(code[b])
BY PartsAssumption DEF P!ProfileAssumption

LEMMA Places ==
  ASSUME code \in Programs, NEW b \in Blocks
  PROVE  /\ Len(Emitted(b)) \in Nat /\ Len(P!iseq(b)) \in Nat
         /\ DOMAIN Emitted(b) = 1 .. Len(Emitted(b))
         /\ P!Place(code[b], 0) = 0
         /\ P!Place(code[b], Len(Emitted(b))) = Len(P!iseq(b))
         /\ \A n \in 0 .. Len(Emitted(b)) :
              /\ P!Place(code[b], n) \in 0 .. Len(P!iseq(b))
              /\ n < Len(Emitted(b)) =>
                   P!Place(code[b], n) = Emitted(b)[n + 1].first /\ P!Place(code[b], n) < Len(P!iseq(b))
<1>1. P!Compiled(code[b]) BY CompiledBlock
<1>2. Len(Emitted(b)) \in Nat /\ P!iseq(b) \in Seq(0 .. 255) /\ DOMAIN Emitted(b) = 1 .. Len(Emitted(b))
      /\ P!Place(code[b], 0) = 0
  BY <1>1 DEF P!Compiled, Emitted, P!iseq
<1>3. Len(P!iseq(b)) \in Nat BY <1>2, LenProperties
<1>4. P!Place(code[b], Len(Emitted(b))) = Len(P!iseq(b)) BY <1>2 DEF P!Place, Emitted, P!iseq
<1>5. ASSUME NEW n \in 0 .. Len(Emitted(b)), n < Len(Emitted(b))
      PROVE  /\ P!Place(code[b], n) = Emitted(b)[n + 1].first
             /\ P!Place(code[b], n) \in Nat /\ P!Place(code[b], n) < Len(P!iseq(b))
  <2>1. P!Place(code[b], n) = Emitted(b)[n + 1].first BY <1>5 DEF P!Place, Emitted
  <2>2. n + 1 \in DOMAIN Emitted(b) BY <1>2, <1>5
  <2> DEFINE i == Emitted(b)[n + 1]
  <2>3. P!Written(i, code[b]) BY <1>1, <2>2 DEF P!Compiled, Emitted
  <2>4. /\ i.first \in Nat /\ i.operands \in Seq(Nat)
        /\ i.ends \in [0 .. Len(i.operands) -> 1 .. Len(P!iseq(b))]
        /\ i.ends[0] = i.first + (IF i.ext = 0 THEN 1 ELSE 2)
    BY <2>3 DEF P!Written, P!iseq
  <2>5. 0 \in 0 .. Len(i.operands) BY <2>4, LenProperties
  <2>6. i.ends[0] \in 1 .. Len(P!iseq(b)) BY <2>4, <2>5
  <2> QED BY <1>3, <2>1, <2>4, <2>6
<1> QED BY <1>2, <1>3, <1>4, <1>5

LEMMA UpToFinite == ASSUME NEW k \in Nat PROVE IsFiniteSet(1 .. k)
<1>1. 1 \in Int /\ k \in Int OBVIOUS
<1> QED BY <1>1, FS_Interval

LEMMA Reads ==
  ASSUME code \in Programs, P!Top.irep \in Blocks,
         NEW n \in DOMAIN Emitted(P!Top.irep), P!Top.pc = Emitted(P!Top.irep)[n].first
  PROVE  /\ P!next_instruction = P!Place(code[P!Top.irep], n)
         /\ P!Denied <=> ~P!Harmless(Emitted(P!Top.irep)[n])
<1> DEFINE c == code[P!Top.irep]
           i == Emitted(P!Top.irep)[n]
           pc == P!Top.pc
<1>1. P!Written(i, c) /\ i.ends[Len(i.operands)] = P!Place(c, n)
  BY CompiledBlock DEF P!Compiled, Emitted
<1>2. /\ i.op \in DOMAIN Operands /\ i.ext \in {0} \cup DOMAIN Ext
      /\ Len(i.operands) = Operands[i.op] /\ pc \in Nat
      /\ i.ends \in [0 .. Len(i.operands) -> 1 .. Len(c.iseq)]
      /\ i.ends[0] = pc + (IF i.ext = 0 THEN 1 ELSE 2)
      /\ c.iseq[i.ends[0]] = i.op /\ (i.ext # 0 => c.iseq[pc + 1] = i.ext)
  BY <1>1 DEF P!Written
<1>3. /\ Operands[i.op] \in Nat /\ i.op \notin DOMAIN Ext /\ 0 \notin DOMAIN Ext
      /\ i.op \in Sends => Operands[i.op] >= 2
  BY <1>2, PartsAssumption DEF P!ProfileAssumption
<1>4. \A k \in Int : P!At(k) = c.iseq[pc + 1 + k] BY DEF P!At, P!iseq
<1>41. P!At(0) = c.iseq[pc + 1] /\ P!At(1) = c.iseq[pc + 2]
  <2>1. pc + 1 + 0 = pc + 1 /\ pc + 1 + 1 = pc + 2 BY <1>2
  <2>2. P!At(0) = c.iseq[pc + 1 + 0] /\ P!At(1) = c.iseq[pc + 1 + 1] BY <1>4
  <2> QED BY <2>1, <2>2
<1>5. P!Prefix = i.ext /\ P!Opcode = i.op
  <2> HIDE DEF c, i, pc
  <2>1. CASE i.ext = 0
    <3>1. P!At(0) = i.op BY <1>2, <1>41, <2>1
    <3> QED BY <1>3, <2>1, <3>1 DEF P!Prefix, P!Opcode
  <2>2. CASE i.ext # 0
    <3>1. P!At(0) = i.ext /\ P!At(1) = i.op /\ i.ext \in DOMAIN Ext BY <1>2, <1>41, <2>2
    <3> QED BY <2>2, <3>1 DEF P!Prefix, P!Opcode
  <2> QED BY <2>1, <2>2
<1> DEFINE W == P!Widened(i.ext, i.op)
           last == Len(i.operands)
<1>6. last \in Nat /\ last = Operands[i.op] BY <1>2, <1>3
<1>7. \A k \in 1 .. last : /\ i.ends[k] = i.ends[k - 1] + (IF k \in W THEN 2 ELSE 1)
                           /\ i.operands[k] = IF k \in W THEN 256 * c.iseq[i.ends[k] - 1] + c.iseq[i.ends[k]]
                                              ELSE c.iseq[i.ends[k]]
  BY <1>1 DEF P!Written
<1>8. P!Skip(0) = i.ends[0] - pc
  <2>1. W \cap (1 .. 0) = {} OBVIOUS
  <2>3. P!Cardinality(W \cap (1 .. 0)) = Cardinality({}) BY <2>1, AlikeCardinality
  <2>2. P!Cardinality(W \cap (1 .. 0)) = 0 BY <2>3, FS_EmptySet
  <2> HIDE DEF W, i
  <2> QED BY <1>2, <1>5, <2>2 DEF P!Skip, W
<1>9. ASSUME NEW k \in Nat PROVE P!Skip(k + 1) = P!Skip(k) + (IF k + 1 \in W THEN 2 ELSE 1)
                                 /\ P!Skip(k) \in Nat
  <2>1. IsFiniteSet(1 .. k) BY UpToFinite
  <2>2. IsFiniteSet(W \cap (1 .. k)) BY <2>1, FS_Subset
  <2>3. k + 1 \notin W \cap (1 .. k) OBVIOUS
  <2>4. W \cap (1 .. k + 1) = (W \cap (1 .. k)) \cup (IF k + 1 \in W THEN {k + 1} ELSE {}) OBVIOUS
  <2>5. Cardinality(W \cap (1 .. k + 1)) = Cardinality(W \cap (1 .. k)) + (IF k + 1 \in W THEN 1 ELSE 0)
    <3> HIDE DEF W
    <3>0. Cardinality(W \cap (1 .. k)) \in Nat BY <2>2, FS_CardinalityType
    <3>1. CASE k + 1 \in W
      <4>1. W \cap (1 .. k + 1) = (W \cap (1 .. k)) \cup {k + 1} BY <2>4, <3>1
      <4> QED BY <2>2, <2>3, <3>1, <4>1, FS_AddElement
    <3>2. CASE k + 1 \notin W
      <4>1. W \cap (1 .. k + 1) = W \cap (1 .. k) BY <2>4, <3>2
      <4> QED BY <3>0, <3>2, <4>1
    <3> QED BY <3>1, <3>2
  <2>6. Cardinality(W \cap (1 .. k)) \in Nat BY <2>2, FS_CardinalityType
  <2> HIDE DEF W, i
  <2> QED BY <1>5, <2>5, <2>6, AlikeCardinality DEF P!Skip, W
<1>10. \A k \in 0 .. last : pc + P!Skip(k) = i.ends[k]
  <2> HIDE DEF W, c
  <2> DEFINE wrong == {k \in 0 .. last : pc + P!Skip(k) # i.ends[k]}
  <2> SUFFICES ASSUME wrong # {} PROVE FALSE OBVIOUS
  <2>1. wrong \in SUBSET Nat BY <1>6
  <2>2. PICK k \in wrong : \A m \in wrong : k <= m
    <3> HIDE DEF wrong
    <3> QED BY <2>1, LeastOf
  <2>3. k # 0 BY <1>2, <1>6, <1>8, <2>2
  <2>4. k - 1 \in Nat /\ k - 1 \in 0 .. last /\ k - 1 \notin wrong /\ k \in 1 .. last
    BY <1>6, <2>2, <2>3
  <2>5. P!Skip(k) = P!Skip(k - 1) + (IF k \in W THEN 2 ELSE 1) /\ P!Skip(k - 1) \in Nat
    <3>1. (k - 1) + 1 = k BY <2>4
    <3> QED BY <1>9, <2>4, <3>1
  <2>6. pc + P!Skip(k - 1) = i.ends[k - 1] BY <2>4
  <2>7. i.ends[k] = i.ends[k - 1] + (IF k \in W THEN 2 ELSE 1) BY <1>7, <2>4
  <2> QED BY <1>2, <2>2, <2>5, <2>6, <2>7
<1>11. P!next_instruction = P!Place(c, n)
  <2>1. pc + P!Skip(last) = i.ends[last] BY <1>6, <1>10
  <2> QED BY <1>1, <1>5, <1>6, <2>1 DEF P!next_instruction
<1>12. ASSUME i.op \in Sends PROVE P!Symbol = i.operands[2]
  <2>1. 2 \in 0 .. last /\ 2 \in 1 .. last BY <1>3, <1>6, <1>12
  <2>2. pc + P!Skip(2) = i.ends[2] /\ i.ends[2] \in Nat BY <1>2, <1>10, <2>1
  <2>3. P!Skip(2) \in Nat BY <1>9
  <2>4. P!At(P!Skip(2) - 1) = c.iseq[i.ends[2]] /\ P!At(P!Skip(2) - 2) = c.iseq[i.ends[2] - 1]
    <3>1. pc + 1 + (P!Skip(2) - 1) = i.ends[2] /\ pc + 1 + (P!Skip(2) - 2) = i.ends[2] - 1
      <4>1. pc \in Nat BY <1>2
      <4> HIDE DEF pc, i
      <4> QED BY <2>2, <2>3, <4>1
    <3>2. P!Skip(2) - 1 \in Int /\ P!Skip(2) - 2 \in Int BY <2>3
    <3> HIDE DEF pc, c, i
    <3> QED BY <1>4, <3>1, <3>2
  <2> HIDE DEF c, i
  <2> QED BY <1>5, <1>7, <2>1, <2>4 DEF P!Symbol, W
<1>13. P!Denied <=> ~P!Harmless(i)
  BY <1>5, <1>12 DEF P!Denied, P!Harmless
<1> QED BY <1>11, <1>13

-----------------------------------------------------------------------------
(* An activation of admit(): the instructions before its place are harmless, and of
   the blocks in its own each is still to do, under way, or clean.             *)
Activation == [irep : Blocks, pc : Nat, todo : SUBSET Blocks]

Passed(b, pc) ==
  \E n \in 0 .. Len(Emitted(b)) :
    pc = P!Place(code[b], n) /\ \A m \in 1 .. n : P!Harmless(Emitted(b)[m])

Underway(s, k) ==
  /\ P!Depth(s[k].irep) = Len(s) - k
  /\ IF k = Len(s) THEN s[k].irep = 1 ELSE s[k].irep \in P!reps(s[k + 1].irep)
  /\ Passed(s[k].irep, s[k].pc) /\ (k > 1 => s[k].pc = Len(P!iseq(s[k].irep)))
  /\ s[k].todo \subseteq P!reps(s[k].irep)
  /\ \A c \in P!reps(s[k].irep) :
       c \in s[k].todo \/ (k > 1 /\ c = s[k - 1].irep) \/ Clean(c)

Walked ==
  /\ code \in Programs /\ Nesting /\ verdict \in {"none", "admitted", "profile_error"}
  /\ stack \in Seq(Activation) /\ (verdict = "admitted" <=> stack = <<>>)
  /\ Len(stack) <= MaxNesting + 2 /\ (Len(stack) = MaxNesting + 2 => stack[1].pc = 0)
  /\ \A k \in 1 .. Len(stack) : Underway(stack, k)
  /\ verdict = "admitted" => Clean(1)
  /\ verdict = "profile_error" => \E b \in Blocks : ~P!Admissible(b)

LEMMA SameCode ==
  ASSUME UNCHANGED <<code, parent>>
  PROVE  /\ Nesting' <=> Nesting
         /\ \A b : /\ P!reps(b)' = P!reps(b) /\ (Clean(b)' <=> Clean(b))
                   /\ (P!Admissible(b)' <=> P!Admissible(b))
                   /\ P!Depth(b)' = P!Depth(b) /\ P!iseq(b)' = P!iseq(b)
         /\ \A b, pc : Passed(b, pc)' <=> Passed(b, pc)
         /\ \A s, k : Underway(s, k)' <=> Underway(s, k)
<1>1. \A b : P!Above(b)' = P!Above(b) BY DEF P!Above
<1>2. \A b : P!Depth(b)' = P!Depth(b) BY <1>1 DEF P!Depth
<1>3. \A b : P!Admissible(b)' <=> P!Admissible(b) BY <1>2 DEF P!Admissible
<1>4. \A b : Clean(b)' <=> Clean(b) BY <1>1, <1>3 DEF Clean
<1>5. \A b : P!reps(b)' = P!reps(b) /\ P!iseq(b)' = P!iseq(b) BY DEF P!reps, P!iseq
<1>6. \A b, pc : Passed(b, pc)' <=> Passed(b, pc) BY DEF Passed, Emitted
<1>7. \A s, k : Underway(s, k)' <=> Underway(s, k)
  <2> SUFFICES ASSUME NEW s, NEW k PROVE Underway(s, k)' <=> Underway(s, k) OBVIOUS
  <2>1. P!Depth(s[k].irep)' = P!Depth(s[k].irep) BY <1>2
  <2>2. /\ P!reps(s[k + 1].irep)' = P!reps(s[k + 1].irep) /\ P!reps(s[k].irep)' = P!reps(s[k].irep)
        /\ P!iseq(s[k].irep)' = P!iseq(s[k].irep)
    BY <1>5
  <2>3. Passed(s[k].irep, s[k].pc)' <=> Passed(s[k].irep, s[k].pc) BY <1>6
  <2> QED BY <1>4, <2>1, <2>2, <2>3, ZenonT(30) DEF Underway
<1>8. Nesting' <=> Nesting BY DEF Nesting
<1> QED BY <1>2, <1>3, <1>4, <1>5, <1>6, <1>7, <1>8, Zenon

LEMMA UnderwayLater ==
  ASSUME UNCHANGED <<code, parent>>, \A k \in 1 .. Len(stack') : Underway(stack', k)
  PROVE  \A k \in 1 .. Len(stack') : Underway(stack, k)'
<1> SUFFICES ASSUME NEW k \in 1 .. Len(stack') PROVE Underway(stack, k)' OBVIOUS
<1>1. Underway(stack', k) OBVIOUS
<1>2. /\ \A b : P!reps(b)' = P!reps(b) /\ (Clean(b)' <=> Clean(b))
      /\ \A b : P!Depth(b)' = P!Depth(b) /\ P!iseq(b)' = P!iseq(b)
      /\ \A b, pc : Passed(b, pc)' <=> Passed(b, pc)
  BY SameCode
<1> QED BY <1>1, <1>2 DEF Underway

LEMMA TopFacts ==
  ASSUME Walked, verdict = "none"
  PROVE  /\ stack # <<>> /\ Len(stack) \in Nat /\ Len(stack) >= 1 /\ P!Top = stack[1]
         /\ P!Top \in Activation /\ P!Top.irep \in Blocks /\ Underway(stack, 1)
         /\ DOMAIN stack = 1 .. Len(stack) /\ \A k \in 1 .. Len(stack) : stack[k] \in Activation
<1>1. stack \in Seq(Activation) /\ stack # <<>> BY DEF Walked
<1>2. Len(stack) \in Nat /\ DOMAIN stack = 1 .. Len(stack)
      /\ \A k \in 1 .. Len(stack) : stack[k] \in Activation
  BY <1>1, LenProperties, ElementOfSeq
<1>3. Len(stack) # 0 BY <1>1, EmptySeq
<1>4. P!Top = stack[1] BY <1>1 DEF P!Top
<1>5. 1 \in 1 .. Len(stack) BY <1>2, <1>3
<1>6. P!Top \in Activation /\ P!Top.irep \in Blocks BY <1>2, <1>4, <1>5 DEF Activation
<1>7. Underway(stack, 1) BY <1>5 DEF Walked
<1> QED BY <1>1, <1>2, <1>3, <1>4, <1>5, <1>6, <1>7

(* At an instruction, or at the end. *)
LEMMA TopStands ==
  ASSUME Walked, verdict = "none"
  PROVE  /\ P!More => \E n \in 1 .. Len(Emitted(P!Top.irep)) :
              /\ P!Top.pc = Emitted(P!Top.irep)[n].first
              /\ \A m \in 1 .. n - 1 : P!Harmless(Emitted(P!Top.irep)[m])
         /\ ~P!More => /\ P!Top.pc = Len(P!iseq(P!Top.irep))
                       /\ \A m \in 1 .. Len(Emitted(P!Top.irep)) : P!Harmless(Emitted(P!Top.irep)[m])
<1> DEFINE b == P!Top.irep
           last == Len(Emitted(b))
<1>1. code \in Programs /\ b \in Blocks BY TopFacts DEF Walked
<1>2. PICK n \in 0 .. last :
        P!Top.pc = P!Place(code[b], n) /\ \A m \in 1 .. n : P!Harmless(Emitted(b)[m])
  BY TopFacts DEF Underway, Passed
<1>3. /\ last \in Nat /\ Len(P!iseq(b)) \in Nat
      /\ P!Place(code[b], last) = Len(P!iseq(b))
      /\ P!Place(code[b], n) \in 0 .. Len(P!iseq(b))
      /\ n < last => P!Place(code[b], n) = Emitted(b)[n + 1].first /\ P!Place(code[b], n) < Len(P!iseq(b))
  BY <1>1, Places
<1> HIDE DEF b
<1>4. CASE n = last
  <2>1. ~(P!Top.pc < Len(P!iseq(b))) BY <1>2, <1>3, <1>4
  <2> QED BY <1>2, <1>3, <1>4, <2>1 DEF P!More, b
<1>5. CASE n # last
  <2>1. n < last /\ n + 1 \in 1 .. last /\ n = (n + 1) - 1 BY <1>3, <1>5
  <2>2. P!Top.pc < Len(P!iseq(b)) /\ P!Top.pc = Emitted(b)[n + 1].first BY <1>2, <1>3, <2>1
  <2>3. \A m \in 1 .. (n + 1) - 1 : P!Harmless(Emitted(b)[m]) BY <1>2, <2>1
  <2> QED BY <2>1, <2>2, <2>3 DEF P!More, b
<1> QED BY <1>4, <1>5

LEMMA WalkedRefuses ==
  ASSUME Walked, verdict = "none", P!Refuse, UNCHANGED <<code, parent>>,
         \E b \in Blocks : ~P!Admissible(b)
  PROVE  Walked'
<1>1. stack' = stack /\ verdict' = "profile_error" BY DEF P!Refuse
<1>2. stack # <<>> BY TopFacts
<1>3. \A k \in 1 .. Len(stack) : Underway(stack, k)' BY <1>1, SameCode DEF Walked
<1>4. Nesting' BY SameCode DEF Walked
<1>5. \E b \in Blocks : ~P!Admissible(b)' BY SameCode
<1> QED BY <1>1, <1>2, <1>3, <1>4, <1>5 DEF Walked

LEMMA WalkedDeeper == ASSUME Walked, P!TooDeep, UNCHANGED <<code, parent>> PROVE Walked'
<1>1. verdict = "none" /\ ~P!Shallow /\ P!Refuse BY DEF P!TooDeep
<1>2. P!Depth(P!Top.irep) = Len(stack) - 1 /\ P!Top.irep \in Blocks /\ Len(stack) \in Nat
  BY <1>1, TopFacts DEF Underway
<1>3. ~(P!Depth(P!Top.irep) <= MaxNesting)
  <2>1. MaxNesting \in Nat BY PartsAssumption DEF P!ProfileAssumption
  <2> QED BY <1>1, <1>2, <2>1 DEF P!Shallow
<1>4. ~P!Admissible(P!Top.irep) BY <1>3 DEF P!Admissible
<1> QED BY <1>1, <1>2, <1>4, WalkedRefuses

LEMMA WalkedInstruction == ASSUME Walked, P!Instruction, UNCHANGED <<code, parent>> PROVE Walked'
<1> DEFINE b == P!Top.irep
           t == [P!Top EXCEPT !.pc = P!next_instruction]
<1>1. /\ verdict = "none" /\ P!Shallow /\ P!More
      /\ IF P!Denied \/ P!next_instruction > Len(P!iseq(b)) THEN P!Refuse
         ELSE stack' = [stack EXCEPT ![1].pc = P!next_instruction] /\ UNCHANGED verdict
  BY DEF P!Instruction
<1>2. /\ code \in Programs /\ Nesting /\ stack \in Seq(Activation) /\ Len(stack) \in Nat /\ Len(stack) >= 1
      /\ P!Top = stack[1] /\ P!Top \in Activation /\ b \in Blocks /\ Underway(stack, 1)
      /\ stack # <<>> /\ 1 \in 1 .. Len(stack) /\ \A k \in 1 .. Len(stack) : stack[k] \in Activation
  BY <1>1, TopFacts DEF Walked
<1>3. PICK n \in 1 .. Len(Emitted(b)) : /\ P!Top.pc = Emitted(b)[n].first
                                        /\ \A m \in 1 .. n - 1 : P!Harmless(Emitted(b)[m])
  BY <1>1, TopStands
<1>4. /\ Len(Emitted(b)) \in Nat /\ n \in DOMAIN Emitted(b) /\ n \in 0 .. Len(Emitted(b))
      /\ P!Place(code[b], n) \in 0 .. Len(P!iseq(b)) /\ Len(P!iseq(b)) \in Nat
  BY <1>2, Places
<1>5. P!next_instruction = P!Place(code[b], n) /\ (P!Denied <=> ~P!Harmless(Emitted(b)[n]))
  BY <1>2, <1>3, <1>4, Reads
<1>6. P!next_instruction \in Nat /\ ~(P!next_instruction > Len(P!iseq(b))) BY <1>4, <1>5
<1>7. CASE P!Denied
  <2>1. ~P!Admissible(b) BY <1>4, <1>5, <1>7 DEF P!Admissible, Emitted
  <2> QED BY <1>1, <1>2, <1>7, <2>1, WalkedRefuses
<1>8. CASE ~P!Denied
  <2>1. stack' = [stack EXCEPT ![1].pc = P!next_instruction] /\ verdict' = "none"
    BY <1>1, <1>6, <1>8
  <2>2. t \in Activation /\ t.irep = b /\ t.pc = P!next_instruction /\ t.todo = P!Top.todo
    BY <1>2, <1>6 DEF Activation
  <2>3. stack' = [stack EXCEPT ![1] = t]
    BY <1>2, <2>1
  <2>4. /\ stack' \in Seq(Activation) /\ Len(stack') = Len(stack)
        /\ \A k \in 1 .. Len(stack) : stack'[k] = IF k = 1 THEN t ELSE stack[k]
    <3> HIDE DEF t
    <3> QED BY <1>2, <2>2, <2>3, ExceptSeq
  <2>5. \A k \in 1 .. Len(stack) : stack'[k].irep = stack[k].irep /\ stack'[k].todo = stack[k].todo
    <3> HIDE DEF t
    <3> QED BY <1>2, <2>2, <2>4
  <2>6. Passed(b, P!next_instruction)
    <3>1. \A m \in 1 .. n : P!Harmless(Emitted(b)[m])
      <4> SUFFICES ASSUME NEW m \in 1 .. n PROVE P!Harmless(Emitted(b)[m]) OBVIOUS
      <4>1. m = n \/ m \in 1 .. n - 1 BY <1>4
      <4> QED BY <1>3, <1>5, <1>8, <4>1
    <3> QED BY <1>4, <1>5, <3>1 DEF Passed
  <2>7. ASSUME NEW k \in 1 .. Len(stack) PROVE Underway(stack', k)
    <3>1. Underway(stack, k) BY DEF Walked
    <3>2. k # Len(stack) => k + 1 \in 1 .. Len(stack) BY <1>2
    <3>3. k > 1 => k - 1 \in 1 .. Len(stack) /\ stack'[k] = stack[k] BY <1>2, <2>4
    <3>4. Passed(stack'[k].irep, stack'[k].pc)
      <4>1. CASE k = 1
        <5> HIDE DEF t
        <5> QED BY <2>2, <2>4, <2>6, <4>1
      <4>2. CASE k # 1 BY <2>4, <3>1, <4>2 DEF Underway
      <4> QED BY <4>1, <4>2
    <3>5. IF k = Len(stack') THEN stack'[k].irep = 1 ELSE stack'[k].irep \in P!reps(stack'[k + 1].irep)
      BY <2>4, <2>5, <3>1, <3>2 DEF Underway
    <3>6. k > 1 => stack'[k].pc = Len(P!iseq(stack'[k].irep))
      BY <3>1, <3>3 DEF Underway
    <3>7. ASSUME NEW c \in P!reps(stack'[k].irep)
          PROVE  c \in stack'[k].todo \/ (k > 1 /\ c = stack'[k - 1].irep) \/ Clean(c)
      BY <2>5, <3>1, <3>3, <3>7 DEF Underway
    <3> QED BY <2>4, <2>5, <3>1, <3>4, <3>5, <3>6, <3>7 DEF Underway
  <2>8. \A k \in 1 .. Len(stack') : Underway(stack, k)' BY <2>4, <2>7, SameCode DEF Underway
  <2>9. Len(stack') <= MaxNesting + 1 /\ MaxNesting \in Nat
    BY <1>1, <2>4, PartsAssumption DEF P!Shallow, P!ProfileAssumption
  <2>10. stack' # <<>> BY <1>2, <2>4, EmptySeq
  <2>11. Nesting' /\ code' \in Programs BY <1>2, SameCode
  <2>12. /\ verdict' = "none" /\ stack' \in Seq(Activation)
         /\ Len(stack') <= MaxNesting + 2 /\ Len(stack') # MaxNesting + 2
    <3>1. Len(stack') \in Nat /\ stack' \in Seq(Activation) BY <1>2, <2>4
    <3> QED BY <2>1, <2>9, <3>1
  <2> QED BY <2>8, <2>10, <2>11, <2>12 DEF Walked
<1> QED BY <1>7, <1>8

LEMMA WalkedDescends == ASSUME Walked, P!Descend, UNCHANGED <<code, parent>> PROVE Walked'
<1> DEFINE b == P!Min(P!Top.todo)
           t == [P!Top EXCEPT !.todo = @ \ {b}]
           two == <<P!Enter(b), t>>
<1>1. /\ verdict = "none" /\ verdict' = "none" /\ P!Shallow /\ ~P!More /\ P!Top.todo # {}
      /\ stack' = two \o Tail(stack)
  BY DEF P!Descend, P!Nested
<1>2. /\ code \in Programs /\ Nesting /\ stack \in Seq(Activation) /\ Len(stack) \in Nat /\ Len(stack) >= 1
      /\ P!Top = stack[1] /\ P!Top \in Activation /\ P!Top.irep \in Blocks /\ Underway(stack, 1)
      /\ stack # <<>> /\ 1 \in 1 .. Len(stack) /\ \A k \in 1 .. Len(stack) : stack[k] \in Activation
  BY <1>1, TopFacts DEF Walked
<1>3. b \in P!Top.todo /\ b \in Blocks
  <2>1. P!Top.todo \in SUBSET Blocks BY <1>2 DEF Activation
  <2> QED BY <1>1, <2>1, LeastBlock
<1>4. b \in P!reps(P!Top.irep) /\ b # 1 /\ parent[b] = P!Top.irep
  BY <1>2, <1>3 DEF Underway, P!reps
<1>5. /\ P!Enter(b) \in Activation /\ P!Enter(b).irep = b /\ P!Enter(b).pc = 0 /\ P!Enter(b).todo = P!reps(b)
  <2>1. P!reps(b) \in SUBSET Blocks BY DEF P!reps
  <2> HIDE DEF b
  <2> QED BY <1>3, <2>1 DEF P!Enter, Activation
<1>6. t \in Activation /\ t.irep = P!Top.irep /\ t.pc = P!Top.pc /\ t.todo = P!Top.todo \ {b}
  <2> HIDE DEF b
  <2> QED BY <1>2 DEF Activation
<1> HIDE DEF b, t
<1>7. /\ stack' \in Seq(Activation) /\ Len(stack') = Len(stack) + 1
      /\ stack'[1] = P!Enter(b) /\ stack'[2] = t
      /\ \A k \in 2 .. Len(stack) : stack'[k + 1] = stack[k]
  <2>1. two \in Seq(Activation) /\ Len(two) = 2 /\ two[1] = P!Enter(b) /\ two[2] = t BY <1>5, <1>6
  <2>2. /\ Tail(stack) \in Seq(Activation) /\ Len(Tail(stack)) = Len(stack) - 1
        /\ \A k \in 1 .. Len(Tail(stack)) : Tail(stack)[k] = stack[k + 1]
    BY <1>2, HeadTailProperties
  <2> HIDE DEF two
  <2>3. /\ stack' \in Seq(Activation) /\ Len(stack') = 2 + (Len(stack) - 1)
        /\ \A k \in 1 .. 2 + (Len(stack) - 1) : stack'[k] = IF k <= 2 THEN two[k] ELSE Tail(stack)[k - 2]
    <3>1. /\ two \o Tail(stack) \in Seq(Activation)
          /\ Len(two \o Tail(stack)) = Len(two) + Len(Tail(stack))
          /\ \A k \in 1 .. Len(two) + Len(Tail(stack)) :
               (two \o Tail(stack))[k] = IF k <= Len(two) THEN two[k] ELSE Tail(stack)[k - Len(two)]
      BY <2>1, <2>2, ConcatProperties
    <3> QED BY <1>1, <2>1, <2>2, <3>1
  <2>4. stack'[1] = two[1] /\ stack'[2] = two[2] BY <1>2, <2>3
  <2>5. ASSUME NEW k \in 2 .. Len(stack) PROVE stack'[k + 1] = stack[k]
    <3>1. /\ k + 1 \in 1 .. 2 + (Len(stack) - 1) /\ ~(k + 1 <= 2) /\ (k + 1) - 2 = k - 1
          /\ k - 1 \in 1 .. Len(Tail(stack)) /\ (k - 1) + 1 = k
      BY <1>2, <2>2
    <3>2. stack'[k + 1] = Tail(stack)[k - 1] BY <2>3, <3>1
    <3> QED BY <2>2, <3>1, <3>2
  <2>6. 2 + (Len(stack) - 1) = Len(stack) + 1 BY <1>2
  <2> QED BY <2>1, <2>3, <2>4, <2>5, <2>6
<1> HIDE DEF two
<1>8. P!Top.pc = Len(P!iseq(P!Top.irep)) BY <1>1, TopStands
<1>9. P!Depth(P!Top.irep) = Len(stack) - 1 BY <1>2 DEF Underway
<1>10. Underway(stack', 1)
  <2>1. P!Depth(b) = Len(stack') - 1 BY <1>2, <1>3, <1>4, <1>7, <1>9, Depths
  <2>2. Passed(b, 0)
    <3>1. 0 \in 0 .. Len(Emitted(b)) /\ P!Place(code[b], 0) = 0 BY <1>2, <1>3, Places
    <3> QED BY <3>1 DEF Passed
  <2>3. Len(stack') # 1 BY <1>2, <1>7
  <2> QED BY <1>4, <1>5, <1>6, <1>7, <2>1, <2>2, <2>3 DEF Underway
<1>11. Underway(stack', 2)
  <2>1. P!Depth(t.irep) = Len(stack') - 2 BY <1>2, <1>6, <1>7, <1>9
  <2>2. IF 2 = Len(stack') THEN t.irep = 1 ELSE t.irep \in P!reps(stack'[2 + 1].irep)
    <3>1. CASE Len(stack) = 1 BY <1>2, <1>6, <1>7, <3>1 DEF Underway
    <3>2. CASE Len(stack) # 1
      <4>0. Len(stack) \in Nat /\ Len(stack) >= 1 /\ Len(stack') = Len(stack) + 1 BY <1>2, <1>7
      <4>1. 2 \in 2 .. Len(stack) /\ Len(stack') # 2
        <5>1. \A n \in Nat : n >= 1 /\ n # 1 => 2 \in 2 .. n /\ n + 1 # 2 OBVIOUS
        <5> QED BY <3>2, <4>0, <5>1, Zenon
      <4>2. P!Top.irep \in P!reps(stack[1 + 1].irep) BY <1>2, <3>2 DEF Underway
      <4> QED BY <1>6, <1>7, <4>1, <4>2
    <3> QED BY <3>1, <3>2
  <2>3. Passed(t.irep, t.pc) BY <1>2, <1>6 DEF Underway
  <2>4. t.todo \subseteq P!reps(t.irep) BY <1>2, <1>6 DEF Underway
  <2>5. ASSUME NEW c \in P!reps(t.irep) PROVE c \in t.todo \/ c = b \/ Clean(c)
    BY <1>2, <1>6 DEF Underway
  <2>6. stack'[2 - 1].irep = b BY <1>5, <1>7
  <2> QED BY <1>6, <1>7, <1>8, <2>1, <2>2, <2>3, <2>4, <2>5, <2>6 DEF Underway
<1>12. ASSUME NEW k \in 2 .. Len(stack) PROVE Underway(stack', k + 1)
  <2>1. k \in 1 .. Len(stack) /\ k \in Nat /\ k > 1 /\ stack'[k + 1] = stack[k] BY <1>2, <1>7
  <2>2. Underway(stack, k) BY <2>1 DEF Walked
  <2>3. P!Depth(stack'[k + 1].irep) = Len(stack') - (k + 1)
    BY <1>2, <1>7, <2>1, <2>2 DEF Underway
  <2>4. IF k + 1 = Len(stack') THEN stack'[k + 1].irep = 1
        ELSE stack'[k + 1].irep \in P!reps(stack'[(k + 1) + 1].irep)
    <3>1. CASE k = Len(stack) BY <1>7, <2>1, <2>2, <3>1 DEF Underway
    <3>2. CASE k # Len(stack)
      <4>1. k + 1 \in 2 .. Len(stack) /\ k + 1 # Len(stack') BY <1>2, <1>7, <3>2
      <4>2. stack'[(k + 1) + 1] = stack[k + 1] BY <1>7, <4>1
      <4> QED BY <2>1, <2>2, <3>2, <4>1, <4>2 DEF Underway
    <3> QED BY <3>1, <3>2
  <2>5. stack'[(k + 1) - 1].irep = stack[k - 1].irep
    <3>1. CASE k = 2 BY <1>2, <1>6, <1>7, <3>1
    <3>2. CASE k # 2
      <4>1. k - 1 \in 2 .. Len(stack) /\ (k - 1) + 1 = k /\ (k + 1) - 1 = k BY <1>2, <3>2
      <4>2. stack'[k] = stack[k - 1] BY <1>7, <4>1
      <4> QED BY <4>1, <4>2
    <3> QED BY <3>1, <3>2
  <2>6. ASSUME NEW c \in P!reps(stack'[k + 1].irep)
        PROVE  c \in stack'[k + 1].todo \/ (k + 1 > 1 /\ c = stack'[(k + 1) - 1].irep) \/ Clean(c)
    <3>1. c \in stack[k].todo \/ c = stack[k - 1].irep \/ Clean(c)
      BY <2>1, <2>2, <2>6 DEF Underway
    <3> QED BY <2>1, <2>5, <3>1
  <2>7. /\ Passed(stack'[k + 1].irep, stack'[k + 1].pc)
        /\ stack'[k + 1].pc = Len(P!iseq(stack'[k + 1].irep))
        /\ stack'[k + 1].todo \subseteq P!reps(stack'[k + 1].irep)
    BY <2>1, <2>2 DEF Underway
  <2> QED BY <2>3, <2>4, <2>6, <2>7 DEF Underway
<1>13. ASSUME NEW k \in 1 .. Len(stack') PROVE Underway(stack', k)
  <2>1. k = 1 \/ k = 2 \/ (k - 1 \in 2 .. Len(stack) /\ (k - 1) + 1 = k) BY <1>2, <1>7
  <2> QED BY <1>10, <1>11, <1>12, <2>1
<1>14. \A k \in 1 .. Len(stack') : Underway(stack, k)' BY <1>13, UnderwayLater
<1>15. Len(stack') <= MaxNesting + 2 /\ stack'[1].pc = 0
  <2>1. MaxNesting \in Nat BY PartsAssumption DEF P!ProfileAssumption
  <2> QED BY <1>1, <1>2, <1>5, <1>7, <2>1 DEF P!Shallow
<1>16. stack' # <<>> BY <1>2, <1>7, EmptySeq
<1>17. Nesting' /\ code' \in Programs BY <1>2, SameCode
<1> QED BY <1>1, <1>7, <1>14, <1>15, <1>16, <1>17 DEF Walked

LEMMA WalkedReturns == ASSUME Walked, P!Return, UNCHANGED <<code, parent>> PROVE Walked'
<1> DEFINE b == P!Top.irep
<1>1. /\ verdict = "none" /\ P!Shallow /\ ~P!More /\ P!Top.todo = {}
      /\ stack' = Tail(stack) /\ verdict' = IF Len(stack) = 1 THEN "admitted" ELSE "none"
  BY DEF P!Return, P!Nested
<1>2. /\ code \in Programs /\ Nesting /\ stack \in Seq(Activation) /\ Len(stack) \in Nat /\ Len(stack) >= 1
      /\ P!Top = stack[1] /\ P!Top \in Activation /\ b \in Blocks /\ Underway(stack, 1) /\ stack # <<>>
  BY <1>1, TopFacts DEF Walked
<1>3. MaxNesting \in Nat BY PartsAssumption DEF P!ProfileAssumption
<1>4. P!Admissible(b)
  <2>1. P!Depth(b) <= MaxNesting
    <3>1. P!Depth(b) = Len(stack) - 1 BY <1>2 DEF Underway
    <3> QED BY <1>1, <1>2, <1>3, <3>1 DEF P!Shallow
  <2>2. DOMAIN Emitted(b) = 1 .. Len(Emitted(b)) BY <1>2, Places
  <2>3. \A m \in 1 .. Len(Emitted(b)) : P!Harmless(Emitted(b)[m]) BY <1>1, TopStands
  <2> QED BY <2>1, <2>2, <2>3 DEF P!Admissible, Emitted
<1>5. Clean(b)
  <2>1. \A c \in P!reps(b) : Clean(c) BY <1>1, <1>2 DEF Underway
  <2> QED BY <1>2, <1>4, <2>1, CleanByParts
<1> HIDE DEF b
<1>6. /\ stack' \in Seq(Activation) /\ Len(stack') = Len(stack) - 1
      /\ \A k \in 1 .. Len(stack') : stack'[k] = stack[k + 1]
  BY <1>1, <1>2, HeadTailProperties
<1>7. ASSUME NEW k \in 1 .. Len(stack') PROVE Underway(stack', k)
  <2>1. /\ k + 1 \in 1 .. Len(stack) /\ k \in 1 .. Len(stack) /\ k + 1 > 1 /\ k \in Nat
        /\ stack'[k] = stack[k + 1] /\ (k + 1) - 1 = k
    BY <1>2, <1>6
  <2>2. Underway(stack, k + 1) BY <2>1 DEF Walked
  <2>3. P!Depth(stack'[k].irep) = Len(stack') - k BY <1>2, <1>6, <2>1, <2>2 DEF Underway
  <2>4. IF k = Len(stack') THEN stack'[k].irep = 1 ELSE stack'[k].irep \in P!reps(stack'[k + 1].irep)
    <3>1. CASE k = Len(stack') 
      <4>1. k + 1 = Len(stack) BY <1>2, <1>6, <3>1
      <4> QED BY <2>1, <2>2, <3>1, <4>1 DEF Underway
    <3>2. CASE k # Len(stack')
      <4>1. k + 1 # Len(stack) /\ k + 1 \in 1 .. Len(stack') BY <1>2, <1>6, <3>2
      <4>2. stack'[k + 1] = stack[(k + 1) + 1] BY <1>6, <4>1
      <4> QED BY <2>1, <2>2, <3>2, <4>1, <4>2 DEF Underway
    <3> QED BY <3>1, <3>2
  <2>5. /\ Passed(stack'[k].irep, stack'[k].pc)
        /\ stack'[k].pc = Len(P!iseq(stack'[k].irep))
        /\ stack'[k].todo \subseteq P!reps(stack'[k].irep)
    BY <2>1, <2>2 DEF Underway
  <2>6. ASSUME NEW c \in P!reps(stack'[k].irep)
        PROVE  c \in stack'[k].todo \/ (k > 1 /\ c = stack'[k - 1].irep) \/ Clean(c)
    <3>1. c \in stack[k + 1].todo \/ c = stack[k].irep \/ Clean(c)
      BY <2>1, <2>2, <2>6 DEF Underway
    <3>2. CASE k = 1 BY <1>2, <1>5, <2>1, <3>1, <3>2 DEF b
    <3>3. CASE k # 1
      <4>1. k > 1 /\ k - 1 \in 1 .. Len(stack') /\ (k - 1) + 1 = k BY <1>6, <2>1, <3>3
      <4>2. stack'[k - 1] = stack[k] BY <1>6, <4>1
      <4> QED BY <2>1, <3>1, <4>1, <4>2
    <3> QED BY <3>2, <3>3
  <2> QED BY <2>3, <2>4, <2>5, <2>6 DEF Underway
<1>8. \A k \in 1 .. Len(stack') : Underway(stack, k)' BY <1>7, UnderwayLater
<1>9. Len(stack') <= MaxNesting + 2 /\ Len(stack') # MaxNesting + 2
  <2>1. Len(stack) - 1 <= MaxNesting BY <1>1, <1>2, <1>3 DEF P!Shallow
  <2>2. Len(stack') = Len(stack) - 1 /\ Len(stack) \in Nat BY <1>2, <1>6
  <2> QED BY <1>3, <2>1, <2>2
<1>10. verdict' = "admitted" <=> stack' = <<>>
  <2>1. stack' = <<>> <=> Len(stack') = 0 BY <1>6, EmptySeq
  <2> QED BY <1>1, <1>2, <1>6, <2>1
<1>11. verdict' = "admitted" => Clean(1)'
  <2> SUFFICES ASSUME verdict' = "admitted" PROVE Clean(1)' OBVIOUS
  <2>1. Len(stack) = 1 BY <1>1
  <2>2. b = 1 BY <1>2, <2>1 DEF Underway, b
  <2> QED BY <1>5, <2>2, SameCode
<1>12. Nesting' /\ code' \in Programs BY <1>2, SameCode
<1>13. verdict' \in {"none", "admitted", "profile_error"} /\ verdict' # "profile_error" BY <1>1
<1> QED BY <1>6, <1>8, <1>9, <1>10, <1>11, <1>12, <1>13 DEF Walked

LEMMA WalkedStep == Walked /\ [P!Next]_(P!vars) => Walked'
<1> SUFFICES ASSUME Walked, [P!Next]_(P!vars) PROVE Walked' OBVIOUS
<1>1. CASE UNCHANGED <<code, parent, stack, verdict>>
  <2>1. \A k \in 1 .. Len(stack) : Underway(stack, k)' BY <1>1, SameCode DEF Walked
  <2>2. /\ Nesting' /\ (Clean(1)' <=> Clean(1))
        /\ \A b \in Blocks : P!Admissible(b)' <=> P!Admissible(b)
    BY <1>1, SameCode DEF Walked
  <2> QED BY <1>1, <2>1, <2>2 DEF Walked
<1> QED BY <1>1, WalkedDeeper, WalkedInstruction, WalkedDescends, WalkedReturns
        DEF P!Next, P!Done, P!vars

LEMMA WalkedAtFirst == P!Init => Walked
<1> SUFFICES ASSUME P!Init PROVE Walked OBVIOUS
<1>1. /\ code \in Programs /\ Nesting /\ stack = <<P!Enter(1)>> /\ verdict = "none"
  BY DEF P!Init, Nesting
<1>2. /\ P!Enter(1) \in Activation /\ P!Enter(1).irep = 1 /\ P!Enter(1).pc = 0
      /\ P!Enter(1).todo = P!reps(1)
  <2>1. P!reps(1) \in SUBSET Blocks BY DEF P!reps
  <2> QED BY <2>1, AreBlocks DEF P!Enter, Activation
<1>3. stack \in Seq(Activation) /\ Len(stack) = 1 /\ stack[1] = P!Enter(1) /\ stack # <<>>
  BY <1>1, <1>2
<1>4. Underway(stack, 1)
  <2>1. P!Depth(1) = 0 BY <1>1, AreBlocks, Depths
  <2>2. 0 \in 0 .. Len(Emitted(1)) /\ P!Place(code[1], 0) = 0 BY <1>1, AreBlocks, Places
  <2>3. Passed(1, 0) BY <2>2 DEF Passed
  <2> QED BY <1>2, <1>3, <2>1, <2>3 DEF Underway
<1>5. MaxNesting \in Nat BY PartsAssumption DEF P!ProfileAssumption
<1> QED BY <1>1, <1>2, <1>3, <1>4, <1>5 DEF Walked

LEMMA WalkedSays == Walked => AdmittedJustly
<1> SUFFICES ASSUME Walked PROVE AdmittedJustly OBVIOUS
<1>1. /\ code \in Programs /\ Nesting /\ stack \in Seq(Activation) /\ Len(stack) \in Nat
      /\ DOMAIN stack = 1 .. Len(stack) /\ \A k \in 1 .. Len(stack) : stack[k] \in Activation /\ Underway(stack, k)
  BY LenProperties, ElementOfSeq DEF Walked
<1>2. ASSUME NEW k \in DOMAIN stack
      PROVE  /\ stack[k].irep \in Blocks /\ stack[k].pc \in 0 .. Len(P!iseq(stack[k].irep))
             /\ \E n \in 0 .. Len(code[stack[k].irep].instructions) :
                  stack[k].pc = P!Place(code[stack[k].irep], n)
  <2>1. stack[k].irep \in Blocks /\ Passed(stack[k].irep, stack[k].pc) BY <1>1, <1>2 DEF Activation, Underway
  <2>2. PICK n \in 0 .. Len(Emitted(stack[k].irep)) : stack[k].pc = P!Place(code[stack[k].irep], n)
    BY <2>1 DEF Passed
  <2>3. stack[k].pc \in 0 .. Len(P!iseq(stack[k].irep)) BY <1>1, <2>1, <2>2, Places
  <2> QED BY <2>1, <2>2, <2>3 DEF Emitted
<1>3. P!TypeOK
  <2>1. MaxNesting \in Nat BY PartsAssumption DEF P!ProfileAssumption
  <2>2. Len(stack) = MaxNesting + 2 => P!Top.pc = 0
    <3>1. Len(stack) = MaxNesting + 2 => stack # <<>> BY <1>1, <2>1, EmptySeq
    <3> QED BY <3>1 DEF Walked, P!Top
  <2> QED BY <1>2, <2>2 DEF Walked, P!TypeOK
<1>4. P!Aligned BY <1>2 DEF P!Aligned
<1>5. P!Justly
  <2>1. CASE verdict = "admitted"
    <3>1. Clean(1) BY <2>1 DEF Walked
    <3>2. \A b \in Blocks : P!Admissible(b) BY <1>1, <3>1, FirstAbove DEF Clean
    <3> QED BY <2>1, <3>2 DEF P!Justly
  <2>2. CASE verdict = "profile_error" BY <2>2 DEF P!Justly, Walked
  <2>3. CASE verdict = "none" BY <2>3 DEF P!Justly
  <2> QED BY <2>1, <2>2, <2>3 DEF Walked
<1> QED BY <1>3, <1>4, <1>5 DEF AdmittedJustly, P!AdmittedJustly

(* Whatever the compiler emits, in blocks nested in any way: the walk stands where
   an instruction begins, and the program is admitted exactly if no instruction of
   any block is denied and no block lies too deep (guest.c:333-403).          *)
THEOREM AdmissionIsJust == P!Spec => []AdmittedJustly
<1> QED BY WalkedAtFirst, WalkedStep, WalkedSays, PTL DEF P!Spec
=============================================================================
