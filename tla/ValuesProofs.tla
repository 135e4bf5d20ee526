---------------------------- MODULE ValuesProofs ----------------------------
(***************************************************************************)
(* No value crosses the boundary of the VM changed: whatever graph a program *)
(* built, and whatever the limits are.                                       *)
(*                                                                           *)
(* A place is a value where it is met on the way from the root.  Each of the *)
(* three walks keeps a stack of calls, and to each call belong places or     *)
(* names still to do; what is owed by such a stack is what is below them.    *)
(* encode has written exactly what is not owed, and its length; decode goes  *)
(* the way add went, one of its calls to each of add's, and has made exactly *)
(* what is not owed at the place of that way it has come to.                 *)
(***************************************************************************)
EXTENDS PartsProofs

-----------------------------------------------------------------------------
(* Values.  A place is where a value is met on the way from the root. *)
Any == Objects \cup Leaves
Positive == Nat \ {0}
Place == [path : Seq(Positive), name : Seq(Nat), lead : Nat, value : Any]
Graph == heap \in Heaps /\ root \in Any
Label(v, i) == IF heap[v].kind = "hash" THEN Key[heap[v].keys[i]].name ELSE i

LEMMA Sizes2 ==
  /\ MaxLevels \in Nat /\ result_limit \in Nat
  /\ Objects \cap Leaves = {} /\ "array" \notin Leaves /\ "hash" \notin Leaves
BY PartsAssumption DEF V!ValuesAssumption

LEMMA ObjectFacts ==
  ASSUME Graph, NEW v \in Any
  PROVE  /\ V!Size(v) \in Nat
         /\ v \in Leaves => V!Size(v) = 0 /\ V!Kind(v) = v
         /\ v \notin Leaves => /\ v \in Objects /\ V!Size(v) = Len(heap[v].items) /\ V!Kind(v) = heap[v].kind
                               /\ heap[v].kind \in {"array", "hash"}
         /\ \A i \in 1 .. V!Size(v) : /\ v \in Objects /\ v \notin Leaves
                                      /\ heap[v].items[i] \in Any /\ Label(v, i) \in Nat
                                      /\ heap[v].kind = "hash" =>
                                           /\ heap[v].keys[i] \in DOMAIN Key
                                           /\ Key[heap[v].keys[i]].bytes \in Nat
                                           /\ Key[heap[v].keys[i]].special \in 0 .. Key[heap[v].keys[i]].bytes
<1>1. CASE v \in Leaves
  <2>1. V!Size(v) = 0 /\ V!Kind(v) = v BY <1>1 DEF V!Size, V!Kind
  <2> QED BY <1>1, <2>1
<1>2. CASE v \notin Leaves
  <2>1. v \in Objects BY <1>2 DEF Any
  <2>2. /\ heap[v].kind \in {"array", "hash"} /\ heap[v].items \in Seq(Objects \cup Leaves)
        /\ heap[v].kind = "hash" => heap[v].keys \in Seq(DOMAIN Key) /\ Len(heap[v].keys) = Len(heap[v].items)
    BY <2>1, PartsAssumption DEF V!ValuesAssumption, Graph
  <2>3. V!Size(v) = Len(heap[v].items) /\ V!Kind(v) = heap[v].kind BY <1>2 DEF V!Size, V!Kind
  <2>4. V!Size(v) \in Nat BY <2>2, <2>3, LenProperties
  <2>5. ASSUME NEW i \in 1 .. V!Size(v) PROVE heap[v].items[i] \in Any
    BY <2>2, <2>3, <2>5, ElementOfSeq DEF Any
  <2>6. ASSUME NEW i \in 1 .. V!Size(v), heap[v].kind = "hash"
        PROVE  /\ heap[v].keys[i] \in DOMAIN Key /\ Key[heap[v].keys[i]].name \in Nat
               /\ Key[heap[v].keys[i]].bytes \in Nat
               /\ Key[heap[v].keys[i]].special \in 0 .. Key[heap[v].keys[i]].bytes
    <3>1. heap[v].keys[i] \in DOMAIN Key BY <2>2, <2>3, <2>6, ElementOfSeq
    <3> QED BY <3>1, PartsAssumption DEF V!ValuesAssumption
  <2>7. ASSUME NEW i \in 1 .. V!Size(v) PROVE Label(v, i) \in Nat
    <3>1. i \in Nat BY <2>4
    <3> QED BY <2>6, <3>1 DEF Label
  <2> QED BY <1>2, <2>1, <2>2, <2>3, <2>4, <2>5, <2>6, <2>7
<1> QED BY <1>1, <1>2

LEMMA MemberFacts ==
  ASSUME Graph, NEW q \in Place, NEW i \in 1 .. V!Size(q.value)
  PROVE  /\ V!Member(q, i) \in Place
         /\ V!Member(q, i).path = Append(q.path, i)
         /\ V!Member(q, i).name = Append(q.name, Label(q.value, i))
         /\ V!Member(q, i).value = heap[q.value].items[i]
         /\ V!Member(q, i).lead = (IF i > 1 THEN 1 ELSE 0)
              + (IF heap[q.value].kind = "hash" THEN Key[heap[q.value].keys[i]].bytes + 3 ELSE 0)
<1>1. q.path \in Seq(Positive) /\ q.name \in Seq(Nat) /\ q.value \in Any BY DEF Place
<1>2. /\ V!Size(q.value) \in Nat /\ heap[q.value].items[i] \in Any /\ Label(q.value, i) \in Nat
      /\ heap[q.value].kind = "hash" => Key[heap[q.value].keys[i]].bytes \in Nat
  BY <1>1, ObjectFacts
<1>3. i \in Positive BY <1>2 DEF Positive
<1>4. Append(q.path, i) \in Seq(Positive) /\ Append(q.name, Label(q.value, i)) \in Seq(Nat)
  BY <1>1, <1>2, <1>3, AppendProperties
<1>5. CASE heap[q.value].kind = "hash"
  <2> DEFINE k == Key[heap[q.value].keys[i]]
  <2>1. V!Member(q, i) = [path |-> Append(q.path, i), name |-> Append(q.name, k.name),
           lead |-> (IF i > 1 THEN 1 ELSE 0) + k.bytes + 3, value |-> heap[q.value].items[i]]
    BY <1>5 DEF V!Member
  <2>2. Label(q.value, i) = k.name BY <1>5 DEF Label
  <2>3. k.bytes \in Nat BY <1>2, <1>5
  <2> HIDE DEF k
  <2>4. (IF i > 1 THEN 1 ELSE 0) + k.bytes + 3 \in Nat
        /\ (IF i > 1 THEN 1 ELSE 0) + k.bytes + 3 = (IF i > 1 THEN 1 ELSE 0) + (k.bytes + 3)
    BY <2>3
  <2>5. V!Member(q, i) \in Place BY <1>2, <1>4, <2>1, <2>2, <2>4 DEF Place
  <2>6. /\ V!Member(q, i).path = Append(q.path, i) /\ V!Member(q, i).name = Append(q.name, k.name)
        /\ V!Member(q, i).value = heap[q.value].items[i]
        /\ V!Member(q, i).lead = (IF i > 1 THEN 1 ELSE 0) + (k.bytes + 3)
    BY <2>1, <2>4
  <2> QED BY <1>5, <2>2, <2>5, <2>6 DEF k
<1>6. CASE heap[q.value].kind # "hash"
  <2>1. V!Member(q, i) = [path |-> Append(q.path, i), name |-> Append(q.name, i),
           lead |-> (IF i > 1 THEN 1 ELSE 0), value |-> heap[q.value].items[i]]
    BY <1>6 DEF V!Member
  <2>2. Label(q.value, i) = i BY <1>6 DEF Label
  <2>3. V!Member(q, i) \in Place BY <1>2, <1>4, <2>1, <2>2 DEF Place
  <2> QED BY <1>6, <2>1, <2>2, <2>3
<1> QED BY <1>5, <1>6

LEMMA FirstFacts ==
  ASSUME Graph
  PROVE  V!First \in Place /\ V!First.path = <<>> /\ V!First.name = <<1>> /\ V!First.lead = 0 /\ V!First.value = root
<1>1. <<>> \in Seq(Positive) /\ <<1>> \in Seq(Nat) BY EmptySeq
<1> QED BY <1>1 DEF V!First, Place, Graph

(* The places at each distance, as V!Places means them. *)
Below(S) == UNION {{V!Member(q, i) : i \in 1 .. V!Size(q.value)} : q \in S}
Levels(f, n) == f = [d \in 0 .. n |-> IF d = 0 THEN {V!First} ELSE Below(f[d - 1])]

LEMMA LevelsExist == ASSUME NEW n \in Nat PROVE \E f : Levels(f, n)
<1> DEFINE Without == {k \in Nat : \A f : ~Levels(f, k)}
<1>1. ASSUME Without # {} PROVE FALSE
  <2> DEFINE k == D!Min(Without)
  <2>1. k \in Without /\ \A m \in Without : k <= m BY <1>1, LeastOf
  <2>2. k \in Nat /\ \A f : ~Levels(f, k) BY <2>1
  <2> HIDE DEF k, Without
  <2>3. CASE k = 0
    <3> DEFINE f == [d \in 0 .. 0 |-> {V!First}]
    <3>1. \A d \in 0 .. 0 : d = 0 OBVIOUS
    <3>2. f = [d \in 0 .. 0 |-> IF d = 0 THEN {V!First} ELSE Below(f[d - 1])] BY <3>1, Zenon
    <3>3. Levels(f, 0) BY <3>2, Zenon DEF Levels
    <3> QED BY <2>2, <2>3, <3>3
  <2>4. CASE k # 0
    <3>1. k - 1 \in Nat /\ ~(k <= k - 1) BY <2>2, <2>4
    <3>2. PICK g : Levels(g, k - 1) BY <2>1, <3>1 DEF Without
    <3> DEFINE f == [d \in 0 .. k |-> IF d = k THEN Below(g[k - 1]) ELSE g[d]]
    <3>3. ASSUME NEW d \in 0 .. k PROVE f[d] = IF d = 0 THEN {V!First} ELSE Below(f[d - 1])
      <4>1. CASE d = k
        <5>1. d # 0 /\ d - 1 \in 0 .. k /\ d - 1 # k /\ d - 1 = k - 1 BY <2>2, <2>4, <4>1
        <5> QED BY <4>1, <5>1
      <4>2. CASE d # k
        <5>1. d \in 0 .. k - 1 /\ (d # 0 => d - 1 \in 0 .. k /\ d - 1 # k /\ d - 1 \in 0 .. k - 1) BY <2>2, <4>2
        <5>2. g[d] = IF d = 0 THEN {V!First} ELSE Below(g[d - 1]) BY <3>2, <5>1, Zenon DEF Levels
        <5> QED BY <4>2, <5>1, <5>2
      <4> QED BY <4>1, <4>2
    <3>4. Levels(f, k)
      <4>1. f = [d \in 0 .. k |-> f[d]] OBVIOUS
      <4> HIDE DEF f
      <4> QED BY <3>3, <4>1, Zenon DEF Levels
    <3> QED BY <2>2, <3>4
  <2> QED BY <2>3, <2>4
<1> QED BY <1>1

LEMMA PlacesAre ==
  /\ V!Places[0] = {V!First}
  /\ \A d \in 0 .. MaxLevels : V!Places[d + 1] = Below(V!Places[d])
<1>1. Levels(V!Places, MaxLevels + 1)
  <2>1. MaxLevels + 1 \in Nat BY Sizes2
  <2>2. PICK f : Levels(f, MaxLevels + 1) BY <2>1, LevelsExist
  <2>3. V!Places = CHOOSE g : Levels(g, MaxLevels + 1) BY Zenon DEF V!Places, Levels, Below
  <2> QED BY <2>2, <2>3, Zenon
<1>2. \A d \in 0 .. MaxLevels + 1 :
        V!Places[d] = IF d = 0 THEN {V!First} ELSE Below(V!Places[d - 1])
  BY <1>1, Zenon DEF Levels
<1>3. 0 \in 0 .. MaxLevels + 1 BY Sizes2
<1>4. ASSUME NEW d \in 0 .. MaxLevels PROVE V!Places[d + 1] = Below(V!Places[d])
  <2>1. d + 1 \in 0 .. MaxLevels + 1 /\ d + 1 # 0 /\ (d + 1) - 1 = d BY Sizes2
  <2> QED BY <1>2, <2>1
<1> QED BY <1>2, <1>3, <1>4

(* Induction over a set of numbers. *)
LEMMA UpTo ==
  ASSUME NEW n \in Nat, NEW S, 0 \in S, \A d \in 0 .. n - 1 : d \in S => d + 1 \in S
  PROVE  \A d \in 0 .. n : d \in S
<1> DEFINE Missing == {d \in 0 .. n : d \notin S}
<1> SUFFICES ASSUME Missing # {} PROVE FALSE OBVIOUS
<1>1. Missing \in SUBSET Nat OBVIOUS
<1> DEFINE d == D!Min(Missing)
<1>2. d \in Missing /\ \A e \in Missing : d <= e BY <1>1, LeastOf
<1> HIDE DEF d
<1>3. d \in 0 .. n /\ d \notin S /\ d # 0 BY <1>2
<1>4. d - 1 \in 0 .. n - 1 /\ d - 1 \in 0 .. n /\ ~(d <= d - 1) /\ (d - 1) + 1 = d BY <1>3
<1>5. d - 1 \in S BY <1>2, <1>4
<1> QED BY <1>3, <1>4, <1>5

LEMMA PlaceTypes ==
  ASSUME Graph
  PROVE  \A d \in 0 .. MaxLevels + 1 : \A q \in V!Places[d] :
           q \in Place /\ Len(q.path) = d /\ Len(q.name) = d + 1
<1> DEFINE Good == {d \in Nat : \A q \in V!Places[d] : q \in Place /\ Len(q.path) = d /\ Len(q.name) = d + 1}
<1>1. 0 \in Good
  <2>1. \A q \in V!Places[0] : q = V!First BY PlacesAre
  <2>2. Len(V!First.path) = 0 /\ Len(V!First.name) = 1 BY FirstFacts
  <2> QED BY <2>1, <2>2, FirstFacts
<1>2. ASSUME NEW d \in 0 .. (MaxLevels + 1) - 1, d \in Good PROVE d + 1 \in Good
  <2>1. d \in 0 .. MaxLevels /\ d \in Nat /\ d + 1 \in Nat BY Sizes2
  <2>2. V!Places[d + 1] = Below(V!Places[d]) BY <2>1, PlacesAre
  <2>3. ASSUME NEW q \in V!Places[d + 1]
        PROVE  q \in Place /\ Len(q.path) = d + 1 /\ Len(q.name) = (d + 1) + 1
    <3>0. PICK r \in V!Places[d] : \E i \in 1 .. V!Size(r.value) : q = V!Member(r, i)
      BY <2>2, <2>3 DEF Below
    <3>1. PICK i \in 1 .. V!Size(r.value) : q = V!Member(r, i) BY <3>0
    <3>2. r \in Place /\ Len(r.path) = d /\ Len(r.name) = d + 1 BY <1>2
    <3>3. q \in Place /\ q.path = Append(r.path, i) /\ q.name = Append(r.name, Label(r.value, i))
      BY <3>1, <3>2, MemberFacts
    <3>4. r.path \in Seq(Positive) /\ r.name \in Seq(Nat) BY <3>2 DEF Place
    <3>5. i \in Positive /\ Label(r.value, i) \in Nat
      <4>1. V!Size(r.value) \in Nat /\ Label(r.value, i) \in Nat BY <3>2, ObjectFacts DEF Place
      <4> QED BY <4>1 DEF Positive
    <3>6. Len(q.path) = Len(r.path) + 1 /\ Len(q.name) = Len(r.name) + 1 BY <3>3, <3>4, <3>5, AppendProperties
    <3> QED BY <3>2, <3>3, <3>6
  <2> QED BY <2>1, <2>3
<1> HIDE DEF Good
<1>3. \A d \in 0 .. MaxLevels + 1 : d \in Good BY <1>1, <1>2, UpTo, Sizes2
<1> QED BY <1>3 DEF Good

LEMMA EverywhereFacts ==
  ASSUME Graph, NEW q \in V!Everywhere
  PROVE  /\ q \in Place /\ Len(q.path) \in 0 .. MaxLevels + 1 /\ q \in V!Places[Len(q.path)]
         /\ Len(q.path) \in Nat /\ Len(q.name) = Len(q.path) + 1
         /\ q.path \in Seq(Positive) /\ q.name \in Seq(Nat) /\ q.lead \in Nat /\ q.value \in Any
         /\ Len(q.path) = 0 => q = V!First
<1>1. PICK d \in 0 .. MaxLevels + 1 : q \in V!Places[d] BY DEF V!Everywhere
<1>2. q \in Place /\ Len(q.path) = d /\ Len(q.name) = d + 1 BY <1>1, PlaceTypes
<1>3. d \in Nat BY Sizes2
<1>4. d = 0 => q = V!First BY <1>1, PlacesAre
<1> QED BY <1>1, <1>2, <1>3, <1>4 DEF Place

LEMMA FirstEverywhere == ASSUME Graph PROVE V!First \in V!Everywhere
<1>1. 0 \in 0 .. MaxLevels + 1 BY Sizes2
<1> QED BY <1>1, PlacesAre DEF V!Everywhere

LEMMA MembersEverywhere ==
  ASSUME Graph, NEW q \in V!Everywhere, Len(q.path) <= MaxLevels, NEW i \in 1 .. V!Size(q.value)
  PROVE  V!Member(q, i) \in V!Everywhere
<1>1. Len(q.path) \in 0 .. MaxLevels /\ Len(q.path) + 1 \in 0 .. MaxLevels + 1
      /\ q \in V!Places[Len(q.path)]
  BY EverywhereFacts, Sizes2
<1>2. V!Member(q, i) \in V!Places[Len(q.path) + 1] BY <1>1, PlacesAre DEF Below
<1> QED BY <1>1, <1>2 DEF V!Everywhere

LEMMA OwnersEverywhere ==
  ASSUME Graph, NEW q \in V!Everywhere, Len(q.path) # 0
  PROVE  \E r \in V!Everywhere :
           Len(r.path) = Len(q.path) - 1 /\ \E i \in 1 .. V!Size(r.value) : q = V!Member(r, i)
<1> DEFINE d == Len(q.path) - 1
<1>1. d \in 0 .. MaxLevels /\ d \in 0 .. MaxLevels + 1 /\ d + 1 = Len(q.path) /\ q \in V!Places[Len(q.path)]
  BY EverywhereFacts, Sizes2
<1> HIDE DEF d
<1>2. PICK r \in V!Places[d] : \E i \in 1 .. V!Size(r.value) : q = V!Member(r, i)
  BY <1>1, PlacesAre DEF Below
<1>3. r \in V!Everywhere /\ Len(r.path) = d BY <1>1, <1>2, PlaceTypes DEF V!Everywhere
<1> QED BY <1>2, <1>3 DEF d

LEMMA MemberEntries ==
  ASSUME Graph, NEW q \in V!Everywhere, NEW i \in 1 .. V!Size(q.value)
  PROVE  /\ V!Member(q, i) \in Place
         /\ Len(V!Member(q, i).path) = Len(q.path) + 1 /\ Len(V!Member(q, i).name) = Len(q.path) + 2
         /\ V!Member(q, i).path \in Seq(Positive) /\ V!Member(q, i).name \in Seq(Nat)
         /\ V!Member(q, i).path[Len(q.path) + 1] = i
         /\ V!Member(q, i).name[Len(q.path) + 2] = Label(q.value, i)
         /\ \A k \in 1 .. Len(q.path) : V!Member(q, i).path[k] = q.path[k]
         /\ \A k \in 1 .. Len(q.path) + 1 : V!Member(q, i).name[k] = q.name[k]
<1>1. /\ q \in Place /\ q.path \in Seq(Positive) /\ q.name \in Seq(Nat) /\ q.value \in Any
      /\ Len(q.path) \in Nat /\ Len(q.name) = Len(q.path) + 1
  BY EverywhereFacts
<1>2. /\ V!Member(q, i) \in Place /\ V!Member(q, i).path = Append(q.path, i)
      /\ V!Member(q, i).name = Append(q.name, Label(q.value, i))
  BY <1>1, MemberFacts
<1>3. i \in Positive /\ Label(q.value, i) \in Nat
  <2>1. V!Size(q.value) \in Nat /\ Label(q.value, i) \in Nat BY <1>1, ObjectFacts
  <2> QED BY <2>1 DEF Positive
<1>4. /\ Len(Append(q.path, i)) = Len(q.path) + 1 /\ Append(q.path, i)[Len(q.path) + 1] = i
      /\ \A k \in 1 .. Len(q.path) : Append(q.path, i)[k] = q.path[k]
      /\ Append(q.path, i) \in Seq(Positive)
  BY <1>1, <1>3, AppendProperties
<1>5. /\ Len(Append(q.name, Label(q.value, i))) = (Len(q.path) + 1) + 1
      /\ Append(q.name, Label(q.value, i))[(Len(q.path) + 1) + 1] = Label(q.value, i)
      /\ \A k \in 1 .. Len(q.path) + 1 : Append(q.name, Label(q.value, i))[k] = q.name[k]
      /\ Append(q.name, Label(q.value, i)) \in Seq(Nat)
  BY <1>1, <1>3, AppendProperties
<1>6. (Len(q.path) + 1) + 1 = Len(q.path) + 2 BY <1>1
<1> QED BY <1>2, <1>4, <1>5, <1>6

LEMMA OnePlace ==
  ASSUME Graph, NEW p \in V!Everywhere, NEW q \in V!Everywhere,
         Len(p.path) = Len(q.path), \A k \in 1 .. Len(p.path) : p.path[k] = q.path[k]
  PROVE  p = q
<1> DEFINE Alike(s, t) == Len(s.path) = Len(t.path) /\ \A k \in 1 .. Len(s.path) : s.path[k] = t.path[k]
           Good == {d \in Nat : \A s, t \in V!Everywhere : Len(s.path) = d /\ Alike(s, t) => s = t}
<1>1. 0 \in Good BY EverywhereFacts
<1>2. ASSUME NEW d \in 0 .. (MaxLevels + 1) - 1, d \in Good PROVE d + 1 \in Good
  <2>1. d \in Nat /\ d + 1 \in Nat /\ d + 1 # 0 /\ (d + 1) - 1 = d BY Sizes2
  <2>2. ASSUME NEW s \in V!Everywhere, NEW t \in V!Everywhere, Len(s.path) = d + 1, Alike(s, t)
        PROVE  s = t
    <3>1. PICK a \in V!Everywhere : Len(a.path) = d /\ \E i \in 1 .. V!Size(a.value) : s = V!Member(a, i)
      BY <2>1, <2>2, OwnersEverywhere
    <3>2. PICK i \in 1 .. V!Size(a.value) : s = V!Member(a, i) BY <3>1
    <3>3. PICK b \in V!Everywhere : Len(b.path) = d /\ \E j \in 1 .. V!Size(b.value) : t = V!Member(b, j)
      BY <2>1, <2>2, OwnersEverywhere
    <3>4. PICK j \in 1 .. V!Size(b.value) : t = V!Member(b, j) BY <3>3
    <3>5. s.path[d + 1] = i /\ \A k \in 1 .. d : s.path[k] = a.path[k] BY <3>1, <3>2, MemberEntries
    <3>6. t.path[d + 1] = j /\ \A k \in 1 .. d : t.path[k] = b.path[k] BY <3>3, <3>4, MemberEntries
    <3>7. \A k \in 1 .. d : k \in 1 .. d + 1 BY <2>1
    <3>8. d + 1 \in 1 .. d + 1 BY <2>1
    <3>9. i = j BY <2>2, <3>5, <3>6, <3>8
    <3>10. Alike(a, b) BY <2>2, <3>1, <3>3, <3>5, <3>6, <3>7
    <3>11. a = b BY <1>2, <3>1, <3>10
    <3> QED BY <3>2, <3>4, <3>9, <3>11
  <2> QED BY <2>1, <2>2
<1> HIDE DEF Good, Alike
<1>3. MaxLevels + 1 \in Nat BY Sizes2
<1>4. \A d \in 0 .. MaxLevels + 1 : d \in Good BY <1>1, <1>2, <1>3, UpTo
<1>5. Len(p.path) \in Good BY <1>4, EverywhereFacts
<1> QED BY <1>5 DEF Good, Alike

LEMMA Ancestors ==
  ASSUME Graph, NEW q \in V!Everywhere, NEW d \in 0 .. Len(q.path)
  PROVE  \E r \in V!Everywhere : /\ Len(r.path) = d
                                 /\ \A k \in 1 .. d : r.path[k] = q.path[k]
                                 /\ \A k \in 1 .. d + 1 : r.name[k] = q.name[k]
<1> DEFINE Above(e) == \E r \in V!Everywhere : /\ Len(r.path) = e
                                               /\ \A k \in 1 .. e : r.path[k] = q.path[k]
                                               /\ \A k \in 1 .. e + 1 : r.name[k] = q.name[k]
           n == Len(q.path)
           Good == {m \in Nat : Above(n - m)}
<1>0. n \in Nat /\ q \in V!Everywhere /\ Len(q.path) = n BY EverywhereFacts
<1> HIDE DEF n
<1>1. 0 \in Good
  <2>1. Above(n) BY <1>0
  <2>2. n - 0 = n /\ 0 \in Nat BY <1>0
  <2> QED BY <2>1, <2>2
<1>2. ASSUME NEW m \in 0 .. n - 1, m \in Good PROVE m + 1 \in Good
  <2> DEFINE e == n - (m + 1)
  <2>1. e \in Nat /\ n - m = e + 1 /\ m + 1 \in Nat BY <1>0
  <2> HIDE DEF e
  <2>2. PICK r \in V!Everywhere : /\ Len(r.path) = e + 1
                                  /\ \A k \in 1 .. e + 1 : r.path[k] = q.path[k]
                                  /\ \A k \in 1 .. (e + 1) + 1 : r.name[k] = q.name[k]
    BY <1>2, <2>1
  <2>3. Len(r.path) # 0 /\ Len(r.path) - 1 = e BY <2>1, <2>2
  <2>4. PICK s \in V!Everywhere : Len(s.path) = e /\ \E i \in 1 .. V!Size(s.value) : r = V!Member(s, i)
    BY <2>3, OwnersEverywhere
  <2>5. /\ \A k \in 1 .. e : r.path[k] = s.path[k]
        /\ \A k \in 1 .. e + 1 : r.name[k] = s.name[k]
    <3>1. PICK i \in 1 .. V!Size(s.value) : r = V!Member(s, i) BY <2>4
    <3> QED BY <2>4, <3>1, MemberEntries
  <2>6. \A k \in 1 .. e : k \in 1 .. e + 1 BY <2>1
  <2>7. \A k \in 1 .. e + 1 : k \in 1 .. (e + 1) + 1 BY <2>1
  <2>8. Above(e) BY <2>2, <2>4, <2>5, <2>6, <2>7
  <2> QED BY <2>1, <2>8 DEF e
<1> HIDE DEF Good
<1>3. \A m \in 0 .. n : m \in Good BY <1>0, <1>1, <1>2, UpTo
<1>4. n - d \in 0 .. n /\ n - (n - d) = d BY <1>0
<1> QED BY <1>3, <1>4 DEF Good

(* Where the way to a place leaves one above it. *)
LEMMA Branches ==
  ASSUME Graph, NEW q \in V!Everywhere, NEW d \in Nat, d < Len(q.path)
  PROVE  \E r \in V!Everywhere : /\ Len(r.path) = d
                                 /\ \A k \in 1 .. d : r.path[k] = q.path[k]
                                 /\ q.path[d + 1] \in 1 .. V!Size(r.value)
                                 /\ q.name[d + 2] = Label(r.value, q.path[d + 1])
<1>1. d + 1 \in 0 .. Len(q.path) /\ d + 1 # 0 /\ (d + 1) - 1 = d BY EverywhereFacts
<1>2. PICK s \in V!Everywhere : /\ Len(s.path) = d + 1
                                /\ \A k \in 1 .. d + 1 : s.path[k] = q.path[k]
                                /\ \A k \in 1 .. (d + 1) + 1 : s.name[k] = q.name[k]
  BY <1>1, Ancestors
<1>3. PICK r \in V!Everywhere : Len(r.path) = d /\ \E i \in 1 .. V!Size(r.value) : s = V!Member(r, i)
  BY <1>1, <1>2, OwnersEverywhere
<1>4. PICK i \in 1 .. V!Size(r.value) : s = V!Member(r, i) BY <1>3
<1>5. /\ s.path[d + 1] = i /\ s.name[d + 2] = Label(r.value, i)
      /\ \A k \in 1 .. d : s.path[k] = r.path[k]
  BY <1>3, <1>4, MemberEntries
<1>6. d + 1 \in 1 .. d + 1 /\ d + 2 \in 1 .. (d + 1) + 1 /\ \A k \in 1 .. d : k \in 1 .. d + 1 OBVIOUS
<1>7. q.path[d + 1] = i /\ q.name[d + 2] = Label(r.value, i) BY <1>2, <1>5, <1>6
<1>8. \A k \in 1 .. d : r.path[k] = q.path[k] BY <1>2, <1>5, <1>6
<1> QED BY <1>3, <1>7, <1>8

LEMMA BranchOf ==
  ASSUME Graph, NEW q \in V!Everywhere, NEW r \in V!Everywhere, Len(r.path) < Len(q.path),
         \A k \in 1 .. Len(r.path) : r.path[k] = q.path[k]
  PROVE  /\ q.path[Len(r.path) + 1] \in 1 .. V!Size(r.value)
         /\ q.name[Len(r.path) + 2] = Label(r.value, q.path[Len(r.path) + 1])
<1>1. Len(r.path) \in Nat BY EverywhereFacts
<1>2. PICK s \in V!Everywhere : /\ Len(s.path) = Len(r.path)
                                /\ \A k \in 1 .. Len(r.path) : s.path[k] = q.path[k]
                                /\ q.path[Len(r.path) + 1] \in 1 .. V!Size(s.value)
                                /\ q.name[Len(r.path) + 2] = Label(s.value, q.path[Len(r.path) + 1])
  BY <1>1, Branches
<1>3. s = r BY <1>2, OnePlace
<1> QED BY <1>2, <1>3

(* Two places of one name: keys of one name in the object where their ways part. *)
LEMMA NamesApart ==
  ASSUME Graph, NEW p \in V!Everywhere, NEW q \in V!Everywhere, p # q, p.name = q.name
  PROVE  \E r \in V!Everywhere :
           /\ Len(r.path) < Len(p.path) /\ Len(p.path) = Len(q.path)
           /\ \A k \in 1 .. Len(r.path) : r.path[k] = p.path[k] /\ r.path[k] = q.path[k]
           /\ r.value \in Objects
           /\ p.path[Len(r.path) + 1] \in 1 .. V!Size(r.value) /\ q.path[Len(r.path) + 1] \in 1 .. V!Size(r.value)
           /\ p.path[Len(r.path) + 1] < q.path[Len(r.path) + 1] =>
                V!Repeated(heap[r.value], q.path[Len(r.path) + 1])
           /\ ~(p.path[Len(r.path) + 1] < q.path[Len(r.path) + 1]) =>
                /\ q.path[Len(r.path) + 1] < p.path[Len(r.path) + 1]
                /\ V!Repeated(heap[r.value], p.path[Len(r.path) + 1])
<1>1. Len(p.path) = Len(q.path) /\ Len(p.path) \in Nat
  <2>1. Len(p.path) \in Nat /\ Len(p.name) = Len(p.path) + 1 BY EverywhereFacts
  <2>2. Len(q.path) \in Nat /\ Len(q.name) = Len(q.path) + 1 BY EverywhereFacts
  <2>3. Len(p.name) = Len(q.name) OBVIOUS
  <2> QED BY <2>1, <2>2, <2>3
<1> DEFINE Apart2 == {k \in 1 .. Len(p.path) : p.path[k] # q.path[k]}
<1>2. Apart2 # {} BY <1>1, OnePlace
<1>3. Apart2 \in SUBSET Nat BY <1>1
<1> DEFINE k == D!Min(Apart2)
<1>4. k \in Apart2 /\ \A m \in Apart2 : k <= m BY <1>2, <1>3, LeastOf
<1> HIDE DEF k
<1>5. k \in 1 .. Len(p.path) /\ p.path[k] # q.path[k] BY <1>4
<1> DEFINE d == k - 1
<1>6. d \in Nat /\ d < Len(p.path) /\ d + 1 = k /\ \A m \in 1 .. d : m \in 1 .. Len(p.path) /\ ~(k <= m)
  BY <1>1, <1>5
<1>7. \A m \in 1 .. d : p.path[m] = q.path[m] BY <1>4, <1>6
<1> HIDE DEF d, Apart2
<1>8. PICK r \in V!Everywhere : Len(r.path) = d /\ \A m \in 1 .. d : r.path[m] = p.path[m]
  BY <1>6, Branches
<1>9. \A m \in 1 .. d : r.path[m] = q.path[m] BY <1>7, <1>8
<1> DEFINE a == p.path[d + 1]
           b == q.path[d + 1]
<1>10. a \in 1 .. V!Size(r.value) /\ p.name[d + 2] = Label(r.value, a) BY <1>6, <1>8, BranchOf
<1>11. b \in 1 .. V!Size(r.value) /\ q.name[d + 2] = Label(r.value, b) BY <1>1, <1>6, <1>8, <1>9, BranchOf
<1>12. a # b /\ Label(r.value, a) = Label(r.value, b) BY <1>5, <1>6, <1>10, <1>11
<1> HIDE DEF a, b
<1>13. V!Size(r.value) \in Nat /\ r.value \in Objects
  <2>1. r.value \in Any BY EverywhereFacts
  <2> QED BY <1>10, <2>1, ObjectFacts
<1>14. heap[r.value].kind = "hash" BY <1>12 DEF Label
<1>15. Key[heap[r.value].keys[a]].name = Key[heap[r.value].keys[b]].name BY <1>12, <1>14 DEF Label
<1>16. a < b => V!Repeated(heap[r.value], b)
  <2> HAVE a < b
  <2>1. a \in 1 .. b - 1 BY <1>10, <1>11, <1>13
  <2> QED BY <1>14, <1>15, <2>1 DEF V!Repeated
<1>17. ~(a < b) => b < a /\ V!Repeated(heap[r.value], a)
  <2> HAVE ~(a < b)
  <2>1. b < a /\ b \in 1 .. a - 1 BY <1>10, <1>11, <1>12, <1>13
  <2> QED BY <1>14, <1>15, <2>1 DEF V!Repeated
<1> QED BY <1>1, <1>6, <1>8, <1>9, <1>10, <1>11, <1>13, <1>16, <1>17 DEF a, b

LEMMA EverywhereFinite == ASSUME Graph PROVE IsFiniteSet(V!Everywhere)
<1> DEFINE Good == {d \in Nat : IsFiniteSet(V!Places[d])}
<1>1. 0 \in Good BY PlacesAre, FS_Singleton
<1>2. ASSUME NEW d \in 0 .. (MaxLevels + 1) - 1, d \in Good PROVE d + 1 \in Good
  <2>1. d \in 0 .. MaxLevels /\ d \in 0 .. MaxLevels + 1 /\ d \in Nat /\ d + 1 \in Nat BY Sizes2
  <2> DEFINE Of(q) == {V!Member(q, i) : i \in 1 .. V!Size(q.value)}
             all == {Of(q) : q \in V!Places[d]}
  <2>2. V!Places[d + 1] = UNION all BY <2>1, PlacesAre DEF Below
  <2>3. ASSUME NEW q \in V!Places[d] PROVE IsFiniteSet(Of(q))
    <3>1. V!Size(q.value) \in Nat BY <2>1, PlaceTypes, ObjectFacts DEF Place
    <3>2. IsFiniteSet(1 .. V!Size(q.value)) BY <3>1, FS_Interval
    <3> DEFINE f == [i \in 1 .. V!Size(q.value) |-> V!Member(q, i)]
    <3>3. f \in Surjection(1 .. V!Size(q.value), Of(q)) BY DEF Surjection
    <3> HIDE DEF f
    <3> QED BY <3>2, <3>3, FS_Surjection
  <2>4. IsFiniteSet(all)
    <3> DEFINE g == [q \in V!Places[d] |-> Of(q)]
    <3>1. g \in Surjection(V!Places[d], all) BY DEF Surjection
    <3> HIDE DEF g, all
    <3> QED BY <1>2, <3>1, FS_Surjection
  <2>5. \A S \in all : IsFiniteSet(S) BY <2>3
  <2> HIDE DEF all
  <2> QED BY <2>1, <2>2, <2>4, <2>5, FS_UNION
<1> HIDE DEF Good
<1>3. \A d \in 0 .. MaxLevels + 1 : d \in Good BY <1>1, <1>2, UpTo, Sizes2
<1> DEFINE levels == {V!Places[d] : d \in 0 .. MaxLevels + 1}
<1>4. IsFiniteSet(0 .. MaxLevels + 1) BY Sizes2, FS_Interval
<1>5. IsFiniteSet(levels)
  <2> DEFINE g == [d \in 0 .. MaxLevels + 1 |-> V!Places[d]]
  <2>1. g \in Surjection(0 .. MaxLevels + 1, levels) BY DEF Surjection
  <2> HIDE DEF g, levels
  <2> QED BY <1>4, <2>1, FS_Surjection
<1>6. \A S \in levels : IsFiniteSet(S) BY <1>3 DEF Good
<1>7. V!Everywhere = UNION levels BY DEF V!Everywhere
<1> HIDE DEF levels
<1> QED BY <1>5, <1>6, <1>7, FS_UNION

-----------------------------------------------------------------------------
(* Walks over the tree.  A frame is a path, and what is owed below it. *)
Frame == [path : Seq(Nat), todo : SUBSET Nat]
Extends(p, c) == Len(c) < Len(p) /\ \A i \in 1 .. Len(c) : p[i] = c[i]
Within(p, f) == Extends(p, f.path) /\ p[Len(f.path) + 1] \in f.todo
Owed(p, st) == \E k \in 1 .. Len(st) : Within(p, st[k])
Chained(st) ==
  /\ st \in Seq(Frame)
  /\ \A k \in 1 .. Len(st) : Len(st[k].path) = Len(st) - k
  /\ \A k, m \in 1 .. Len(st) : k < m =>
       Extends(st[k].path, st[m].path) /\ st[k].path[Len(st[m].path) + 1] \notin st[m].todo
Opened(st, s, T) ==
  <<[path |-> Append(st[1].path, s), todo |-> T],
    [path |-> st[1].path, todo |-> st[1].todo \ {s}]>> \o Tail(st)

LEMMA PopFacts ==
  ASSUME NEW T, NEW s \in Seq(T), s # <<>>
  PROVE  /\ Len(s) \in Nat /\ Len(s) >= 1 /\ Head(s) = s[1] /\ s[1] \in T
         /\ Tail(s) \in Seq(T) /\ Len(Tail(s)) = Len(s) - 1
         /\ \A k \in 1 .. Len(s) - 1 : Tail(s)[k] = s[k + 1]
<1>1. Len(s) \in Nat /\ Len(s) # 0 BY LenProperties, EmptySeq
<1>2. Head(s) \in T /\ Tail(s) \in Seq(T) /\ Len(Tail(s)) = Len(s) - 1
      /\ \A k \in 1 .. Len(Tail(s)) : Tail(s)[k] = s[k + 1]
  BY HeadTailProperties
<1>3. Head(s) = s[1] OBVIOUS
<1> QED BY <1>1, <1>2, <1>3

LEMMA PushFacts ==
  ASSUME NEW T, NEW s \in Seq(T), s # <<>>, NEW a \in T, NEW b \in T
  PROVE  /\ <<a, b>> \o Tail(s) \in Seq(T) /\ Len(<<a, b>> \o Tail(s)) = Len(s) + 1
         /\ (<<a, b>> \o Tail(s))[1] = a /\ (<<a, b>> \o Tail(s))[2] = b
         /\ \A k \in 2 .. Len(s) : (<<a, b>> \o Tail(s))[k + 1] = s[k]
         /\ \A k \in 3 .. Len(s) + 1 : (<<a, b>> \o Tail(s))[k] = s[k - 1]
<1>1. Len(s) \in Nat /\ Len(s) >= 1 /\ Tail(s) \in Seq(T) /\ Len(Tail(s)) = Len(s) - 1
      /\ \A k \in 1 .. Len(s) - 1 : Tail(s)[k] = s[k + 1]
  BY PopFacts
<1> DEFINE two == <<a, b>>
<1>2. two \in Seq(T) /\ Len(two) = 2 /\ two[1] = a /\ two[2] = b OBVIOUS
<1> HIDE DEF two
<1>3. /\ two \o Tail(s) \in Seq(T) /\ Len(two \o Tail(s)) = Len(two) + Len(Tail(s))
      /\ \A k \in 1 .. Len(two) + Len(Tail(s)) :
           (two \o Tail(s))[k] = IF k <= Len(two) THEN two[k] ELSE Tail(s)[k - Len(two)]
  BY <1>1, <1>2, ConcatProperties
<1>4. Len(two \o Tail(s)) = Len(s) + 1 BY <1>1, <1>2, <1>3
<1>5. (two \o Tail(s))[1] = a /\ (two \o Tail(s))[2] = b BY <1>1, <1>2, <1>3
<1>6. ASSUME NEW k \in 3 .. Len(s) + 1 PROVE (two \o Tail(s))[k] = s[k - 1]
  <2>1. k \in 1 .. Len(two) + Len(Tail(s)) /\ ~(k <= Len(two)) /\ k - Len(two) = k - 2
        /\ k - 2 \in 1 .. Len(s) - 1 /\ (k - 2) + 1 = k - 1
    BY <1>1, <1>2
  <2>2. (two \o Tail(s))[k] = Tail(s)[k - 2] BY <1>3, <2>1
  <2> QED BY <1>1, <2>1, <2>2
<1>7. ASSUME NEW k \in 2 .. Len(s) PROVE (two \o Tail(s))[k + 1] = s[k]
  <2>1. k + 1 \in 3 .. Len(s) + 1 /\ (k + 1) - 1 = k BY <1>1
  <2> QED BY <1>6, <2>1
<1> QED BY <1>3, <1>4, <1>5, <1>6, <1>7 DEF two

LEMMA ChainFacts ==
  ASSUME NEW st, Chained(st)
  PROVE  /\ st \in Seq(Frame) /\ Len(st) \in Nat
         /\ \A k \in 1 .. Len(st) :
              /\ st[k].path \in Seq(Nat) /\ st[k].todo \subseteq Nat
              /\ Len(st[k].path) = Len(st) - k /\ Len(st[k].path) \in Nat
<1>1. st \in Seq(Frame) /\ Len(st) \in Nat BY LenProperties DEF Chained
<1>2. ASSUME NEW k \in 1 .. Len(st)
      PROVE  st[k].path \in Seq(Nat) /\ st[k].todo \subseteq Nat
  <2>1. st[k] \in Frame BY <1>1, ElementOfSeq
  <2> QED BY <2>1 DEF Frame
<1>3. \A k \in 1 .. Len(st) : Len(st[k].path) = Len(st) - k /\ Len(st[k].path) \in Nat BY <1>1 DEF Chained
<1> QED BY <1>1, <1>2, <1>3

(* Going down from the frame on top. *)
LEMMA OpenFacts ==
  ASSUME NEW st, Chained(st), st # <<>>, NEW s \in st[1].todo, NEW T \in SUBSET Nat
  PROVE  /\ Opened(st, s, T) \in Seq(Frame) /\ Len(Opened(st, s, T)) = Len(st) + 1
         /\ Opened(st, s, T)[1].path = Append(st[1].path, s) /\ Opened(st, s, T)[1].todo = T
         /\ Opened(st, s, T)[2].path = st[1].path /\ Opened(st, s, T)[2].todo = st[1].todo \ {s}
         /\ \A k \in 3 .. Len(st) + 1 : Opened(st, s, T)[k] = st[k - 1]
         /\ \A k \in 2 .. Len(st) : Opened(st, s, T)[k + 1] = st[k]
         /\ Len(st) \in Nat /\ Len(st) >= 1 /\ st[1].path \in Seq(Nat) /\ s \in Nat
         /\ Append(st[1].path, s) \in Seq(Nat) /\ Len(Append(st[1].path, s)) = Len(st)
         /\ Len(st[1].path) = Len(st) - 1
         /\ \A i \in 1 .. Len(st) - 1 : Append(st[1].path, s)[i] = st[1].path[i]
         /\ Append(st[1].path, s)[Len(st)] = s
<1>1. st \in Seq(Frame) /\ Len(st) \in Nat /\ Len(st) >= 1 BY PopFacts DEF Chained
<1>2. 1 \in 1 .. Len(st) BY <1>1
<1>3. st[1].path \in Seq(Nat) /\ st[1].todo \subseteq Nat /\ Len(st[1].path) = Len(st) - 1
  BY <1>2, ChainFacts
<1>4. s \in Nat BY <1>3
<1>5. /\ Append(st[1].path, s) \in Seq(Nat) /\ Len(Append(st[1].path, s)) = Len(st[1].path) + 1
      /\ \A i \in 1 .. Len(st[1].path) : Append(st[1].path, s)[i] = st[1].path[i]
      /\ Append(st[1].path, s)[Len(st[1].path) + 1] = s
  BY <1>3, <1>4, AppendProperties
<1>6. Len(st[1].path) + 1 = Len(st) BY <1>1, <1>3
<1> DEFINE a == [path |-> Append(st[1].path, s), todo |-> T]
           b == [path |-> st[1].path, todo |-> st[1].todo \ {s}]
<1>7. a \in Frame /\ b \in Frame BY <1>3, <1>5 DEF Frame
<1>8. Opened(st, s, T) = <<a, b>> \o Tail(st) BY DEF Opened
<1>a. a.path = Append(st[1].path, s) /\ a.todo = T /\ b.path = st[1].path /\ b.todo = st[1].todo \ {s} OBVIOUS
<1> HIDE DEF a, b
<1>9. /\ Opened(st, s, T) \in Seq(Frame) /\ Len(Opened(st, s, T)) = Len(st) + 1
      /\ Opened(st, s, T)[1] = a /\ Opened(st, s, T)[2] = b
      /\ \A k \in 2 .. Len(st) : Opened(st, s, T)[k + 1] = st[k]
      /\ \A k \in 3 .. Len(st) + 1 : Opened(st, s, T)[k] = st[k - 1]
  BY <1>1, <1>7, <1>8, PushFacts
<1> QED BY <1>1, <1>3, <1>4, <1>5, <1>6, <1>9, <1>a

LEMMA OpenedChained ==
  ASSUME NEW st, Chained(st), st # <<>>, NEW s \in st[1].todo, NEW T \in SUBSET Nat
  PROVE  Chained(Opened(st, s, T))
<1> DEFINE o == Opened(st, s, T)
           c == Append(st[1].path, s)
           n == Len(st)
<1>1. /\ o \in Seq(Frame) /\ Len(o) = n + 1 /\ n \in Nat /\ n >= 1
      /\ o[1].path = c /\ o[2].path = st[1].path /\ o[2].todo = st[1].todo \ {s}
      /\ \A k \in 3 .. n + 1 : o[k] = st[k - 1]
      /\ Len(c) = n /\ Len(st[1].path) = n - 1
      /\ \A i \in 1 .. n - 1 : c[i] = st[1].path[i]
      /\ c[n] = s
  <2>0. Len(st) \in Nat /\ Len(st) >= 1 BY OpenFacts
  <2>1. Opened(st, s, T) \in Seq(Frame) /\ Len(Opened(st, s, T)) = Len(st) + 1 BY OpenFacts
  <2>8. st[1].path \in Seq(Nat) /\ Append(st[1].path, s) \in Seq(Nat) BY OpenFacts
  <2>2. Opened(st, s, T)[1].path = Append(st[1].path, s) /\ Opened(st, s, T)[1].todo = T BY OpenFacts
  <2>9. Opened(st, s, T)[2].path = st[1].path /\ Opened(st, s, T)[2].todo = st[1].todo \ {s} BY OpenFacts
  <2>3. \A k \in 3 .. Len(st) + 1 : Opened(st, s, T)[k] = st[k - 1] BY OpenFacts
  <2>4. \A k \in 2 .. Len(st) : Opened(st, s, T)[k + 1] = st[k] BY OpenFacts
  <2>5. Len(Append(st[1].path, s)) = Len(st) /\ Len(st[1].path) = Len(st) - 1 BY OpenFacts
  <2>6. \A i \in 1 .. Len(st) - 1 : Append(st[1].path, s)[i] = st[1].path[i] BY OpenFacts
  <2>7. Append(st[1].path, s)[Len(st)] = s BY OpenFacts
  <2> QED BY <2>0, <2>1, <2>2, <2>3, <2>4, <2>5, <2>6, <2>7, <2>8, <2>9
<1>2. \A k \in 1 .. n : Len(st[k].path) = n - k BY DEF Chained
<1>3. \A k, m \in 1 .. n : k < m =>
        Extends(st[k].path, st[m].path) /\ st[k].path[Len(st[m].path) + 1] \notin st[m].todo
  BY DEF Chained
<1> HIDE DEF o, c, n
<1>4. ASSUME NEW k \in 1 .. n + 1 PROVE Len(o[k].path) = (n + 1) - k
  <2>1. CASE k = 1 BY <1>1, <2>1
  <2>2. CASE k = 2 BY <1>1, <2>2
  <2>3. CASE k \in 3 .. n + 1
    <3>1. k - 1 \in 1 .. n /\ n - (k - 1) = (n + 1) - k BY <1>1, <2>3
    <3>2. o[k] = st[k - 1] BY <1>1, <2>3
    <3>3. Len(st[k - 1].path) = n - (k - 1) BY <1>2, <3>1
    <3> QED BY <3>1, <3>2, <3>3
  <2> QED BY <1>1, <2>1, <2>2, <2>3
<1>5. ASSUME NEW m \in 3 .. n + 1
      PROVE  /\ m - 1 \in 1 .. n /\ 1 < m - 1 /\ o[m] = st[m - 1] /\ Len(o[m].path) + 1 \in 1 .. n - 1
             /\ Extends(c, o[m].path) /\ Extends(st[1].path, o[m].path)
             /\ c[Len(o[m].path) + 1] \notin o[m].todo /\ st[1].path[Len(o[m].path) + 1] \notin o[m].todo
  <2>1. m - 1 \in 1 .. n /\ 1 < m - 1 /\ 1 \in 1 .. n /\ o[m] = st[m - 1] BY <1>1
  <2>2. Extends(st[1].path, o[m].path) /\ st[1].path[Len(o[m].path) + 1] \notin o[m].todo BY <1>3, <2>1
  <2>3. Len(o[m].path) = n - (m - 1) BY <1>2, <2>1
  <2>4. Len(o[m].path) + 1 \in 1 .. n - 1 /\ Len(o[m].path) < Len(c)
        /\ \A i \in 1 .. Len(o[m].path) : i \in 1 .. n - 1
    BY <1>1, <2>3
  <2>5. Extends(c, o[m].path) BY <1>1, <2>2, <2>4 DEF Extends
  <2>6. c[Len(o[m].path) + 1] = st[1].path[Len(o[m].path) + 1] BY <1>1, <2>4
  <2> QED BY <2>1, <2>2, <2>4, <2>5, <2>6
<1>6. ASSUME NEW k \in 1 .. n + 1, NEW m \in 1 .. n + 1, k < m
      PROVE  Extends(o[k].path, o[m].path) /\ o[k].path[Len(o[m].path) + 1] \notin o[m].todo
  <2>1. CASE k = 1 /\ m = 2
    <3>1. Len(o[m].path) = n - 1 /\ (n - 1) + 1 = n /\ n - 1 < n BY <1>1, <2>1
    <3> QED BY <1>1, <2>1, <3>1 DEF Extends
  <2>2. CASE k = 1 /\ m \in 3 .. n + 1 BY <1>1, <1>5, <2>2
  <2>3. CASE k = 2 /\ m \in 3 .. n + 1 BY <1>1, <1>5, <2>3
  <2>4. CASE k \in 3 .. n + 1 /\ m \in 3 .. n + 1
    <3>1. k - 1 \in 1 .. n /\ m - 1 \in 1 .. n /\ k - 1 < m - 1 /\ o[k] = st[k - 1] /\ o[m] = st[m - 1]
      BY <1>1, <1>6, <2>4
    <3> QED BY <1>3, <3>1
  <2>5. (k = 1 /\ m = 2) \/ (k = 1 /\ m \in 3 .. n + 1) \/ (k = 2 /\ m \in 3 .. n + 1)
        \/ (k \in 3 .. n + 1 /\ m \in 3 .. n + 1)
    BY <1>1, <1>6
  <2> QED BY <2>1, <2>2, <2>3, <2>4, <2>5
<1> QED BY <1>1, <1>4, <1>6 DEF Chained, o

LEMMA OpenedOwes ==
  ASSUME NEW st, Chained(st), st # <<>>, NEW s \in st[1].todo, NEW T \in SUBSET Nat,
         NEW p \in Seq(Nat), Extends(p, Append(st[1].path, s)) => p[Len(st) + 1] \in T
  PROVE  Owed(p, Opened(st, s, T)) <=> Owed(p, st) /\ p # Append(st[1].path, s)
<1> DEFINE o == Opened(st, s, T)
           c == Append(st[1].path, s)
           n == Len(st)
<1>1. /\ Len(o) = n + 1 /\ n \in Nat /\ n >= 1 /\ st[1].path \in Seq(Nat) /\ c \in Seq(Nat)
      /\ o[1].path = c /\ o[1].todo = T /\ o[2].path = st[1].path /\ o[2].todo = st[1].todo \ {s}
      /\ \A k \in 3 .. n + 1 : o[k] = st[k - 1]
      /\ \A k \in 2 .. n : o[k + 1] = st[k]
      /\ Len(c) = n /\ Len(st[1].path) = n - 1
      /\ \A i \in 1 .. n - 1 : c[i] = st[1].path[i]
      /\ c[n] = s
  <2>0. Len(st) \in Nat /\ Len(st) >= 1 BY OpenFacts
  <2>1. Opened(st, s, T) \in Seq(Frame) /\ Len(Opened(st, s, T)) = Len(st) + 1 BY OpenFacts
  <2>8. st[1].path \in Seq(Nat) /\ Append(st[1].path, s) \in Seq(Nat) BY OpenFacts
  <2>2. Opened(st, s, T)[1].path = Append(st[1].path, s) /\ Opened(st, s, T)[1].todo = T BY OpenFacts
  <2>9. Opened(st, s, T)[2].path = st[1].path /\ Opened(st, s, T)[2].todo = st[1].todo \ {s} BY OpenFacts
  <2>3. \A k \in 3 .. Len(st) + 1 : Opened(st, s, T)[k] = st[k - 1] BY OpenFacts
  <2>4. \A k \in 2 .. Len(st) : Opened(st, s, T)[k + 1] = st[k] BY OpenFacts
  <2>5. Len(Append(st[1].path, s)) = Len(st) /\ Len(st[1].path) = Len(st) - 1 BY OpenFacts
  <2>6. \A i \in 1 .. Len(st) - 1 : Append(st[1].path, s)[i] = st[1].path[i] BY OpenFacts
  <2>7. Append(st[1].path, s)[Len(st)] = s BY OpenFacts
  <2> QED BY <2>0, <2>1, <2>2, <2>3, <2>4, <2>5, <2>6, <2>7, <2>8, <2>9
<1>0. (n - 1) + 1 = n BY <1>1
<1>2. \A m \in 2 .. n : st[1].path[Len(st[m].path) + 1] \notin st[m].todo /\ Len(st[m].path) = n - m
  <2>1. \A m \in 2 .. n : 1 \in 1 .. n /\ m \in 1 .. n /\ 1 < m BY <1>1
  <2>2. \A k, m \in 1 .. n : k < m => st[k].path[Len(st[m].path) + 1] \notin st[m].todo BY DEF Chained
  <2>3. \A m \in 1 .. n : Len(st[m].path) = n - m BY DEF Chained
  <2> HIDE DEF n
  <2> QED BY <2>1, <2>2, <2>3
<1>3. Len(p) \in Nat BY LenProperties
<1>4. Extends(p, c) => p[n + 1] \in T OBVIOUS
<1>5. s \in st[1].todo OBVIOUS
<1> HIDE DEF o, c
<1> DEFINE P1 == st[1].path
<1>w. /\ Within(p, o[1]) <=> n < Len(p) /\ (\A i \in 1 .. n : p[i] = c[i]) /\ p[n + 1] \in T
      /\ Within(p, o[2]) <=> n - 1 < Len(p) /\ (\A i \in 1 .. n - 1 : p[i] = P1[i]) /\ p[n] \in st[1].todo \ {s}
      /\ Within(p, st[1]) <=> n - 1 < Len(p) /\ (\A i \in 1 .. n - 1 : p[i] = P1[i]) /\ p[n] \in st[1].todo
      /\ Extends(p, c) <=> n < Len(p) /\ \A i \in 1 .. n : p[i] = c[i]
  <2> HIDE DEF n, P1
  <2>1. o[1].path = c /\ o[1].todo = T /\ Len(c) = n BY <1>1
  <2>2. o[2].path = P1 /\ o[2].todo = st[1].todo \ {s} /\ st[1].path = P1 /\ Len(P1) = n - 1 BY <1>1 DEF P1
  <2>3. Extends(p, c) <=> n < Len(p) /\ \A i \in 1 .. n : p[i] = c[i] BY <2>1, Zenon DEF Extends
  <2>4. Extends(p, P1) <=> n - 1 < Len(p) /\ \A i \in 1 .. n - 1 : p[i] = P1[i] BY <2>2, Zenon DEF Extends
  <2>5. Within(p, o[1]) <=> Extends(p, c) /\ p[n + 1] \in T BY <2>1, Zenon DEF Within
  <2>6. Within(p, o[2]) <=> Extends(p, P1) /\ p[n] \in st[1].todo \ {s} BY <1>0, <2>2, Zenon DEF Within
  <2>7. Within(p, st[1]) <=> Extends(p, P1) /\ p[n] \in st[1].todo BY <1>0, <2>2, Zenon DEF Within
  <2> QED BY <2>3, <2>4, <2>5, <2>6, <2>7, Zenon
<1> HIDE DEF n, P1
<1>n. n \in Nat /\ n >= 1 /\ 1 \in 1 .. n /\ n \in 1 .. n BY <1>1
<1>c. c[n] = s /\ \A i \in 1 .. n - 1 : c[i] = P1[i] BY <1>1 DEF P1
<1>6. ASSUME NEW m \in 2 .. n, Within(p, st[m]) PROVE p # c
  <2> SUFFICES ASSUME p = c PROVE FALSE OBVIOUS
  <2>1. Len(st[m].path) + 1 \in 1 .. n - 1 BY <1>n, <1>2
  <2>2. c[Len(st[m].path) + 1] \notin st[m].todo BY <1>c, <1>2, <2>1 DEF P1
  <2> QED BY <1>6, <2>2 DEF Within
<1>7. ASSUME Owed(p, o) PROVE Owed(p, st) /\ p # c
  <2>1. PICK k \in 1 .. n + 1 : Within(p, o[k]) BY <1>1, <1>7 DEF Owed
  <2>2. CASE k = 1
    <3>1. n < Len(p) /\ \A i \in 1 .. n : p[i] = c[i] BY <1>w, <2>1, <2>2
    <3>2. n - 1 < Len(p) /\ \A i \in 1 .. n - 1 : i \in 1 .. n BY <1>3, <1>n, <3>1
    <3>3. (\A i \in 1 .. n - 1 : p[i] = P1[i]) /\ p[n] = s BY <1>c, <1>n, <3>1, <3>2
    <3>4. Within(p, st[1]) BY <1>5, <1>w, <3>2, <3>3
    <3>5. p # c BY <1>1, <1>3, <1>n, <3>1
    <3> QED BY <1>n, <3>4, <3>5 DEF Owed, n
  <2>3. CASE k = 2
    <3>1. Within(p, st[1]) /\ p[n] # s BY <1>w, <2>1, <2>3
    <3> QED BY <1>n, <1>c, <3>1 DEF Owed, n
  <2>4. CASE k \in 3 .. n + 1
    <3>1. k - 1 \in 1 .. n /\ k - 1 \in 2 .. n BY <1>n, <2>4
    <3>2. o[k] = st[k - 1] BY <1>1, <2>4
    <3>3. Within(p, st[k - 1]) BY <2>1, <3>2
    <3>4. Owed(p, st) BY <3>1, <3>3 DEF Owed, n
    <3> QED BY <1>6, <3>1, <3>3, <3>4
  <2> QED BY <1>n, <2>2, <2>3, <2>4
<1>8. ASSUME Owed(p, st), p # c PROVE Owed(p, o)
  <2>1. PICK k \in 1 .. n : Within(p, st[k]) BY <1>8 DEF Owed, n
  <2>2. CASE k = 1 /\ p[n] # s
    <3>1. Within(p, o[2]) BY <1>w, <2>1, <2>2
    <3>2. 2 \in 1 .. n + 1 BY <1>n
    <3> QED BY <1>1, <3>1, <3>2 DEF Owed
  <2>3. CASE k = 1 /\ p[n] = s
    <3>1. n - 1 < Len(p) /\ \A i \in 1 .. n - 1 : p[i] = P1[i] BY <1>w, <2>1, <2>3
    <3>2. ASSUME NEW i \in 1 .. n PROVE p[i] = c[i]
      <4>1. i = n \/ i \in 1 .. n - 1 BY <1>n
      <4> QED BY <1>c, <2>3, <3>1, <4>1
    <3>3. Len(p) # n
      <4> SUFFICES ASSUME Len(p) = n PROVE FALSE OBVIOUS
      <4>1. p = c BY <1>1, <3>2, SeqEqual
      <4> QED BY <1>8, <4>1
    <3>4. n < Len(p) BY <1>3, <1>n, <3>1, <3>3
    <3>5. Within(p, o[1]) BY <1>4, <1>w, <3>2, <3>4
    <3>6. 1 \in 1 .. n + 1 BY <1>n
    <3> QED BY <1>1, <3>5, <3>6 DEF Owed
  <2>4. CASE k \in 2 .. n
    <3>1. k + 1 \in 1 .. n + 1 BY <1>n, <2>4
    <3>2. o[k + 1] = st[k] BY <1>1, <2>4
    <3>3. Within(p, o[k + 1]) BY <2>1, <3>2
    <3> QED BY <1>1, <3>1, <3>3 DEF Owed
  <2> QED BY <1>n, <2>2, <2>3, <2>4
<1> QED BY <1>7, <1>8 DEF o, c

(* Going back up: nothing is owed below a frame that owes nothing. *)
LEMMA ClosedChained ==
  ASSUME NEW st, Chained(st), st # <<>>
  PROVE  Chained(Tail(st)) /\ Len(Tail(st)) = Len(st) - 1 /\ \A k \in 1 .. Len(st) - 1 : Tail(st)[k] = st[k + 1]
<1>1. /\ Len(st) \in Nat /\ Len(st) >= 1 /\ Tail(st) \in Seq(Frame) /\ Len(Tail(st)) = Len(st) - 1
      /\ \A k \in 1 .. Len(st) - 1 : Tail(st)[k] = st[k + 1]
  BY PopFacts DEF Chained
<1>2. ASSUME NEW k \in 1 .. Len(st) - 1 PROVE Len(Tail(st)[k].path) = (Len(st) - 1) - k
  <2>1. k + 1 \in 1 .. Len(st) BY <1>1
  <2>2. Len(st[k + 1].path) = Len(st) - (k + 1) BY <2>1 DEF Chained
  <2>3. Len(st) - (k + 1) = (Len(st) - 1) - k BY <1>1
  <2>4. Tail(st)[k] = st[k + 1] BY <1>1
  <2> QED BY <2>2, <2>3, <2>4
<1>3. ASSUME NEW k \in 1 .. Len(st) - 1, NEW m \in 1 .. Len(st) - 1, k < m
      PROVE  /\ Extends(Tail(st)[k].path, Tail(st)[m].path)
             /\ Tail(st)[k].path[Len(Tail(st)[m].path) + 1] \notin Tail(st)[m].todo
  <2>1. k + 1 \in 1 .. Len(st) /\ m + 1 \in 1 .. Len(st) /\ k + 1 < m + 1 BY <1>1, <1>3
  <2>2. Extends(st[k + 1].path, st[m + 1].path) /\ st[k + 1].path[Len(st[m + 1].path) + 1] \notin st[m + 1].todo
    BY <2>1 DEF Chained
  <2> QED BY <1>1, <2>2
<1> QED BY <1>1, <1>2, <1>3 DEF Chained

LEMMA ClosedOwes ==
  ASSUME NEW st, Chained(st), st # <<>>, st[1].todo = {}, NEW p
  PROVE  Owed(p, Tail(st)) <=> Owed(p, st)
<1>1. /\ Len(st) \in Nat /\ Len(st) >= 1 /\ Len(Tail(st)) = Len(st) - 1
      /\ \A k \in 1 .. Len(st) - 1 : Tail(st)[k] = st[k + 1]
  BY PopFacts DEF Chained
<1>2. ASSUME Owed(p, Tail(st)) PROVE Owed(p, st)
  <2>1. PICK k \in 1 .. Len(st) - 1 : Within(p, Tail(st)[k]) BY <1>1, <1>2 DEF Owed
  <2>2. k + 1 \in 1 .. Len(st) /\ Within(p, st[k + 1]) BY <1>1, <2>1
  <2> QED BY <2>2 DEF Owed
<1>3. ASSUME Owed(p, st) PROVE Owed(p, Tail(st))
  <2>1. PICK k \in 1 .. Len(st) : Within(p, st[k]) BY <1>3 DEF Owed
  <2>2. k # 1 BY <2>1 DEF Within
  <2>3. k - 1 \in 1 .. Len(st) - 1 /\ (k - 1) + 1 = k BY <1>1, <2>2
  <2>4. Within(p, Tail(st)[k - 1]) BY <1>1, <2>1, <2>3
  <2> QED BY <1>1, <2>3, <2>4 DEF Owed
<1> QED BY <1>2, <1>3

(* What is owed below something owed is owed. *)
LEMMA OwedBelow ==
  ASSUME NEW st, NEW c, NEW p, Owed(c, st), Len(c) \in Nat, Len(p) \in Nat, Extends(p, c) \/ p = c
  PROVE  Owed(p, st)
<1>1. CASE Extends(p, c)
  <2>1. PICK k \in 1 .. Len(st) : Within(c, st[k]) BY DEF Owed
  <2>3. Within(p, st[k]) BY <1>1, <2>1 DEF Within, Extends
  <2> QED BY <2>3 DEF Owed
<1> QED BY <1>1

-----------------------------------------------------------------------------
(* What the text of a value costs: its first byte, or all of a leaf, when its
   encoding begins, and a bracket when that of a container ends.             *)
Opening(v) == IF v \in Leaves THEN Leaf[v].bytes ELSE 1
Cost(q) == q.lead + (IF q.value \in Leaves THEN Leaf[q.value].bytes ELSE 2)
Costs == [q \in V!Everywhere |-> Cost(q)]
Weight(S) == Cardinality(Units(Costs, S))
Texts == [bytes : 0 .. result_limit, special : Nat, error : {"none", "range", "depth", "duplicate", "protocol"}]
Wellformed(t) == t \in Texts /\ t.special <= t.bytes

LEMMA LeafBytes ==
  ASSUME NEW l \in Leaves
  PROVE  Leaf[l].bytes \in Nat /\ Leaf[l].special \in Nat /\ Leaf[l].special <= Leaf[l].bytes
BY PartsAssumption DEF V!ValuesAssumption

LEMMA CostFacts ==
  ASSUME Graph
  PROVE  \A q \in V!Everywhere :
           /\ Costs[q] \in Nat /\ Opening(q.value) \in Nat
           /\ Costs[q] = q.lead + Opening(q.value) + (IF q.value \in Leaves THEN 0 ELSE 1)
<1> SUFFICES ASSUME NEW q \in V!Everywhere
             PROVE  /\ Costs[q] \in Nat /\ Opening(q.value) \in Nat
                    /\ Costs[q] = q.lead + Opening(q.value) + (IF q.value \in Leaves THEN 0 ELSE 1)
  OBVIOUS
<1>1. q.lead \in Nat BY EverywhereFacts
<1>2. Costs[q] = Cost(q) BY DEF Costs
<1>3. CASE q.value \in Leaves
  <2>1. Leaf[q.value].bytes \in Nat BY <1>3, LeafBytes
  <2>2. Cost(q) = q.lead + Leaf[q.value].bytes /\ Opening(q.value) = Leaf[q.value].bytes BY <1>3 DEF Cost, Opening
  <2> QED BY <1>1, <1>2, <1>3, <2>1, <2>2
<1>4. CASE q.value \notin Leaves
  <2>1. Cost(q) = q.lead + 2 /\ Opening(q.value) = 1 BY <1>4 DEF Cost, Opening
  <2> QED BY <1>1, <1>2, <1>4, <2>1
<1> QED BY <1>3, <1>4

LEMMA Weights ==
  ASSUME Graph, NEW S \in SUBSET V!Everywhere
  PROVE  /\ Weight(S) \in Nat /\ Weight(S) <= Weight(V!Everywhere)
         /\ \A q \in V!Everywhere \ S : Weight(S \cup {q}) = Costs[q] + Weight(S)
<1>1. IsFiniteSet(V!Everywhere) /\ IsFiniteSet(S) BY EverywhereFinite, FS_Subset
<1>2. \A q \in V!Everywhere : Costs[q] \in Nat BY CostFacts
<1>3. IsFiniteSet(Units(Costs, V!Everywhere)) BY <1>1, <1>2, UnitsFinite
<1>4. Units(Costs, S) \subseteq Units(Costs, V!Everywhere) BY DEF Units
<1>5. IsFiniteSet(Units(Costs, S)) /\ Weight(S) <= Weight(V!Everywhere) BY <1>3, <1>4, FS_Subset DEF Weight
<1>6. Weight(S) \in Nat BY <1>5, FS_CardinalityType DEF Weight
<1>7. ASSUME NEW q \in V!Everywhere \ S PROVE Weight(S \cup {q}) = Costs[q] + Weight(S)
  <2>1. IsFiniteSet(S \cup {q}) BY <1>1, FS_AddElement
  <2>2. (S \cup {q}) \ {q} = S /\ q \in S \cup {q} OBVIOUS
  <2>3. \A y \in S \cup {q} : Costs[y] \in Nat BY <1>2
  <2>4. Cardinality(Units(Costs, S \cup {q})) = Costs[q] + Cardinality(Units(Costs, (S \cup {q}) \ {q}))
    BY <2>1, <2>2, <2>3, UnitsJoin
  <2> QED BY <2>2, <2>4 DEF Weight
<1> QED BY <1>5, <1>6, <1>7

LEMMA WeightOfNothing == Weight({}) = 0
<1>1. Units(Costs, {}) = {} BY DEF Units
<1> QED BY <1>1, FS_EmptySet DEF Weight

LEMMA LengthIsWeight == ASSUME Graph PROVE V!Length = Weight(V!Everywhere)
<1>1. V!Length = SumFunctionOnSet(Costs, DOMAIN Costs)
  BY DEF V!Length, V!SumFunction, V!SumFunctionOnSet, V!FoldFunctionOnSet, V!MapThenFoldSet,
         SumFunctionOnSet, FoldFunctionOnSet, MapThenFoldSet, Costs, Cost
<1>2. DOMAIN Costs = V!Everywhere BY DEF Costs
<1>3. IsFiniteSet(V!Everywhere) BY EverywhereFinite
<1>4. \A q \in V!Everywhere : Costs[q] \in Nat BY CostFacts
<1> QED BY <1>1, <1>2, <1>3, <1>4, SumCounts DEF Weight

LEMMA AppendFacts ==
  ASSUME NEW t, Wellformed(t), NEW b \in Nat, NEW s \in 0 .. b
  PROVE  /\ Wellformed(V!append(t, b, s))
         /\ t.error # "none" => V!append(t, b, s) = t
         /\ t.error = "none" /\ t.bytes + b <= result_limit =>
              V!append(t, b, s).error = "none" /\ V!append(t, b, s).bytes = t.bytes + b
              /\ V!append(t, b, s).special = t.special + s
         /\ t.error = "none" /\ ~(t.bytes + b <= result_limit) => V!append(t, b, s).error = "range"
<1>1. /\ t.bytes \in Nat /\ t.bytes <= result_limit /\ t.special \in Nat /\ t.special <= t.bytes
      /\ result_limit \in Nat /\ s \in Nat /\ s <= b
  BY Sizes2 DEF Wellformed, Texts
<1>2. V!Fits(t, b) <=> t.bytes + b <= result_limit BY <1>1 DEF V!Fits
<1>3. CASE t.error # "none" BY <1>3 DEF V!append
<1>4. CASE t.error = "none" /\ ~(t.bytes + b <= result_limit)
  <2>1. V!append(t, b, s) = [t EXCEPT !.error = "range"] BY <1>2, <1>4 DEF V!append, V!Raise
  <2> QED BY <1>4, <2>1 DEF Wellformed, Texts
<1>5. CASE t.error = "none" /\ t.bytes + b <= result_limit
  <2>1. V!append(t, b, s) = [t EXCEPT !.bytes = @ + b, !.special = @ + s] BY <1>2, <1>5 DEF V!append
  <2>2. t.bytes + b \in 0 .. result_limit /\ t.special + s \in Nat /\ t.special + s <= t.bytes + b BY <1>1, <1>5
  <2> QED BY <1>5, <2>1, <2>2 DEF Wellformed, Texts
<1> QED BY <1>3, <1>4, <1>5

(* A text that was to grow by n bytes since it was t0. *)
Spent(t0, t, n) ==
  /\ Wellformed(t)
  /\ t.error = "none" => t.bytes = t0.bytes + n
  /\ t.error # "none" => t.error = "range" /\ t0.bytes + n > result_limit

LEMMA TextNumbers ==
  ASSUME NEW t, Wellformed(t)
  PROVE  t.bytes \in Nat /\ t.bytes <= result_limit /\ t.special \in Nat /\ t.special <= t.bytes /\ result_limit \in Nat
         /\ t.error \in {"none", "range", "depth", "duplicate", "protocol"}
BY Sizes2 DEF Wellformed, Texts

LEMMA SpendMore ==
  ASSUME NEW t0, Wellformed(t0), NEW n \in Nat, NEW t, Spent(t0, t, n), NEW b \in Nat, NEW s \in 0 .. b
  PROVE  Spent(t0, V!append(t, b, s), n + b)
<1>1. t0.bytes \in Nat /\ result_limit \in Nat BY TextNumbers
<1>2. Wellformed(t) BY DEF Spent
<1> DEFINE u == V!append(t, b, s)
<1>3. /\ Wellformed(u)
      /\ t.error # "none" => u = t
      /\ t.error = "none" /\ t.bytes + b <= result_limit => u.error = "none" /\ u.bytes = t.bytes + b
      /\ t.error = "none" /\ ~(t.bytes + b <= result_limit) => u.error = "range"
  BY <1>2, AppendFacts
<1> HIDE DEF u
<1>4. CASE t.error # "none"
  <2>1. u = t /\ t.error = "range" /\ t0.bytes + n > result_limit BY <1>3, <1>4 DEF Spent
  <2>2. t0.bytes + (n + b) > result_limit BY <1>1, <2>1
  <2> QED BY <1>3, <1>4, <2>1, <2>2 DEF Spent, u
<1>5. CASE t.error = "none"
  <2>1. t.bytes = t0.bytes + n BY <1>5 DEF Spent
  <2>2. t.bytes + b = t0.bytes + (n + b) BY <1>1, <2>1
  <2>3. t0.bytes + (n + b) \in Nat BY <1>1
  <2>4. ~(t0.bytes + (n + b) <= result_limit) => t0.bytes + (n + b) > result_limit BY <1>1, <2>3
  <2>5. (u.error = "none" /\ u.bytes = t0.bytes + (n + b))
        \/ (u.error = "range" /\ t0.bytes + (n + b) > result_limit)
    BY <1>3, <1>5, <2>2, <2>4
  <2> QED BY <1>3, <2>5 DEF Spent, u
<1> QED BY <1>4, <1>5

LEMMA SpendFirst == ASSUME NEW t, Wellformed(t), t.error = "none" PROVE Spent(t, t, 0)
BY TextNumbers DEF Spent

LEMMA IntroduceFacts ==
  ASSUME Graph, NEW t0, Wellformed(t0), t0.error = "none",
         NEW q \in V!Everywhere, NEW i \in 1 .. V!Size(q.value)
  PROVE  /\ ~V!Repeated(heap[q.value], i) =>
              Spent(t0, V!Introduce(t0, heap[q.value], i), V!Member(q, i).lead)
         /\ V!Repeated(heap[q.value], i) =>
              Wellformed(V!Introduce(t0, heap[q.value], i)) /\ V!Introduce(t0, heap[q.value], i).error = "duplicate"
<1> DEFINE o == heap[q.value]
           k == Key[o.keys[i]]
           comma == IF i > 1 THEN 1 ELSE 0
           separated == IF i > 1 THEN V!append(t0, 1, 0) ELSE t0
           lead == V!Member(q, i).lead
           out == V!Introduce(t0, o, i)
<1>1. q \in Place /\ q.value \in Any BY EverywhereFacts
<1>2. /\ o.kind = "hash" => k.bytes \in Nat /\ k.special \in 0 .. k.bytes
      /\ lead = comma + (IF o.kind = "hash" THEN k.bytes + 3 ELSE 0)
      /\ comma \in Nat
  <2>1. V!Size(q.value) \in Nat BY <1>1, ObjectFacts
  <2>2. o.kind = "hash" => k.bytes \in Nat /\ k.special \in 0 .. k.bytes BY <1>1, ObjectFacts
  <2>3. lead = comma + (IF o.kind = "hash" THEN k.bytes + 3 ELSE 0) BY <1>1, MemberFacts
  <2> QED BY <2>2, <2>3
<1>3. Spent(t0, separated, comma)
  <2>1. Spent(t0, t0, 0) BY SpendFirst
  <2>2. Spent(t0, V!append(t0, 1, 0), 0 + 1) BY <2>1, SpendMore
  <2> QED BY <2>1, <2>2
<1>4. /\ V!Repeated(o, i) => out = V!Raise(t0, "duplicate")
      /\ ~V!Repeated(o, i) /\ o.kind = "hash" => out = V!append(V!quote(separated, k), 1, 0)
      /\ ~V!Repeated(o, i) /\ o.kind # "hash" => out = separated
  BY DEF V!Introduce
<1>5. V!quote(separated, k) = V!append(V!append(V!append(separated, 1, 1), k.bytes, k.special), 1, 1)
  BY DEF V!quote
<1> HIDE DEF o, k, separated, out, comma, lead
<1>7. CASE V!Repeated(o, i)
  <2>1. out = [t0 EXCEPT !.error = "duplicate"] BY <1>4, <1>7 DEF V!Raise
  <2>2. Wellformed(out) /\ out.error = "duplicate" BY <2>1 DEF Wellformed, Texts
  <2> QED BY <1>7, <2>2 DEF out, o
<1>8. CASE ~V!Repeated(o, i) /\ o.kind = "hash"
  <2>1. k.bytes \in Nat /\ k.special \in 0 .. k.bytes /\ comma \in Nat BY <1>2, <1>8
  <2> DEFINE x == V!append(separated, 1, 1)
             y == V!append(x, k.bytes, k.special)
             z == V!append(y, 1, 1)
  <2>2. 1 \in 0 .. 1 /\ 0 \in 0 .. 1 /\ 1 \in Nat OBVIOUS
  <2>3. Spent(t0, x, comma + 1) BY <1>3, <2>1, <2>2, SpendMore
  <2>4. comma + 1 \in Nat /\ (comma + 1) + k.bytes \in Nat /\ ((comma + 1) + k.bytes) + 1 \in Nat BY <2>1
  <2> HIDE DEF x
  <2>5. Spent(t0, y, (comma + 1) + k.bytes) BY <2>1, <2>3, <2>4, SpendMore
  <2> HIDE DEF y
  <2>6. Spent(t0, z, ((comma + 1) + k.bytes) + 1) BY <2>2, <2>4, <2>5, SpendMore
  <2> HIDE DEF z
  <2>7. Spent(t0, V!append(z, 1, 0), (((comma + 1) + k.bytes) + 1) + 1) BY <2>2, <2>4, <2>6, SpendMore
  <2>8. out = V!append(z, 1, 0) BY <1>4, <1>5, <1>8 DEF x, y, z
  <2>9. lead = (((comma + 1) + k.bytes) + 1) + 1 BY <1>2, <1>8, <2>1
  <2>10. Spent(t0, out, lead) BY <2>7, <2>8, <2>9
  <2> QED BY <1>8, <2>10 DEF out, o, lead
<1>9. CASE ~V!Repeated(o, i) /\ o.kind # "hash"
  <2>1. out = separated /\ lead = comma BY <1>2, <1>4, <1>9
  <2>2. Spent(t0, out, lead) BY <1>3, <2>1
  <2> QED BY <1>9, <2>2 DEF out, o, lead
<1> QED BY <1>7, <1>8, <1>9

LEMMA BeginFacts ==
  ASSUME Graph, NEW t, Wellformed(t), NEW q \in V!Everywhere
  PROVE  /\ t.error # "none" => V!Begin(t, q) = t
         /\ t.error = "none" /\ Len(q.path) > MaxLevels => Wellformed(V!Begin(t, q)) /\ V!Begin(t, q).error = "depth"
         /\ t.error = "none" /\ ~(Len(q.path) > MaxLevels) => Spent(t, V!Begin(t, q), Opening(q.value))
<1>1. CASE t.error # "none"
  <2>1. V!Begin(t, q) = t BY <1>1 DEF V!Begin, V!Raise, V!append
  <2> QED BY <1>1, <2>1
<1>2. CASE t.error = "none" /\ Len(q.path) > MaxLevels
  <2>1. V!Begin(t, q) = [t EXCEPT !.error = "depth"] BY <1>2 DEF V!Begin, V!TooDeep, V!Raise
  <2>2. Wellformed(V!Begin(t, q)) /\ V!Begin(t, q).error = "depth" BY <2>1 DEF Wellformed, Texts
  <2> QED BY <1>2, <2>2
<1>3. CASE t.error = "none" /\ ~(Len(q.path) > MaxLevels)
  <2>1. Spent(t, t, 0) BY <1>3, SpendFirst
  <2>2. CASE q.value \in Leaves
    <3>1. V!Begin(t, q) = V!append(t, Leaf[q.value].bytes, Leaf[q.value].special) BY <1>3, <2>2 DEF V!Begin, V!TooDeep
    <3>2. Leaf[q.value].bytes \in Nat /\ Leaf[q.value].special \in 0 .. Leaf[q.value].bytes
          /\ 0 + Leaf[q.value].bytes = Opening(q.value)
      BY <2>2, LeafBytes DEF Opening
    <3>3. Spent(t, V!Begin(t, q), 0 + Leaf[q.value].bytes) BY <2>1, <3>1, <3>2, SpendMore
    <3> QED BY <1>3, <3>2, <3>3
  <2>3. CASE q.value \notin Leaves
    <3>1. V!Begin(t, q) = V!append(t, 1, 0) BY <1>3, <2>3 DEF V!Begin, V!TooDeep
    <3>2. Spent(t, V!Begin(t, q), 0 + 1) BY <2>1, <3>1, SpendMore
    <3> QED BY <1>3, <2>3, <3>2 DEF Opening
  <2> QED BY <2>2, <2>3
<1> QED BY <1>1, <1>2, <1>3

(* What comes of the attempt to write a member. *)
LEMMA WriteFacts ==
  ASSUME Graph, NEW t0, Wellformed(t0), t0.error = "none",
         NEW q \in V!Everywhere, Len(q.path) <= MaxLevels, NEW i \in 1 .. V!Size(q.value),
         NEW t, t = V!Begin(V!Introduce(t0, heap[q.value], i), V!Member(q, i))
  PROVE  /\ Wellformed(t)
         /\ t.error = "none" =>
              /\ ~V!Repeated(heap[q.value], i) /\ Len(V!Member(q, i).path) <= MaxLevels
              /\ t.bytes = t0.bytes + V!Member(q, i).lead + Opening(V!Member(q, i).value)
         /\ t.error # "none" =>
              \/ t.error = "depth" /\ Len(V!Member(q, i).path) > MaxLevels
              \/ t.error = "duplicate" /\ V!Repeated(heap[q.value], i)
              \/ t.error = "range" /\ t0.bytes + V!Member(q, i).lead + Opening(V!Member(q, i).value) > result_limit
<1> DEFINE m == V!Member(q, i)
           u == V!Introduce(t0, heap[q.value], i)
           cost == Opening(m.value)
<1>1. m \in V!Everywhere BY MembersEverywhere
<1> HIDE DEF m
<1>2. m.lead \in Nat /\ Len(m.path) \in Nat /\ MaxLevels \in Nat BY <1>1, EverywhereFacts, Sizes2
<1>3. cost \in Nat BY <1>1, CostFacts
<1>4. /\ ~V!Repeated(heap[q.value], i) => Spent(t0, u, m.lead)
      /\ V!Repeated(heap[q.value], i) => Wellformed(u) /\ u.error = "duplicate"
  BY IntroduceFacts DEF m
<1>5. t = V!Begin(u, m) BY DEF m
<1> HIDE DEF u, cost
<1>6. Wellformed(u) BY <1>4 DEF Spent
<1>7. /\ u.error # "none" => t = u
      /\ u.error = "none" /\ Len(m.path) > MaxLevels => Wellformed(t) /\ t.error = "depth"
      /\ u.error = "none" /\ ~(Len(m.path) > MaxLevels) => Spent(u, t, cost)
  BY <1>1, <1>5, <1>6, BeginFacts DEF cost
<1>8. t0.bytes \in Nat /\ result_limit \in Nat BY TextNumbers
<1>9. CASE u.error # "none"
  <2>1. t = u BY <1>7, <1>9
  <2>2. \/ u.error = "duplicate" /\ V!Repeated(heap[q.value], i)
        \/ u.error = "range" /\ t0.bytes + m.lead > result_limit
    BY <1>4, <1>9 DEF Spent
  <2>3. t0.bytes + m.lead > result_limit => t0.bytes + m.lead + cost > result_limit BY <1>2, <1>3, <1>8
  <2> QED BY <1>6, <1>9, <2>1, <2>2, <2>3 DEF m, cost
<1>10. CASE u.error = "none" /\ Len(m.path) > MaxLevels BY <1>7, <1>10 DEF m
<1>11. CASE u.error = "none" /\ ~(Len(m.path) > MaxLevels)
  <2>1. Spent(u, t, cost) BY <1>7, <1>11
  <2>2. ~V!Repeated(heap[q.value], i) /\ u.bytes = t0.bytes + m.lead BY <1>4, <1>11 DEF Spent
  <2>3. Len(m.path) <= MaxLevels BY <1>2, <1>11
  <2> QED BY <2>1, <2>2, <2>3 DEF Spent, m, cost
<1> QED BY <1>9, <1>10, <1>11

-----------------------------------------------------------------------------
(* Encoding.  What is written are the places that no call owes. *)
Caller == [place : V!Everywhere, next : Nat]
Writing(c) == [k \in 1 .. Len(c) |-> [path |-> c[k].place.path, todo |-> c[k].next .. V!Size(c[k].place.value)]]
Paid(st) == {q \in V!Everywhere : ~Owed(q.path, st)}
Begun(c) == IF c[1].place.value \in Leaves THEN Len(c) - 1 ELSE Len(c)
Says(S, j) == j = [n \in {q.name : q \in S} |-> j[n]] /\ \A q \in S : j[q.name] = V!Kind(q.value)
Lawful(S) ==
  /\ \A q \in S : Len(q.path) <= MaxLevels
  /\ \A r \in V!Everywhere : \A i \in 1 .. V!Size(r.value) :
       Len(r.path) <= MaxLevels /\ V!Member(r, i) \in S => ~V!Repeated(heap[r.value], i)

Callers(c) ==
  /\ c \in Seq(Caller)
  /\ \A k \in 1 .. Len(c) : c[k].next \in 1 .. V!Size(c[k].place.value) + 1
  /\ \A k \in 2 .. Len(c) : c[k].place.value \notin Leaves
  /\ Chained(Writing(c))

Encoding(c, t, j) ==
  /\ Callers(c) /\ c # <<>>
  /\ Wellformed(t) /\ t.error = "none" /\ t.bytes + Begun(c) = Weight(Paid(Writing(c)))
  /\ Says(Paid(Writing(c)), j) /\ Lawful(Paid(Writing(c)))

Encoded(t, j) ==
  Wellformed(t) /\ t.bytes = Weight(V!Everywhere) /\ Says(V!Everywhere, j) /\ Lawful(V!Everywhere)

LEMMA StackPaid ==
  ASSUME NEW st, Chained(st), NEW k \in 1 .. Len(st)
  PROVE  ~Owed(st[k].path, st)
<1> SUFFICES ASSUME NEW m \in 1 .. Len(st), Within(st[k].path, st[m]) PROVE FALSE BY DEF Owed
<1>1. Len(st) \in Nat BY ChainFacts
<1>2. Len(st[k].path) = Len(st) - k /\ Len(st[m].path) = Len(st) - m BY DEF Chained
<1>3. k < m BY <1>1, <1>2 DEF Within, Extends
<1>4. st[k].path[Len(st[m].path) + 1] \notin st[m].todo BY <1>3 DEF Chained
<1> QED BY <1>4 DEF Within

LEMMA CallerFacts ==
  ASSUME Graph, NEW c, Callers(c), c # <<>>
  PROVE  /\ Len(c) \in Nat /\ Len(c) >= 1 /\ 1 \in 1 .. Len(c) /\ c[1] \in Caller
         /\ c[1].place \in V!Everywhere /\ c[1].next \in 1 .. V!Size(c[1].place.value) + 1 /\ c[1].next \in Nat
         /\ V!Size(c[1].place.value) \in Nat
         /\ Len(Writing(c)) = Len(c) /\ Writing(c) # <<>> /\ Writing(c) \in Seq(Frame)
         /\ Writing(c)[1].path = c[1].place.path /\ Writing(c)[1].todo = c[1].next .. V!Size(c[1].place.value)
         /\ Len(c[1].place.path) = Len(c) - 1
         /\ c[1].place \in Paid(Writing(c))
<1>1. Len(c) \in Nat /\ Len(c) >= 1 /\ c[1] \in Caller BY PopFacts DEF Callers
<1>2. 1 \in 1 .. Len(c) BY <1>1
<1>3. c[1].place \in V!Everywhere /\ c[1].next \in 1 .. V!Size(c[1].place.value) + 1
  BY <1>1, <1>2 DEF Caller, Callers
<1>4. V!Size(c[1].place.value) \in Nat BY <1>3, EverywhereFacts, ObjectFacts
<1>5. Chained(Writing(c)) BY DEF Callers
<1>6. Writing(c) \in Seq(Frame) BY <1>5 DEF Chained
<1>7. Len(Writing(c)) = Len(c)
  <2>1. DOMAIN Writing(c) = 1 .. Len(Writing(c)) /\ Len(Writing(c)) \in Nat BY <1>6, LenProperties
  <2>2. DOMAIN Writing(c) = 1 .. Len(c) BY DEF Writing
  <2> QED BY <1>1, <2>1, <2>2
<1>8. Writing(c) # <<>>
  <2> SUFFICES ASSUME Writing(c) = <<>> PROVE FALSE OBVIOUS
  <2> QED BY <1>1, <1>7
<1>9. Writing(c)[1].path = c[1].place.path /\ Writing(c)[1].todo = c[1].next .. V!Size(c[1].place.value)
  BY <1>2 DEF Writing
<1>10. Len(c[1].place.path) = Len(c) - 1 BY <1>1, <1>2, <1>5, <1>7, <1>9 DEF Chained
<1>11. ~Owed(c[1].place.path, Writing(c)) BY <1>2, <1>5, <1>7, <1>9, StackPaid
<1> QED BY <1>1, <1>2, <1>3, <1>4, <1>6, <1>7, <1>8, <1>9, <1>10, <1>11 DEF Paid

LEMMA MembersDiffer ==
  ASSUME Graph, NEW q \in V!Everywhere, NEW i \in 1 .. V!Size(q.value),
         NEW r \in V!Everywhere, NEW k \in 1 .. V!Size(r.value), V!Member(r, k) = V!Member(q, i)
  PROVE  r = q /\ k = i
<1>1. Len(q.path) \in Nat /\ Len(r.path) \in Nat BY EverywhereFacts
<1>2. /\ Len(V!Member(q, i).path) = Len(q.path) + 1 /\ V!Member(q, i).path[Len(q.path) + 1] = i
      /\ \A n \in 1 .. Len(q.path) : V!Member(q, i).path[n] = q.path[n]
  BY MemberEntries
<1>3. /\ Len(V!Member(r, k).path) = Len(r.path) + 1 /\ V!Member(r, k).path[Len(r.path) + 1] = k
      /\ \A n \in 1 .. Len(r.path) : V!Member(r, k).path[n] = r.path[n]
  BY MemberEntries
<1>4. Len(r.path) = Len(q.path) BY <1>1, <1>2, <1>3
<1>5. r = q BY <1>2, <1>3, <1>4, OnePlace
<1> QED BY <1>2, <1>3, <1>5

(* Where the law holds, no two places written have one name. *)
LEMMA PaidNames ==
  ASSUME Graph, NEW st, Lawful(Paid(st)), NEW p \in Paid(st), NEW q \in Paid(st), p.name = q.name
  PROVE  p = q
<1> SUFFICES ASSUME p # q PROVE FALSE OBVIOUS
<1>1. p \in V!Everywhere /\ q \in V!Everywhere BY DEF Paid
<1>2. Len(p.path) \in Nat /\ Len(q.path) \in Nat /\ MaxLevels \in Nat BY <1>1, EverywhereFacts, Sizes2
<1>3. ASSUME NEW r \in V!Everywhere, NEW x \in Paid(st), Len(r.path) < Len(x.path),
             \A k \in 1 .. Len(r.path) : r.path[k] = x.path[k],
             x.path[Len(r.path) + 1] \in 1 .. V!Size(r.value),
             V!Repeated(heap[r.value], x.path[Len(r.path) + 1])
      PROVE  FALSE
  <2> DEFINE i == x.path[Len(r.path) + 1]
             m == V!Member(r, i)
  <2>1. x \in V!Everywhere /\ ~Owed(x.path, st) /\ Len(x.path) <= MaxLevels BY <1>3 DEF Paid, Lawful
  <2>2. Len(r.path) \in Nat /\ Len(x.path) \in Nat BY <1>3, <2>1, EverywhereFacts
  <2>3. Len(r.path) <= MaxLevels BY <1>2, <1>3, <2>1, <2>2
  <2>4. i \in 1 .. V!Size(r.value) BY <1>3
  <2>5. m \in V!Everywhere BY <1>3, <2>3, <2>4, MembersEverywhere
  <2>6. /\ Len(m.path) = Len(r.path) + 1 /\ m.path[Len(r.path) + 1] = i
        /\ \A k \in 1 .. Len(r.path) : m.path[k] = r.path[k]
    BY <1>3, <2>4, MemberEntries
  <2> HIDE DEF m
  <2>7. ASSUME NEW k \in 1 .. Len(m.path) PROVE x.path[k] = m.path[k]
    <3>1. k = Len(r.path) + 1 \/ k \in 1 .. Len(r.path) BY <2>2, <2>6
    <3> QED BY <1>3, <2>6, <3>1
  <2>8. Len(m.path) < Len(x.path) \/ Len(m.path) = Len(x.path) BY <1>3, <2>2, <2>6
  <2>9. m \notin Paid(st) BY <1>3, <2>3, <2>4 DEF Lawful, m
  <2>10. Owed(m.path, st) BY <2>5, <2>9 DEF Paid
  <2>11. CASE Len(m.path) < Len(x.path)
    <3>1. Extends(x.path, m.path) BY <2>7, <2>11 DEF Extends
    <3>2. Len(m.path) \in Nat BY <2>2, <2>6
    <3>3. Owed(x.path, st) BY <2>2, <2>10, <3>1, <3>2, OwedBelow
    <3> QED BY <2>1, <3>3
  <2>12. CASE Len(m.path) = Len(x.path)
    <3>1. m = x BY <2>1, <2>5, <2>7, <2>12, OnePlace
    <3> QED BY <2>1, <2>10, <3>1
  <2> QED BY <2>8, <2>11, <2>12
<1>4. PICK r \in V!Everywhere :
           /\ Len(r.path) < Len(p.path) /\ Len(p.path) = Len(q.path)
           /\ \A k \in 1 .. Len(r.path) : r.path[k] = p.path[k] /\ r.path[k] = q.path[k]
           /\ p.path[Len(r.path) + 1] \in 1 .. V!Size(r.value) /\ q.path[Len(r.path) + 1] \in 1 .. V!Size(r.value)
           /\ V!Repeated(heap[r.value], q.path[Len(r.path) + 1]) \/ V!Repeated(heap[r.value], p.path[Len(r.path) + 1])
  BY <1>1, NamesApart
<1>5. CASE V!Repeated(heap[r.value], q.path[Len(r.path) + 1]) BY <1>3, <1>4, <1>5
<1>6. CASE V!Repeated(heap[r.value], p.path[Len(r.path) + 1]) BY <1>3, <1>4, <1>6
<1> QED BY <1>4, <1>5, <1>6

(* The call of the next member: it is what the frame on top owes first. *)
Descended(c, m) == <<[place |-> m, next |-> 1]>> \o (<<[c[1] EXCEPT !.next = @ + 1]>> \o Tail(c))

LEMMA DescendedFacts ==
  ASSUME Graph, NEW c, Callers(c), c # <<>>, NEW m \in V!Everywhere
  PROVE  /\ Descended(c, m) \in Seq(Caller) /\ Len(Descended(c, m)) = Len(c) + 1
         /\ Descended(c, m)[1] = [place |-> m, next |-> 1]
         /\ Descended(c, m)[2] = [place |-> c[1].place, next |-> c[1].next + 1]
         /\ \A k \in 3 .. Len(c) + 1 : Descended(c, m)[k] = c[k - 1]
<1> DEFINE a == [place |-> m, next |-> 1]
           b == [c[1] EXCEPT !.next = @ + 1]
<1>1. c \in Seq(Caller) /\ c[1] \in Caller /\ c[1].next \in Nat BY CallerFacts DEF Callers
<1>2. b = [place |-> c[1].place, next |-> c[1].next + 1] BY <1>1 DEF Caller
<1>3. a \in Caller /\ b \in Caller BY <1>1, <1>2 DEF Caller
<1> HIDE DEF a, b
<1>4. Tail(c) \in Seq(Caller) BY <1>1, PopFacts
<1>5. <<a>> \in Seq(Caller) /\ <<b>> \in Seq(Caller) BY <1>3
<1>6. <<a>> \o <<b>> = <<a, b>>
  <2>1. /\ Len(<<a>>) = 1 /\ Len(<<b>>) = 1 /\ <<a>>[1] = a /\ <<b>>[1] = b
        /\ <<a, b>> \in Seq(Caller) /\ Len(<<a, b>>) = 2 /\ <<a, b>>[1] = a /\ <<a, b>>[2] = b
    BY <1>3
  <2>2. /\ <<a>> \o <<b>> \in Seq(Caller) /\ Len(<<a>> \o <<b>>) = 1 + 1
        /\ \A k \in 1 .. 1 + 1 : (<<a>> \o <<b>>)[k] = IF k <= 1 THEN <<a>>[k] ELSE <<b>>[k - 1]
    BY <1>5, <2>1, ConcatProperties
  <2>3. (<<a>> \o <<b>>)[1] = a /\ (<<a>> \o <<b>>)[2] = b BY <2>1, <2>2
  <2>4. \A k \in 1 .. 2 : (<<a>> \o <<b>>)[k] = <<a, b>>[k] BY <2>1, <2>3
  <2> DEFINE u == <<a>> \o <<b>>
             v == <<a, b>>
  <2>5. u \in Seq(Caller) /\ v \in Seq(Caller) /\ Len(u) = Len(v) /\ Len(u) = 2 /\ \A k \in 1 .. 2 : u[k] = v[k]
    BY <2>1, <2>2, <2>4
  <2> HIDE DEF u, v
  <2>6. u = v BY <2>5, SeqEqual
  <2> QED BY <2>6 DEF u, v
<1>7. (<<a>> \o <<b>>) \o Tail(c) = <<a>> \o (<<b>> \o Tail(c)) BY <1>4, <1>5, ConcatAssociative
<1>8. Descended(c, m) = <<a, b>> \o Tail(c) BY <1>6, <1>7 DEF Descended, a, b
<1>9. /\ <<a, b>> \o Tail(c) \in Seq(Caller) /\ Len(<<a, b>> \o Tail(c)) = Len(c) + 1
      /\ (<<a, b>> \o Tail(c))[1] = a /\ (<<a, b>> \o Tail(c))[2] = b
      /\ \A k \in 3 .. Len(c) + 1 : (<<a, b>> \o Tail(c))[k] = c[k - 1]
  BY <1>1, <1>3, PushFacts
<1> QED BY <1>2, <1>8, <1>9 DEF a

LEMMA CallsMember ==
  ASSUME Graph, NEW c, Callers(c), c # <<>>, c[1].next <= V!Size(c[1].place.value),
         Len(c[1].place.path) <= MaxLevels, NEW m, m = V!Member(c[1].place, c[1].next)
  PROVE  /\ m \in V!Everywhere /\ m \notin Paid(Writing(c))
         /\ Callers(Descended(c, m)) /\ Descended(c, m) # <<>>
         /\ Paid(Writing(Descended(c, m))) = Paid(Writing(c)) \cup {m}
         /\ Begun(c) = Len(c)
         /\ Begun(Descended(c, m)) = Len(c) + (IF m.value \in Leaves THEN 0 ELSE 1)
<1> DEFINE q == c[1].place
           i == c[1].next
           d == Descended(c, m)
           st == Writing(c)
           n == Len(c)
           T == 1 .. V!Size(m.value)
<1>1. /\ n \in Nat /\ n >= 1 /\ 1 \in 1 .. n /\ q \in V!Everywhere /\ i \in Nat /\ i \in 1 .. V!Size(q.value)
      /\ Len(st) = n /\ st # <<>> /\ st[1].path = q.path /\ st[1].todo = i .. V!Size(q.value)
      /\ Len(q.path) = n - 1 /\ V!Size(q.value) \in Nat
  <2>1. /\ n \in Nat /\ n >= 1 /\ 1 \in 1 .. n /\ q \in V!Everywhere /\ i \in Nat
        /\ V!Size(q.value) \in Nat /\ i \in 1 .. V!Size(q.value) + 1
    BY CallerFacts
  <2>2. Len(st) = n /\ st # <<>> /\ st[1].path = q.path /\ st[1].todo = i .. V!Size(q.value) /\ Len(q.path) = n - 1
    BY CallerFacts
  <2> QED BY <2>1, <2>2
<1>2. Chained(st) /\ c \in Seq(Caller) BY DEF Callers
<1>3. m \in V!Everywhere BY <1>1, MembersEverywhere
<1>4. m.value \in Any /\ V!Size(m.value) \in Nat BY <1>3, EverywhereFacts, ObjectFacts
<1>5. m.path = Append(q.path, i) BY <1>1, MemberFacts, EverywhereFacts
<1>6. Len(m.path) = n /\ m.path \in Seq(Nat)
  <2>1. Len(m.path) = Len(q.path) + 1 BY <1>1, MemberEntries
  <2>2. m.path \in Seq(Positive) BY <1>3, EverywhereFacts
  <2>3. m.path \in Seq(Nat) BY <2>2 DEF Positive
  <2> QED BY <1>1, <2>1, <2>3
<1>7. i \in st[1].todo /\ T \in SUBSET Nat BY <1>1, <1>4
<1>8. /\ d \in Seq(Caller) /\ Len(d) = n + 1
      /\ d[1] = [place |-> m, next |-> 1] /\ d[2] = [place |-> q, next |-> i + 1]
      /\ \A k \in 3 .. n + 1 : d[k] = c[k - 1]
  BY <1>3, DescendedFacts
<1> HIDE DEF d
<1>9. Writing(d) = Opened(st, i, T)
  <2> DEFINE o == Opened(st, i, T)
  <2>1. o \in Seq(Frame) /\ Len(o) = n + 1
    <3> HIDE DEF st, T, i, n
    <3>0. Chained(st) /\ st # <<>> /\ i \in st[1].todo /\ T \in SUBSET Nat BY <1>1, <1>2, <1>7
    <3>1. Opened(st, i, T) \in Seq(Frame) /\ Len(Opened(st, i, T)) = Len(st) + 1 BY <3>0, OpenFacts
    <3> QED BY <1>1, <3>1
  <2>2. o = <<[path |-> m.path, todo |-> T], [path |-> q.path, todo |-> (i .. V!Size(q.value)) \ {i}]>> \o Tail(st)
    BY <1>1, <1>5 DEF Opened
  <2>3. \A k \in 3 .. n + 1 : o[k] = st[k - 1]
    <3> HIDE DEF st, T, i, n
    <3>0. Chained(st) /\ st # <<>> /\ i \in st[1].todo /\ T \in SUBSET Nat BY <1>1, <1>2, <1>7
    <3>1. \A k \in 3 .. Len(st) + 1 : Opened(st, i, T)[k] = st[k - 1] BY <3>0, OpenFacts
    <3> QED BY <1>1, <3>1
  <2> DEFINE a == [path |-> m.path, todo |-> T]
             b == [path |-> q.path, todo |-> (i .. V!Size(q.value)) \ {i}]
  <2>4. a \in Frame /\ b \in Frame
    <3>1. q.path \in Seq(Positive) BY <1>1, EverywhereFacts
    <3>2. q.path \in Seq(Nat) BY <3>1 DEF Positive
    <3>3. (i .. V!Size(q.value)) \ {i} \in SUBSET Nat BY <1>1
    <3> QED BY <1>6, <1>7, <3>2, <3>3 DEF Frame
  <2> HIDE DEF a, b
  <2>5. o[1] = a /\ o[2] = b
    <3>1. o = <<a, b>> \o Tail(st) BY <2>2 DEF a, b
    <3>2. st \in Seq(Frame) BY <1>2 DEF Chained
    <3> HIDE DEF o
    <3> QED BY <1>1, <2>4, <3>1, <3>2, PushFacts
  <2> HIDE DEF o
  <2>6. b = [path |-> q.path, todo |-> i + 1 .. V!Size(q.value)]
    <3>1. (i .. V!Size(q.value)) \ {i} = i + 1 .. V!Size(q.value) BY <1>1
    <3> QED BY <3>1 DEF b
  <2>7. ASSUME NEW k \in 1 .. n + 1 PROVE Writing(d)[k] = o[k]
    <3>1. Writing(d)[k] = [path |-> d[k].place.path, todo |-> d[k].next .. V!Size(d[k].place.value)]
      BY <1>8, <2>7 DEF Writing
    <3>2. CASE k = 1 BY <1>8, <2>5, <3>1, <3>2 DEF a
    <3>3. CASE k = 2 BY <1>8, <2>5, <2>6, <3>1, <3>3
    <3>4. CASE k \in 3 .. n + 1
      <4>1. k - 1 \in 1 .. n BY <1>1, <3>4
      <4>2. st[k - 1] = [path |-> c[k - 1].place.path, todo |-> c[k - 1].next .. V!Size(c[k - 1].place.value)]
        BY <4>1 DEF Writing
      <4>3. d[k] = c[k - 1] /\ o[k] = st[k - 1] BY <1>8, <2>3, <3>4
      <4> HIDE DEF st
      <4> QED BY <3>1, <4>2, <4>3
    <3> QED BY <1>1, <3>2, <3>3, <3>4
  <2>8. DOMAIN Writing(d) = 1 .. n + 1 BY <1>8 DEF Writing
  <2>9. DOMAIN o = 1 .. n + 1 BY <2>1, LenProperties
  <2>10. o = [k \in DOMAIN o |-> o[k]] BY <2>1, SeqDef
  <2>11. Writing(d) = [k \in DOMAIN Writing(d) |-> Writing(d)[k]] BY DEF Writing
  <2> QED BY <2>7, <2>8, <2>9, <2>10, <2>11 DEF o
<1> HIDE DEF st
<1>10. Chained(Writing(d)) BY <1>1, <1>2, <1>7, <1>9, OpenedChained
<1>11. ASSUME NEW k \in 1 .. n + 1 PROVE d[k].next \in 1 .. V!Size(d[k].place.value) + 1
  <2>1. CASE k = 1 BY <1>4, <1>8, <2>1
  <2>2. CASE k = 2 BY <1>1, <1>8, <2>2
  <2>3. CASE k \in 3 .. n + 1
    <3>1. k - 1 \in 1 .. n BY <1>1, <2>3
    <3> QED BY <1>8, <2>3, <3>1 DEF Callers
  <2> QED BY <1>1, <2>1, <2>2, <2>3
<1>12. q.value \notin Leaves BY <1>1, EverywhereFacts, ObjectFacts
<1>13. ASSUME NEW k \in 2 .. n + 1 PROVE d[k].place.value \notin Leaves
  <2>1. CASE k = 2 BY <1>8, <1>12, <2>1
  <2>2. CASE k \in 3 .. n + 1
    <3>1. k - 1 \in 2 .. n BY <1>1, <2>2
    <3> QED BY <1>8, <2>2, <3>1 DEF Callers
  <2> QED BY <1>1, <2>1, <2>2
<1>14. Callers(d) BY <1>8, <1>10, <1>11, <1>13 DEF Callers
<1>15. d # <<>>
  <2> SUFFICES ASSUME d = <<>> PROVE FALSE OBVIOUS
  <2> QED BY <1>1, <1>8
<1>16. ASSUME NEW p \in V!Everywhere PROVE Owed(p.path, Writing(d)) <=> Owed(p.path, st) /\ p # m
  <2>1. p.path \in Seq(Positive) /\ Len(p.path) \in Nat BY EverywhereFacts
  <2>2. p.path \in Seq(Nat) BY <2>1 DEF Positive
  <2>3. Extends(p.path, Append(st[1].path, i)) => p.path[Len(st) + 1] \in T
    <3> HAVE Extends(p.path, Append(st[1].path, i))
    <3>1. Extends(p.path, m.path) BY <1>1, <1>5
    <3>2. Len(m.path) < Len(p.path) /\ \A k \in 1 .. Len(m.path) : m.path[k] = p.path[k] BY <3>1 DEF Extends
    <3>3. p.path[Len(m.path) + 1] \in 1 .. V!Size(m.value) BY <1>3, <3>2, BranchOf
    <3> QED BY <1>1, <1>6, <3>3
  <2>4. Owed(p.path, Writing(d)) <=> Owed(p.path, st) /\ p.path # m.path
    <3> HIDE DEF T, i, n
    <3>1. Owed(p.path, Opened(st, i, T)) <=> Owed(p.path, st) /\ p.path # Append(st[1].path, i)
      BY <1>1, <1>2, <1>7, <2>2, <2>3, OpenedOwes
    <3> QED BY <1>1, <1>5, <1>9, <3>1
  <2>5. p.path = m.path => p = m BY <1>3, OnePlace
  <2> QED BY <2>4, <2>5
<1>17. Owed(m.path, st)
  <2>1. /\ Len(m.path) = Len(q.path) + 1 /\ m.path[Len(q.path) + 1] = i
        /\ \A k \in 1 .. Len(q.path) : m.path[k] = q.path[k]
    BY <1>1, MemberEntries
  <2>2. Within(m.path, st[1]) BY <1>1, <1>7, <2>1 DEF Within, Extends
  <2> QED BY <1>1, <2>2 DEF Owed
<1>18. m \notin Paid(st) /\ Paid(Writing(d)) = Paid(st) \cup {m} BY <1>3, <1>16, <1>17 DEF Paid
<1>19. Begun(c) = n /\ Begun(d) = n + (IF m.value \in Leaves THEN 0 ELSE 1)
  BY <1>1, <1>8, <1>12 DEF Begun
<1> QED BY <1>3, <1>14, <1>15, <1>18, <1>19 DEF d, st

Failing(t) ==
  /\ Wellformed(t)
  /\ \/ t.error = "depth" /\ V!Deep(MaxLevels)
     \/ t.error = "duplicate" /\ V!Duplicates
     \/ t.error = "range" /\ V!Length > result_limit

LEMMA SaysMore ==
  ASSUME NEW S, NEW j, Says(S, j), NEW m, \A p \in S : p.name = m.name => p = m
  PROVE  Says(S \cup {m}, V!Put(j, m.name, V!Kind(m.value)))
<1> DEFINE l == V!Put(j, m.name, V!Kind(m.value))
<1>0. DOMAIN j = {q.name : q \in S} BY DEF Says
<1>1. /\ DOMAIN l = DOMAIN j \cup {m.name} /\ l = [p \in DOMAIN l |-> l[p]]
      /\ \A p \in DOMAIN l : l[p] = IF p = m.name THEN V!Kind(m.value) ELSE j[p]
  BY DEF V!Put
<1> HIDE DEF l
<1>2. DOMAIN l = {q.name : q \in S \cup {m}} BY <1>0, <1>1
<1>3. ASSUME NEW q \in S \cup {m} PROVE l[q.name] = V!Kind(q.value)
  <2>1. CASE q.name = m.name
    <3>1. q = m BY <2>1
    <3> QED BY <1>1, <3>1
  <2>2. CASE q.name # m.name
    <3>1. q \in S /\ q.name \in DOMAIN j BY <1>0, <2>2
    <3> QED BY <1>1, <2>2, <3>1 DEF Says
  <2> QED BY <2>1, <2>2
<1> QED BY <1>1, <1>2, <1>3 DEF Says, l

LEMMA MemberWritten ==
  ASSUME Graph, NEW c, NEW t0, NEW j, Encoding(c, t0, j), c[1].next <= V!Size(c[1].place.value),
         NEW m, m = V!Member(c[1].place, c[1].next),
         NEW t, t = V!Begin(V!Introduce(t0, heap[c[1].place.value], c[1].next), m)
  PROVE  /\ t.error = "none" => Encoding(Descended(c, m), t, V!Put(j, m.name, V!Kind(m.value)))
         /\ t.error # "none" => Failing(t)
<1> DEFINE q == c[1].place
           i == c[1].next
           S == Paid(Writing(c))
           d == Descended(c, m)
<1>1. Callers(c) /\ c # <<>> /\ Wellformed(t0) /\ t0.error = "none" /\ Says(S, j) /\ Lawful(S)
      /\ t0.bytes + Begun(c) = Weight(S)
  BY DEF Encoding
<1>2. /\ Len(c) \in Nat /\ Len(c) >= 1 /\ q \in V!Everywhere /\ q \in S /\ i \in 1 .. V!Size(q.value)
      /\ S \subseteq V!Everywhere
  <2>1. Len(c) \in Nat /\ Len(c) >= 1 /\ q \in V!Everywhere /\ q \in S BY <1>1, CallerFacts
  <2>2. i \in 1 .. V!Size(q.value) + 1 /\ V!Size(q.value) \in Nat BY <1>1, CallerFacts
  <2> QED BY <2>1, <2>2 DEF Paid
<1>3. Len(q.path) <= MaxLevels BY <1>1, <1>2 DEF Lawful
<1>4. /\ m \in V!Everywhere /\ m \notin S /\ Callers(d) /\ d # <<>> /\ Paid(Writing(d)) = S \cup {m}
      /\ Begun(c) = Len(c) /\ Begun(d) = Len(c) + (IF m.value \in Leaves THEN 0 ELSE 1)
  BY <1>1, <1>2, <1>3, CallsMember
<1>5. /\ Wellformed(t)
      /\ t.error = "none" =>
           /\ ~V!Repeated(heap[q.value], i) /\ Len(m.path) <= MaxLevels
           /\ t.bytes = t0.bytes + m.lead + Opening(m.value)
      /\ t.error # "none" =>
           \/ t.error = "depth" /\ Len(m.path) > MaxLevels
           \/ t.error = "duplicate" /\ V!Repeated(heap[q.value], i)
           \/ t.error = "range" /\ t0.bytes + m.lead + Opening(m.value) > result_limit
  BY <1>1, <1>2, <1>3, WriteFacts
<1>6. t0.bytes \in Nat /\ result_limit \in Nat /\ MaxLevels \in Nat BY <1>1, TextNumbers, Sizes2
<1>7. m.lead \in Nat /\ Len(m.path) \in 0 .. MaxLevels + 1 /\ m \in V!Places[Len(m.path)] BY <1>4, EverywhereFacts
<1>8. /\ Opening(m.value) \in Nat
      /\ Costs[m] = m.lead + Opening(m.value) + (IF m.value \in Leaves THEN 0 ELSE 1)
  BY <1>4, CostFacts
<1>9. Weight(S \cup {m}) = Costs[m] + Weight(S) BY <1>2, <1>4, Weights
<1>10. S \cup {m} \in SUBSET V!Everywhere BY <1>2, <1>4
<1>11. Weight(S \cup {m}) \in Nat /\ Weight(S \cup {m}) <= Weight(V!Everywhere) BY <1>10, Weights
<1>12. V!Length = Weight(V!Everywhere) /\ Weight(V!Everywhere) \in Nat BY LengthIsWeight, Weights
<1>m. m = V!Member(q, i) OBVIOUS
<1> HIDE DEF q, i, S, d
<1>13. ASSUME t.error = "none" PROVE Encoding(d, t, V!Put(j, m.name, V!Kind(m.value)))
  <2>1. Lawful(S \cup {m})
    <3>1. \A p \in S \cup {m} : Len(p.path) <= MaxLevels BY <1>1, <1>5, <1>13 DEF Lawful
    <3>2. ASSUME NEW r \in V!Everywhere, NEW k \in 1 .. V!Size(r.value), Len(r.path) <= MaxLevels,
                 V!Member(r, k) \in S \cup {m}
          PROVE  ~V!Repeated(heap[r.value], k)
      <4>1. CASE V!Member(r, k) = m
        <5>1. r = q /\ k = i BY <1>2, <1>m, <4>1, MembersDiffer
        <5> QED BY <1>5, <1>13, <5>1
      <4>2. CASE V!Member(r, k) \in S BY <1>1, <3>2, <4>2 DEF Lawful
      <4> QED BY <3>2, <4>1, <4>2
    <3> QED BY <3>1, <3>2 DEF Lawful
  <2>2. \A p \in S : p.name = m.name => p = m
    <3>1. Lawful(Paid(Writing(d))) BY <1>4, <2>1
    <3> QED BY <1>4, <3>1, PaidNames
  <2>3. Says(S \cup {m}, V!Put(j, m.name, V!Kind(m.value))) BY <1>1, <2>2, SaysMore
  <2>4. t.bytes + Begun(d) = Weight(S \cup {m})
    <3>1. t.bytes = t0.bytes + m.lead + Opening(m.value) BY <1>5, <1>13
    <3>2. CASE m.value \in Leaves BY <1>1, <1>2, <1>4, <1>6, <1>7, <1>8, <1>9, <3>1, <3>2
    <3>3. CASE m.value \notin Leaves
      <4>1. Begun(d) = Len(c) + 1 BY <1>4, <3>3
      <4>2. Costs[m] = m.lead + Opening(m.value) + 1 BY <1>8, <3>3
      <4>3. Weight(S) = t0.bytes + Len(c) BY <1>1, <1>4
      <4>4. Weight(S \cup {m}) = m.lead + Opening(m.value) + 1 + (t0.bytes + Len(c)) BY <1>9, <4>2, <4>3
      <4> DEFINE w == t0.bytes
                 x == m.lead
                 y == Opening(m.value)
                 z == Len(c)
      <4>5. w \in Nat /\ x \in Nat /\ y \in Nat /\ z \in Nat BY <1>2, <1>6, <1>7, <1>8
      <4>6. t.bytes = w + x + y BY <3>1
      <4>7. Begun(d) = z + 1 BY <4>1
      <4>8. Weight(S \cup {m}) = x + y + 1 + (w + z) BY <4>4
      <4> HIDE DEF w, x, y, z
      <4> QED BY <4>5, <4>6, <4>7, <4>8
    <3> QED BY <3>2, <3>3
  <2> QED BY <1>4, <1>5, <1>13, <2>1, <2>3, <2>4 DEF Encoding
<1>14. ASSUME t.error # "none" PROVE Failing(t)
  <2>1. CASE t.error = "depth" /\ Len(m.path) > MaxLevels
    <3>1. Len(m.path) = MaxLevels + 1 BY <1>6, <1>7, <2>1
    <3> QED BY <1>5, <1>7, <2>1, <3>1 DEF Failing, V!Deep
  <2>2. CASE t.error = "duplicate" /\ V!Repeated(heap[q.value], i)
    <3>1. q.value \in Objects BY <1>2, EverywhereFacts, ObjectFacts
    <3> QED BY <1>2, <1>5, <2>2, <3>1 DEF Failing, V!Duplicates
  <2>3. CASE t.error = "range" /\ t0.bytes + m.lead + Opening(m.value) > result_limit
    <3>1. Weight(S \cup {m}) >= t0.bytes + m.lead + Opening(m.value)
      BY <1>1, <1>2, <1>4, <1>6, <1>7, <1>8, <1>9
    <3>2. V!Length > result_limit BY <1>6, <1>7, <1>8, <1>11, <1>12, <2>3, <3>1
    <3> QED BY <1>5, <2>3, <3>2 DEF Failing
  <2> QED BY <1>5, <1>14, <2>1, <2>2, <2>3
<1> QED BY <1>13, <1>14 DEF d

LEMMA ReturnWritten ==
  ASSUME Graph, NEW c, NEW t0, NEW j, Encoding(c, t0, j), ~(c[1].next <= V!Size(c[1].place.value)),
         NEW t, t = IF c[1].place.value \in Leaves THEN t0 ELSE V!append(t0, 1, 0)
  PROVE  /\ t.error = "none" /\ Tail(c) # <<>> => Encoding(Tail(c), t, j)
         /\ t.error = "none" /\ Tail(c) = <<>> => Encoded(t, j)
         /\ t.error # "none" => Failing(t)
<1> DEFINE st == Writing(c)
           u == Tail(c)
           S == Paid(st)
           n == Len(c)
<1>1. Callers(c) /\ c # <<>> /\ Wellformed(t0) /\ t0.error = "none" /\ Says(S, j) /\ Lawful(S)
      /\ t0.bytes + Begun(c) = Weight(S)
  BY DEF Encoding
<1>2. n \in Nat /\ n >= 1 /\ c[1].place \in V!Everywhere BY <1>1, CallerFacts
<1>3. st[1].todo = c[1].next .. V!Size(c[1].place.value) /\ c[1].next \in Nat /\ V!Size(c[1].place.value) \in Nat
  BY <1>1, CallerFacts
<1>4. Len(st) = n /\ st # <<>> BY <1>1, CallerFacts
<1>5. st[1].todo = {} BY <1>3
<1>6. Chained(st) /\ c \in Seq(Caller) BY <1>1 DEF Callers
<1>7. u \in Seq(Caller) /\ Len(u) = n - 1 /\ \A k \in 1 .. n - 1 : u[k] = c[k + 1]
  BY <1>1, <1>6, PopFacts
<1>8. /\ Chained(Tail(st)) /\ Len(Tail(st)) = n - 1 /\ \A k \in 1 .. n - 1 : Tail(st)[k] = st[k + 1]
      /\ Tail(st) \in Seq(Frame)
  <2> HIDE DEF st, n
  <2>1. Chained(Tail(st)) /\ Len(Tail(st)) = Len(st) - 1 /\ \A k \in 1 .. Len(st) - 1 : Tail(st)[k] = st[k + 1]
    BY <1>4, <1>6, ClosedChained
  <2> QED BY <1>4, <2>1 DEF Chained
<1>9. Writing(u) = Tail(st)
  <2>1. ASSUME NEW k \in 1 .. n - 1 PROVE Writing(u)[k] = Tail(st)[k]
    <3>1. k \in 1 .. Len(u) /\ k + 1 \in 1 .. n BY <1>2, <1>7
    <3>2. Writing(u)[k] = [path |-> u[k].place.path, todo |-> u[k].next .. V!Size(u[k].place.value)]
      BY <3>1 DEF Writing
    <3>3. st[k + 1] = [path |-> c[k + 1].place.path, todo |-> c[k + 1].next .. V!Size(c[k + 1].place.value)]
      BY <3>1 DEF Writing
    <3>4. u[k] = c[k + 1] /\ Tail(st)[k] = st[k + 1] BY <1>7, <1>8
    <3> HIDE DEF u, st
    <3> QED BY <3>2, <3>3, <3>4
  <2>2. DOMAIN Writing(u) = 1 .. n - 1 BY <1>7 DEF Writing
  <2> DEFINE v == Tail(st)
  <2>3. v \in Seq(Frame) /\ Len(v) = n - 1 BY <1>8
  <2> HIDE DEF v
  <2>4. DOMAIN v = 1 .. n - 1 /\ v = [k \in DOMAIN v |-> v[k]] BY <2>3, LenProperties, SeqDef
  <2>5. Writing(u) = [k \in DOMAIN Writing(u) |-> Writing(u)[k]] BY DEF Writing
  <2>6. \A k \in 1 .. n - 1 : Writing(u)[k] = v[k] BY <2>1 DEF v
  <2>7. Writing(u) = v BY <2>2, <2>4, <2>5, <2>6
  <2> QED BY <2>7 DEF v
<1> HIDE DEF st
<1>10. Paid(Writing(u)) = S
  <2>1. \A q \in V!Everywhere : Owed(q.path, Tail(st)) <=> Owed(q.path, st) BY <1>4, <1>5, <1>6, ClosedOwes
  <2> QED BY <1>9, <2>1 DEF Paid
<1>11. Callers(u)
  <2>1. ASSUME NEW k \in 1 .. n - 1
        PROVE  u[k].next \in 1 .. V!Size(u[k].place.value) + 1 /\ u[k].place.value \notin Leaves
    <3>1. k + 1 \in 2 .. n /\ k + 1 \in 1 .. n BY <1>2
    <3> QED BY <1>1, <1>7, <3>1 DEF Callers
  <2>2. \A k \in 2 .. n - 1 : k \in 1 .. n - 1 OBVIOUS
  <2> QED BY <1>7, <1>8, <1>9, <2>1, <2>2 DEF Callers
<1>12. u # <<>> => Begun(u) = n - 1
  <2> HAVE u # <<>>
  <2>1. Len(u) # 0 BY <1>7, EmptySeq
  <2>2. 1 + 1 \in 2 .. n /\ 1 \in 1 .. n - 1 BY <1>2, <1>7, <2>1
  <2>3. u[1].place.value \notin Leaves BY <1>1, <1>7, <2>2 DEF Callers
  <2> QED BY <1>7, <2>3 DEF Begun
<1>13. u = <<>> => n = 1 /\ S = V!Everywhere
  <2> HAVE u = <<>>
  <2>1. Len(u) = 0 /\ Len(u) = n - 1 BY <1>7, EmptySeq
  <2>2. n = 1
    <3> HIDE DEF u, n
    <3> QED BY <1>2, <2>1
  <2>3. \A p : ~Owed(p, Tail(st)) BY <1>8, <2>2 DEF Owed
  <2> QED BY <1>9, <1>10, <2>2, <2>3 DEF Paid
<1>14. t0.bytes \in Nat /\ result_limit \in Nat BY <1>1, TextNumbers
<1>15. Weight(V!Everywhere) = V!Length /\ Weight(S) <= Weight(V!Everywhere) /\ Weight(S) \in Nat
       /\ Weight(V!Everywhere) \in Nat
  <2>1. S \in SUBSET V!Everywhere BY DEF Paid
  <2> QED BY <2>1, LengthIsWeight, Weights
<1>16. CASE c[1].place.value \in Leaves
  <2>1. t = t0 /\ Begun(c) = n - 1 BY <1>16 DEF Begun
  <2>2. u # <<>> => t.bytes + Begun(u) = Weight(S) BY <1>1, <1>12, <2>1
  <2>3. u = <<>> => t.bytes = Weight(S)
    <3> HAVE u = <<>>
    <3>1. Begun(c) = 0 BY <1>13, <2>1
    <3> QED BY <1>1, <1>14, <2>1, <3>1
  <2> QED BY <1>1, <1>10, <1>11, <1>13, <2>1, <2>2, <2>3 DEF Encoding, Encoded
<1>17. CASE c[1].place.value \notin Leaves
  <2>1. t = V!append(t0, 1, 0) /\ Begun(c) = n BY <1>17 DEF Begun
  <2>2. 1 \in Nat /\ 0 \in 0 .. 1 OBVIOUS
  <2>3. Wellformed(t) BY <1>1, <2>1, <2>2, AppendFacts
  <2>4. /\ t0.bytes + 1 <= result_limit => t.error = "none" /\ t.bytes = t0.bytes + 1
        /\ ~(t0.bytes + 1 <= result_limit) => t.error = "range"
    BY <1>1, <2>1, <2>2, AppendFacts
  <2>5. CASE t0.bytes + 1 <= result_limit
    <3>1. t.error = "none" /\ t.bytes = t0.bytes + 1 BY <2>4, <2>5
    <3>2. u # <<>> => t.bytes + Begun(u) = Weight(S) BY <1>1, <1>2, <1>12, <1>14, <2>1, <3>1
    <3>3. u = <<>> => t.bytes = Weight(S) BY <1>1, <1>13, <1>14, <2>1, <3>1
    <3> QED BY <1>1, <1>10, <1>11, <1>13, <2>3, <3>1, <3>2, <3>3 DEF Encoding, Encoded
  <2>6. CASE ~(t0.bytes + 1 <= result_limit)
    <3>1. t.error = "range" BY <2>4, <2>6
    <3>2. V!Length > result_limit BY <1>1, <1>2, <1>14, <1>15, <2>1, <2>6
    <3> QED BY <2>3, <3>1, <3>2 DEF Failing
  <2> QED BY <2>5, <2>6
<1> QED BY <1>16, <1>17

LEMMA FirstWritten ==
  ASSUME Graph, NEW t0, t0 = [bytes |-> 0, special |-> 0, error |-> "none"], NEW t, t = V!Begin(t0, V!First)
  PROVE  /\ t.error = "none" => Encoding(<<[place |-> V!First, next |-> 1]>>, t, V!Put(<<>>, V!First.name, V!Kind(root)))
         /\ t.error # "none" => Failing(t)
<1> DEFINE f == V!First
           c == <<[place |-> f, next |-> 1]>>
<1>1. f \in V!Everywhere /\ f.path = <<>> /\ Len(f.path) = 0 /\ f.lead = 0 /\ f.value = root
      /\ root \in Any /\ V!Size(root) \in Nat /\ f \in Place
  <2>1. root \in Any BY DEF Graph
  <2> QED BY <2>1, FirstFacts, FirstEverywhere, ObjectFacts
<1> HIDE DEF f
<1>2. Wellformed(t0) /\ t0.error = "none" /\ t0.bytes = 0 BY Sizes2 DEF Wellformed, Texts
<1>3. ~(Len(f.path) > MaxLevels) BY <1>1, Sizes2
<1>4. Spent(t0, t, Opening(root)) BY <1>1, <1>2, <1>3, BeginFacts DEF f
<1>5. /\ Opening(root) \in Nat /\ Costs[f] = Opening(root) + (IF root \in Leaves THEN 0 ELSE 1) /\ Costs[f] \in Nat
  <2>1. Costs[f] = f.lead + Opening(f.value) + (IF f.value \in Leaves THEN 0 ELSE 1) /\ Opening(f.value) \in Nat
        /\ Costs[f] \in Nat
    BY <1>1, CostFacts
  <2> QED BY <1>1, <2>1
<1>6. Weight({f}) = Costs[f] /\ Weight({f}) <= V!Length /\ V!Length \in Nat
  <2>1. {f} \in SUBSET V!Everywhere /\ {} \in SUBSET V!Everywhere /\ {} \cup {f} = {f} /\ f \in V!Everywhere \ {}
    BY <1>1
  <2>2. Weight({} \cup {f}) = Costs[f] + Weight({}) BY <2>1, Weights
  <2>3. Weight({f}) <= Weight(V!Everywhere) /\ Weight(V!Everywhere) \in Nat BY <2>1, Weights
  <2> QED BY <1>5, <2>1, <2>2, <2>3, WeightOfNothing, LengthIsWeight
<1>7. ASSUME t.error # "none" PROVE Failing(t)
  <2>1. Wellformed(t) /\ t.error = "range" /\ t0.bytes + Opening(root) > result_limit BY <1>4, <1>7 DEF Spent
  <2>2. V!Length > result_limit BY <1>2, <1>5, <1>6, <2>1, Sizes2
  <2> QED BY <2>1, <2>2 DEF Failing
<1>8. ASSUME t.error = "none" PROVE Encoding(c, t, V!Put(<<>>, f.name, V!Kind(root)))
  <2>1. c \in Seq(Caller) /\ c # <<>> /\ Len(c) = 1 /\ c[1] = [place |-> f, next |-> 1]
    <3>1. [place |-> f, next |-> 1] \in Caller BY <1>1 DEF Caller
    <3> QED BY <3>1
  <2> DEFINE g == [path |-> <<>>, todo |-> 1 .. V!Size(root)]
  <2>2. g \in Frame
    <3>1. <<>> \in Seq(Nat) /\ 1 .. V!Size(root) \in SUBSET Nat BY <1>1, EmptySeq
    <3> QED BY <3>1 DEF Frame
  <2>3. Writing(c) = <<g>>
    <3>1. Writing(c) = [k \in 1 .. 1 |-> [path |-> c[k].place.path, todo |-> c[k].next .. V!Size(c[k].place.value)]]
      BY <2>1 DEF Writing
    <3>2. \A k \in 1 .. 1 : k = 1 OBVIOUS
    <3>3. \A k \in 1 .. 1 : [path |-> c[k].place.path, todo |-> c[k].next .. V!Size(c[k].place.value)] = g
      BY <1>1, <2>1, <3>2
    <3>4. <<g>> = [k \in 1 .. 1 |-> g] OBVIOUS
    <3> HIDE DEF g, c
    <3> QED BY <3>1, <3>3, <3>4
  <2>4. <<g>> \in Seq(Frame) /\ Len(<<g>>) = 1 /\ <<g>>[1] = g BY <2>2
  <2>5. g.path = <<>> /\ Len(g.path) = 0 /\ g.todo = 1 .. V!Size(root) BY EmptySeq
  <2> HIDE DEF c, g
  <2>6. Chained(Writing(c))
    <3>1. \A k \in 1 .. 1 : k = 1 OBVIOUS
    <3> QED BY <2>3, <2>4, <2>5, <3>1 DEF Chained
  <2>7. Callers(c)
    <3>1. \A k \in 1 .. 1 : k = 1 OBVIOUS
    <3>2. 1 \in 1 .. V!Size(root) + 1 BY <1>1
    <3> QED BY <1>1, <2>1, <2>6, <3>1, <3>2 DEF Callers
  <2>8. Paid(Writing(c)) = {f}
    <3>1. ASSUME NEW p \in V!Everywhere PROVE Owed(p.path, Writing(c)) <=> p # f
      <4>1. Len(p.path) \in Nat /\ (Len(p.path) = 0 => p = f) BY EverywhereFacts DEF f
      <4>2. Owed(p.path, Writing(c)) <=> Within(p.path, g)
        <5>1. \A k \in 1 .. 1 : k = 1 OBVIOUS
        <5>2. 1 \in 1 .. 1 OBVIOUS
        <5> QED BY <2>3, <2>4, <5>1, <5>2 DEF Owed
      <4>3. CASE p = f BY <1>1, <2>5, <4>2, <4>3 DEF Within, Extends
      <4>4. CASE p # f
        <5>1. Len(f.path) < Len(p.path) /\ \A k \in 1 .. Len(f.path) : f.path[k] = p.path[k] BY <1>1, <4>1, <4>4
        <5>2. p.path[Len(f.path) + 1] \in 1 .. V!Size(f.value) BY <1>1, <5>1, BranchOf
        <5>3. Within(p.path, g) BY <1>1, <2>5, <5>1, <5>2 DEF Within, Extends
        <5> QED BY <4>2, <4>4, <5>3
      <4> QED BY <4>3, <4>4
    <3> QED BY <1>1, <3>1 DEF Paid
  <2>9. Lawful({f})
    <3>1. ASSUME NEW r \in V!Everywhere, NEW k \in 1 .. V!Size(r.value), V!Member(r, k) = f PROVE FALSE
      <4>1. Len(V!Member(r, k).path) = Len(r.path) + 1 /\ Len(r.path) \in Nat BY MemberEntries, EverywhereFacts
      <4> QED BY <1>1, <3>1, <4>1
    <3> QED BY <1>3, <3>1, <1>1, Sizes2 DEF Lawful
  <2>10. Says({} \cup {f}, V!Put(<<>>, f.name, V!Kind(f.value)))
    <3>1. Says({}, <<>>) BY DEF Says
    <3> QED BY <3>1, SaysMore
  <2>11. {} \cup {f} = {f} OBVIOUS
  <2>12. t.bytes + Begun(c) = Weight({f})
    <3>1. t.bytes = Opening(root) BY <1>2, <1>4, <1>5, <1>8 DEF Spent
    <3>2. Begun(c) = IF root \in Leaves THEN 0 ELSE 1 BY <1>1, <2>1 DEF Begun
    <3> QED BY <1>5, <1>6, <3>1, <3>2
  <2> QED BY <1>1, <1>4, <1>8, <2>1, <2>7, <2>8, <2>9, <2>10, <2>11, <2>12 DEF Encoding, Spent
<1> QED BY <1>7, <1>8 DEF f

LEMMA SamePlaces == ASSUME UNCHANGED <<heap, root>> PROVE V!Everywhere' = V!Everywhere /\ V!Places' = V!Places
<1>1. heap' = heap /\ root' = root OBVIOUS
<1>2. V!Places' = V!Places BY <1>1 DEF V!Places, V!Member, V!First, V!Size
<1> QED BY <1>2 DEF V!Everywhere

LEMMA SameGraph ==
  ASSUME UNCHANGED <<heap, root>>
  PROVE  /\ (Graph' <=> Graph)
         /\ \A c, t, j : Encoding(c, t, j)' <=> Encoding(c, t, j)
         /\ \A t, j : Encoded(t, j)' <=> Encoded(t, j)
         /\ \A t : Failing(t)' <=> Failing(t)
<1>1. heap' = heap /\ root' = root /\ V!Everywhere' = V!Everywhere /\ V!Places' = V!Places BY SamePlaces
<1>2. \A c, t, j : Encoding(c, t, j)' <=> Encoding(c, t, j)
  BY <1>1 DEF Encoding, Callers, Writing, Paid, Lawful, Says, Begun, Weight, Costs, Cost, Caller,
              V!Size, V!Kind, V!Member, V!Repeated
<1>3. \A t, j : Encoded(t, j)' <=> Encoded(t, j)
  BY <1>1 DEF Encoded, Lawful, Says, Weight, Costs, Cost, V!Size, V!Kind, V!Member, V!Repeated
<1>4. \A t : Failing(t)' <=> Failing(t)
  BY <1>1 DEF Failing, V!Deep, V!Duplicates, V!Length, V!Size, V!Repeated
<1> QED BY <1>1, <1>2, <1>3, <1>4 DEF Graph

LEMMA EncodedMeans ==
  ASSUME Graph, NEW t, NEW j, Encoded(t, j)
  PROVE  ~V!Deep(MaxLevels) /\ ~V!Duplicates /\ t.bytes = V!Length /\ j = V!Meaning
<1>1. \A q \in V!Everywhere : Len(q.path) <= MaxLevels BY DEF Encoded, Lawful
<1>2. ~V!Deep(MaxLevels)
  <2>1. MaxLevels + 1 \in 0 .. MaxLevels + 1 /\ ~(MaxLevels + 1 <= MaxLevels) BY Sizes2
  <2>2. ASSUME NEW q \in V!Places[MaxLevels + 1] PROVE FALSE
    <3>1. q \in V!Everywhere BY <2>1 DEF V!Everywhere
    <3>2. Len(q.path) = MaxLevels + 1 BY <2>1, PlaceTypes
    <3> QED BY <1>1, <2>1, <3>1, <3>2
  <2> QED BY <2>2 DEF V!Deep
<1>3. ~V!Duplicates
  <2> SUFFICES ASSUME NEW q \in V!Everywhere, NEW i \in 1 .. V!Size(q.value), V!Repeated(heap[q.value], i)
               PROVE FALSE
    BY DEF V!Duplicates
  <2>1. Len(q.path) <= MaxLevels BY <1>1
  <2>2. V!Member(q, i) \in V!Everywhere BY <2>1, MembersEverywhere
  <2> QED BY <2>1, <2>2 DEF Encoded, Lawful
<1>4. t.bytes = V!Length BY LengthIsWeight DEF Encoded
<1>5. j = V!Meaning
  <2>1. DOMAIN j = {q.name : q \in V!Everywhere} BY DEF Encoded, Says
  <2>2. ASSUME NEW name \in DOMAIN j
        PROVE  j[name] = V!Kind((CHOOSE q \in V!Everywhere : q.name = name).value)
    <3>1. \E q \in V!Everywhere : q.name = name BY <2>1
    <3> DEFINE some == CHOOSE q \in V!Everywhere : q.name = name
    <3>2. some \in V!Everywhere /\ some.name = name BY <3>1
    <3> HIDE DEF some
    <3>3. j[some.name] = V!Kind(some.value) BY <3>2 DEF Encoded, Says
    <3> QED BY <3>2, <3>3 DEF some
  <2>3. j = [name \in DOMAIN j |-> j[name]] BY <2>1 DEF Encoded, Says
  <2> QED BY <2>1, <2>2, <2>3 DEF V!Meaning
<1> QED BY <1>2, <1>3, <1>4, <1>5

-----------------------------------------------------------------------------
(* The tree of what is encoded. *)
LEMMA NamesAre ==
  ASSUME \A p \in DOMAIN json : p \in Seq(Nat), NEW p \in Seq(Nat), NEW s
  PROVE  s \in V!Names(p) <=> s \in Nat /\ Append(p, s) \in DOMAIN json
<1>1. Len(p) \in Nat BY LenProperties
<1>2. ASSUME s \in V!Names(p) PROVE s \in Nat /\ Append(p, s) \in DOMAIN json
  <2>1. PICK q \in DOMAIN json : Len(q) = Len(p) + 1 /\ SubSeq(q, 1, Len(p)) = p /\ s = q[Len(q)]
    BY <1>2 DEF V!Names
  <2>2. q \in Seq(Nat) BY <2>1
  <2>3. Len(q) \in 1 .. Len(q) /\ Len(q) - 1 = Len(p) BY <1>1, <2>1
  <2>4. s \in Nat BY <2>1, <2>2, <2>3, ElementOfSeq
  <2>5. /\ Append(p, s) \in Seq(Nat) /\ Len(Append(p, s)) = Len(p) + 1
        /\ \A i \in 1 .. Len(p) : Append(p, s)[i] = p[i]
        /\ Append(p, s)[Len(p) + 1] = s
    BY <2>4, AppendProperties
  <2>6. \A i \in 1 .. Len(p) : q[i] = p[i]
    <3>1. \A i \in 1 .. Len(p) : i \in 1 .. Len(q) BY <1>1, <2>1
    <3>2. \A i \in 1 .. Len(p) : SubSeq(q, 1, Len(p))[i] = q[1 + i - 1]
      <4>1. 1 \in 1 .. Len(q) + 1 /\ Len(p) \in 1 - 1 .. Len(q) /\ Len(p) - 1 + 1 = Len(p) BY <1>1, <2>1
      <4> QED BY <2>2, <4>1, SubSeqProperties
    <3>3. \A i \in 1 .. Len(p) : 1 + i - 1 = i OBVIOUS
    <3> QED BY <2>1, <3>2, <3>3
  <2>7. \A i \in 1 .. Len(q) : q[i] = Append(p, s)[i]
    <3>1. \A i \in 1 .. Len(q) : i = Len(q) \/ i \in 1 .. Len(p) BY <1>1, <2>1
    <3> QED BY <2>1, <2>5, <2>6, <3>1
  <2>8. q = Append(p, s) BY <2>1, <2>2, <2>5, <2>7, SeqEqual
  <2> QED BY <2>1, <2>4, <2>8
<1>3. ASSUME s \in Nat, Append(p, s) \in DOMAIN json PROVE s \in V!Names(p)
  <2> DEFINE q == Append(p, s)
  <2>1. /\ q \in Seq(Nat) /\ Len(q) = Len(p) + 1 /\ q[Len(p) + 1] = s
        /\ \A i \in 1 .. Len(p) : q[i] = p[i]
    BY <1>3, AppendProperties
  <2>2. q \in DOMAIN json BY <1>3
  <2> HIDE DEF q
  <2>3. SubSeq(q, 1, Len(p)) = p
    <3>1. 1 \in 1 .. Len(q) + 1 /\ Len(p) \in 1 - 1 .. Len(q) /\ Len(p) - 1 + 1 = Len(p) BY <1>1, <2>1
    <3>2. /\ SubSeq(q, 1, Len(p)) \in Seq(Nat) /\ Len(SubSeq(q, 1, Len(p))) = Len(p)
          /\ \A i \in 1 .. Len(p) : SubSeq(q, 1, Len(p))[i] = q[1 + i - 1]
      BY <2>1, <3>1, SubSeqProperties
    <3>3. \A i \in 1 .. Len(p) : SubSeq(q, 1, Len(p))[i] = p[i]
      <4>1. \A i \in 1 .. Len(p) : 1 + i - 1 = i OBVIOUS
      <4> QED BY <2>1, <3>2, <4>1
    <3> QED BY <3>2, <3>3, SeqEqual
  <2> QED BY <2>1, <2>2, <2>3 DEF V!Names
<1> QED BY <1>2, <1>3

Nodes == {<<>>} \cup DOMAIN json
KindAt(p) == IF p = <<>> THEN "hash" ELSE json[p]
Tree ==
  /\ json = [p \in DOMAIN json |-> json[p]]
  /\ \A p \in DOMAIN json : p \in Seq(Nat) /\ Len(p) >= 1 /\ p[1] = 1
  /\ \A p \in DOMAIN json, r \in Nodes : Extends(p, r) => Append(r, p[Len(r) + 1]) \in DOMAIN json
  /\ \A p \in Nodes : IsFiniteSet(V!Names(p))
  /\ V!Names(<<>>) = {1} /\ <<1>> \in DOMAIN json
  /\ \A p \in DOMAIN json : json[p] # "hash" => \E n \in Nat : V!Names(p) = 1 .. n

LEMMA NamedOnce ==
  ASSUME Graph, Lawful(V!Everywhere), NEW p \in V!Everywhere, NEW q \in V!Everywhere, p.name = q.name
  PROVE  p = q
<1>1. Paid(<<>>) = V!Everywhere BY DEF Paid, Owed
<1> QED BY <1>1, PaidNames

LEMMA NamesOfPlace ==
  ASSUME Graph, NEW t, Encoded(t, json), NEW q \in V!Everywhere,
         \A p \in DOMAIN json : p \in Seq(Nat)
  PROVE  V!Names(q.name) = {Label(q.value, i) : i \in 1 .. V!Size(q.value)}
<1>1. q.name \in Seq(Nat) /\ q.path \in Seq(Positive) /\ Len(q.path) \in Nat /\ q \in Place /\ Len(q.name) = Len(q.path) + 1
  BY EverywhereFacts
<1>2. DOMAIN json = {x.name : x \in V!Everywhere} /\ Lawful(V!Everywhere) BY DEF Encoded, Says
<1>3. Len(q.path) <= MaxLevels BY <1>2 DEF Lawful
<1>4. ASSUME NEW i \in 1 .. V!Size(q.value) PROVE Label(q.value, i) \in V!Names(q.name)
  <2>1. V!Member(q, i) \in V!Everywhere BY <1>3, MembersEverywhere
  <2>2. V!Member(q, i).name = Append(q.name, Label(q.value, i)) BY <1>1, MemberFacts
  <2>3. Label(q.value, i) \in Nat BY <1>1, ObjectFacts, EverywhereFacts
  <2>4. Append(q.name, Label(q.value, i)) \in DOMAIN json BY <1>2, <2>1, <2>2
  <2> QED BY <1>1, <2>3, <2>4, NamesAre
<1>5. ASSUME NEW s \in V!Names(q.name) PROVE \E i \in 1 .. V!Size(q.value) : s = Label(q.value, i)
  <2>1. s \in Nat /\ Append(q.name, s) \in DOMAIN json BY <1>1, NamesAre
  <2>2. PICK x \in V!Everywhere : x.name = Append(q.name, s) BY <1>2, <2>1
  <2>3. /\ Len(Append(q.name, s)) = Len(q.name) + 1 /\ Append(q.name, s)[Len(q.name) + 1] = s
        /\ \A k \in 1 .. Len(q.name) : Append(q.name, s)[k] = q.name[k]
    BY <1>1, <2>1, AppendProperties
  <2>4. Len(x.path) \in Nat /\ Len(x.name) = Len(x.path) + 1 BY EverywhereFacts
  <2>5. Len(x.path) = Len(q.path) + 1 /\ Len(x.path) # 0 /\ Len(x.path) - 1 = Len(q.path) BY <1>1, <2>2, <2>3, <2>4
  <2>6. PICK r \in V!Everywhere : Len(r.path) = Len(q.path) /\ \E i \in 1 .. V!Size(r.value) : x = V!Member(r, i)
    BY <2>5, OwnersEverywhere
  <2>7. PICK i \in 1 .. V!Size(r.value) : x = V!Member(r, i) BY <2>6
  <2>8. /\ x.name[Len(r.path) + 2] = Label(r.value, i)
        /\ \A k \in 1 .. Len(r.path) + 1 : x.name[k] = r.name[k]
    BY <2>7, MemberEntries
  <2>9. r.name \in Seq(Nat) /\ Len(r.name) = Len(r.path) + 1 BY EverywhereFacts
  <2>10. r.name = q.name
    <3>1. Len(r.name) = Len(q.name) /\ Len(r.path) + 1 = Len(q.name) BY <1>1, <2>6, <2>9
    <3>2. \A k \in 1 .. Len(q.name) : x.name[k] = r.name[k] BY <2>8, <3>1
    <3>3. \A k \in 1 .. Len(q.name) : x.name[k] = q.name[k]
      <4> DEFINE long == Append(q.name, s)
      <4>1. x.name = long /\ \A k \in 1 .. Len(q.name) : long[k] = q.name[k] BY <2>2, <2>3
      <4> HIDE DEF long
      <4> QED BY <4>1
    <3>4. \A k \in 1 .. Len(q.name) : r.name[k] = q.name[k] BY <3>2, <3>3
    <3> QED BY <1>1, <2>9, <3>1, <3>4, SeqEqual
  <2>11. r = q BY <1>2, <2>10, NamedOnce
  <2>12. Len(q.name) + 1 = Len(r.path) + 2 BY <1>1, <2>6
  <2>13. s = Label(q.value, i) BY <2>2, <2>3, <2>8, <2>11, <2>12
  <2> QED BY <2>11, <2>13
<1> QED BY <1>4, <1>5

LEMMA TreeOfEncoded == ASSUME Graph, NEW t, Encoded(t, json) PROVE Tree
<1>1. DOMAIN json = {x.name : x \in V!Everywhere} /\ Lawful(V!Everywhere)
      /\ \A q \in V!Everywhere : json[q.name] = V!Kind(q.value)
  BY DEF Encoded, Says
<1>2. ASSUME NEW p \in DOMAIN json PROVE p \in Seq(Nat) /\ Len(p) >= 1 /\ p[1] = 1
  <2>1. PICK x \in V!Everywhere : x.name = p BY <1>1
  <2>2. p \in Seq(Nat) /\ Len(x.path) \in Nat /\ Len(p) = Len(x.path) + 1 BY <2>1, EverywhereFacts
  <2>3. 0 \in 0 .. Len(x.path) BY <2>2
  <2>4. PICK r \in V!Everywhere : Len(r.path) = 0 /\ \A k \in 1 .. 0 + 1 : r.name[k] = x.name[k]
    BY <2>3, Ancestors
  <2>5. r.name = <<1>> BY <2>4, EverywhereFacts, FirstFacts
  <2> QED BY <2>1, <2>2, <2>4, <2>5
<1>3. \A p \in DOMAIN json : p \in Seq(Nat) BY <1>2
<1>4. ASSUME NEW p \in DOMAIN json, NEW r \in Nodes, Extends(p, r)
      PROVE  Append(r, p[Len(r) + 1]) \in DOMAIN json
  <2>1. PICK x \in V!Everywhere : x.name = p BY <1>1
  <2>2. p \in Seq(Nat) /\ Len(x.path) \in Nat /\ Len(p) = Len(x.path) + 1 BY <2>1, EverywhereFacts
  <2>3. r \in Seq(Nat) /\ Len(r) \in Nat
    <3>1. r \in Seq(Nat) BY <1>3, EmptySeq DEF Nodes
    <3> QED BY <3>1, LenProperties
  <2>4. Len(r) < Len(p) /\ \A i \in 1 .. Len(r) : p[i] = r[i] BY <1>4 DEF Extends
  <2>5. Len(r) \in 0 .. Len(x.path) /\ Len(r) + 1 \in 1 .. Len(p) BY <2>2, <2>3, <2>4
  <2>6. PICK z \in V!Everywhere : Len(z.path) = Len(r) /\ \A k \in 1 .. Len(r) + 1 : z.name[k] = x.name[k]
    BY <2>5, Ancestors
  <2>7. z.name \in Seq(Nat) /\ Len(z.name) = Len(r) + 1 BY <2>6, EverywhereFacts
  <2> DEFINE s == p[Len(r) + 1]
  <2>8. s \in Nat BY <2>2, <2>5, ElementOfSeq
  <2> HIDE DEF s
  <2>9. /\ Append(r, s) \in Seq(Nat) /\ Len(Append(r, s)) = Len(r) + 1 /\ Append(r, s)[Len(r) + 1] = s
        /\ \A k \in 1 .. Len(r) : Append(r, s)[k] = r[k]
    BY <2>3, <2>8, AppendProperties
  <2>10. ASSUME NEW k \in 1 .. Len(r) + 1 PROVE z.name[k] = Append(r, s)[k]
    <3>1. k = Len(r) + 1 \/ k \in 1 .. Len(r) BY <2>3
    <3> QED BY <2>1, <2>4, <2>6, <2>9, <3>1 DEF s
  <2>11. z.name = Append(r, s) BY <2>7, <2>9, <2>10, SeqEqual
  <2> QED BY <1>1, <2>11 DEF s
<1>5. ASSUME NEW p PROVE IsFiniteSet(V!Names(p))
  <2> DEFINE below == {q \in DOMAIN json : Len(q) = Len(p) + 1 /\ SubSeq(q, 1, Len(p)) = p}
             f == [x \in V!Everywhere |-> x.name]
             g == [x \in below |-> x[Len(x)]]
  <2>1. f \in Surjection(V!Everywhere, DOMAIN json) BY <1>1 DEF Surjection
  <2>2. IsFiniteSet(V!Everywhere) BY EverywhereFinite
  <2>3. IsFiniteSet(DOMAIN json)
    <3> HIDE DEF f
    <3> QED BY <2>1, <2>2, FS_Surjection
  <2>4. IsFiniteSet(below) BY <2>3, FS_Subset
  <2>5. V!Names(p) = {x[Len(x)] : x \in below} BY DEF V!Names
  <2>6. g \in Surjection(below, V!Names(p)) BY <2>5 DEF Surjection
  <2> HIDE DEF below, g
  <2> QED BY <2>4, <2>6, FS_Surjection
<1>6. <<1>> \in DOMAIN json BY <1>1, FirstEverywhere, FirstFacts
<1>7. V!Names(<<>>) = {1}
  <2>1. <<>> \in Seq(Nat) /\ Append(<<>>, 1) = <<1>> BY EmptySeq
  <2>2. ASSUME NEW s \in V!Names(<<>>) PROVE s = 1
    <3>1. s \in Nat /\ Append(<<>>, s) \in DOMAIN json BY <1>3, <2>1, NamesAre
    <3>2. Append(<<>>, s)[1] = s BY <3>1
    <3> QED BY <1>2, <3>1, <3>2
  <2>3. 1 \in V!Names(<<>>) BY <1>3, <1>6, <2>1, NamesAre
  <2> QED BY <2>2, <2>3
<1>8. ASSUME NEW p \in DOMAIN json, json[p] # "hash" PROVE \E n \in Nat : V!Names(p) = 1 .. n
  <2>1. PICK x \in V!Everywhere : x.name = p BY <1>1
  <2>2. V!Names(p) = {Label(x.value, i) : i \in 1 .. V!Size(x.value)} BY <1>3, <2>1, NamesOfPlace
  <2>3. V!Kind(x.value) # "hash" BY <1>1, <1>8, <2>1
  <2>4. x.value \in Any /\ V!Size(x.value) \in Nat BY EverywhereFacts, ObjectFacts
  <2>5. \A i \in 1 .. V!Size(x.value) : Label(x.value, i) = i
    <3> SUFFICES ASSUME NEW i \in 1 .. V!Size(x.value) PROVE heap[x.value].kind # "hash" BY DEF Label
    <3> QED BY <2>3, <2>4, ObjectFacts
  <2>6. V!Names(p) = 1 .. V!Size(x.value) BY <2>2, <2>5
  <2> QED BY <2>4, <2>6
<1>9. json = [p \in DOMAIN json |-> json[p]] BY <1>1 DEF Encoded, Says
<1> QED BY <1>2, <1>4, <1>5, <1>6, <1>7, <1>8, <1>9 DEF Tree

(* What add has done, one call or return of its after the other: the calls that
   have not returned, and the nodes it has made, at each.                     *)
Sound(a) ==
  /\ Chained(a.stack) /\ a.stack # <<>> /\ a.size \in Nat
  /\ \A k \in 1 .. Len(a.stack) :
       a.stack[k].path \in Nodes /\ a.stack[k].todo \subseteq V!Names(a.stack[k].path)
Down(a, b, s, ns) ==
  /\ s \in a.stack[1].todo /\ \A y \in a.stack[1].todo : s <= y
  /\ b.stack = Opened(a.stack, s, V!Names(Append(a.stack[1].path, s)))
  /\ ~V!Refused(Append(a.stack[1].path, s))
  /\ KindAt(a.stack[1].path) = "hash" =>
       /\ b.size = a.size + 2
       /\ ns[a.size + 1] = V!KeyNode(s) /\ ns[a.size + 2] = V!Node(Append(a.stack[1].path, s))
  /\ KindAt(a.stack[1].path) # "hash" =>
       b.size = a.size + 1 /\ ns[a.size + 1] = V!Node(Append(a.stack[1].path, s))
Up(a, b) == a.stack[1].todo = {} /\ Len(a.stack) > 1 /\ b.stack = Tail(a.stack) /\ b.size = a.size
Moves(a, b, ns) == Up(a, b) \/ \E s : Down(a, b, s, ns)
Outset == [stack |-> <<[path |-> <<>>, todo |-> {1}]>>, size |-> 1]
Envelope == [kind |-> "hash", name |-> 0, length |-> 1]
Trail(f, n, ns) ==
  /\ n \in Nat /\ n >= 1
  /\ f[1] = Outset /\ ns[1] = Envelope
  /\ \A k \in 1 .. n : Sound(f[k]) /\ f[k].size <= Len(ns)
  /\ \A k \in 1 .. n - 1 : Moves(f[k], f[k + 1], ns)

Items == {Envelope} \cup {V!KeyNode(s) : s \in Nat} \cup {V!Node(p) : p \in DOMAIN json}
Adding(c, ns) ==
  /\ ns \in Seq(Items)
  /\ \E f, n : Trail(f, n, ns) /\ f[n].stack = c /\ f[n].size = Len(ns)

LEMMA SoundFacts ==
  ASSUME Tree, NEW a, Sound(a)
  PROVE  /\ Len(a.stack) \in Nat /\ Len(a.stack) >= 1 /\ 1 \in 1 .. Len(a.stack) /\ a.stack \in Seq(Frame)
         /\ a.stack[1].path \in Seq(Nat) /\ a.stack[1].todo \in SUBSET Nat
         /\ \A s \in a.stack[1].todo : s \in Nat /\ Append(a.stack[1].path, s) \in DOMAIN json
<1>1. Len(a.stack) \in Nat /\ Len(a.stack) >= 1 /\ a.stack \in Seq(Frame) BY PopFacts DEF Sound, Chained
<1>2. 1 \in 1 .. Len(a.stack) BY <1>1
<1>3. a.stack[1].path \in Seq(Nat) /\ a.stack[1].todo \in SUBSET Nat BY <1>2, ChainFacts DEF Sound
<1>4. ASSUME NEW s \in a.stack[1].todo PROVE s \in Nat /\ Append(a.stack[1].path, s) \in DOMAIN json
  <2>1. s \in V!Names(a.stack[1].path) BY <1>2 DEF Sound
  <2>2. \A p \in DOMAIN json : p \in Seq(Nat) BY DEF Tree
  <2> QED BY <1>3, <2>1, <2>2, NamesAre
<1> QED BY <1>1, <1>2, <1>3, <1>4

LEMMA SoundDown ==
  ASSUME Tree, NEW a, Sound(a), NEW b, NEW s \in a.stack[1].todo,
         b.stack = Opened(a.stack, s, V!Names(Append(a.stack[1].path, s))), b.size \in Nat
  PROVE  Sound(b)
<1> DEFINE st == a.stack
           c == Append(a.stack[1].path, s)
           T == V!Names(c)
           o == Opened(st, s, T)
<1>1. /\ Len(st) \in Nat /\ Len(st) >= 1 /\ 1 \in 1 .. Len(st) /\ s \in Nat /\ c \in DOMAIN json
      /\ Chained(st) /\ st # <<>> /\ s \in st[1].todo
  BY SoundFacts DEF Sound
<1>2. T \in SUBSET Nat
  <2>1. c \in Seq(Nat) /\ \A p \in DOMAIN json : p \in Seq(Nat) BY <1>1 DEF Tree
  <2> HIDE DEF c
  <2> QED BY <2>1, NamesAre
<1>3. \A k \in 1 .. Len(st) : st[k].path \in Nodes /\ st[k].todo \subseteq V!Names(st[k].path) BY DEF Sound
<1>4. b.stack = o OBVIOUS
<1>5. c = Append(st[1].path, s) OBVIOUS
<1> HIDE DEF st, T, c
<1>6. Chained(o) BY <1>1, <1>2, OpenedChained
<1>7. Len(o) = Len(st) + 1 BY <1>1, <1>2, OpenFacts
<1>8. o[1].path = c /\ o[1].todo = T /\ o[2].path = st[1].path /\ o[2].todo = st[1].todo \ {s}
  BY <1>1, <1>2, <1>5, OpenFacts
<1>9. \A k \in 3 .. Len(st) + 1 : o[k] = st[k - 1] BY <1>1, <1>2, OpenFacts
<1> HIDE DEF o, c
<1>10. ASSUME NEW k \in 1 .. Len(st) + 1 PROVE o[k].path \in Nodes /\ o[k].todo \subseteq V!Names(o[k].path)
  <2>1. CASE k = 1 BY <1>1, <1>8, <2>1 DEF Nodes, T
  <2>2. CASE k = 2 BY <1>1, <1>3, <1>8, <2>2
  <2>3. CASE k \in 3 .. Len(st) + 1
    <3>1. k - 1 \in 1 .. Len(st) BY <1>1, <2>3
    <3> QED BY <1>3, <1>9, <2>3, <3>1
  <2> QED BY <1>1, <2>1, <2>2, <2>3
<1>11. o # <<>>
  <2> SUFFICES ASSUME o = <<>> PROVE FALSE OBVIOUS
  <2> QED BY <1>1, <1>7
<1> QED BY <1>4, <1>6, <1>7, <1>10, <1>11 DEF Sound

LEMMA SoundUp ==
  ASSUME Tree, NEW a, Sound(a), NEW b, Up(a, b)
  PROVE  Sound(b)
<1> DEFINE st == a.stack
<1>1. Len(st) \in Nat /\ Chained(st) /\ st # <<>> /\ Len(st) > 1 /\ b.stack = Tail(st) /\ b.size \in Nat
  BY SoundFacts DEF Sound, Up
<1>2. \A k \in 1 .. Len(st) : st[k].path \in Nodes /\ st[k].todo \subseteq V!Names(st[k].path) BY DEF Sound
<1> HIDE DEF st
<1>3. Chained(Tail(st)) /\ Len(Tail(st)) = Len(st) - 1 /\ \A k \in 1 .. Len(st) - 1 : Tail(st)[k] = st[k + 1]
  BY <1>1, ClosedChained
<1>4. \A k \in 1 .. Len(st) - 1 : k + 1 \in 1 .. Len(st) BY <1>1
<1>5. Tail(st) # <<>>
  <2> DEFINE u == Tail(st)
  <2>1. Len(u) = Len(st) - 1 BY <1>3
  <2> HIDE DEF u
  <2>2. Len(u) # 0
    <3>1. Len(st) \in Nat /\ Len(st) > 1 BY <1>1
    <3> QED BY <2>1, <3>1
  <2>3. u # <<>> BY <2>2, EmptySeq
  <2> QED BY <2>3 DEF u
<1> QED BY <1>1, <1>2, <1>3, <1>4, <1>5 DEF Sound

LEMMA TwoMore ==
  ASSUME NEW x \in Nat, NEW y \in Nat, NEW l \in Nat, y <= l, y = x + 2
  PROVE  x + 1 \in 1 .. l /\ x + 2 \in 1 .. l
OBVIOUS

(* The trail goes on. *)
LEMMA TrailOn ==
  ASSUME Tree, NEW f, NEW n, NEW ns \in Seq(Items), Trail(f, n, ns), f[n].size = Len(ns),
         NEW more \in Seq(Items), NEW b, Sound(b), b.size = Len(ns) + Len(more),
         Moves(f[n], b, ns \o more)
  PROVE  \E g, m : Trail(g, m, ns \o more) /\ g[m] = b
<1> DEFINE g == [k \in 1 .. n + 1 |-> IF k = n + 1 THEN b ELSE f[k]]
           ms == ns \o more
<1>1. n \in Nat /\ n >= 1 BY DEF Trail
<1>2. /\ g[n + 1] = b /\ \A k \in 1 .. n : g[k] = f[k]
      /\ n \in 1 .. n /\ 1 \in 1 .. n
  BY <1>1
<1>3. /\ ms \in Seq(Items) /\ Len(ms) = Len(ns) + Len(more)
      /\ \A k \in 1 .. Len(ns) + Len(more) : ms[k] = IF k <= Len(ns) THEN ns[k] ELSE more[k - Len(ns)]
  BY ConcatProperties
<1>4. Len(ns) \in Nat /\ Len(more) \in Nat BY LenProperties
<1>5. \A k \in 1 .. Len(ns) : ms[k] = ns[k]
  <2> SUFFICES ASSUME NEW k \in 1 .. Len(ns) PROVE ms[k] = ns[k] OBVIOUS
  <2>1. k \in 1 .. Len(ns) + Len(more) /\ k <= Len(ns) BY <1>4
  <2> HIDE DEF ms
  <2> QED BY <1>3, <2>1
<1>6. Moves(f[n], b, ms) OBVIOUS
<1>61. \A k \in 1 .. n : f[k].size \in Nat /\ f[k].size <= Len(ns)
  <2>1. \A k \in 1 .. n : Sound(f[k]) /\ f[k].size <= Len(ns) BY DEF Trail
  <2>2. \A a : Sound(a) => a.size \in Nat BY DEF Sound
  <2> QED BY <2>1, <2>2
<1> HIDE DEF g, ms
<1>7. g[1] = Outset /\ ms[1] = Envelope
  <2>1. f[1] = Outset /\ ns[1] = Envelope /\ f[1].size <= Len(ns) BY <1>2 DEF Trail
  <2>2. 1 \in 1 .. Len(ns) BY <1>4, <2>1 DEF Outset
  <2> QED BY <1>2, <1>5, <2>1, <2>2
<1>8. ASSUME NEW k \in 1 .. n + 1 PROVE Sound(g[k]) /\ g[k].size <= Len(ms)
  <2>1. CASE k = n + 1 BY <1>2, <1>3, <1>4, <2>1
  <2>2. CASE k # n + 1
    <3>1. k \in 1 .. n BY <1>1, <2>2
    <3>2. Sound(f[k]) /\ f[k].size <= Len(ns) /\ f[k].size \in Nat BY <1>61, <3>1 DEF Trail
    <3> QED BY <1>2, <1>3, <1>4, <3>1, <3>2
  <2> QED BY <2>1, <2>2
<1>9. ASSUME NEW k \in 1 .. n PROVE Moves(g[k], g[k + 1], ms)
  <2>1. CASE k = n BY <1>2, <1>6, <2>1
  <2>2. CASE k # n
    <3>1. k \in 1 .. n - 1 /\ k + 1 \in 1 .. n /\ g[k] = f[k] /\ g[k + 1] = f[k + 1] BY <1>1, <1>2, <2>2
    <3>2. CASE Up(f[k], f[k + 1]) BY <3>1, <3>2 DEF Moves
    <3>3. CASE \E s : Down(f[k], f[k + 1], s, ns)
      <4>1. PICK s : Down(f[k], f[k + 1], s, ns) BY <3>3
      <4>2. f[k].size \in Nat /\ f[k + 1].size \in Nat /\ f[k + 1].size <= Len(ns) BY <1>61, <3>1
      <4>3. Down(f[k], f[k + 1], s, ms)
        <5>1. CASE KindAt(f[k].stack[1].path) = "hash"
          <6>1. f[k + 1].size = f[k].size + 2 BY <4>1, <5>1 DEF Down
          <6>2. f[k].size + 1 \in 1 .. Len(ns) /\ f[k].size + 2 \in 1 .. Len(ns) BY <1>4, <4>2, <6>1, TwoMore
          <6>3. ms[f[k].size + 1] = ns[f[k].size + 1] /\ ms[f[k].size + 2] = ns[f[k].size + 2] BY <1>5, <6>2
          <6> QED BY <4>1, <5>1, <6>3, Zenon DEF Down
        <5>2. CASE KindAt(f[k].stack[1].path) # "hash"
          <6>1. f[k + 1].size = f[k].size + 1 BY <4>1, <5>2 DEF Down
          <6>2. f[k].size + 1 \in 1 .. Len(ns) BY <1>4, <4>2, <6>1
          <6>3. ms[f[k].size + 1] = ns[f[k].size + 1] BY <1>5, <6>2
          <6> QED BY <4>1, <5>2, <6>3, Zenon DEF Down
        <5> QED BY <5>1, <5>2
      <4> QED BY <3>1, <4>3 DEF Moves
    <3>4. Up(f[k], f[k + 1]) \/ \E s : Down(f[k], f[k + 1], s, ns) BY <3>1 DEF Trail, Moves
    <3> QED BY <3>2, <3>3, <3>4
  <2> QED BY <2>1, <2>2
<1>10. n + 1 \in Nat /\ n + 1 >= 1 /\ (n + 1) - 1 = n BY <1>1
<1>11. Trail(g, n + 1, ms) BY <1>7, <1>8, <1>9, <1>10 DEF Trail
<1> QED BY <1>2, <1>11 DEF ms

LEMMA OutsetSound == ASSUME Tree PROVE Sound(Outset)
<1> DEFINE g == [path |-> <<>>, todo |-> {1}]
<1>1. g.path = <<>> /\ g.todo = {1} /\ Len(g.path) = 0 /\ g \in Frame
  <2>1. <<>> \in Seq(Nat) /\ {1} \in SUBSET Nat BY EmptySeq
  <2> QED BY <2>1, EmptySeq DEF Frame
<1>2. Outset.stack = <<g>> /\ Outset.size = 1 BY DEF Outset
<1> HIDE DEF g
<1>3. <<g>> \in Seq(Frame) /\ Len(<<g>>) = 1 /\ <<g>>[1] = g /\ <<g>> # <<>> BY <1>1
<1>4. \A k \in 1 .. 1 : k = 1 OBVIOUS
<1>5. Chained(<<g>>) BY <1>1, <1>3, <1>4 DEF Chained
<1>6. <<>> \in Nodes /\ V!Names(<<>>) = {1} BY DEF Nodes, Tree
<1> QED BY <1>1, <1>2, <1>3, <1>4, <1>5, <1>6 DEF Sound

LEMMA AddBegun == ASSUME Tree PROVE Adding(<<[path |-> <<>>, todo |-> {1}]>>, <<Envelope>>)
<1> DEFINE f == [k \in 1 .. 1 |-> Outset]
           ns == <<Envelope>>
<1>1. ns \in Seq(Items) /\ Len(ns) = 1 /\ ns[1] = Envelope
  <2>1. Envelope \in Items BY DEF Items
  <2> QED BY <2>1
<1>2. Outset.size = 1 /\ Outset.stack = <<[path |-> <<>>, todo |-> {1}]>> BY DEF Outset
<1>f. f[1] = Outset
  <2>1. 1 \in 1 .. 1 OBVIOUS
  <2> QED BY <2>1
<1>3. Sound(Outset) BY OutsetSound
<1>4. \A k \in 1 .. 1 : k = 1 OBVIOUS
<1>5. \A k \in 1 .. 1 - 1 : FALSE OBVIOUS
<1> HIDE DEF f, ns
<1>6. Trail(f, 1, ns) BY <1>1, <1>2, <1>f, <1>3, <1>4, <1>5 DEF Trail
<1> QED BY <1>1, <1>2, <1>f, <1>6 DEF Adding, ns

LEMMA CountsAlike == ASSUME NEW S PROVE V!Cardinality(S) = Cardinality(S)
BY Zenon DEF V!Cardinality, Cardinality

LEMMA LeastName == ASSUME NEW S \in SUBSET Nat, S # {} PROVE V!Min(S) \in S /\ \A y \in S : V!Min(S) <= y
<1>1. D!Min(S) \in S /\ \A k \in S : D!Min(S) <= k BY LeastOf
<1> QED BY <1>1 DEF D!Min, V!Min

LEMMA AddingFacts ==
  ASSUME Tree, NEW c, NEW ns, Adding(c, ns)
  PROVE  /\ c \in Seq(Frame) /\ c # <<>> /\ Len(c) \in Nat /\ Len(c) >= 1 /\ Head(c) = c[1] /\ c[1] \in Frame
         /\ c[1].path \in Nodes /\ c[1].todo \in SUBSET Nat
         /\ \A s \in c[1].todo : s \in Nat /\ Append(c[1].path, s) \in DOMAIN json
<1>1. PICK f, n : Trail(f, n, ns) /\ f[n].stack = c BY DEF Adding
<1>2. Sound(f[n]) BY <1>1 DEF Trail
<1>3. 1 \in 1 .. Len(c) /\ c \in Seq(Frame) /\ c # <<>> BY <1>1, <1>2, SoundFacts DEF Sound
<1>4. c[1].path \in Nodes BY <1>1, <1>2, <1>3 DEF Sound
<1>5. c[1].todo \in SUBSET Nat /\ \A s \in c[1].todo : s \in Nat /\ Append(c[1].path, s) \in DOMAIN json
  BY <1>1, <1>2, SoundFacts
<1> QED BY <1>3, <1>4, <1>5, PopFacts

LEMMA PairFacts ==
  ASSUME NEW S, NEW a \in Seq(S), NEW b \in Seq(S), Len(a) = 1, Len(b) = 1
  PROVE  a \o b \in Seq(S) /\ Len(a \o b) = 2 /\ (a \o b)[1] = a[1] /\ (a \o b)[2] = b[1]
<1>1. a \o b \in Seq(S) /\ Len(a \o b) = 1 + 1 /\ \A k \in 1 .. 1 + 1 : (a \o b)[k] = IF k <= 1 THEN a[k] ELSE b[k - 1]
  BY ConcatProperties
<1> QED BY <1>1

LEMMA Joined ==
  ASSUME NEW S, NEW ns \in Seq(S), NEW x \in S, NEW y \in S
  PROVE  /\ (ns \o <<x>>) \o <<y>> = ns \o <<x, y>> /\ (ns \o <<>>) \o <<y>> = ns \o <<y>>
         /\ <<x, y>> \in Seq(S) /\ Len(<<x, y>>) = 2 /\ <<x, y>>[1] = x /\ <<x, y>>[2] = y
         /\ <<y>> \in Seq(S) /\ Len(<<y>>) = 1 /\ <<y>>[1] = y
<1> DEFINE one2 == <<x>>
           two == <<y>>
           both == <<x, y>>
<1>1. /\ one2 \in Seq(S) /\ Len(one2) = 1 /\ one2[1] = x /\ two \in Seq(S) /\ Len(two) = 1 /\ two[1] = y
      /\ both \in Seq(S) /\ Len(both) = 2 /\ both[1] = x /\ both[2] = y
  OBVIOUS
<1> HIDE DEF one2, two, both
<1>2. (ns \o one2) \o two = ns \o (one2 \o two) BY <1>1, ConcatAssociative
<1>3. one2 \o two = both
  <2>1. one2 \in Seq(S) /\ two \in Seq(S) /\ Len(one2) = 1 /\ Len(two) = 1 BY <1>1
  <2>2. /\ one2 \o two \in Seq(S) /\ Len(one2 \o two) = 2
        /\ (one2 \o two)[1] = one2[1] /\ (one2 \o two)[2] = two[1]
    BY <2>1, PairFacts
  <2> DEFINE w == one2 \o two
  <2>3. w \in Seq(S) /\ Len(w) = 2 /\ w[1] = x /\ w[2] = y BY <1>1, <2>2
  <2> HIDE DEF w
  <2>4. \A k \in 1 .. 2 : k = 1 \/ k = 2 OBVIOUS
  <2>5. \A k \in 1 .. 2 : w[k] = both[k] BY <1>1, <2>3, <2>4
  <2>6. w = both BY <1>1, <2>3, <2>5, SeqEqual
  <2> QED BY <2>6 DEF w
<1>4. ns \o <<>> = ns BY ConcatEmptySeq
<1> QED BY <1>1, <1>2, <1>3, <1>4 DEF one2, two, both

Noted(c, ns, s) ==
  ns \o (IF KindAt(c[1].path) = "hash" THEN <<V!KeyNode(s)>> ELSE <<>>) \o <<V!Node(Append(c[1].path, s))>>
Entered(c, s) == <<V!Call(Append(c[1].path, s)), [c[1] EXCEPT !.todo = @ \ {s}]>> \o Tail(c)

LEMMA NotedFacts ==
  ASSUME NEW c, NEW ns \in Seq(Items), NEW s \in Nat, Append(c[1].path, s) \in DOMAIN json
  PROVE  \E more \in Seq(Items) :
           /\ Noted(c, ns, s) = ns \o more
           /\ KindAt(c[1].path) = "hash" =>
                Len(more) = 2 /\ more[1] = V!KeyNode(s) /\ more[2] = V!Node(Append(c[1].path, s))
           /\ KindAt(c[1].path) # "hash" => Len(more) = 1 /\ more[1] = V!Node(Append(c[1].path, s))
<1> DEFINE kn == V!KeyNode(s)
           vn == V!Node(Append(c[1].path, s))
<1>1. kn \in Items /\ vn \in Items BY DEF Items
<1>2. /\ KindAt(c[1].path) = "hash" => Noted(c, ns, s) = (ns \o <<kn>>) \o <<vn>>
      /\ KindAt(c[1].path) # "hash" => Noted(c, ns, s) = (ns \o <<>>) \o <<vn>>
  BY DEF Noted
<1> HIDE DEF kn, vn
<1>3. CASE KindAt(c[1].path) = "hash"
  <2>0. (ns \o <<kn>>) \o <<vn>> = ns \o <<kn, vn>> BY <1>1, Joined
  <2>1. Noted(c, ns, s) = ns \o <<kn, vn>> BY <1>2, <1>3, <2>0
  <2>2. <<kn, vn>> \in Seq(Items) /\ Len(<<kn, vn>>) = 2 /\ <<kn, vn>>[1] = kn /\ <<kn, vn>>[2] = vn BY <1>1, Joined
  <2> DEFINE more == <<kn, vn>>
  <2>3. more \in Seq(Items) /\ Noted(c, ns, s) = ns \o more /\ Len(more) = 2 /\ more[1] = kn /\ more[2] = vn
    BY <2>1, <2>2
  <2> HIDE DEF more
  <2> QED BY <1>3, <2>3 DEF kn, vn
<1>4. CASE KindAt(c[1].path) # "hash"
  <2>0. (ns \o <<>>) \o <<vn>> = ns \o <<vn>> BY <1>1, Joined
  <2>1. Noted(c, ns, s) = ns \o <<vn>> BY <1>2, <1>4, <2>0
  <2>2. <<vn>> \in Seq(Items) /\ Len(<<vn>>) = 1 /\ <<vn>>[1] = vn BY <1>1, Joined
  <2> DEFINE more == <<vn>>
  <2>3. more \in Seq(Items) /\ Noted(c, ns, s) = ns \o more /\ Len(more) = 1 /\ more[1] = vn BY <2>1, <2>2
  <2> HIDE DEF more
  <2> QED BY <1>4, <2>3 DEF vn
<1> QED BY <1>3, <1>4

LEMMA EnteredOpens ==
  ASSUME NEW c, c[1] \in Frame, NEW s
  PROVE  Entered(c, s) = Opened(c, s, V!Names(Append(c[1].path, s)))
<1> DEFINE x == c[1]
           p == Append(x.path, s)
<1>1. x \in Frame OBVIOUS
<1> HIDE DEF x, p
<1>2. [x EXCEPT !.todo = @ \ {s}] = [path |-> x.path, todo |-> x.todo \ {s}]
  <2>1. \A t : [x EXCEPT !.todo = t] = [path |-> x.path, todo |-> t] BY <1>1 DEF Frame
  <2> QED BY <2>1
<1>3. V!Call(p) = [path |-> p, todo |-> V!Names(p)] BY DEF V!Call
<1>4. Entered(c, s) = <<V!Call(p), [x EXCEPT !.todo = @ \ {s}]>> \o Tail(c) BY DEF Entered, x, p
<1>5. Opened(c, s, V!Names(p)) = <<[path |-> p, todo |-> V!Names(p)], [path |-> x.path, todo |-> x.todo \ {s}]>> \o Tail(c)
  BY DEF Opened, x, p
<1>6. Entered(c, s) = Opened(c, s, V!Names(p)) BY <1>2, <1>3, <1>4, <1>5, Zenon
<1> QED BY <1>6 DEF p, x

LEMMA AddedMember ==
  ASSUME Tree, NEW c, NEW ns, Adding(c, ns), NEW s \in c[1].todo, \A y \in c[1].todo : s <= y,
         ~V!Refused(Append(c[1].path, s))
  PROVE  Adding(Entered(c, s), Noted(c, ns, s))
<1> DEFINE p == Append(c[1].path, s)
           kn == V!KeyNode(s)
           vn == V!Node(p)
           grown == IF KindAt(c[1].path) = "hash" THEN 2 ELSE 1
           b == [stack |-> Entered(c, s), size |-> Len(ns) + grown]
<1>1. PICK f, n : Trail(f, n, ns) /\ f[n].stack = c /\ f[n].size = Len(ns) BY DEF Adding
<1>2. ns \in Seq(Items) /\ Len(ns) \in Nat BY LenProperties DEF Adding
<1>3. Sound(f[n]) BY <1>1 DEF Trail
<1>4. s \in Nat /\ p \in DOMAIN json /\ c[1] \in Frame BY AddingFacts
<1>5. PICK more \in Seq(Items) :
        /\ Noted(c, ns, s) = ns \o more
        /\ KindAt(c[1].path) = "hash" => Len(more) = 2 /\ more[1] = kn /\ more[2] = vn
        /\ KindAt(c[1].path) # "hash" => Len(more) = 1 /\ more[1] = vn
  BY <1>2, <1>4, NotedFacts
<1>6. /\ grown \in Nat /\ Len(more) = grown /\ b.stack = Entered(c, s) /\ b.size = Len(ns) + grown /\ b.size \in Nat
      /\ KindAt(c[1].path) = "hash" => grown = 2
      /\ KindAt(c[1].path) # "hash" => grown = 1
  BY <1>2, <1>5
<1>7. b.stack = Opened(c, s, V!Names(p)) BY <1>4, <1>6, EnteredOpens
<1>8. ~V!Refused(p) OBVIOUS
<1> HIDE DEF b, grown, kn, vn
<1>9. Sound(b)
  <2>1. b.stack = Opened(f[n].stack, s, V!Names(Append(f[n].stack[1].path, s))) BY <1>1, <1>7
  <2>2. s \in f[n].stack[1].todo BY <1>1
  <2> QED BY <1>3, <1>6, <2>1, <2>2, SoundDown
<1> DEFINE ls == ns \o more
<1>10. /\ ls \in Seq(Items) /\ Len(ls) = Len(ns) + Len(more)
       /\ \A k \in 1 .. Len(ns) + Len(more) : ls[k] = IF k <= Len(ns) THEN ns[k] ELSE more[k - Len(ns)]
  BY <1>2, <1>5, ConcatProperties
<1> HIDE DEF ls
<1>11. Down(f[n], b, s, ls)
  <2>1. KindAt(c[1].path) = "hash" => b.size = Len(ns) + 2 /\ ls[Len(ns) + 1] = kn /\ ls[Len(ns) + 2] = vn
    <3> HAVE KindAt(c[1].path) = "hash"
    <3>1. Len(more) = 2 /\ more[1] = kn /\ more[2] = vn BY <1>5
    <3>2. /\ Len(ns) + 1 \in 1 .. Len(ns) + Len(more) /\ Len(ns) + 2 \in 1 .. Len(ns) + Len(more)
          /\ ~(Len(ns) + 1 <= Len(ns)) /\ ~(Len(ns) + 2 <= Len(ns))
          /\ (Len(ns) + 1) - Len(ns) = 1 /\ (Len(ns) + 2) - Len(ns) = 2
      BY <1>2, <3>1
    <3> QED BY <1>6, <1>10, <3>1, <3>2
  <2>2. KindAt(c[1].path) # "hash" => b.size = Len(ns) + 1 /\ ls[Len(ns) + 1] = vn
    <3> HAVE KindAt(c[1].path) # "hash"
    <3>1. Len(more) = 1 /\ more[1] = vn BY <1>5
    <3>2. Len(ns) + 1 \in 1 .. Len(ns) + Len(more) /\ ~(Len(ns) + 1 <= Len(ns)) /\ (Len(ns) + 1) - Len(ns) = 1
      BY <1>2, <3>1
    <3> QED BY <1>6, <1>10, <3>1, <3>2
  <2> QED BY <1>1, <1>7, <1>8, <2>1, <2>2 DEF Down, kn, vn
<1>12. b.size = Len(ns) + Len(more) BY <1>6
<1>13. PICK g, m : Trail(g, m, ls) /\ g[m] = b
  <2>1. Moves(f[n], b, ns \o more) BY <1>11 DEF ls, Moves
  <2> QED BY <1>1, <1>2, <1>9, <1>12, <2>1, TrailOn DEF ls
<1>14. Adding(b.stack, ls) BY <1>10, <1>12, <1>13 DEF Adding
<1> QED BY <1>5, <1>6, <1>14 DEF ls

LEMMA AddedReturn ==
  ASSUME Tree, NEW c, NEW ns, Adding(c, ns), c[1].todo = {}, Len(c) > 1
  PROVE  Adding(Tail(c), ns)
<1>1. PICK f, n : Trail(f, n, ns) /\ f[n].stack = c /\ f[n].size = Len(ns) BY DEF Adding
<1>2. ns \in Seq(Items) /\ Len(ns) \in Nat BY LenProperties DEF Adding
<1>3. Sound(f[n]) BY <1>1 DEF Trail
<1> DEFINE b == [stack |-> Tail(c), size |-> Len(ns)]
<1>4. b.stack = Tail(c) /\ b.size = Len(ns) OBVIOUS
<1> HIDE DEF b
<1>5. Up(f[n], b) BY <1>1, <1>4 DEF Up
<1>6. Sound(b) BY <1>3, <1>5, SoundUp
<1>7. <<>> \in Seq(Items) /\ Len(<<>>) = 0 /\ ns \o <<>> = ns BY <1>2, EmptySeq, ConcatEmptySeq
<1>8. b.size = Len(ns) + Len(<<>>) BY <1>2, <1>4, <1>7
<1>9. PICK g, m : Trail(g, m, ns \o <<>>) /\ g[m] = b
  <2> DEFINE none == <<>>
  <2>1. Moves(f[n], b, ns \o none) BY <1>5 DEF Moves
  <2>2. none \in Seq(Items) /\ b.size = Len(ns) + Len(none) BY <1>7, <1>8
  <2> HIDE DEF none
  <2>3. PICK g, m : Trail(g, m, ns \o none) /\ g[m] = b BY <1>1, <1>2, <1>6, <2>1, <2>2, TrailOn
  <2> QED BY <2>3 DEF none
<1> QED BY <1>2, <1>4, <1>7, <1>9 DEF Adding

(* Reading.  decode goes where add went: to each of its calls a call of add corresponds. *)
Kinds == {KindAt(p) : p \in Nodes}
Read == [path : Nodes, kind : Kinds, done : Nat, length : Nat]
Follows(r, g) ==
  /\ r.path = g.path /\ r.kind = KindAt(r.path)
  /\ r.done + Cardinality(g.todo) = r.length
  /\ r.kind # "hash" => g.todo = r.done + 1 .. r.length
FollowsAll(c, st) ==
  /\ c \in Seq(Read) /\ Len(c) = Len(st)
  /\ \A k \in 1 .. Len(c) : Follows(c[k], st[k])
Paths(st) == {p \in DOMAIN json : ~Owed(p, st)}
Has(v, st) == v = [p \in Paths(st) |-> json[p]] /\ \A p \in Paths(st) : ~V!Refused(p)
Decoding(c, cur, v) ==
  \E f, n, m :
    /\ Trail(f, n, nodes) /\ m \in 1 .. n
    /\ Len(f[n].stack) = 1 /\ f[n].stack[1].todo = {}
    /\ FollowsAll(c, f[m].stack) /\ cur = f[m].size + 1 /\ Has(v, f[m].stack)

LEMMA FollowsFacts ==
  ASSUME Tree, NEW a, Sound(a), NEW c, FollowsAll(c, a.stack)
  PROVE  /\ c # <<>> /\ Len(c) \in Nat /\ Len(c) >= 1 /\ 1 \in 1 .. Len(c) /\ c[1] \in Read /\ Head(c) = c[1]
         /\ Follows(c[1], a.stack[1])
         /\ IsFiniteSet(a.stack[1].todo) /\ Cardinality(a.stack[1].todo) \in Nat
         /\ c[1].done \in Nat /\ c[1].length \in Nat
         /\ c[1].done = c[1].length => a.stack[1].todo = {}
         /\ c[1].done < c[1].length => a.stack[1].todo # {}
<1>1. Len(a.stack) \in Nat /\ Len(a.stack) >= 1 /\ 1 \in 1 .. Len(a.stack) BY SoundFacts
<1>2. c \in Seq(Read) /\ Len(c) = Len(a.stack) BY DEF FollowsAll
<1>3. c # <<>>
  <2> SUFFICES ASSUME c = <<>> PROVE FALSE OBVIOUS
  <2>1. Len(c) = 0 BY EmptySeq
  <2> QED BY <1>1, <1>2, <2>1
<1>4. c[1] \in Read /\ Head(c) = c[1] BY <1>2, <1>3, PopFacts
<1>5. Follows(c[1], a.stack[1]) BY <1>1, <1>2 DEF FollowsAll
<1>6. a.stack[1].path \in Nodes /\ a.stack[1].todo \subseteq V!Names(a.stack[1].path) BY <1>1 DEF Sound
<1>7. IsFiniteSet(V!Names(a.stack[1].path)) BY <1>6 DEF Tree
<1>8. IsFiniteSet(a.stack[1].todo) BY <1>6, <1>7, FS_Subset
<1>9. Cardinality(a.stack[1].todo) \in Nat /\ (Cardinality(a.stack[1].todo) = 0 <=> a.stack[1].todo = {})
  BY <1>8, FS_CardinalityType, FS_EmptySet
<1>10. c[1].done \in Nat /\ c[1].length \in Nat BY <1>4 DEF Read
<1>11. c[1].done + Cardinality(a.stack[1].todo) = c[1].length BY <1>5 DEF Follows
<1>12. /\ c[1].done = c[1].length => a.stack[1].todo = {}
       /\ c[1].done < c[1].length => a.stack[1].todo # {}
  <2> DEFINE x == c[1].done
             y == c[1].length
             z == Cardinality(a.stack[1].todo)
             none == a.stack[1].todo = {}
  <2>1. x \in Nat /\ y \in Nat /\ z \in Nat /\ x + z = y /\ (z = 0 <=> none) BY <1>9, <1>10, <1>11
  <2> HIDE DEF x, y, z, none
  <2>2. (x = y => none) /\ (x < y => ~none) BY <2>1
  <2> QED BY <2>2 DEF x, y, none
<1> QED BY <1>1, <1>2, <1>3, <1>4, <1>5, <1>8, <1>9, <1>10, <1>12

LEMMA DecodeBegun ==
  ASSUME Tree, NEW c, Adding(c, nodes), c[1].todo = {}, ~(Len(c) > 1)
  PROVE  Decoding(<<V!Reading(<<>>, 1)>>, 2, <<>>)
<1>1. PICK f, n : Trail(f, n, nodes) /\ f[n].stack = c BY DEF Adding
<1>2. Len(c) = 1
  <2>1. Len(c) \in Nat /\ Len(c) >= 1 BY AddingFacts
  <2>2. ~(Len(c) > 1) OBVIOUS
  <2> QED BY <2>1, <2>2
<1>3. n \in Nat /\ n >= 1 /\ 1 \in 1 .. n /\ f[1] = Outset /\ nodes[1] = Envelope BY <1>1 DEF Trail
<1> DEFINE g == [path |-> <<>>, todo |-> {1}]
           r == [path |-> <<>>, kind |-> "hash", done |-> 0, length |-> 1]
<1>4. V!Reading(<<>>, 1) = r
  <2>1. nodes[1].kind = "hash" /\ nodes[1].length = 1 BY <1>3 DEF Envelope
  <2> QED BY <2>1, Zenon DEF V!Reading
<1>5. f[1].stack = <<g>> /\ f[1].size = 1
  <2>1. Outset.stack = <<g>> /\ Outset.size = 1 BY DEF Outset
  <2> QED BY <1>3, <2>1
<1>6. Follows(r, g) /\ r \in Read
  <2>1. Cardinality({1}) = 1 BY FS_Singleton
  <2>2. <<>> \in Nodes /\ KindAt(<<>>) = "hash" BY DEF Nodes, KindAt
  <2>3. r.path = g.path /\ r.kind = "hash" /\ r.path = <<>> /\ r.done = 0 /\ r.length = 1 /\ g.todo = {1} OBVIOUS
  <2>5. "hash" \in Kinds BY <2>2 DEF Kinds
  <2>4. r \in Read BY <2>2, <2>5 DEF Read
  <2> HIDE DEF r, g
  <2> QED BY <2>1, <2>2, <2>3, <2>4 DEF Follows
<1>7. g.path = <<>> /\ g.todo = {1} /\ Len(<<>>) = 0 BY EmptySeq
<1> HIDE DEF r, g
<1>8. FollowsAll(<<r>>, f[1].stack)
  <2>1. <<r>> \in Seq(Read) /\ Len(<<r>>) = 1 /\ <<r>>[1] = r /\ Len(<<g>>) = 1 /\ <<g>>[1] = g BY <1>6
  <2>2. \A k \in 1 .. 1 : k = 1 OBVIOUS
  <2> QED BY <1>5, <1>6, <2>1, <2>2 DEF FollowsAll
<1>9. Has(<<>>, f[1].stack)
  <2>1. ASSUME NEW p \in DOMAIN json PROVE Owed(p, <<g>>)
    <3>1. p \in Seq(Nat) /\ Len(p) >= 1 /\ p[1] = 1 /\ Len(p) \in Nat BY LenProperties DEF Tree
    <3>2. Within(p, g) BY <1>7, <3>1 DEF Within, Extends
    <3>3. Len(<<g>>) = 1 /\ <<g>>[1] = g /\ 1 \in 1 .. 1 OBVIOUS
    <3> QED BY <3>2, <3>3 DEF Owed
  <2>2. Paths(<<g>>) = {} BY <2>1 DEF Paths
  <2>3. <<>> = [p \in {} |-> json[p]] OBVIOUS
  <2> QED BY <1>5, <2>2, <2>3 DEF Has
<1>10. 2 = f[1].size + 1 BY <1>5
<1>11. Len(f[n].stack) = 1 /\ f[n].stack[1].todo = {} BY <1>1, <1>2
<1>12. Decoding(<<r>>, 2, <<>>) BY <1>1, <1>3, <1>8, <1>9, <1>10, <1>11 DEF Decoding
<1> QED BY <1>4, <1>12

(* Where the next call of decode goes, and what it finds there. *)
LEMMA NextRead ==
  ASSUME Tree, NEW f, NEW n, NEW m \in 1 .. n, Trail(f, n, nodes), f[n].stack[1].todo = {},
         NEW c, FollowsAll(c, f[m].stack), c[1].done < c[1].length
  PROVE  /\ m + 1 \in 1 .. n
         /\ \E s \in f[m].stack[1].todo :
              /\ \A y \in f[m].stack[1].todo : s <= y
              /\ f[m + 1].stack = Opened(f[m].stack, s, V!Names(Append(f[m].stack[1].path, s)))
              /\ ~V!Refused(Append(f[m].stack[1].path, s))
              /\ c[1].kind = "hash" =>
                   /\ f[m + 1].size = f[m].size + 2
                   /\ nodes[f[m].size + 1] = V!KeyNode(s)
                   /\ nodes[f[m].size + 2] = V!Node(Append(f[m].stack[1].path, s))
              /\ c[1].kind # "hash" =>
                   /\ f[m + 1].size = f[m].size + 1
                   /\ nodes[f[m].size + 1] = V!Node(Append(f[m].stack[1].path, s))
                   /\ s = c[1].done + 1
<1>1. n \in Nat /\ Sound(f[m]) BY DEF Trail
<1>2. /\ f[m].stack[1].todo # {} /\ Follows(c[1], f[m].stack[1]) /\ c[1].done \in Nat /\ c[1].length \in Nat
  BY <1>1, FollowsFacts
<1>3. m # n BY <1>2
<1>4. m \in 1 .. n - 1 /\ m + 1 \in 1 .. n BY <1>1, <1>3
<1>5. Moves(f[m], f[m + 1], nodes) BY <1>4 DEF Trail
<1>6. ~Up(f[m], f[m + 1]) BY <1>2 DEF Up
<1>7. PICK s : Down(f[m], f[m + 1], s, nodes) BY <1>5, <1>6 DEF Moves
<1>8. c[1].kind = KindAt(f[m].stack[1].path) BY <1>2 DEF Follows
<1>9. c[1].kind # "hash" => s = c[1].done + 1
  <2> HAVE c[1].kind # "hash"
  <2>1. f[m].stack[1].todo = c[1].done + 1 .. c[1].length BY <1>2 DEF Follows
  <2>2. s \in c[1].done + 1 .. c[1].length /\ \A y \in c[1].done + 1 .. c[1].length : s <= y
    BY <1>7, <2>1 DEF Down
  <2> DEFINE x == c[1].done
             y == c[1].length
  <2>3. x \in Nat /\ y \in Nat /\ x < y /\ s \in x + 1 .. y /\ \A z \in x + 1 .. y : s <= z BY <1>2, <2>2
  <2> HIDE DEF x, y
  <2>4. x + 1 \in x + 1 .. y BY <2>3
  <2>5. s = x + 1 BY <2>3, <2>4
  <2> QED BY <2>5 DEF x
<1> QED BY <1>4, <1>7, <1>8, <1>9 DEF Down

(* The calls of decode after it. *)
LEMMA FollowsOpened ==
  ASSUME Tree, NEW a, Sound(a), NEW c, FollowsAll(c, a.stack), NEW s \in a.stack[1].todo,
         c[1].kind # "hash" => s = c[1].done + 1,
         NEW r \in Read, r.path = Append(a.stack[1].path, s), r.kind = json[r.path],
         r.done = 0, r.length = Cardinality(V!Names(r.path)),
         NEW d \in Read, d.path = c[1].path, d.kind = c[1].kind, d.done = c[1].done + 1, d.length = c[1].length
  PROVE  FollowsAll(<<r, d>> \o Tail(c), Opened(a.stack, s, V!Names(Append(a.stack[1].path, s))))
<1> DEFINE st == a.stack
           p == Append(st[1].path, s)
           T == V!Names(p)
           o == Opened(st, s, T)
           e == <<r, d>> \o Tail(c)
<1>1. /\ Len(st) \in Nat /\ Len(st) >= 1 /\ st[1].path \in Seq(Nat)
      /\ Chained(st) /\ st # <<>> /\ s \in Nat /\ p \in DOMAIN json
  BY SoundFacts DEF Sound
<1>2. p \in Seq(Nat) /\ Len(p) >= 1 /\ p # <<>> /\ p \in Nodes
  <2>1. p \in Seq(Nat) /\ Len(p) >= 1 BY <1>1 DEF Tree
  <2> HIDE DEF p
  <2>2. Len(p) # 0 BY <2>1
  <2> QED BY <1>1, <2>1, <2>2, EmptySeq DEF Nodes
<1>3. T \in SUBSET Nat /\ IsFiniteSet(T) /\ Cardinality(T) \in Nat
  <2>1. \A x \in DOMAIN json : x \in Seq(Nat) BY DEF Tree
  <2> HIDE DEF p
  <2>2. T \in SUBSET Nat BY <1>2, <2>1, NamesAre
  <2>3. IsFiniteSet(T) BY <1>2 DEF Tree
  <2> QED BY <2>2, <2>3, FS_CardinalityType
<1>4. r.path = p /\ r.kind = json[p] /\ r.done = 0 /\ r.length = Cardinality(T) OBVIOUS
<1>a. json[p] # "hash" => \E k \in Nat : T = 1 .. k
  <2> HIDE DEF p
  <2> QED BY <1>1 DEF Tree
<1>5. /\ c \in Seq(Read) /\ c # <<>> /\ Len(c) = Len(st) /\ c[1] \in Read /\ Follows(c[1], st[1])
      /\ c[1].done \in Nat /\ c[1].length \in Nat
      /\ IsFiniteSet(st[1].todo) /\ Cardinality(st[1].todo) \in Nat /\ s \in st[1].todo
      /\ \A k \in 1 .. Len(c) : Follows(c[k], st[k])
  BY FollowsFacts DEF FollowsAll
<1>6. c[1].kind # "hash" => s = c[1].done + 1 OBVIOUS
<1> HIDE DEF st, p, T, o, e
<1>10. /\ e \in Seq(Read) /\ Len(e) = Len(c) + 1 /\ e[1] = r /\ e[2] = d
       /\ \A k \in 3 .. Len(c) + 1 : e[k] = c[k - 1]
  BY <1>5, PushFacts DEF e
<1>11. /\ Len(o) = Len(st) + 1 /\ o[1].path = p /\ o[1].todo = T /\ o[2].path = st[1].path /\ o[2].todo = st[1].todo \ {s}
  <2>0. Chained(st) /\ st # <<>> /\ s \in st[1].todo /\ T \in SUBSET Nat BY <1>1, <1>3, <1>5
  <2>1. Len(Opened(st, s, T)) = Len(st) + 1 BY <2>0, OpenFacts
  <2>2. Opened(st, s, T)[1].path = Append(st[1].path, s) /\ Opened(st, s, T)[1].todo = T BY <2>0, OpenFacts
  <2>3. Opened(st, s, T)[2].path = st[1].path /\ Opened(st, s, T)[2].todo = st[1].todo \ {s} BY <2>0, OpenFacts
  <2> QED BY <2>1, <2>2, <2>3 DEF o, p
<1>12. \A k \in 3 .. Len(st) + 1 : o[k] = st[k - 1]
  <2>0. Chained(st) /\ st # <<>> /\ s \in st[1].todo /\ T \in SUBSET Nat BY <1>1, <1>3, <1>5
  <2>1. \A k \in 3 .. Len(st) + 1 : Opened(st, s, T)[k] = st[k - 1] BY <2>0, OpenFacts
  <2> QED BY <2>1 DEF o
<1>13. Follows(r, o[1])
  <2>1. r.path = p /\ r.kind = json[p] /\ r.done = 0 /\ r.length = Cardinality(T) BY <1>4
  <2>2. r.kind = KindAt(r.path) BY <1>2, <2>1 DEF KindAt
  <2>3. r.done + Cardinality(T) = r.length BY <1>3, <2>1
  <2>4. r.kind # "hash" => T = r.done + 1 .. r.length
    <3> HAVE r.kind # "hash"
    <3>1. PICK k \in Nat : T = 1 .. k BY <1>a, <2>1
    <3>2. Cardinality(1 .. k) = IF 1 > k THEN 0 ELSE k - 1 + 1 BY FS_Interval
    <3>3. Cardinality(T) = k BY <3>1, <3>2
    <3>4. r.done + 1 = 1 /\ r.length = k BY <2>1, <3>3
    <3> QED BY <3>1, <3>4
  <2> QED BY <1>11, <2>1, <2>2, <2>3, <2>4 DEF Follows
<1>14. Follows(d, o[2])
  <2> DEFINE x == c[1]
             S == st[1].todo
  <2>1. /\ d.path = x.path /\ d.kind = x.kind /\ d.done = x.done + 1 /\ d.length = x.length OBVIOUS
  <2>2. x.path = st[1].path /\ x.kind = KindAt(x.path) /\ x.done + Cardinality(S) = x.length
        /\ (x.kind # "hash" => S = x.done + 1 .. x.length)
    BY <1>5 DEF Follows
  <2>3. x.done \in Nat /\ x.length \in Nat /\ Cardinality(S) \in Nat /\ IsFiniteSet(S) /\ s \in S BY <1>5
  <2>4. x.kind # "hash" => s = x.done + 1 BY <1>6
  <2> HIDE DEF x, S
  <2>5. Cardinality(S \ {s}) = Cardinality(S) - 1 BY <2>3, FS_RemoveElement
  <2>6. d.done + Cardinality(S \ {s}) = d.length
    <3> DEFINE z == Cardinality(S)
               w == Cardinality(S \ {s})
               j == x.done
               l == x.length
    <3>1. w = z - 1 /\ j \in Nat /\ l \in Nat /\ z \in Nat /\ j + z = l BY <2>2, <2>3, <2>5
    <3>2. d.done = j + 1 /\ d.length = l BY <2>1
    <3> HIDE DEF z, w, j, l
    <3>3. (j + 1) + w = l BY <3>1
    <3>4. d.done + w = d.length BY <3>2, <3>3
    <3> QED BY <3>4 DEF w
  <2>7. d.kind # "hash" => S \ {s} = d.done + 1 .. d.length
    <3> HAVE d.kind # "hash"
    <3>1. S = x.done + 1 .. x.length /\ s = x.done + 1 BY <2>1, <2>2, <2>4
    <3>2. (x.done + 1 .. x.length) \ {x.done + 1} = (x.done + 1) + 1 .. x.length BY <2>3
    <3> QED BY <2>1, <3>1, <3>2
  <2> QED BY <1>11, <2>1, <2>2, <2>6, <2>7 DEF Follows, S
<1>15. ASSUME NEW k \in 1 .. Len(c) + 1 PROVE Follows(e[k], o[k])
  <2>1. CASE k = 1 BY <1>10, <1>13, <2>1
  <2>2. CASE k = 2 BY <1>10, <1>14, <2>2
  <2>3. CASE k \in 3 .. Len(c) + 1
    <3>1. k - 1 \in 1 .. Len(c) BY <1>1, <1>5, <2>3
    <3> QED BY <1>5, <1>10, <1>12, <2>3, <3>1
  <2>4. Len(c) \in Nat BY <1>1, <1>5
  <2>5. k = 1 \/ k = 2 \/ k \in 3 .. Len(c) + 1 BY <2>4
  <2> QED BY <2>1, <2>2, <2>3, <2>5
<1> QED BY <1>5, <1>10, <1>11, <1>15 DEF FollowsAll, o, e, st, T, p

(* What decode has made, one member more, or with the call on top returned. *)
LEMMA HasOpened ==
  ASSUME Tree, NEW a, Sound(a), NEW s \in a.stack[1].todo, ~V!Refused(Append(a.stack[1].path, s)),
         NEW v, Has(v, a.stack)
  PROVE  Has(V!Put(v, Append(a.stack[1].path, s), json[Append(a.stack[1].path, s)]),
             Opened(a.stack, s, V!Names(Append(a.stack[1].path, s))))
<1> DEFINE st == a.stack
           p == Append(st[1].path, s)
           T == V!Names(p)
           o == Opened(st, s, T)
<1>1. /\ Chained(st) /\ st # <<>> /\ s \in st[1].todo /\ s \in Nat /\ p \in DOMAIN json /\ Len(st) \in Nat
  BY SoundFacts DEF Sound
<1>2. p \in Seq(Nat) /\ \A q \in DOMAIN json : q \in Seq(Nat) BY <1>1 DEF Tree
<1>3. ~V!Refused(p) /\ Has(v, st) OBVIOUS
<1>4. T \in SUBSET Nat
  <2> HIDE DEF p
  <2> QED BY <1>2, NamesAre
<1>5. Len(p) = Len(st) BY <1>1, <1>4, OpenFacts
<1> HIDE DEF p, st
<1>6. ASSUME NEW q \in DOMAIN json, Extends(q, p) PROVE q[Len(st) + 1] \in T
  <2>1. p \in Nodes BY <1>1 DEF Nodes
  <2>2. Append(p, q[Len(p) + 1]) \in DOMAIN json BY <1>6, <2>1 DEF Tree
  <2>3. Len(p) \in Nat /\ Len(q) \in Nat /\ Len(p) < Len(q) BY <1>2, <1>6, LenProperties DEF Extends
  <2>4. Len(p) + 1 \in 1 .. Len(q) BY <2>3
  <2>5. q[Len(p) + 1] \in Nat BY <1>2, <2>4, ElementOfSeq
  <2>6. q[Len(p) + 1] \in T BY <1>2, <2>2, <2>5, NamesAre
  <2> QED BY <1>5, <2>6
<1>7. ASSUME NEW q \in DOMAIN json PROVE Owed(q, o) <=> Owed(q, st) /\ q # p
  <2>1. q \in Seq(Nat) /\ (Extends(q, p) => q[Len(st) + 1] \in T) BY <1>2, <1>6
  <2>2. Extends(q, Append(st[1].path, s)) => q[Len(st) + 1] \in T BY <2>1 DEF p
  <2> HIDE DEF T
  <2>3. Owed(q, Opened(st, s, T)) <=> Owed(q, st) /\ q # Append(st[1].path, s) BY <1>1, <1>4, <2>1, <2>2, OpenedOwes
  <2> QED BY <2>3 DEF p
<1>8. Paths(o) = Paths(st) \cup {p}
  <2> HIDE DEF o
  <2> QED BY <1>1, <1>7 DEF Paths
<1>9. v = [q \in Paths(st) |-> json[q]] /\ \A q \in Paths(st) : ~V!Refused(q) BY <1>3 DEF Has
<1> HIDE DEF o
<1>10. DOMAIN v = Paths(st) BY <1>9
<1>11. V!Put(v, p, json[p]) = [q \in Paths(st) \cup {p} |-> IF q = p THEN json[p] ELSE v[q]]
  BY <1>10, Zenon DEF V!Put
<1>12. V!Put(v, p, json[p]) = [q \in Paths(st) \cup {p} |-> json[q]]
  <2>1. \A q \in Paths(st) \cup {p} : (IF q = p THEN json[p] ELSE v[q]) = json[q] BY <1>9
  <2> QED BY <1>11, <2>1
<1>13. Has(V!Put(v, p, json[p]), o) BY <1>3, <1>8, <1>9, <1>12 DEF Has
<1> QED BY <1>13 DEF o, T, p, st

LEMMA HasClosed ==
  ASSUME NEW st, Chained(st), st # <<>>, st[1].todo = {}, NEW v, Has(v, st)
  PROVE  Has(v, Tail(st))
<1>1. \A q : Owed(q, Tail(st)) <=> Owed(q, st) BY ClosedOwes
<1>2. Paths(Tail(st)) = Paths(st) BY <1>1 DEF Paths
<1> QED BY <1>2 DEF Has

(* The node of a value in the record of the call that reads it. *)
LEMMA ReadNode ==
  ASSUME Tree, NEW p \in DOMAIN json, NEW k, nodes[k] = V!Node(p)
  PROVE  /\ V!Reading(p, k) \in Read /\ V!Reading(p, k).path = p /\ V!Reading(p, k).kind = json[p]
         /\ V!Reading(p, k).done = 0 /\ V!Reading(p, k).length = Cardinality(V!Names(p))
         /\ nodes[k].kind = json[p]
<1>1. V!Node(p) = [kind |-> json[p], name |-> 0, length |-> Cardinality(V!Names(p))]
  BY CountsAlike, Zenon DEF V!Node
<1>2. nodes[k].kind = json[p] /\ nodes[k].length = Cardinality(V!Names(p)) BY <1>1
<1>3. V!Reading(p, k) = [path |-> p, kind |-> json[p], done |-> 0, length |-> Cardinality(V!Names(p))]
  BY <1>2, Zenon DEF V!Reading
<1>4. p \in Nodes /\ p # <<>>
  <2>1. p \in Seq(Nat) /\ Len(p) >= 1 BY DEF Tree
  <2>2. Len(p) # 0 BY <2>1
  <2> QED BY <2>1, <2>2, EmptySeq DEF Nodes
<1>5. json[p] \in Kinds BY <1>4 DEF Kinds, KindAt
<1>6. IsFiniteSet(V!Names(p)) BY <1>4 DEF Tree
<1>7. Cardinality(V!Names(p)) \in Nat BY <1>6, FS_CardinalityType
<1> DEFINE r == [path |-> p, kind |-> json[p], done |-> 0, length |-> Cardinality(V!Names(p))]
<1>8. r \in Read BY <1>4, <1>5, <1>7 DEF Read
<1>9. r.path = p /\ r.kind = json[p] /\ r.done = 0 /\ r.length = Cardinality(V!Names(p)) OBVIOUS
<1> HIDE DEF r
<1>10. V!Reading(p, k) = r BY <1>3 DEF r
<1> QED BY <1>2, <1>8, <1>9, <1>10

LEMMA OneDone ==
  ASSUME NEW x \in Read
  PROVE  /\ [x EXCEPT !.done = @ + 1] \in Read
         /\ [x EXCEPT !.done = @ + 1].path = x.path /\ [x EXCEPT !.done = @ + 1].kind = x.kind
         /\ [x EXCEPT !.done = @ + 1].done = x.done + 1 /\ [x EXCEPT !.done = @ + 1].length = x.length
<1>1. \A t : [x EXCEPT !.done = t] = [path |-> x.path, kind |-> x.kind, done |-> t, length |-> x.length] BY DEF Read
<1>2. x.done \in Nat /\ x.path \in Nodes /\ x.kind \in Kinds /\ x.length \in Nat BY DEF Read
<1> DEFINE e == [path |-> x.path, kind |-> x.kind, done |-> x.done + 1, length |-> x.length]
<1>3. [x EXCEPT !.done = @ + 1] = e BY <1>1
<1>4. e \in Read BY <1>2 DEF Read
<1>5. e.path = x.path /\ e.kind = x.kind /\ e.done = x.done + 1 /\ e.length = x.length OBVIOUS
<1> HIDE DEF e
<1> QED BY <1>3, <1>4, <1>5

(* decode's next member, and its return. *)
Before(c) == IF V!KeyFirst(c[1].kind) THEN 1 ELSE 0
Ahead(c, cur) == Append(c[1].path, IF V!KeyFirst(c[1].kind) THEN nodes[cur].name ELSE c[1].done + 1)

LEMMA DecodingFacts ==
  ASSUME Tree, NEW c, NEW cur, NEW v, Decoding(c, cur, v)
  PROVE  /\ c # <<>> /\ Len(c) \in Nat /\ Len(c) >= 1 /\ Head(c) = c[1] /\ c[1] \in Read /\ c \in Seq(Read)
         /\ c[1].done \in Nat /\ c[1].length \in Nat /\ c[1].done <= c[1].length
<1>1. PICK f, n, m : Trail(f, n, nodes) /\ m \in 1 .. n /\ FollowsAll(c, f[m].stack) BY DEF Decoding
<1>2. Sound(f[m]) BY <1>1 DEF Trail
<1>3. Follows(c[1], f[m].stack[1]) /\ c[1].done \in Nat /\ c[1].length \in Nat
      /\ Cardinality(f[m].stack[1].todo) \in Nat /\ c # <<>> /\ Len(c) \in Nat /\ Len(c) >= 1 /\ Head(c) = c[1] /\ c[1] \in Read
  BY <1>1, <1>2, FollowsFacts
<1>4. c[1].done <= c[1].length
  <2> DEFINE x == c[1].done
             y == c[1].length
             z == Cardinality(f[m].stack[1].todo)
  <2>1. x \in Nat /\ y \in Nat /\ z \in Nat /\ x + z = y BY <1>3 DEF Follows
  <2> HIDE DEF x, y, z
  <2>2. x <= y BY <2>1
  <2> QED BY <2>2 DEF x, y
<1> QED BY <1>1, <1>3, <1>4 DEF FollowsAll

LEMMA DecodedMember ==
  ASSUME Tree, NEW c, NEW cur, NEW v, Decoding(c, cur, v), c[1].done < c[1].length
  PROVE  /\ ~V!TooDeep(Len(Ahead(c, cur)))
         /\ Decoding(<<V!Reading(Ahead(c, cur), cur + Before(c)), [c[1] EXCEPT !.done = @ + 1]>> \o Tail(c),
                     cur + Before(c) + 1, V!Put(v, Ahead(c, cur), nodes[cur + Before(c)].kind))
<1>1. PICK f, n, m :
        /\ Trail(f, n, nodes) /\ m \in 1 .. n
        /\ Len(f[n].stack) = 1 /\ f[n].stack[1].todo = {}
        /\ FollowsAll(c, f[m].stack) /\ cur = f[m].size + 1 /\ Has(v, f[m].stack)
  BY DEF Decoding
<1> DEFINE a == f[m]
           b == f[m + 1]
<1>2. /\ m + 1 \in 1 .. n
      /\ \E s \in a.stack[1].todo :
           /\ \A y \in a.stack[1].todo : s <= y
           /\ b.stack = Opened(a.stack, s, V!Names(Append(a.stack[1].path, s)))
           /\ ~V!Refused(Append(a.stack[1].path, s))
           /\ c[1].kind = "hash" =>
                /\ b.size = a.size + 2
                /\ nodes[a.size + 1] = V!KeyNode(s)
                /\ nodes[a.size + 2] = V!Node(Append(a.stack[1].path, s))
           /\ c[1].kind # "hash" =>
                /\ b.size = a.size + 1
                /\ nodes[a.size + 1] = V!Node(Append(a.stack[1].path, s))
                /\ s = c[1].done + 1
  BY <1>1, NextRead
<1>3. PICK s \in a.stack[1].todo :
        /\ b.stack = Opened(a.stack, s, V!Names(Append(a.stack[1].path, s)))
        /\ ~V!Refused(Append(a.stack[1].path, s))
        /\ c[1].kind = "hash" =>
             /\ b.size = a.size + 2
             /\ nodes[a.size + 1] = V!KeyNode(s)
             /\ nodes[a.size + 2] = V!Node(Append(a.stack[1].path, s))
        /\ c[1].kind # "hash" =>
             /\ b.size = a.size + 1
             /\ nodes[a.size + 1] = V!Node(Append(a.stack[1].path, s))
             /\ s = c[1].done + 1
  BY <1>2
<1>4. Sound(a) /\ a.size \in Nat BY <1>1 DEF Trail, Sound
<1>5. c[1] \in Read /\ Follows(c[1], a.stack[1]) /\ FollowsAll(c, a.stack) /\ cur = a.size + 1 /\ Has(v, a.stack)
  <2>1. FollowsAll(c, a.stack) /\ cur = a.size + 1 /\ Has(v, a.stack) BY <1>1
  <2> HIDE DEF a
  <2> QED BY <1>4, <2>1, FollowsFacts
<1> HIDE DEF a, b
<1> DEFINE p == Append(a.stack[1].path, s)
           k == cur + Before(c)
           x == c[1]
           d == [x EXCEPT !.done = @ + 1]
           r == V!Reading(p, k)
<1>6. Ahead(c, cur) = p /\ nodes[k] = V!Node(p) /\ b.size + 1 = k + 1
  <2>1. c[1].path = a.stack[1].path BY <1>5 DEF Follows
  <2>2. CASE c[1].kind = "hash"
    <3>1. V!KeyFirst(c[1].kind) BY <2>2 DEF V!KeyFirst
    <3>2. Before(c) = 1 /\ Ahead(c, cur) = Append(c[1].path, nodes[cur].name) BY <3>1 DEF Before, Ahead
    <3>3. nodes[cur].name = s BY <1>3, <1>5, <2>2 DEF V!KeyNode
    <3>4. k = a.size + 2 /\ b.size = a.size + 2 BY <1>3, <1>4, <1>5, <2>2, <3>2
    <3> QED BY <1>3, <2>1, <2>2, <3>2, <3>3, <3>4
  <2>3. CASE c[1].kind # "hash"
    <3>1. ~V!KeyFirst(c[1].kind) BY <2>3 DEF V!KeyFirst
    <3>2. Before(c) = 0 /\ Ahead(c, cur) = Append(c[1].path, c[1].done + 1) BY <3>1 DEF Before, Ahead
    <3>3. k = a.size + 1 /\ b.size = a.size + 1 BY <1>3, <1>4, <1>5, <2>3, <3>2
    <3> QED BY <1>3, <2>1, <2>3, <3>2, <3>3
  <2> QED BY <2>2, <2>3
<1>7. p \in DOMAIN json BY <1>4, SoundFacts
<1>8. ~V!TooDeep(Len(p)) BY <1>3 DEF V!Refused
<1>9. r \in Read /\ r.path = p /\ r.kind = json[p] /\ r.done = 0 /\ r.length = Cardinality(V!Names(p)) /\ nodes[k].kind = json[p]
  <2> HIDE DEF p, k
  <2> QED BY <1>6, <1>7, ReadNode
<1>10. d \in Read /\ d.path = c[1].path /\ d.kind = c[1].kind /\ d.done = c[1].done + 1 /\ d.length = c[1].length
  <2>1. x \in Read /\ x = c[1] BY <1>5
  <2> HIDE DEF x
  <2> QED BY <2>1, OneDone
<1>11. c[1].kind # "hash" => s = c[1].done + 1 BY <1>3
<1>12. FollowsAll(<<r, d>> \o Tail(c), b.stack)
  <2>1. r.path = Append(a.stack[1].path, s) /\ r.kind = json[r.path] /\ r.length = Cardinality(V!Names(r.path)) BY <1>9
  <2> HIDE DEF p, r, d
  <2>2. FollowsAll(<<r, d>> \o Tail(c), Opened(a.stack, s, V!Names(Append(a.stack[1].path, s))))
    BY <1>4, <1>5, <1>9, <1>10, <1>11, <2>1, FollowsOpened
  <2> QED BY <1>3, <2>2
<1>13. Has(V!Put(v, p, nodes[k].kind), b.stack)
  <2>1. Has(V!Put(v, Append(a.stack[1].path, s), json[Append(a.stack[1].path, s)]),
            Opened(a.stack, s, V!Names(Append(a.stack[1].path, s))))
    BY <1>3, <1>4, <1>5, HasOpened
  <2> QED BY <1>3, <1>9, <2>1
<1> HIDE DEF p, r, d, k
<1>14. /\ FollowsAll(<<r, d>> \o Tail(c), f[m + 1].stack) /\ k + 1 = f[m + 1].size + 1
       /\ Has(V!Put(v, p, nodes[k].kind), f[m + 1].stack)
  BY <1>6, <1>12, <1>13 DEF b
<1>15. Decoding(<<r, d>> \o Tail(c), k + 1, V!Put(v, p, nodes[k].kind)) BY <1>1, <1>2, <1>14 DEF Decoding
<1> QED BY <1>6, <1>8, <1>15 DEF r, d, k

LEMMA DecodedReturn ==
  ASSUME Tree, NEW c, NEW cur, NEW v, Decoding(c, cur, v), c[1].done = c[1].length
  PROVE  /\ Tail(c) # <<>> => Decoding(Tail(c), cur, v)
         /\ Tail(c) = <<>> => v = json /\ \A p \in DOMAIN json : ~V!Refused(p)
<1>1. PICK f, n, m :
        /\ Trail(f, n, nodes) /\ m \in 1 .. n
        /\ Len(f[n].stack) = 1 /\ f[n].stack[1].todo = {}
        /\ FollowsAll(c, f[m].stack) /\ cur = f[m].size + 1 /\ Has(v, f[m].stack)
  BY DEF Decoding
<1> DEFINE st == f[m].stack
           u == Tail(st)
           e == Tail(c)
<1>2. Sound(f[m]) /\ n \in Nat BY <1>1 DEF Trail
<1>3. st[1].todo = {} /\ c # <<>> BY <1>1, <1>2, FollowsFacts
<1>4. Chained(st) /\ st # <<>> /\ st \in Seq(Frame) BY <1>2 DEF Sound, Chained
<1>5. c \in Seq(Read) /\ Len(c) = Len(st) /\ (\A k \in 1 .. Len(c) : Follows(c[k], st[k])) /\ Has(v, st)
  BY <1>1 DEF FollowsAll
<1>s. st = f[m].stack OBVIOUS
<1> HIDE DEF st
<1>6. /\ Len(st) \in Nat /\ Len(st) >= 1 /\ Len(u) = Len(st) - 1 /\ \A k \in 1 .. Len(st) - 1 : u[k] = st[k + 1]
      /\ u \in Seq(Frame)
  BY <1>4, PopFacts
<1>7. e \in Seq(Read) /\ Len(e) = Len(c) - 1 /\ \A k \in 1 .. Len(c) - 1 : e[k] = c[k + 1]
  BY <1>3, <1>5, PopFacts
<1>8. Has(v, u) BY <1>3, <1>4, <1>5, HasClosed
<1>9. FollowsAll(e, u)
  <2>1. ASSUME NEW k \in 1 .. Len(c) - 1 PROVE Follows(e[k], u[k])
    <3>1. k + 1 \in 1 .. Len(c) BY <1>5, <1>6
    <3> QED BY <1>5, <1>6, <1>7, <3>1
  <2> QED BY <1>5, <1>6, <1>7, <2>1 DEF FollowsAll
<1> HIDE DEF u, e
<1>10. ASSUME e # <<>> PROVE Decoding(e, cur, v)
  <2>1. Len(e) # 0 BY <1>7, <1>10, EmptySeq
  <2>2. Len(st) > 1
    <3> DEFINE z == Len(st)
    <3>1. z \in Nat /\ z - 1 # 0 /\ z >= 1 BY <1>5, <1>6, <1>7, <2>1
    <3> HIDE DEF z
    <3>2. z > 1 BY <3>1
    <3> QED BY <3>2 DEF z
  <2>3. m # n
    <3> SUFFICES ASSUME m = n PROVE FALSE OBVIOUS
    <3>1. Len(st) = 1 BY <1>1, <1>s
    <3> QED BY <2>2, <3>1
  <2>4. m \in 1 .. n - 1 /\ m + 1 \in 1 .. n BY <1>1, <1>2, <2>3
  <2>5. Moves(f[m], f[m + 1], nodes) BY <1>1, <2>4 DEF Trail
  <2>6. \A s : ~Down(f[m], f[m + 1], s, nodes) BY <1>3, <1>s DEF Down
  <2>7. Up(f[m], f[m + 1]) BY <2>5, <2>6 DEF Moves
  <2>8. f[m + 1].stack = u /\ f[m + 1].size = f[m].size BY <1>s, <2>7 DEF Up, u
  <2>9. FollowsAll(e, f[m + 1].stack) /\ cur = f[m + 1].size + 1 /\ Has(v, f[m + 1].stack) BY <1>1, <1>8, <1>9, <2>8
  <2> QED BY <1>1, <2>4, <2>9 DEF Decoding
<1>11. ASSUME e = <<>> PROVE v = json /\ \A p \in DOMAIN json : ~V!Refused(p)
  <2>1. Len(e) = 0 BY <1>11, EmptySeq
  <2>2. Len(u) = 0 BY <1>5, <1>6, <1>7, <2>1
  <2>3. \A p : ~Owed(p, u) BY <2>2 DEF Owed
  <2>4. Paths(u) = DOMAIN json BY <2>3 DEF Paths
  <2>5. json = [p \in DOMAIN json |-> json[p]] BY DEF Tree
  <2> QED BY <1>8, <2>4, <2>5 DEF Has
<1> QED BY <1>10, <1>11 DEF e

LEMMA SameTree ==
  ASSUME UNCHANGED json
  PROVE  /\ (Tree' <=> Tree) /\ (\A c, ns : Adding(c, ns)' <=> Adding(c, ns))
         /\ \A p : V!Refused(p)' <=> V!Refused(p)
<1>1. json' = json OBVIOUS
<1>2. (\A p : V!Names(p)' = V!Names(p)) /\ \A p : V!Refused(p)' <=> V!Refused(p)
  BY <1>1 DEF V!Names, V!Refused, V!TooDeep
<1>3. (\A p : V!Node(p)' = V!Node(p)) /\ Nodes' = Nodes /\ \A p : KindAt(p)' = KindAt(p)
  BY <1>1, <1>2 DEF V!Node, Nodes, KindAt
<1>4. Tree' <=> Tree BY <1>1, <1>2, <1>3 DEF Tree
<1>5. \A a : Sound(a)' <=> Sound(a) BY <1>2, <1>3 DEF Sound
<1>6. \A a, b, s, ns : Down(a, b, s, ns)' <=> Down(a, b, s, ns) BY <1>2, <1>3 DEF Down
<1>7. \A a, b, ns : Moves(a, b, ns)' <=> Moves(a, b, ns) BY <1>6 DEF Moves
<1>8. \A f, n, ns : Trail(f, n, ns)' <=> Trail(f, n, ns) BY <1>5, <1>7 DEF Trail
<1>9. Items' = Items BY <1>1, <1>3 DEF Items
<1>10. \A c, ns : Adding(c, ns)' <=> Adding(c, ns) BY <1>8, <1>9 DEF Adding
<1> QED BY <1>2, <1>4, <1>10

LEMMA SameReading ==
  ASSUME UNCHANGED <<json, nodes>>
  PROVE  \A c, cur, v : Decoding(c, cur, v)' <=> Decoding(c, cur, v)
<1>1. json' = json /\ nodes' = nodes OBVIOUS
<1>2. \A p : V!Refused(p)' <=> V!Refused(p) BY <1>1 DEF V!Refused, V!TooDeep
<1>3. Nodes' = Nodes /\ \A p : KindAt(p)' = KindAt(p) BY <1>1 DEF Nodes, KindAt
<1>4. Read' = Read
  <2>1. Kinds' = Kinds BY <1>3 DEF Kinds
  <2> QED BY <1>3, <2>1 DEF Read
<1>5. \A r, g : Follows(r, g)' <=> Follows(r, g) BY <1>3 DEF Follows
<1>6. \A c, st : FollowsAll(c, st)' <=> FollowsAll(c, st) BY <1>4, <1>5 DEF FollowsAll
<1>7. \A v, st : Has(v, st)' <=> Has(v, st)
  <2>1. \A st : Paths(st)' = Paths(st) BY <1>1 DEF Paths
  <2> QED BY <1>1, <1>2, <2>1 DEF Has
<1>8. \A f, n, ns : Trail(f, n, ns)' <=> Trail(f, n, ns)
  <2>1. (\A p : V!Names(p)' = V!Names(p)) BY <1>1 DEF V!Names
  <2>2. (\A p : V!Node(p)' = V!Node(p)) BY <1>1, <2>1 DEF V!Node
  <2>3. \A a : Sound(a)' <=> Sound(a) BY <1>3, <2>1 DEF Sound
  <2>4. \A a, b, s, ns : Down(a, b, s, ns)' <=> Down(a, b, s, ns) BY <1>2, <1>3, <2>1, <2>2 DEF Down
  <2>5. \A a, b, ns : Moves(a, b, ns)' <=> Moves(a, b, ns) BY <2>4 DEF Moves
  <2> QED BY <2>3, <2>5 DEF Trail
<1> QED BY <1>1, <1>6, <1>7, <1>8 DEF Decoding

-----------------------------------------------------------------------------
(* Where Tree refuses, the value fills the depth or holds a number beyond i64. *)
LEMMA RefusedMeans ==
  ASSUME Graph, NEW t, Encoded(t, json)
  PROVE  (\E p \in DOMAIN json : V!Refused(p)) <=> V!Deep(MaxLevels - 1) \/ V!Beyond
<1>1. DOMAIN json = {x.name : x \in V!Everywhere} /\ (\A x \in V!Everywhere : Len(x.path) <= MaxLevels)
      /\ \A q \in V!Everywhere : json[q.name] = V!Kind(q.value)
  BY DEF Encoded, Says, Lawful
<1>2. MaxLevels \in Nat /\ "array" \notin Leaves /\ "hash" \notin Leaves BY Sizes2
<1>3. V!Deep(MaxLevels - 1) <=> V!Places[MaxLevels] # {}
  <2>1. (MaxLevels - 1) + 1 = MaxLevels BY <1>2
  <2> QED BY <2>1 DEF V!Deep
<1>4. ASSUME NEW p \in DOMAIN json, V!Refused(p) PROVE V!Deep(MaxLevels - 1) \/ V!Beyond
  <2>1. PICK x \in V!Everywhere : x.name = p BY <1>1
  <2>2. /\ Len(x.path) \in Nat /\ Len(p) = Len(x.path) + 1 /\ Len(x.path) <= MaxLevels
        /\ x \in V!Places[Len(x.path)] /\ x.value \in Any
    BY <1>1, <2>1, EverywhereFacts
  <2>3. CASE V!TooDeep(Len(p))
    <3> DEFINE d == Len(x.path)
    <3>1. d \in Nat /\ d + 1 > MaxLevels /\ d <= MaxLevels /\ x \in V!Places[d] BY <2>2, <2>3 DEF V!TooDeep
    <3> HIDE DEF d
    <3>2. d = MaxLevels BY <1>2, <3>1
    <3> QED BY <1>3, <3>1, <3>2
  <2>4. CASE json[p] \in Leaves /\ ~Leaf[json[p]].fits
    <3>1. json[p] = V!Kind(x.value) BY <1>1, <2>1
    <3>2. x.value \in Leaves /\ V!Kind(x.value) = x.value BY <1>2, <2>2, <2>4, <3>1, ObjectFacts
    <3>3. x.value \in Leaves /\ ~Leaf[x.value].fits BY <2>4, <3>1, <3>2
    <3> QED BY <3>3 DEF V!Beyond
  <2> QED BY <1>4, <2>3, <2>4 DEF V!Refused
<1>5. ASSUME V!Deep(MaxLevels - 1) PROVE \E p \in DOMAIN json : V!Refused(p)
  <2>1. MaxLevels \in 0 .. MaxLevels + 1 BY <1>2
  <2>2. PICK x : x \in V!Places[MaxLevels] BY <1>3, <1>5
  <2>3. x \in V!Everywhere BY <2>1, <2>2 DEF V!Everywhere
  <2>4. Len(x.name) = MaxLevels + 1 BY <2>1, <2>2, PlaceTypes
  <2>5. V!TooDeep(Len(x.name))
    <3>1. MaxLevels + 1 > MaxLevels BY <1>2
    <3> QED BY <2>4, <3>1 DEF V!TooDeep
  <2> QED BY <1>1, <2>3, <2>5 DEF V!Refused
<1>6. ASSUME V!Beyond PROVE \E p \in DOMAIN json : V!Refused(p)
  <2>1. PICK x \in V!Everywhere : x.value \in Leaves /\ ~Leaf[x.value].fits BY <1>6 DEF V!Beyond
  <2>2. x.name \in DOMAIN json /\ json[x.name] = x.value
    <3>1. V!Kind(x.value) = x.value BY <2>1 DEF V!Kind
    <3> QED BY <1>1, <2>1, <3>1
  <2> QED BY <2>1, <2>2 DEF V!Refused
<1> QED BY <1>4, <1>5, <1>6

LEMMA QuotedFacts ==
  ASSUME Wellformed(text), text.error = "none"
  PROVE  IF text.bytes + text.special + 2 > result_limit THEN V!Quoted.error = "range" ELSE V!Quoted.error = "none"
<1> DEFINE t0 == V!Empty
           t1 == V!append(t0, 1, 0)
           w == text.bytes + text.special
           t2 == V!append(t1, w, 0)
           t3 == V!append(t2, 1, 0)
<1>1. text \in Texts /\ text.special <= text.bytes BY DEF Wellformed
<1>2. text.bytes \in Nat /\ text.special \in Nat /\ result_limit \in Nat BY TextNumbers
<1>3. w \in Nat /\ 0 \in 0 .. w /\ 1 \in Nat /\ 0 \in 0 .. 1 BY <1>2
<1>4. V!Quoted = t3 BY Zenon DEF V!Quoted
<1>5. Wellformed(t0) /\ t0.bytes = 0 /\ t0.error = "none"
  <2>1. t0 = [bytes |-> 0, special |-> 0, error |-> "none"] BY DEF V!Empty
  <2> HIDE DEF t0
  <2>2. 0 \in 0 .. result_limit BY <1>2
  <2> QED BY <2>1, <2>2 DEF Wellformed, Texts
<1>6. text.bytes + text.special + 2 = w + 2 OBVIOUS
<1> HIDE DEF t0, w
<1>7. Wellformed(t1) BY <1>3, <1>5, AppendFacts
<1>8. /\ 0 + 1 <= result_limit => t1.error = "none" /\ t1.bytes = 0 + 1
      /\ ~(0 + 1 <= result_limit) => t1.error = "range"
  BY <1>3, <1>5, AppendFacts
<1> HIDE DEF t1
<1>9. Wellformed(t2) BY <1>3, <1>7, AppendFacts
<1>10. /\ t1.error # "none" => t2 = t1
       /\ t1.error = "none" /\ t1.bytes + w <= result_limit => t2.error = "none" /\ t2.bytes = t1.bytes + w
       /\ t1.error = "none" /\ ~(t1.bytes + w <= result_limit) => t2.error = "range"
  BY <1>3, <1>7, AppendFacts
<1> HIDE DEF t2
<1>11. /\ t2.error # "none" => t3 = t2
       /\ t2.error = "none" /\ t2.bytes + 1 <= result_limit => t3.error = "none"
       /\ t2.error = "none" /\ ~(t2.bytes + 1 <= result_limit) => t3.error = "range"
  BY <1>3, <1>9, AppendFacts
<1> HIDE DEF t3
<1>12. CASE w + 2 <= result_limit
  <2>1. 0 + 1 <= result_limit BY <1>2, <1>3, <1>12
  <2>2. t1.error = "none" /\ t1.bytes = 1 BY <1>8, <2>1
  <2>3. t1.bytes + w <= result_limit BY <1>2, <1>3, <1>12, <2>2
  <2>4. t2.error = "none" /\ t2.bytes = 1 + w BY <1>10, <2>2, <2>3
  <2>5. t2.bytes + 1 <= result_limit BY <1>2, <1>3, <1>12, <2>4
  <2>6. t3.error = "none" BY <1>11, <2>4, <2>5
  <2>7. ~(w + 2 > result_limit) BY <1>2, <1>3, <1>12
  <2> QED BY <1>4, <1>6, <2>6, <2>7
<1>13. CASE ~(w + 2 <= result_limit)
  <2>1. t3.error = "range"
    <3>1. CASE ~(0 + 1 <= result_limit) BY <1>8, <1>10, <1>11, <3>1
    <3>2. CASE 0 + 1 <= result_limit
      <4>1. t1.error = "none" /\ t1.bytes = 1 BY <1>8, <3>2
      <4>2. CASE ~(t1.bytes + w <= result_limit) BY <1>10, <1>11, <4>1, <4>2
      <4>3. CASE t1.bytes + w <= result_limit
        <5>1. t2.error = "none" /\ t2.bytes = 1 + w BY <1>10, <4>1, <4>3
        <5>2. ~(t2.bytes + 1 <= result_limit) BY <1>2, <1>3, <1>13, <5>1
        <5> QED BY <1>11, <5>1, <5>2
      <4> QED BY <4>2, <4>3
    <3> QED BY <3>1, <3>2
  <2>2. w + 2 > result_limit BY <1>2, <1>3, <1>13
  <2> QED BY <1>4, <1>6, <2>1, <2>2
<1> QED BY <1>12, <1>13

(* The inductive invariant: where the conversion is, and what it has made by then. *)
Unparsed == \E p \in DOMAIN json : V!Refused(p)
Converting ==
  /\ v_at \in {"program", "encoding", "generated", "adding", "decoding", "parsed", "unwritten", "unread"}
  /\ v_at = "program" => text = V!Empty /\ calls = <<>> /\ json = <<>>
  /\ v_at = "encoding" => Encoding(calls, text, json)
  /\ v_at = "unwritten" => Failing(text)
  /\ v_at \in {"program", "encoding", "generated", "adding"} => value = <<>>
Written ==
  /\ v_at \in {"generated", "adding", "decoding", "parsed"} => Encoded(text, json) /\ text.error = "none"
  /\ v_at = "unread" =>
       /\ Encoded(text, json)
       /\ \/ Unparsed /\ text.error = "protocol"
          \/ text.bytes + text.special + 2 > result_limit /\ text.error = "range"
Parsing ==
  /\ v_at = "adding" => Adding(calls, nodes)
  /\ v_at = "decoding" => Decoding(calls, cursor, value)
  /\ v_at = "parsed" => value = json /\ ~Unparsed
ValuesInv == Graph /\ Converting /\ Written /\ Parsing

LEMMA ValuesInit == V!Init => ValuesInv
<1> SUFFICES ASSUME V!Init PROVE ValuesInv OBVIOUS
<1>1. /\ heap \in Heaps /\ root \in Objects \cup Leaves /\ v_at = "program" /\ calls = <<>> /\ json = <<>>
      /\ value = <<>> /\ text = V!Empty
  BY DEF V!Init
<1>2. Graph BY <1>1 DEF Graph, Any
<1> QED BY <1>1, <1>2 DEF ValuesInv, Converting, Written, Parsing

LEMMA GenerateStep == ASSUME ValuesInv, V!Generate PROVE ValuesInv'
<1> DEFINE f == V!First
           c == <<[place |-> f, next |-> 1]>>
<1>1. /\ v_at = "program" /\ V!Encode(text, f, <<>>) /\ UNCHANGED <<heap, root, nodes, cursor, value>>
      /\ text = V!Empty /\ json = <<>> /\ Graph /\ value = <<>>
  BY DEF V!Generate, ValuesInv, Converting
<1>2. text' = V!Begin(text, f)
      /\ IF text'.error = "none"
         THEN v_at' = "encoding" /\ json' = V!Put(json, f.name, V!Kind(f.value)) /\ calls' = c \o <<>>
         ELSE v_at' = "unwritten" /\ UNCHANGED <<json, calls>>
  BY <1>1 DEF V!Encode
<1>3. text = [bytes |-> 0, special |-> 0, error |-> "none"] BY <1>1 DEF V!Empty
<1>4. /\ text'.error = "none" => Encoding(c, text', V!Put(<<>>, f.name, V!Kind(root)))
      /\ text'.error # "none" => Failing(text')
  BY <1>1, <1>2, <1>3, FirstWritten
<1>5. f.value = root /\ c \o <<>> = c
  <2>1. f \in V!Everywhere BY <1>1, FirstEverywhere
  <2>2. f.value = root BY <1>1, FirstFacts
  <2> DEFINE x == [place |-> f, next |-> 1]
  <2>3. <<x>> \in Seq({x}) OBVIOUS
  <2>4. <<x>> \o <<>> = <<x>> BY <2>3, ConcatEmptySeq
  <2> QED BY <2>2, <2>4
<1> HIDE DEF c, f
<1>6. Graph' /\ value' = <<>> BY <1>1 DEF Graph
<1>7. (\A d, t, j : Encoding(d, t, j)' <=> Encoding(d, t, j)) /\ (\A t : Failing(t)' <=> Failing(t)) BY <1>1, SameGraph
<1>8. CASE text'.error = "none"
  <2>1. v_at' = "encoding" /\ Encoding(calls', text', json') BY <1>1, <1>2, <1>4, <1>5, <1>8
  <2>2. Encoding(calls, text, json)' BY <1>7, <2>1
  <2> QED BY <1>6, <2>1, <2>2 DEF ValuesInv, Converting, Written, Parsing
<1>9. CASE text'.error # "none"
  <2>1. v_at' = "unwritten" /\ Failing(text') BY <1>2, <1>4, <1>9
  <2>2. Failing(text)' BY <1>7, <2>1
  <2> QED BY <1>6, <2>1, <2>2 DEF ValuesInv, Converting, Written, Parsing
<1> QED BY <1>8, <1>9

LEMMA EncodeMemberStep == ASSUME ValuesInv, V!EncodeMember PROVE ValuesInv'
<1> DEFINE q == calls[1].place
           i == calls[1].next
           m == V!Member(q, i)
           t0 == V!Introduce(text, heap[q.value], i)
<1>1. v_at = "encoding" /\ Encoding(calls, text, json) /\ Graph /\ value = <<>>
      /\ UNCHANGED <<heap, root, nodes, cursor, value>>
  BY DEF V!EncodeMember, ValuesInv, Converting
<1>2. V!Top = calls[1]
  <2>1. calls \in Seq(Caller) /\ calls # <<>> BY <1>1 DEF Encoding, Callers
  <2> QED BY <2>1, PopFacts DEF V!Top
<1>3. i <= V!Size(q.value)
      /\ V!Encode(t0, m, <<[calls[1] EXCEPT !.next = @ + 1]>> \o Tail(calls))
  BY <1>2 DEF V!EncodeMember
<1>4. text' = V!Begin(t0, m)
      /\ IF text'.error = "none"
         THEN v_at' = "encoding" /\ json' = V!Put(json, m.name, V!Kind(m.value)) /\ calls' = Descended(calls, m)
         ELSE v_at' = "unwritten" /\ UNCHANGED <<json, calls>>
  BY <1>3 DEF V!Encode, Descended
<1>5. /\ text'.error = "none" => Encoding(Descended(calls, m), text', V!Put(json, m.name, V!Kind(m.value)))
      /\ text'.error # "none" => Failing(text')
  BY <1>1, <1>3, <1>4, MemberWritten
<1> HIDE DEF q, i, m, t0
<1>6. Graph' /\ value' = <<>> BY <1>1 DEF Graph
<1>7. (\A d, t, j : Encoding(d, t, j)' <=> Encoding(d, t, j)) /\ (\A t : Failing(t)' <=> Failing(t)) BY <1>1, SameGraph
<1>8. CASE text'.error = "none"
  <2>1. v_at' = "encoding" /\ Encoding(calls', text', json') BY <1>4, <1>5, <1>8
  <2>2. Encoding(calls, text, json)' BY <1>7, <2>1
  <2> QED BY <1>6, <2>1, <2>2 DEF ValuesInv, Converting, Written, Parsing
<1>9. CASE text'.error # "none"
  <2>1. v_at' = "unwritten" /\ Failing(text') BY <1>4, <1>5, <1>9
  <2>2. Failing(text)' BY <1>7, <2>1
  <2> QED BY <1>6, <2>1, <2>2 DEF ValuesInv, Converting, Written, Parsing
<1> QED BY <1>8, <1>9

LEMMA EncodeReturnStep == ASSUME ValuesInv, V!EncodeReturn PROVE ValuesInv'
<1> DEFINE q == calls[1].place
<1>1. v_at = "encoding" /\ Encoding(calls, text, json) /\ Graph /\ value = <<>>
      /\ UNCHANGED <<heap, root, json, nodes, cursor, value>>
  BY DEF V!EncodeReturn, ValuesInv, Converting
<1>2. calls \in Seq(Caller) /\ calls # <<>> /\ Callers(calls) BY <1>1 DEF Encoding, Callers
<1>3. V!Top = calls[1] BY <1>2, PopFacts DEF V!Top
<1>4. ~(calls[1].next <= V!Size(q.value))
  <2>1. calls[1].next \in Nat /\ V!Size(q.value) \in Nat BY <1>1, <1>2, CallerFacts
  <2>2. calls[1].next > V!Size(q.value) BY <1>3 DEF V!EncodeReturn
  <2> DEFINE x == calls[1].next
             y == V!Size(q.value)
  <2>3. x \in Nat /\ y \in Nat /\ x > y BY <2>1, <2>2
  <2> HIDE DEF x, y
  <2>4. ~(x <= y) BY <2>3
  <2> QED BY <2>4 DEF x, y
<1>5. /\ text' = IF q.value \in Leaves THEN text ELSE V!append(text, 1, 0)
      /\ calls' = Tail(calls)
      /\ v_at' = IF text'.error # "none" THEN "unwritten" ELSE IF calls' = <<>> THEN "generated" ELSE "encoding"
  BY <1>3 DEF V!EncodeReturn
<1>6. /\ text'.error = "none" /\ Tail(calls) # <<>> => Encoding(Tail(calls), text', json)
      /\ text'.error = "none" /\ Tail(calls) = <<>> => Encoded(text', json)
      /\ text'.error # "none" => Failing(text')
  BY <1>1, <1>4, <1>5, ReturnWritten
<1> HIDE DEF q
<1>7. Graph' /\ value' = <<>> BY <1>1 DEF Graph
<1>8. (\A d, t, j : Encoding(d, t, j)' <=> Encoding(d, t, j)) /\ (\A t : Failing(t)' <=> Failing(t))
      /\ (\A t, j : Encoded(t, j)' <=> Encoded(t, j))
  BY <1>1, SameGraph
<1>9. CASE text'.error # "none"
  <2>1. v_at' = "unwritten" /\ Failing(text') BY <1>5, <1>6, <1>9
  <2>2. Failing(text)' BY <1>8, <2>1
  <2> QED BY <1>7, <2>1, <2>2 DEF ValuesInv, Converting, Written, Parsing
<1>10. CASE text'.error = "none" /\ Tail(calls) = <<>>
  <2>1. v_at' = "generated" /\ Encoded(text', json') BY <1>1, <1>5, <1>6, <1>10
  <2>2. Encoded(text, json)' BY <1>8, <2>1
  <2> QED BY <1>7, <1>10, <2>1, <2>2 DEF ValuesInv, Converting, Written, Parsing
<1>11. CASE text'.error = "none" /\ Tail(calls) # <<>>
  <2>1. v_at' = "encoding" /\ Encoding(calls', text', json') BY <1>1, <1>5, <1>6, <1>11
  <2>2. Encoding(calls, text, json)' BY <1>8, <2>1
  <2> QED BY <1>7, <2>1, <2>2 DEF ValuesInv, Converting, Written, Parsing
<1> QED BY <1>9, <1>10, <1>11

LEMMA Raised ==
  ASSUME NEW t, NEW j, Encoded(t, j), t.error = "none", NEW e \in {"range", "depth", "protocol"}
  PROVE  /\ V!Raise(t, e) = [t EXCEPT !.error = e] /\ Encoded(V!Raise(t, e), j)
         /\ V!Raise(t, e).bytes = t.bytes /\ V!Raise(t, e).special = t.special /\ V!Raise(t, e).error = e
<1>1. t \in Texts /\ t.special <= t.bytes BY DEF Encoded, Wellformed
<1> DEFINE u == [t EXCEPT !.error = e]
<1>2. u = [bytes |-> t.bytes, special |-> t.special, error |-> e] BY <1>1 DEF Texts
<1>3. u \in Texts /\ u.bytes = t.bytes /\ u.special = t.special /\ u.error = e BY <1>1, <1>2 DEF Texts
<1>4. V!Raise(t, e) = u BY DEF V!Raise
<1> HIDE DEF u
<1>5. Encoded(u, j) BY <1>1, <1>3 DEF Encoded, Wellformed
<1>6. V!Raise(t, e) = [t EXCEPT !.error = e] BY <1>4 DEF u
<1> QED BY <1>3, <1>4, <1>5, <1>6

LEMMA ParseStep == ASSUME ValuesInv, V!Parse PROVE ValuesInv'
<1>1. v_at = "generated" /\ Encoded(text, json) /\ text.error = "none" /\ Graph /\ value = <<>>
      /\ UNCHANGED <<heap, root, json, cursor, value>>
  BY DEF V!Parse, ValuesInv, Converting, Written
<1>2. Tree BY <1>1, TreeOfEncoded
<1>3. Wellformed(text) BY <1>1 DEF Encoded
<1>4. IF text.bytes + text.special + 2 > result_limit THEN V!Quoted.error = "range" ELSE V!Quoted.error = "none"
  BY <1>1, <1>3, QuotedFacts
<1>5. Graph' /\ value' = <<>> BY <1>1 DEF Graph
<1>6. \A t, j : Encoded(t, j)' <=> Encoded(t, j) BY <1>1, SameGraph
<1>7. CASE V!Quoted.error # "none"
  <2>1. V!Quoted.error = "range" /\ text.bytes + text.special + 2 > result_limit BY <1>4, <1>7
  <2>2. v_at' = "unread" /\ text' = [text EXCEPT !.error = "range"] BY <1>7, <2>1 DEF V!Parse
  <2>3. Encoded(text', json') /\ text'.bytes = text.bytes /\ text'.special = text.special /\ text'.error = "range"
    <3>1. json' = json /\ "range" \in {"range", "depth", "protocol"} BY <1>1
    <3>2. V!Raise(text, "range") = [text EXCEPT !.error = "range"] /\ Encoded(V!Raise(text, "range"), json)
          /\ V!Raise(text, "range").bytes = text.bytes /\ V!Raise(text, "range").special = text.special
          /\ V!Raise(text, "range").error = "range"
      BY <1>1, <3>1, Raised
    <3>3. text' = V!Raise(text, "range") BY <2>2, <3>2
    <3> QED BY <3>1, <3>2, <3>3
  <2>4. Encoded(text, json)' BY <1>6, <2>3
  <2>5. (text.bytes + text.special + 2 > result_limit)' BY <2>1, <2>3
  <2> QED BY <1>5, <2>2, <2>3, <2>4, <2>5 DEF ValuesInv, Converting, Written, Parsing
<1>8. CASE V!Quoted.error = "none"
  <2>1. v_at' = "adding" /\ calls' = <<[path |-> <<>>, todo |-> {1}]>> /\ nodes' = <<Envelope>> /\ text' = text
    BY <1>8 DEF V!Parse, Envelope
  <2>2. Adding(calls', nodes') BY <1>2, <2>1, AddBegun
  <2>3. \A c, ns : Adding(c, ns)' <=> Adding(c, ns) BY <1>1, SameTree
  <2>4. Adding(calls, nodes)' BY <2>2, <2>3
  <2>5. Encoded(text', json') BY <1>1, <2>1
  <2>6. Encoded(text, json)' BY <1>6, <2>5
  <2> QED BY <1>1, <1>5, <2>1, <2>4, <2>6 DEF ValuesInv, Converting, Written, Parsing
<1> QED BY <1>7, <1>8

LEMMA AddMemberStep == ASSUME ValuesInv, V!AddMember PROVE ValuesInv'
<1>1. v_at = "adding" /\ Encoded(text, json) /\ text.error = "none" /\ Graph /\ value = <<>>
      /\ Adding(calls, nodes) /\ UNCHANGED <<heap, root, json, cursor, value>>
  BY DEF V!AddMember, ValuesInv, Converting, Written, Parsing
<1>2. Tree BY <1>1, TreeOfEncoded
<1>3. V!Top = calls[1] /\ calls[1].todo \in SUBSET Nat /\ calls[1].path \in Nodes
      /\ \A s \in calls[1].todo : s \in Nat /\ Append(calls[1].path, s) \in DOMAIN json
  BY <1>1, <1>2, AddingFacts DEF V!Top
<1>4. calls[1].todo # {} BY <1>3 DEF V!AddMember
<1> DEFINE s == V!Min(calls[1].todo)
           p == Append(calls[1].path, s)
           hash == calls[1].path = <<>> \/ json[calls[1].path] = "hash"
<1>5. s \in calls[1].todo /\ \A y \in calls[1].todo : s <= y BY <1>3, <1>4, LeastName
<1>6. IF V!Refused(p)
      THEN v_at' = "unread" /\ text' = V!Raise(text, "protocol") /\ UNCHANGED <<calls, nodes>>
      ELSE /\ nodes' = nodes \o (IF hash THEN <<V!KeyNode(s)>> ELSE <<>>) \o <<V!Node(p)>>
           /\ calls' = <<V!Call(p), [calls[1] EXCEPT !.todo = @ \ {s}]>> \o Tail(calls)
           /\ UNCHANGED <<v_at, text>>
  BY <1>3 DEF V!AddMember
<1> HIDE DEF s
<1>7. p \in DOMAIN json BY <1>3, <1>5
<1>8. Graph' /\ value' = <<>> BY <1>1 DEF Graph
<1>9. \A t, j : Encoded(t, j)' <=> Encoded(t, j) BY <1>1, SameGraph
<1>10. (\A c, ns : Adding(c, ns)' <=> Adding(c, ns)) /\ \A r : V!Refused(r)' <=> V!Refused(r) BY <1>1, SameTree
<1>11. CASE V!Refused(p)
  <2>1. v_at' = "unread" /\ text' = V!Raise(text, "protocol") BY <1>6, <1>11
  <2>2. text'.error = "protocol" /\ Encoded(text', json')
    <3>1. json' = json /\ "protocol" \in {"range", "depth", "protocol"} BY <1>1
    <3>2. Encoded(V!Raise(text, "protocol"), json) /\ V!Raise(text, "protocol").error = "protocol"
      BY <1>1, <3>1, Raised
    <3> QED BY <2>1, <3>1, <3>2
  <2>3. Encoded(text, json)' BY <1>9, <2>2
  <2>4. Unparsed'
    <3>1. Unparsed BY <1>7, <1>11 DEF Unparsed
    <3> QED BY <1>1, <1>10, <3>1 DEF Unparsed
  <2> QED BY <1>8, <2>1, <2>2, <2>3, <2>4 DEF ValuesInv, Converting, Written, Parsing
<1>12. CASE ~V!Refused(p)
  <2>1. hash <=> KindAt(calls[1].path) = "hash" BY DEF KindAt
  <2>2. nodes' = Noted(calls, nodes, s) BY <1>6, <1>12, <2>1 DEF Noted
  <2>3. calls' = Entered(calls, s) /\ v_at' = v_at /\ text' = text BY <1>6, <1>12 DEF Entered
  <2>4. Adding(Entered(calls, s), Noted(calls, nodes, s)) BY <1>1, <1>2, <1>5, <1>12, AddedMember
  <2>5. Adding(calls', nodes') BY <2>2, <2>3, <2>4
  <2>6. Adding(calls, nodes)' BY <1>10, <2>5
  <2>7. Encoded(text', json') BY <1>1, <2>3
  <2>8. Encoded(text, json)' BY <1>9, <2>7
  <2> QED BY <1>1, <1>8, <2>3, <2>6, <2>8 DEF ValuesInv, Converting, Written, Parsing
<1> QED BY <1>11, <1>12

LEMMA AddReturnStep == ASSUME ValuesInv, V!AddReturn PROVE ValuesInv'
<1>1. v_at = "adding" /\ Encoded(text, json) /\ text.error = "none" /\ Graph /\ value = <<>>
      /\ Adding(calls, nodes) /\ UNCHANGED <<heap, root, text, json, nodes, value>>
  BY DEF V!AddReturn, ValuesInv, Converting, Written, Parsing
<1>2. Tree BY <1>1, TreeOfEncoded
<1>3. V!Top = calls[1] BY <1>1, <1>2, AddingFacts DEF V!Top
<1>4. calls[1].todo = {}
      /\ IF Len(calls) > 1
         THEN calls' = Tail(calls) /\ UNCHANGED <<v_at, cursor>>
         ELSE v_at' = "decoding" /\ calls' = <<V!Reading(<<>>, 1)>> /\ cursor' = 2
  BY <1>3 DEF V!AddReturn
<1>5. Graph' /\ value' = <<>> BY <1>1 DEF Graph
<1>6. Encoded(text, json)'
  <2>1. \A t, j : Encoded(t, j)' <=> Encoded(t, j) BY <1>1, SameGraph
  <2>2. Encoded(text', json') BY <1>1
  <2> QED BY <2>1, <2>2
<1>7. CASE Len(calls) > 1
  <2>1. Adding(Tail(calls), nodes) BY <1>1, <1>2, <1>4, <1>7, AddedReturn
  <2>2. Adding(calls', nodes') BY <1>1, <1>4, <1>7, <2>1
  <2>3. \A c, ns : Adding(c, ns)' <=> Adding(c, ns) BY <1>1, SameTree
  <2>4. Adding(calls, nodes)' BY <2>2, <2>3
  <2>5. v_at' = "adding" BY <1>1, <1>4, <1>7
  <2> QED BY <1>1, <1>5, <1>6, <2>4, <2>5 DEF ValuesInv, Converting, Written, Parsing
<1>8. CASE ~(Len(calls) > 1)
  <2>1. Decoding(<<V!Reading(<<>>, 1)>>, 2, <<>>) BY <1>1, <1>2, <1>4, <1>8, DecodeBegun
  <2>2. v_at' = "decoding" /\ Decoding(calls', cursor', value') BY <1>4, <1>5, <1>8, <2>1
  <2>3. \A c, cur, v : Decoding(c, cur, v)' <=> Decoding(c, cur, v) BY <1>1, SameReading
  <2>4. Decoding(calls, cursor, value)' BY <2>2, <2>3
  <2> QED BY <1>1, <1>5, <1>6, <2>2, <2>4 DEF ValuesInv, Converting, Written, Parsing
<1> QED BY <1>7, <1>8

LEMMA DecodeMemberStep == ASSUME ValuesInv, V!DecodeMember PROVE ValuesInv'
<1>1. v_at = "decoding" /\ Encoded(text, json) /\ text.error = "none" /\ Graph
      /\ Decoding(calls, cursor, value) /\ UNCHANGED <<heap, root, json, nodes>>
  BY DEF V!DecodeMember, ValuesInv, Written, Parsing
<1>2. Tree BY <1>1, TreeOfEncoded
<1>3. V!Top = calls[1] BY <1>1, <1>2, DecodingFacts DEF V!Top
<1> DEFINE p == Ahead(calls, cursor)
           k == cursor + Before(calls)
<1>4. calls[1].done < calls[1].length BY <1>3 DEF V!DecodeMember
<1>5. IF V!TooDeep(Len(p))
      THEN v_at' = "unread" /\ text' = V!Raise(text, "depth") /\ UNCHANGED <<calls, cursor, value>>
      ELSE /\ calls' = <<V!Reading(p, k), [calls[1] EXCEPT !.done = @ + 1]>> \o Tail(calls)
           /\ cursor' = k + 1
           /\ value' = V!Put(value, p, nodes[k].kind)
           /\ UNCHANGED <<v_at, text>>
  BY <1>3 DEF V!DecodeMember, Ahead, Before
<1>6. /\ ~V!TooDeep(Len(p))
      /\ Decoding(<<V!Reading(p, k), [calls[1] EXCEPT !.done = @ + 1]>> \o Tail(calls), k + 1,
                  V!Put(value, p, nodes[k].kind))
  BY <1>1, <1>2, <1>4, DecodedMember
<1> HIDE DEF p, k
<1>7. Decoding(calls', cursor', value') /\ v_at' = "decoding" /\ text' = text BY <1>1, <1>5, <1>6
<1>8. Decoding(calls, cursor, value)'
  <2>1. \A c, cur, v : Decoding(c, cur, v)' <=> Decoding(c, cur, v) BY <1>1, SameReading
  <2> QED BY <1>7, <2>1
<1>9. Graph' BY <1>1 DEF Graph
<1>10. Encoded(text, json)'
  <2>1. \A t, j : Encoded(t, j)' <=> Encoded(t, j) BY <1>1, SameGraph
  <2>2. Encoded(text', json') BY <1>1, <1>7
  <2> QED BY <2>1, <2>2
<1> QED BY <1>1, <1>7, <1>8, <1>9, <1>10 DEF ValuesInv, Converting, Written, Parsing

LEMMA DecodeReturnStep == ASSUME ValuesInv, V!DecodeReturn PROVE ValuesInv'
<1>1. v_at = "decoding" /\ Encoded(text, json) /\ text.error = "none" /\ Graph
      /\ Decoding(calls, cursor, value) /\ UNCHANGED <<heap, root, text, json, nodes, cursor, value>>
  BY DEF V!DecodeReturn, ValuesInv, Written, Parsing
<1>2. Tree BY <1>1, TreeOfEncoded
<1>3. V!Top = calls[1] BY <1>1, <1>2, DecodingFacts DEF V!Top
<1>4. calls[1].done = calls[1].length /\ calls' = Tail(calls)
      /\ v_at' = IF Tail(calls) = <<>> THEN "parsed" ELSE v_at
  BY <1>3 DEF V!DecodeReturn
<1>5. /\ Tail(calls) # <<>> => Decoding(Tail(calls), cursor, value)
      /\ Tail(calls) = <<>> => value = json /\ \A p \in DOMAIN json : ~V!Refused(p)
  BY <1>1, <1>2, <1>4, DecodedReturn
<1>6. Graph' BY <1>1 DEF Graph
<1>7. Encoded(text, json)'
  <2>1. \A t, j : Encoded(t, j)' <=> Encoded(t, j) BY <1>1, SameGraph
  <2>2. Encoded(text', json') BY <1>1
  <2> QED BY <2>1, <2>2
<1>8. CASE Tail(calls) # <<>>
  <2>1. Decoding(calls', cursor', value') /\ v_at' = "decoding" BY <1>1, <1>4, <1>5, <1>8
  <2>2. \A c, cur, v : Decoding(c, cur, v)' <=> Decoding(c, cur, v) BY <1>1, SameReading
  <2>3. Decoding(calls, cursor, value)' BY <2>1, <2>2
  <2> QED BY <1>1, <1>6, <1>7, <2>1, <2>3 DEF ValuesInv, Converting, Written, Parsing
<1>9. CASE Tail(calls) = <<>>
  <2>1. v_at' = "parsed" /\ value' = json' /\ ~Unparsed BY <1>1, <1>4, <1>5, <1>9 DEF Unparsed
  <2>2. ~Unparsed'
    <3>1. \A r : V!Refused(r)' <=> V!Refused(r) BY <1>1, SameTree
    <3> QED BY <1>1, <2>1, <3>1 DEF Unparsed
  <2> QED BY <1>1, <1>6, <1>7, <2>1, <2>2 DEF ValuesInv, Converting, Written, Parsing
<1> QED BY <1>8, <1>9

LEMMA ValuesStill == ASSUME ValuesInv, UNCHANGED conversion PROVE ValuesInv'
<1>1. UNCHANGED <<heap, root>> /\ UNCHANGED json /\ UNCHANGED <<json, nodes>>
      /\ v_at' = v_at /\ calls' = calls /\ text' = text /\ json' = json /\ nodes' = nodes /\ cursor' = cursor /\ value' = value
  BY DEF conversion
<1>2. /\ (Graph' <=> Graph) /\ (\A c, t, j : Encoding(c, t, j)' <=> Encoding(c, t, j))
      /\ (\A t, j : Encoded(t, j)' <=> Encoded(t, j)) /\ (\A t : Failing(t)' <=> Failing(t))
  BY <1>1, SameGraph
<1>3. (\A c, ns : Adding(c, ns)' <=> Adding(c, ns)) /\ (\A r : V!Refused(r)' <=> V!Refused(r)) BY <1>1, SameTree
<1>4. \A c, cur, v : Decoding(c, cur, v)' <=> Decoding(c, cur, v) BY <1>1, SameReading
<1>5. Encoding(calls, text, json)' <=> Encoding(calls, text, json)
  <2>1. Encoding(calls', text', json') <=> Encoding(calls, text, json) BY <1>1
  <2> QED BY <1>2, <2>1
<1>6. Encoded(text, json)' <=> Encoded(text, json)
  <2>1. Encoded(text', json') <=> Encoded(text, json) BY <1>1
  <2> QED BY <1>2, <2>1
<1>7. Failing(text)' <=> Failing(text)
  <2>1. Failing(text') <=> Failing(text) BY <1>1
  <2> QED BY <1>2, <2>1
<1>8. Adding(calls, nodes)' <=> Adding(calls, nodes)
  <2>1. Adding(calls', nodes') <=> Adding(calls, nodes) BY <1>1
  <2> QED BY <1>3, <2>1
<1>9. Decoding(calls, cursor, value)' <=> Decoding(calls, cursor, value)
  <2>1. Decoding(calls', cursor', value') <=> Decoding(calls, cursor, value) BY <1>1
  <2> QED BY <1>4, <2>1
<1>10. Unparsed' <=> Unparsed BY <1>1, <1>3 DEF Unparsed
<1>11. Converting' BY <1>1, <1>5, <1>7 DEF ValuesInv, Converting
<1>12. Written' BY <1>1, <1>6, <1>10 DEF ValuesInv, Written
<1>13. Parsing' BY <1>1, <1>8, <1>9, <1>10 DEF ValuesInv, Parsing
<1> QED BY <1>2, <1>11, <1>12, <1>13 DEF ValuesInv

LEMMA ValuesFaithful == ValuesInv => Faithful
<1> SUFFICES ASSUME ValuesInv PROVE Faithful OBVIOUS
<1>1. Graph /\ Converting /\ Written /\ Parsing BY DEF ValuesInv
<1>2. V!TypeOK
  <2>1. Wellformed(text) /\ (text.error = "none" <=> v_at \notin {"unwritten", "unread"})
    <3>1. CASE v_at = "program"
      <4>1. text = [bytes |-> 0, special |-> 0, error |-> "none"] BY <1>1, <3>1 DEF Converting, V!Empty
      <4>2. 0 \in 0 .. result_limit BY Sizes2
      <4> QED BY <3>1, <4>1, <4>2 DEF Wellformed, Texts
    <3>2. CASE v_at = "encoding" BY <1>1, <3>2 DEF Converting, Encoding
    <3>3. CASE v_at = "unwritten" BY <1>1, <3>3 DEF Converting, Failing
    <3>4. CASE v_at \in {"generated", "adding", "decoding", "parsed"} BY <1>1, <3>4 DEF Written, Encoded
    <3>5. CASE v_at = "unread" BY <1>1, <3>5 DEF Written, Encoded
    <3> QED BY <1>1, <3>1, <3>2, <3>3, <3>4, <3>5 DEF Converting
  <2>2. text.bytes \in Nat /\ text.bytes <= result_limit /\ text.special \in Nat /\ text.special <= text.bytes
        /\ result_limit \in Nat /\ text.error \in {"none", "range", "depth", "duplicate", "protocol"}
    BY <2>1, TextNumbers
  <2>3. text.bytes \in 0 .. result_limit /\ text.special \in 0 .. text.bytes BY <2>2
  <2> QED BY <1>1, <2>1, <2>2, <2>3 DEF V!TypeOK, Converting
<1>3. V!EncodedExactly
  <2>1. ASSUME v_at \notin {"program", "encoding", "unwritten"} PROVE Encoded(text, json)
    BY <1>1, <2>1 DEF Converting, Written
  <2>2. v_at \notin {"program", "encoding", "unwritten"} =>
          ~V!Deep(MaxLevels) /\ ~V!Duplicates /\ text.bytes = V!Length /\ json = V!Meaning
    BY <1>1, <2>1, EncodedMeans
  <2>3. v_at = "unwritten" => Failing(text) BY <1>1 DEF Converting
  <2> QED BY <2>2, <2>3 DEF V!EncodedExactly, Failing
<1>4. V!RoundTrip
  <2>1. ASSUME v_at = "parsed" PROVE value = json /\ ~V!Deep(MaxLevels - 1) /\ ~V!Beyond
    <3>1. Encoded(text, json) /\ value = json /\ ~Unparsed BY <1>1, <2>1 DEF Written, Parsing
    <3>2. Unparsed <=> V!Deep(MaxLevels - 1) \/ V!Beyond BY <1>1, <3>1, RefusedMeans DEF Unparsed
    <3> QED BY <3>1, <3>2
  <2>2. ASSUME v_at = "unread"
        PROVE  \/ (V!Deep(MaxLevels - 1) \/ V!Beyond) /\ text.error = "protocol"
               \/ text.bytes + text.special + 2 > result_limit /\ text.error = "range"
    <3>1. Encoded(text, json) /\ (\/ Unparsed /\ text.error = "protocol"
                                  \/ text.bytes + text.special + 2 > result_limit /\ text.error = "range")
      BY <1>1, <2>2 DEF Written
    <3>2. Unparsed <=> V!Deep(MaxLevels - 1) \/ V!Beyond BY <1>1, <3>1, RefusedMeans DEF Unparsed
    <3> QED BY <3>1, <3>2
  <2> QED BY <2>1, <2>2 DEF V!RoundTrip
<1> QED BY <1>2, <1>3, <1>4 DEF Faithful, V!Faithful

(* No value crosses the boundary between the VM and the host changed, in either
   direction, whatever the program built (guest.c:126-244, guest.rs:31-88).     *)
THEOREM ConversionIsFaithful == V!Spec => []Faithful
<1>1. ValuesInv /\ [V!Next]_(V!vars) => ValuesInv'
  <2> SUFFICES ASSUME ValuesInv, [V!Next]_(V!vars) PROVE ValuesInv' OBVIOUS
  <2>1. CASE V!Generate BY <2>1, GenerateStep
  <2>2. CASE V!EncodeMember BY <2>2, EncodeMemberStep
  <2>3. CASE V!EncodeReturn BY <2>3, EncodeReturnStep
  <2>4. CASE V!Parse BY <2>4, ParseStep
  <2>5. CASE V!AddMember BY <2>5, AddMemberStep
  <2>6. CASE V!AddReturn BY <2>6, AddReturnStep
  <2>7. CASE V!DecodeMember BY <2>7, DecodeMemberStep
  <2>8. CASE V!DecodeReturn BY <2>8, DecodeReturnStep
  <2>9. CASE V!Over \/ UNCHANGED V!vars BY <2>9, ValuesStill DEF V!Over, V!vars, conversion
  <2> QED BY <2>1, <2>2, <2>3, <2>4, <2>5, <2>6, <2>7, <2>8, <2>9 DEF V!Next
<1> QED BY ValuesInit, ValuesFaithful, <1>1, PTL DEF V!Spec
=============================================================================
