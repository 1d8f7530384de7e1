----------------------------- MODULE HeapProofs ------------------------------
(***************************************************************************)
(* Proofs about the kernel heap, for any sizes, chunks and gaps between    *)
(* chunks: the list of blocks stays in order, and what was handed out      *)
(* stays its owner's.                                                      *)
(***************************************************************************)
EXTENDS Heap, FiniteSetTheorems, WellFoundedInduction, TLAPS

------------------------------------------------------------------------------
(* Sums.                                                                    *)

\* Every nonempty set of numbers has a smallest member.
LEMMA SmallestExists ==
    ASSUME NEW S \in SUBSET Nat, S # {}
    PROVE  \E x \in S : \A y \in S : x <= y
<1>1. \E x \in S : \A y \in S : ~ (<<y, x>> \in OpToRel(<, Nat))
  BY NatLessThanWellFounded, WFMin
<1>2. PICK x \in S : \A y \in S : ~ (<<y, x>> \in OpToRel(<, Nat))
  BY <1>1
<1>3. \A y \in S : <<y, x>> \in OpToRel(<, Nat) <=> y < x
  BY DEF OpToRel
<1>4. \A y \in S : ~ (y < x)
  BY <1>2, <1>3, Zenon
<1>5. QED
  BY <1>4

\* Induction over the subsets of a finite set: a collection that has {}, and every
\* set whose smaller ones it has, has them all.
LEMMA SetInduction ==
    ASSUME NEW S, IsFiniteSet(S), NEW C, {} \in C,
           \A T \in SUBSET S : (\A x \in T : T \ {x} \in C) => T \in C
    PROVE  \A T \in SUBSET S : T \in C
<1> DEFINE Bad == (SUBSET S) \ C
           Cards == {Cardinality(T) : T \in Bad}
<1>1. \A T \in SUBSET S : IsFiniteSet(T) /\ Cardinality(T) \in Nat
  BY FS_Subset, FS_CardinalityType
<1>2. Cards \in SUBSET Nat
  BY <1>1
<1>3. SUFFICES ASSUME Bad # {} PROVE FALSE
  BY Zenon
<1>4. Cards # {}
  BY <1>3
<1>5. PICK n \in Cards : \A m \in Cards : n <= m
  BY <1>2, <1>4, SmallestExists
<1>6. PICK T \in Bad : n = Cardinality(T)
  BY <1>5
<1>7. SUFFICES \A x \in T : T \ {x} \in C
  BY <1>6
<1> TAKE x \in T
<1>8. /\ T \ {x} \in SUBSET S
      /\ Cardinality(T \ {x}) = Cardinality(T) - 1
  BY <1>1, <1>6, FS_RemoveElement
<1>9. T \ {x} \in C
  <2>1. SUFFICES ASSUME T \ {x} \notin C PROVE FALSE
    OBVIOUS
  <2>2. Cardinality(T \ {x}) \in Cards
    BY <1>8, <2>1
  <2>3. n \in Nat
    BY <1>2, <1>5
  <2>4. QED
    <3> HIDE DEF Bad, Cards
    <3>1. PICK m \in Nat : m = Cardinality(T \ {x})
      BY <1>2, <2>2
    <3>2. n <= m /\ m = n - 1
      BY <1>5, <1>6, <1>8, <2>2, <3>1
    <3>3. QED
      BY <2>3, <3>1, <3>2
<1>10. QED
  BY <1>9

\* Induction over the naturals, for a set of numbers.
LEMMA Induct ==
    ASSUME NEW N \in SUBSET Nat, 0 \in N, \A n \in N : n + 1 \in N
    PROVE  N = Nat
<1>1. SUFFICES ASSUME Nat \ N # {} PROVE FALSE
  OBVIOUS
<1>2. PICK n \in Nat \ N : \A m \in Nat \ N : n <= m
  BY <1>1, SmallestExists
<1>3. n # 0 /\ n - 1 \in Nat
  BY <1>2
<1>4. n - 1 \in N
  BY <1>2, <1>3
<1>5. QED
  BY <1>2, <1>3, <1>4

\* I sums f over the subsets of S, one member at a time.
SumEq(f, S, I) == I = [s \in SUBSET S |-> IF s = {} THEN 0
                        ELSE LET x == CHOOSE y \in s : TRUE IN f[x] + I[s \ {x}]]

\* The recursion of MapThenFoldSet defines a function.
LEMMA SumEqExists ==
    ASSUME NEW f, NEW S, IsFiniteSet(S)
    PROVE  \E I : SumEq(f, S, I)
<1> DEFINE Small(n) == {s \in SUBSET S : Cardinality(s) <= n}
           Body(g, s) == IF s = {} THEN 0
                         ELSE LET x == CHOOSE y \in s : TRUE IN f[x] + g[s \ {x}]
           Good == {n \in Nat : \E g : g = [s \in Small(n) |-> Body(g, s)]}
<1>1. \A T \in SUBSET S : IsFiniteSet(T) /\ Cardinality(T) \in Nat
  BY FS_Subset, FS_CardinalityType
<1>2. \A T \in SUBSET S : \A x \in T : /\ T \ {x} \in SUBSET S
                                      /\ Cardinality(T \ {x}) = Cardinality(T) - 1
  BY <1>1, FS_RemoveElement
<1>3. 0 \in Good
  <2> DEFINE g == [s \in Small(0) |-> 0]
  <2>1. \A s \in Small(0) : s = {}
    BY <1>1, FS_EmptySet
  <2>2. g = [s \in Small(0) |-> Body(g, s)]
    <3> HIDE DEF Small
    <3>1. \A s \in Small(0) : Body(g, s) = 0
      BY <2>1, Zenon
    <3>2. QED
      BY <3>1
  <2>3. QED
    BY <2>2
<1>4. \A n \in Good : n + 1 \in Good
  <2>1. SUFFICES ASSUME NEW n \in Good
                 PROVE  n + 1 \in Good
    OBVIOUS
  <2>2. n \in Nat /\ \E g : g = [s \in Small(n) |-> Body(g, s)]
    BY Zenon
  <2>3. PICK g : g = [s \in Small(n) |-> Body(g, s)]
    BY <2>2
  <2> DEFINE h == [s \in Small(n + 1) |-> IF s \in Small(n) THEN g[s] ELSE Body(g, s)]
  <2>4. \A s \in Small(n + 1) : \A x \in s : s \ {x} \in Small(n) /\ s \ {x} \in Small(n + 1)
    <3>1. SUFFICES ASSUME NEW s \in SUBSET S, Cardinality(s) <= n + 1, NEW x \in s
                   PROVE  s \ {x} \in SUBSET S /\ Cardinality(s \ {x}) <= n
                          /\ Cardinality(s \ {x}) <= n + 1
      BY Zenon
    <3>2. PICK k \in Nat : k = Cardinality(s)
      BY <1>1
    <3>3. QED
      BY <1>2, <3>1, <3>2
  <2>5. Small(n) \subseteq Small(n + 1)
    <3>1. \A s \in SUBSET S : Cardinality(s) <= n => Cardinality(s) <= n + 1
      BY <1>1
    <3>2. QED
      BY <3>1
  <2>6. \A s \in Small(n + 1) : h[s] = Body(g, s)
    BY <2>3, <2>5
  <2>7. \A s \in Small(n + 1) : Body(g, s) = Body(h, s)
    <3> HIDE DEF Small
    <3>1. SUFFICES ASSUME NEW s \in Small(n + 1), s # {}
                   PROVE  Body(g, s) = Body(h, s)
      BY Zenon
    <3>2. PICK x \in s : x = CHOOSE y \in s : TRUE
      BY <3>1
    <3>3. h[s \ {x}] = g[s \ {x}]
      BY <2>4, <3>2
    <3>4. QED
      BY <3>2, <3>3, Zenon
  <2>8. h = [s \in Small(n + 1) |-> Body(h, s)]
    <3> HIDE DEF Small, Body
    <3>1. h = [s \in Small(n + 1) |-> h[s]]
      OBVIOUS
    <3>2. \A s \in Small(n + 1) : h[s] = Body(h, s)
      BY <2>6, <2>7, Zenon
    <3> HIDE DEF h
    <3>3. QED
      BY <3>1, <3>2
  <2>9. QED
    <3> HIDE DEF Small, Body, h
    <3>1. n + 1 \in Nat
      BY <2>2
    <3>2. QED
      BY <2>8, <3>1
<1>5. Good = Nat
  BY <1>3, <1>4, Induct DEF Good
<1>6. PICK n \in Nat : n = Cardinality(S)
  BY <1>1
<1>7. Small(n) = SUBSET S
  BY <1>6, FS_Subset
<1>8. PICK I : I = [s \in Small(n) |-> Body(I, s)]
  <2> HIDE DEF Small, Body
  <2>1. QED
    BY <1>5, <1>6
<1>9. I = [s \in SUBSET S |-> Body(I, s)]
  <2> HIDE DEF Small, Body
  <2>1. QED
    BY <1>7, <1>8
<1>10. QED
  BY <1>9 DEF SumEq

\* SumFunction is that function, at the whole domain.
LEMMA SumIs ==
    ASSUME NEW f
    PROVE  SumFunction(f) = (CHOOSE I : SumEq(f, DOMAIN f, I))[DOMAIN f]
BY DEF SumFunction, SumFunctionOnSet, FoldFunctionOnSet, MapThenFoldSet, SumEq
\* A sum is the value at some member and the sum of the rest.
LEMMA SumStep ==
    ASSUME NEW f, NEW S, NEW I, SumEq(f, S, I), NEW T \in SUBSET S, T # {}
    PROVE  \E x \in T : I[T] = f[x] + I[T \ {x}]
<1>1. PICK x \in T : x = CHOOSE y \in T : TRUE
  OBVIOUS
<1>2. I[T] = f[x] + I[T \ {x}]
  BY <1>1 DEF SumEq
<1>3. QED
  BY <1>2

\* Sums of integers are integers.
LEMMA SumType ==
    ASSUME NEW S, IsFiniteSet(S), NEW f \in [S -> Int], NEW I, SumEq(f, S, I)
    PROVE  \A s \in SUBSET S : I[s] \in Int
<1> DEFINE C == {s \in SUBSET S : I[s] \in Int}
<1>1. {} \in C
  BY DEF SumEq
<1>2. \A T \in SUBSET S : (\A x \in T : T \ {x} \in C) => T \in C
  <2>1. SUFFICES ASSUME NEW T \in SUBSET S, T # {},
                        \A x \in T : I[T \ {x}] \in Int
                 PROVE  I[T] \in Int
    BY <1>1
  <2>2. PICK x \in T : I[T] = f[x] + I[T \ {x}]
    BY <2>1, SumStep
  <2>3. f[x] \in Int
    OBVIOUS
  <2>4. QED
    BY <2>1, <2>2, <2>3
<1>3. \A T \in SUBSET S : T \in C
  <2> HIDE DEF C
  <2>1. QED
    BY <1>1, <1>2, SetInduction
<1>4. QED
  BY <1>3

\* The member that CHOOSE takes first does not matter.
LEMMA SumAnyOrder ==
    ASSUME NEW S, IsFiniteSet(S), NEW f \in [S -> Int], NEW I, SumEq(f, S, I)
    PROVE  \A T \in SUBSET S : \A x \in T : I[T] = f[x] + I[T \ {x}]
<1> DEFINE C == {T \in SUBSET S : \A x \in T : I[T] = f[x] + I[T \ {x}]}
<1>1. {} \in C
  OBVIOUS
<1>2. \A T \in SUBSET S : (\A x \in T : T \ {x} \in C) => T \in C
  <2>1. SUFFICES ASSUME NEW T \in SUBSET S, \A x \in T : T \ {x} \in C,
                        NEW x \in T
                 PROVE  I[T] = f[x] + I[T \ {x}]
    OBVIOUS
  <2>2. PICK y \in T : I[T] = f[y] + I[T \ {y}]
    BY SumStep
  <2>3. CASE x = y
    BY <2>2, <2>3, Zenon
  <2>4. CASE x # y
    <3>1. I[T \ {y}] = f[x] + I[(T \ {y}) \ {x}]
      BY <2>1, <2>4
    <3>2. I[T \ {x}] = f[y] + I[(T \ {x}) \ {y}]
      BY <2>1, <2>4
    <3>3. (T \ {y}) \ {x} = (T \ {x}) \ {y}
      OBVIOUS
    <3>4. I[(T \ {x}) \ {y}] \in Int
      BY SumType
    <3>5. PICK i \in Int : i = I[(T \ {x}) \ {y}]
      BY <3>4
    <3>6. f[x] \in Int /\ f[y] \in Int
      OBVIOUS
    <3>7. I[T] = f[y] + (f[x] + i) /\ I[T \ {x}] = f[y] + i
      BY <2>2, <3>1, <3>2, <3>3, <3>5, Zenon
    <3>8. QED
      BY <3>6, <3>7
  <2>5. QED
    BY <2>3, <2>4
<1>3. \A T \in SUBSET S : T \in C
  <2> HIDE DEF C
  <2>1. QED
    BY <1>1, <1>2, SetInduction
<1>4. QED
  BY <1>3

\* SumFunction by its recursion.
LEMMA SumEqOf ==
    ASSUME NEW f, IsFiniteSet(DOMAIN f)
    PROVE  \E I : SumEq(f, DOMAIN f, I) /\ SumFunction(f) = I[DOMAIN f]
<1>1. \E I : SumEq(f, DOMAIN f, I)
  BY SumEqExists
<1>2. SumEq(f, DOMAIN f, CHOOSE I : SumEq(f, DOMAIN f, I))
  BY <1>1, Zenon
<1>3. QED
  BY <1>2, SumIs, Zenon

\* A sum depends on nothing but the values that are summed.
LEMMA SumLocal ==
    ASSUME NEW S, IsFiniteSet(S), NEW f \in [S -> Int], NEW I, SumEq(f, S, I),
           NEW R \in SUBSET S, NEW g \in [R -> Int], NEW J, SumEq(g, R, J),
           \A x \in R : g[x] = f[x]
    PROVE  J[R] = I[R]
<1> DEFINE C == {T \in SUBSET R : J[T] = I[T]}
<1>1. {} \in C
  <2>1. J[{}] = 0 /\ I[{}] = 0
    BY DEF SumEq
  <2>2. QED
    BY <2>1
<1>2. \A T \in SUBSET R : (\A x \in T : T \ {x} \in C) => T \in C
  <2>1. SUFFICES ASSUME NEW T \in SUBSET R, T # {}, \A x \in T : T \ {x} \in C
                 PROVE  J[T] = I[T]
    BY <1>1
  <2>2. PICK x \in T : J[T] = g[x] + J[T \ {x}]
    BY <2>1, SumStep
  <2>3. I[T] = f[x] + I[T \ {x}]
    BY SumAnyOrder
  <2>4. J[T \ {x}] = I[T \ {x}]
    BY <2>1
  <2>5. g[x] = f[x]
    OBVIOUS
  <2>6. QED
    BY <2>2, <2>3, <2>4, <2>5, Zenon
<1>3. IsFiniteSet(R)
  BY FS_Subset
<1>4. R \in C
  <2> HIDE DEF C
  <2>1. \A T \in SUBSET R : T \in C
    BY <1>1, <1>2, <1>3, SetInduction
  <2>2. QED
    BY <2>1
<1>5. QED
  BY <1>4

\* The sum of a function is one of its values and the sum of the others.
LEMMA SumWithout ==
    ASSUME NEW S, IsFiniteSet(S), NEW f \in [S -> Int], NEW x \in S
    PROVE  /\ SumFunction(f) \in Int
           /\ SumFunction([y \in S \ {x} |-> f[y]]) \in Int
           /\ SumFunction(f) = f[x] + SumFunction([y \in S \ {x} |-> f[y]])
<1> DEFINE R == S \ {x}
           g == [y \in R |-> f[y]]
<1>1. DOMAIN f = S /\ DOMAIN g = R
  OBVIOUS
<1>2. IsFiniteSet(R) /\ R \in SUBSET S
  BY FS_Subset
<1>3. g \in [R -> Int]
  OBVIOUS
<1>4. \A y \in R : g[y] = f[y]
  OBVIOUS
<1> HIDE DEF R, g
<1>5. PICK I : SumEq(f, S, I) /\ SumFunction(f) = I[S]
  BY <1>1, SumEqOf
<1>6. PICK J : SumEq(g, R, J) /\ SumFunction(g) = J[R]
  BY <1>1, <1>2, SumEqOf
<1>7. J[R] = I[R]
  BY <1>2, <1>3, <1>4, <1>5, <1>6, SumLocal
<1>8. I[S] = f[x] + I[R]
  <2>1. SumEq(f, S, I)
    BY <1>5
  <2>2. S \in SUBSET S
    OBVIOUS
  <2>3. I[S] = f[x] + I[S \ {x}]
    BY <2>1, <2>2, SumAnyOrder
  <2>4. QED
    BY <2>3 DEF R
<1>9. I[S] \in Int /\ I[R] \in Int
  BY <1>2, <1>5, SumType
<1>10. SumFunction(f) \in Int /\ SumFunction(g) \in Int
  BY <1>5, <1>6, <1>7, <1>9
<1>11. SumFunction(f) = f[x] + SumFunction(g)
  BY <1>5, <1>6, <1>7, <1>8
<1>12. QED
  BY <1>10, <1>11 DEF g, R

\* A function with one value more has that value more in its sum.
LEMMA SumGrown ==
    ASSUME NEW S, IsFiniteSet(S), NEW f \in [S -> Int], NEW y, y \notin S,
           NEW g \in [S \cup {y} -> Int], \A z \in S : g[z] = f[z]
    PROVE  SumFunction(f) \in Int /\ SumFunction(g) = SumFunction(f) + g[y]
<1> DEFINE R == S \cup {y}
<1>1. IsFiniteSet(R) /\ R \ {y} = S
  BY FS_AddElement
<1>2. f = [z \in R \ {y} |-> g[z]]
  BY <1>1
<1>3. g \in [R -> Int] /\ y \in R
  OBVIOUS
<1> HIDE DEF R
<1>4. /\ SumFunction(g) \in Int
      /\ SumFunction([z \in R \ {y} |-> g[z]]) \in Int
      /\ SumFunction(g) = g[y] + SumFunction([z \in R \ {y} |-> g[z]])
  BY <1>1, <1>3, SumWithout
<1>5. SumFunction(f) \in Int /\ SumFunction(g) = g[y] + SumFunction(f)
  BY <1>2, <1>4, Zenon
<1>6. g[y] \in Int
  BY <1>3
<1>7. QED
  BY <1>5, <1>6

\* The sum of one value.
LEMMA SumOne ==
    ASSUME NEW x, NEW f \in [{x} -> Int]
    PROVE  SumFunction(f) = f[x]
<1>1. IsFiniteSet({x}) /\ DOMAIN f = {x}
  BY FS_Singleton
<1>2. PICK I : SumEq(f, {x}, I) /\ SumFunction(f) = I[{x}]
  BY <1>1, SumEqOf
<1>3. PICK y \in {x} : I[{x}] = f[y] + I[{x} \ {y}]
  BY <1>2, SumStep
<1>4. y = x /\ {x} \ {x} = {}
  OBVIOUS
<1>5. I[{}] = 0
  BY <1>2 DEF SumEq
<1>6. f[x] \in Int
  OBVIOUS
<1>7. QED
  BY <1>2, <1>3, <1>4, <1>5, <1>6

\* In g the value of f at x is split between x and y.
Shares(S, f, x, y, g) ==
    /\ IsFiniteSet(S) /\ x \in S /\ y \notin S
    /\ f \in [S -> Int] /\ g \in [S \cup {y} -> Int]
    /\ \A z \in S \ {x} : g[z] = f[z]
    /\ f[x] = g[x] + g[y]

\* A value that is split leaves the sum as it was.
LEMMA SumSplit ==
    ASSUME NEW S, NEW f, NEW x, NEW y, NEW g, Shares(S, f, x, y, g)
    PROVE  SumFunction(g) = SumFunction(f)
<1>1. /\ IsFiniteSet(S) /\ x \in S /\ y \notin S
      /\ f \in [S -> Int] /\ g \in [S \cup {y} -> Int]
      /\ \A z \in S \ {x} : g[z] = f[z]
      /\ f[x] = g[x] + g[y]
  BY DEF Shares
<1>2. PICK m : m = [z \in S |-> g[z]]
  OBVIOUS
<1>3. m \in [S -> Int] /\ (\A z \in S : g[z] = m[z]) /\ m[x] = g[x]
  BY <1>1, <1>2
<1>4. SumFunction(m) \in Int /\ SumFunction(g) = SumFunction(m) + g[y]
  <2>1. /\ IsFiniteSet(S) /\ y \notin S
        /\ m \in [S -> Int] /\ g \in [S \cup {y} -> Int]
        /\ \A z \in S : g[z] = m[z]
    BY <1>1, <1>3
  <2>2. QED
    BY ONLY <2>1, SumGrown
<1>5. PICK r : r = [z \in S \ {x} |-> f[z]]
  OBVIOUS
<1>6. r = [z \in S \ {x} |-> m[z]]
  BY <1>1, <1>3, <1>5
<1>7. SumFunction(r) \in Int /\ SumFunction(m) = m[x] + SumFunction(r)
  BY <1>1, <1>3, <1>6, SumWithout
<1>8. SumFunction(f) = f[x] + SumFunction(r)
  BY <1>1, <1>5, SumWithout
<1>9. g[x] \in Int /\ g[y] \in Int
  BY <1>1
<1>10. PICK i \in Int : i = SumFunction(r)
  BY <1>7
<1>11. SumFunction(f) = g[x] + g[y] + i /\ SumFunction(m) = g[x] + i
  BY <1>1, <1>3, <1>7, <1>8, <1>10
<1>12. QED
  BY <1>4, <1>9, <1>11

------------------------------------------------------------------------------
(* Lists of blocks: h maps the addresses of the headers to the headers, e is *)
(* the last block.                                                          *)

Fit == {n \in Nat : n >= HEADER}

Header == [size : Fit, is_free : BOOLEAN, prev : Nat, next : Nat]

Blocks(h) == h \in [DOMAIN h -> Header] /\ DOMAIN h \subseteq Nat \ {NULL}

Linked(h, e) ==
    /\ heap_start \in DOMAIN h /\ e \in DOMAIN h
    /\ h[heap_start].prev = NULL
    /\ \A a \in DOMAIN h :
          /\ heap_start <= a /\ a <= e
          /\ h[a].next = NULL <=> a = e
          /\ a # e => /\ h[a].next \in DOMAIN h
                      /\ a + h[a].size <= h[a].next
                      /\ h[h[a].next].prev = a
          /\ a # heap_start => /\ h[a].prev \in DOMAIN h
                               /\ h[h[a].prev].next = a
    /\ \A a, b \in DOMAIN h : a < b => h[a].next <= b

\* The block b loses its end to a free block of its own (split_block).
Splitting(h, b, s, g) ==
    LET new == b + s
        n == h[b].next
    IN  /\ DOMAIN g = DOMAIN h \cup {new}
        /\ g[b].size = s /\ g[b].next = new /\ g[b].prev = h[b].prev
        /\ g[new].size = h[b].size - s /\ g[new].next = n /\ g[new].prev = b
        /\ n # NULL => g[n].prev = new /\ g[n].next = h[n].next /\ g[n].size = h[n].size
        /\ \A a \in DOMAIN h \ {b, n} :
              g[a].prev = h[a].prev /\ g[a].next = h[a].next /\ g[a].size = h[a].size

\* The block l takes in the one to its right (merge_blocks).
Merging(h, l, g) ==
    LET r == h[l].next
        n == h[r].next
    IN  /\ DOMAIN g = DOMAIN h \ {r}
        /\ g[l].size = h[l].size + h[r].size /\ g[l].next = n /\ g[l].prev = h[l].prev
        /\ n # NULL => g[n].prev = l /\ g[n].next = h[n].next /\ g[n].size = h[n].size
        /\ \A a \in DOMAIN h \ {l, r, n} :
              g[a].prev = h[a].prev /\ g[a].next = h[a].next /\ g[a].size = h[a].size

\* A new block follows the last one (expand_heap).
Extending(h, e, new, g) ==
    /\ DOMAIN g = DOMAIN h \cup {new}
    /\ g[e].size = h[e].size /\ g[e].next = new /\ g[e].prev = h[e].prev
    /\ g[new].next = NULL /\ g[new].prev = e
    /\ \A a \in DOMAIN h \ {e} :
          g[a].prev = h[a].prev /\ g[a].next = h[a].next /\ g[a].size = h[a].size

\* What the size and the neighbours of a block are.
LEMMA BlockType ==
    ASSUME NEW h, Blocks(h), NEW a \in DOMAIN h
    PROVE  /\ a \in Nat /\ a # 0 /\ h[a].size \in Nat /\ h[a].size >= HEADER
           /\ h[a].next \in Nat /\ h[a].prev \in Nat
<1>1. h[a] \in Header /\ a \in Nat \ {0}
  BY DEF Blocks, NULL
<1>2. QED
  BY <1>1 DEF Header, Fit

\* The last block is the only one without a next: reset_heap_end finds it.
LEMMA EndIsUnique ==
    ASSUME NEW h, NEW e, Linked(h, e), NEW x, IsEnd(h, x)
    PROVE  x = e
BY DEF Linked, IsEnd

\* The place of a new block within b is not that of another block.
LEMMA Between ==
    ASSUME NEW h, NEW e, Blocks(h), Linked(h, e), NEW b \in DOMAIN h,
           NEW s \in Nat, s >= HEADER, h[b].size - s >= HEADER
    PROVE  b + s \notin DOMAIN h /\ h[b].next # b + s /\ h[b].next # b
<1>1. HEADER \in Nat /\ HEADER > 0
  BY HeapAssumption
<1>2. \A a \in DOMAIN h : /\ a \in Nat /\ a # 0 /\ h[a].size \in Nat /\ h[a].next \in Nat
  BY BlockType
<1>3. /\ \A a \in DOMAIN h : /\ a <= e
                             /\ h[a].next = 0 <=> a = e
                             /\ a # e => a + h[a].size <= h[a].next
      /\ \A a, c \in DOMAIN h : a < c => h[a].next <= c
  BY DEF Linked, NULL
<1>4. ASSUME NEW c \in DOMAIN h, c = b + s
      PROVE  FALSE
  <2>1. b < c
    BY <1>1, <1>2, <1>4
  <2>2. h[b].next <= c /\ b # e
    BY <1>2, <1>3, <2>1
  <2>3. QED
    BY <1>1, <1>2, <1>3, <1>4, <2>2
<1>5. h[b].next # b + s /\ h[b].next # b
  BY <1>1, <1>2, <1>3
<1>6. QED
  BY <1>4, <1>5

\* split_block links the rest behind the block that it cuts.
LEMMA SplitLinked ==
    ASSUME NEW h, NEW e, Blocks(h), Linked(h, e), NEW b \in DOMAIN h,
           NEW s \in Nat, s >= HEADER, h[b].size - s >= HEADER,
           NEW g, Splitting(h, b, s, g)
    PROVE  Linked(g, IF b = e THEN b + s ELSE e)
<1> DEFINE n == h[b].next
<1>1. PICK new \in Nat : new = b + s
  BY BlockType
<1>2. /\ DOMAIN g = DOMAIN h \cup {new}
      /\ g[b].size = s /\ g[b].next = new /\ g[b].prev = h[b].prev
      /\ g[new].size = h[b].size - s /\ g[new].next = n /\ g[new].prev = b
      /\ n # 0 => g[n].prev = new /\ g[n].next = h[n].next /\ g[n].size = h[n].size
      /\ \A a \in DOMAIN h \ {b, n} :
            g[a].prev = h[a].prev /\ g[a].next = h[a].next /\ g[a].size = h[a].size
  BY <1>1 DEF Splitting, NULL
<1>3. HEADER \in Nat /\ HEADER > 0 /\ heap_start \in Nat
  BY HeapAssumption
<1>4. \A a \in DOMAIN h : /\ a \in Nat /\ a # 0 /\ h[a].size \in Nat /\ h[a].size >= HEADER
                          /\ h[a].next \in Nat /\ h[a].prev \in Nat
  BY BlockType
<1>5. /\ heap_start \in DOMAIN h /\ e \in DOMAIN h /\ h[heap_start].prev = 0
      /\ \A a \in DOMAIN h :
            /\ heap_start <= a /\ a <= e
            /\ h[a].next = 0 <=> a = e
            /\ a # e => /\ h[a].next \in DOMAIN h
                        /\ a + h[a].size <= h[a].next
                        /\ h[h[a].next].prev = a
            /\ a # heap_start => /\ h[a].prev \in DOMAIN h
                                 /\ h[h[a].prev].next = a
      /\ \A a, c \in DOMAIN h : a < c => h[a].next <= c
  BY DEF Linked, NULL
<1>6. b < new /\ (b # e => n \in DOMAIN h /\ n # 0 /\ new < n /\ new + (h[b].size - s) <= n)
  BY <1>1, <1>3, <1>4, <1>5
<1>7. new \notin DOMAIN h
  BY <1>1, Between
<1> DEFINE e2 == IF b = e THEN new ELSE e
<1>8. heap_start \in DOMAIN g /\ e2 \in DOMAIN g /\ g[heap_start].prev = 0
  <2>1. heap_start # n
    BY <1>3, <1>4, <1>5, <1>6
  <2>2. QED
    BY <1>2, <1>5, <2>1
<1>9. ASSUME NEW a \in DOMAIN g
      PROVE  /\ heap_start <= a /\ a <= e2
             /\ g[a].next = 0 <=> a = e2
  <2>1. CASE a = new
    BY <1>1, <1>2, <1>3, <1>4, <1>5, <1>6, <2>1
  <2>2. CASE a = b
    BY <1>1, <1>2, <1>3, <1>4, <1>5, <1>6, <1>7, <2>2
  <2>3. CASE a \in DOMAIN h /\ a # b
    <3>1. g[a].next = h[a].next
      BY <1>2, <1>4, <1>5, <2>3
    <3>2. QED
      BY <1>2, <1>3, <1>4, <1>5, <1>6, <1>7, <2>3, <3>1
  <2>4. QED
    BY <1>2, <2>1, <2>2, <2>3
<1>10. ASSUME NEW a \in DOMAIN g, a # e2
       PROVE  /\ g[a].next \in DOMAIN g
              /\ a + g[a].size <= g[a].next
              /\ g[g[a].next].prev = a
  <2>1. CASE a = new
    BY <1>1, <1>2, <1>3, <1>4, <1>5, <1>6, <1>10, <2>1
  <2>2. CASE a = b
    BY <1>1, <1>2, <1>3, <1>4, <1>5, <1>6, <1>7, <2>2
  <2>3. CASE a \in DOMAIN h /\ a # b
    <3>1. g[a].next = h[a].next /\ g[a].size = h[a].size
      BY <1>2, <1>4, <1>5, <2>3
    <3>2. a # e
      BY <1>4, <1>5, <1>10, <2>3
    <3>3. h[a].next \in DOMAIN h /\ a + h[a].size <= h[a].next /\ h[h[a].next].prev = a
      BY <1>5, <2>3, <3>2
    <3>4. h[a].next # n
      BY <1>3, <1>4, <1>5, <1>6, <2>3, <3>3
    <3>5. g[h[a].next].prev = h[h[a].next].prev
      BY <1>2, <3>3, <3>4
    <3>6. QED
      BY <1>2, <3>1, <3>3, <3>5
  <2>4. QED
    BY <1>2, <2>1, <2>2, <2>3
<1>11. ASSUME NEW a \in DOMAIN g, a # heap_start
       PROVE  /\ g[a].prev \in DOMAIN g
              /\ g[g[a].prev].next = a
  <2>1. CASE a = new
    BY <1>2, <2>1
  <2>2. CASE a = n /\ n # 0
    BY <1>2, <2>2
  <2>3. CASE a \in DOMAIN h /\ a # n
    <3>1. g[a].prev = h[a].prev
      BY <1>2, <1>7, <2>3
    <3>2. h[a].prev \in DOMAIN h /\ h[h[a].prev].next = a
      BY <1>5, <1>11, <2>3
    <3>3. h[a].prev # b
      BY <2>3, <3>2
    <3>4. g[h[a].prev].next = h[h[a].prev].next
      BY <1>2, <1>4, <1>5, <3>2, <3>3
    <3>5. QED
      BY <1>2, <3>1, <3>2, <3>4
  <2>4. QED
    BY <1>2, <1>4, <2>1, <2>2, <2>3
<1>12. ASSUME NEW a \in DOMAIN g, NEW c \in DOMAIN g, a < c
       PROVE  g[a].next <= c
  <2>1. CASE a = new
    <3>1. c \in DOMAIN h /\ b < c
      BY <1>1, <1>2, <1>4, <1>6, <1>12, <2>1
    <3>2. QED
      BY <1>2, <1>5, <2>1, <3>1
  <2>2. CASE a = b
    <3>1. CASE c = new
      BY <1>2, <2>2, <3>1
    <3>2. CASE c \in DOMAIN h
      BY <1>2, <1>4, <1>5, <1>6, <1>12, <2>2, <3>2
    <3>3. QED
      BY <1>2, <3>1, <3>2
  <2>3. CASE a \in DOMAIN h /\ a # b
    <3>1. g[a].next = h[a].next
      BY <1>2, <1>4, <1>5, <2>3
    <3>2. CASE c \in DOMAIN h
      BY <1>5, <1>12, <2>3, <3>1, <3>2
    <3>3. CASE c = new
      <4>1. a < b
        BY <1>3, <1>4, <1>5, <1>6, <1>12, <2>3, <3>3
      <4>2. h[a].next <= b
        BY <1>5, <2>3, <4>1
      <4>3. QED
        BY <1>4, <1>6, <2>3, <3>1, <3>3, <4>2
    <3>4. QED
      BY <1>2, <3>2, <3>3
  <2>4. QED
    BY <1>2, <2>1, <2>2, <2>3
<1>13. Linked(g, e2)
  BY <1>8, <1>9, <1>10, <1>11, <1>12 DEF Linked, NULL
<1>14. QED
  BY <1>1, <1>13

\* merge_blocks unlinks the right neighbour that it absorbs.
LEMMA MergeLinked ==
    ASSUME NEW h, NEW e, Blocks(h), Linked(h, e), NEW l \in DOMAIN h, l # e,
           NEW g, Merging(h, l, g)
    PROVE  Linked(g, IF h[l].next = e THEN l ELSE e)
<1> DEFINE r == h[l].next
           n == h[r].next
           e2 == IF r = e THEN l ELSE e
<1>1. /\ DOMAIN g = DOMAIN h \ {r}
      /\ g[l].size = h[l].size + h[r].size /\ g[l].next = n /\ g[l].prev = h[l].prev
      /\ n # 0 => g[n].prev = l /\ g[n].next = h[n].next /\ g[n].size = h[n].size
      /\ \A a \in DOMAIN h \ {l, r, n} :
            g[a].prev = h[a].prev /\ g[a].next = h[a].next /\ g[a].size = h[a].size
  BY DEF Merging, NULL
<1>2. HEADER \in Nat /\ HEADER > 0 /\ heap_start \in Nat
  BY HeapAssumption
<1>3. \A a \in DOMAIN h : /\ a \in Nat /\ a # 0 /\ h[a].size \in Nat /\ h[a].size >= HEADER
                          /\ h[a].next \in Nat /\ h[a].prev \in Nat
  BY BlockType
<1>4. /\ heap_start \in DOMAIN h /\ e \in DOMAIN h /\ h[heap_start].prev = 0
      /\ \A a \in DOMAIN h :
            /\ heap_start <= a /\ a <= e
            /\ h[a].next = 0 <=> a = e
            /\ a # e => /\ h[a].next \in DOMAIN h
                        /\ a + h[a].size <= h[a].next
                        /\ h[h[a].next].prev = a
            /\ a # heap_start => /\ h[a].prev \in DOMAIN h
                                 /\ h[h[a].prev].next = a
      /\ \A a, c \in DOMAIN h : a < c => h[a].next <= c
  BY DEF Linked, NULL
<1>5. /\ r \in DOMAIN h /\ r # 0 /\ l < r /\ l + h[l].size <= r /\ h[r].prev = l
      /\ n = 0 <=> r = e
      /\ r # e => n \in DOMAIN h /\ r < n /\ r + h[r].size <= n /\ h[n].prev = r
  BY <1>2, <1>3, <1>4
<1> HIDE DEF r, n
<1>6. ASSUME NEW a \in DOMAIN h, a # l, a # r
      PROVE  g[a].next = h[a].next /\ g[a].size = h[a].size
  BY <1>1, <1>3, <1>6
<1>7. heap_start \in DOMAIN g /\ e2 \in DOMAIN g /\ g[heap_start].prev = 0
  <2>1. heap_start # r /\ heap_start # n
    BY <1>2, <1>3, <1>4, <1>5
  <2>2. l \in DOMAIN g
    BY <1>1, <1>3, <1>5
  <2>3. QED
    BY <1>1, <1>4, <2>1, <2>2
<1>8. ASSUME NEW a \in DOMAIN g
      PROVE  /\ heap_start <= a /\ a <= e2
             /\ g[a].next = 0 <=> a = e2
  <2>1. CASE a = l
    BY <1>1, <1>3, <1>4, <1>5, <2>1
  <2>2. CASE a # l
    <3>1. a \in DOMAIN h /\ a # r /\ g[a].next = h[a].next
      BY <1>1, <1>6, <2>2
    <3>2. CASE r = e
      <4>1. a < e
        <5>1. a <= e /\ a # e /\ a \in Nat /\ e \in Nat
          BY <1>3, <1>4, <3>1, <3>2, Zenon
        <5>2. QED
          BY <5>1
      <4>2. h[a].next # e
        BY <1>3, <1>4, <1>5, <2>2, <3>1, <3>2
      <4>3. a <= l
        <5>1. CASE l < a
          BY <1>3, <1>4, <1>5, <3>1, <3>2, <4>1, <5>1 DEF r
        <5>2. QED
          BY <1>3, <3>1, <5>1
      <4>4. QED
        BY <1>3, <1>4, <2>2, <3>1, <3>2, <4>1, <4>3
    <3>3. CASE r # e
      BY <1>4, <3>1, <3>3
    <3>4. QED
      BY <3>2, <3>3
  <2>3. QED
    BY <2>1, <2>2
<1>9. ASSUME NEW a \in DOMAIN g, a # e2
      PROVE  /\ g[a].next \in DOMAIN g
             /\ a + g[a].size <= g[a].next
             /\ g[g[a].next].prev = a
  <2>1. CASE a = l
    <3>1. r # e
      BY <1>9, <2>1
    <3>2. n \in DOMAIN g /\ n # 0 /\ g[n].prev = l
      BY <1>1, <1>3, <1>5, <3>1
    <3>3. l + (h[l].size + h[r].size) <= n
      BY <1>3, <1>5, <3>1
    <3>4. QED
      BY <1>1, <2>1, <3>2, <3>3
  <2>2. CASE a # l
    <3>1. a \in DOMAIN h /\ a # r /\ g[a].next = h[a].next /\ g[a].size = h[a].size
      BY <1>1, <1>6, <2>2
    <3>2. a # e
      BY <1>9, <2>2, <3>1
    <3>3. h[a].next \in DOMAIN h /\ a + h[a].size <= h[a].next /\ h[h[a].next].prev = a
      BY <1>4, <3>1, <3>2
    <3>4. h[a].next # r /\ (r # e => h[a].next # n)
      BY <1>5, <2>2, <3>1, <3>3
    <3>5. CASE h[a].next = l
      BY <1>1, <1>3, <1>5, <3>1, <3>3, <3>5
    <3>6. CASE h[a].next # l
      <4>1. h[a].next # n
        BY <1>3, <1>5, <3>3, <3>4
      <4>2. g[h[a].next].prev = h[h[a].next].prev
        BY <1>1, <3>3, <3>4, <3>6, <4>1
      <4>3. QED
        BY <1>1, <3>1, <3>3, <3>4, <4>2
    <3>7. QED
      BY <3>5, <3>6
  <2>3. QED
    BY <2>1, <2>2
<1>10. ASSUME NEW a \in DOMAIN g, a # heap_start
       PROVE  /\ g[a].prev \in DOMAIN g
              /\ g[g[a].prev].next = a
  <2>1. a \in DOMAIN h /\ a # r /\ a # 0
    BY <1>1, <1>3
  <2>2. CASE a = n
    BY <1>1, <1>3, <1>5, <2>1, <2>2
  <2>3. CASE a # n
    <3>1. g[a].prev = h[a].prev
      BY <1>1, <2>1, <2>3
    <3>2. h[a].prev \in DOMAIN h /\ h[h[a].prev].next = a
      BY <1>4, <1>10, <2>1
    <3>3. h[a].prev # r /\ h[a].prev # l
      BY <2>1, <2>3, <3>2 DEF r, n
    <3>4. g[h[a].prev].next = h[h[a].prev].next
      BY <1>6, <3>2, <3>3
    <3>5. QED
      BY <1>1, <3>1, <3>2, <3>3, <3>4
  <2>4. QED
    BY <2>2, <2>3
<1>11. ASSUME NEW a \in DOMAIN g, NEW c \in DOMAIN g, a < c
       PROVE  g[a].next <= c
  <2>1. a \in DOMAIN h /\ c \in DOMAIN h /\ a # r /\ c # r
    BY <1>1
  <2>2. CASE a = l
    <3>1. r <= c
      BY <1>4, <1>11, <2>1, <2>2 DEF r
    <3>2. r < c
      BY <1>3, <1>5, <2>1, <3>1
    <3>3. n <= c
      BY <1>4, <1>5, <2>1, <3>2 DEF n
    <3>4. QED
      BY <1>1, <2>2, <3>3
  <2>3. CASE a # l
    BY <1>4, <1>6, <1>11, <2>1, <2>3
  <2>4. QED
    BY <2>2, <2>3
<1>12. Linked(g, e2)
  BY <1>7, <1>8, <1>9, <1>10, <1>11 DEF Linked, NULL
<1>13. QED
  BY <1>12 DEF r

\* expand_heap links a chunk above the list behind the last block.
LEMMA ExtendLinked ==
    ASSUME NEW h, NEW e, Blocks(h), Linked(h, e), NEW new \in Nat,
           e + h[e].size <= new, NEW g, Extending(h, e, new, g)
    PROVE  Linked(g, new) /\ new \notin DOMAIN h
<1>1. /\ DOMAIN g = DOMAIN h \cup {new}
      /\ g[e].size = h[e].size /\ g[e].next = new /\ g[e].prev = h[e].prev
      /\ g[new].next = 0 /\ g[new].prev = e
      /\ \A a \in DOMAIN h \ {e} :
            g[a].prev = h[a].prev /\ g[a].next = h[a].next /\ g[a].size = h[a].size
  BY DEF Extending, NULL
<1>2. HEADER \in Nat /\ HEADER > 0 /\ heap_start \in Nat
  BY HeapAssumption
<1>3. \A a \in DOMAIN h : /\ a \in Nat /\ a # 0 /\ h[a].size \in Nat /\ h[a].size >= HEADER
                          /\ h[a].next \in Nat /\ h[a].prev \in Nat
  BY BlockType
<1>4. /\ heap_start \in DOMAIN h /\ e \in DOMAIN h /\ h[heap_start].prev = 0
      /\ \A a \in DOMAIN h :
            /\ heap_start <= a /\ a <= e
            /\ h[a].next = 0 <=> a = e
            /\ a # e => /\ h[a].next \in DOMAIN h
                        /\ a + h[a].size <= h[a].next
                        /\ h[h[a].next].prev = a
            /\ a # heap_start => /\ h[a].prev \in DOMAIN h
                                 /\ h[h[a].prev].next = a
      /\ \A a, c \in DOMAIN h : a < c => h[a].next <= c
  BY DEF Linked, NULL
<1>5. e < new /\ new # 0 /\ \A a \in DOMAIN h : a < new
  BY <1>2, <1>3, <1>4
<1>6. new \notin DOMAIN h
  BY <1>3, <1>5
<1>7. /\ heap_start \in DOMAIN g /\ new \in DOMAIN g /\ g[heap_start].prev = 0
      /\ \A a \in DOMAIN g : heap_start <= a /\ a <= new
  BY <1>1, <1>2, <1>3, <1>4, <1>5
<1>8. ASSUME NEW a \in DOMAIN h
      PROVE  /\ g[a].next = 0 <=> a = new
             /\ g[a].prev = h[a].prev /\ g[a].size = h[a].size
             /\ a # e => g[a].next = h[a].next
  BY <1>1, <1>3, <1>4, <1>5, <1>6
<1>9. ASSUME NEW a \in DOMAIN g, a # new
      PROVE  /\ g[a].next \in DOMAIN g
             /\ a + g[a].size <= g[a].next
             /\ g[g[a].next].prev = a
  <2>1. CASE a = e
    BY <1>1, <2>1
  <2>2. CASE a # e
    <3>1. a \in DOMAIN h
      BY <1>1, <1>9
    <3>2. QED
      BY <1>1, <1>4, <1>8, <2>2, <3>1
  <2>3. QED
    BY <2>1, <2>2
<1>10. ASSUME NEW a \in DOMAIN g, a # heap_start
       PROVE  /\ g[a].prev \in DOMAIN g
              /\ g[g[a].prev].next = a
  <2>1. CASE a = new
    BY <1>1, <1>4, <2>1
  <2>2. CASE a # new
    <3>1. a \in DOMAIN h /\ h[a].prev \in DOMAIN h /\ h[h[a].prev].next = a
      BY <1>1, <1>4, <1>10, <2>2
    <3>2. h[a].prev # e
      BY <1>3, <1>4, <3>1
    <3>3. QED
      BY <1>1, <1>8, <3>1, <3>2
  <2>3. QED
    BY <2>1, <2>2
<1>11. ASSUME NEW a \in DOMAIN g, NEW c \in DOMAIN g, a < c
       PROVE  g[a].next <= c
  <2>1. a \in DOMAIN h
    BY <1>1, <1>3, <1>5, <1>11
  <2>2. CASE c = new
    <3>1. CASE a = e
      BY <1>1, <2>2, <3>1
    <3>2. CASE a # e
      BY <1>3, <1>4, <1>5, <1>8, <2>1, <2>2, <3>2
    <3>3. QED
      BY <3>1, <3>2
  <2>3. CASE c # new
    <3>1. c \in DOMAIN h /\ a # e
      BY <1>1, <1>3, <1>4, <1>11, <2>1, <2>3
    <3>2. QED
      BY <1>4, <1>8, <1>11, <2>1, <3>1
  <2>4. QED
    BY <2>2, <2>3
<1>12. \A a \in DOMAIN g : g[a].next = 0 <=> a = new
  BY <1>1, <1>8
<1>13. QED
  BY <1>6, <1>7, <1>9, <1>10, <1>11, <1>12 DEF Linked, NULL

\* A list is what the sizes and the links of its blocks make it.
LEMMA SameLinks ==
    ASSUME NEW h, NEW e, Linked(h, e), NEW g, DOMAIN g = DOMAIN h,
           \A a \in DOMAIN h : /\ g[a].size = h[a].size /\ g[a].next = h[a].next
                               /\ g[a].prev = h[a].prev
    PROVE  Linked(g, e)
<1>1. /\ heap_start \in DOMAIN h /\ e \in DOMAIN h /\ h[heap_start].prev = NULL
      /\ \A a \in DOMAIN h :
            /\ heap_start <= a /\ a <= e
            /\ h[a].next = NULL <=> a = e
            /\ a # e => /\ h[a].next \in DOMAIN h
                        /\ a + h[a].size <= h[a].next
                        /\ h[h[a].next].prev = a
            /\ a # heap_start => /\ h[a].prev \in DOMAIN h
                                 /\ h[h[a].prev].next = a
      /\ \A a, b \in DOMAIN h : a < b => h[a].next <= b
  BY DEF Linked
<1>2. QED
  BY <1>1 DEF Linked

------------------------------------------------------------------------------
(* The bytes of a list of blocks.                                           *)

SizesOf(h) == [a \in DOMAIN h |-> h[a].size]

Bytes(h) == SumFunction(SizesOf(h))

\* The sizes of blocks are integers.
LEMMA SizesAreInts ==
    ASSUME NEW h, Blocks(h)
    PROVE  /\ SizesOf(h) \in [DOMAIN h -> Int]
           /\ \A a \in DOMAIN h : SizesOf(h)[a] = h[a].size
<1>1. \A a \in DOMAIN h : h[a].size \in Int
  BY BlockType
<1>2. QED
  BY <1>1 DEF SizesOf

\* Lists with the same sizes have the same bytes.
LEMMA SameBytes ==
    ASSUME NEW h, NEW g, DOMAIN g = DOMAIN h, \A a \in DOMAIN h : g[a].size = h[a].size
    PROVE  Bytes(g) = Bytes(h)
<1>1. SizesOf(g) = SizesOf(h)
  BY DEF SizesOf
<1>2. QED
  BY <1>1 DEF Bytes

\* Splitting a block leaves as many bytes as there were.
LEMMA SplitBytes ==
    ASSUME NEW h, Blocks(h), IsFiniteSet(DOMAIN h), NEW b \in DOMAIN h, NEW s \in Nat,
           b + s \notin DOMAIN h, h[b].next # b, h[b].next = NULL \/ h[b].next \in DOMAIN h,
           NEW g, Blocks(g), Splitting(h, b, s, g)
    PROVE  IsFiniteSet(DOMAIN g) /\ Bytes(g) = Bytes(h)
<1> DEFINE new == b + s
<1>1. DOMAIN g = DOMAIN h \cup {new} /\ new \notin DOMAIN h
  BY DEF Splitting
<1>2. g[b].size = s /\ g[new].size = h[b].size - s
  BY DEF Splitting
<1>3. ASSUME NEW a \in DOMAIN h \ {b}
      PROVE  g[a].size = h[a].size
  <2>1. NULL \notin DOMAIN h
    BY DEF Blocks
  <2>2. CASE a = h[b].next
    BY <2>1, <2>2, Zenon DEF Splitting
  <2>3. CASE a # h[b].next
    BY <2>3 DEF Splitting
  <2>4. QED
    BY <2>2, <2>3
<1>4. h[b].size \in Nat /\ b \in DOMAIN g /\ new \in DOMAIN g
  BY <1>1, BlockType
<1> HIDE DEF new
<1>5. SizesOf(g) \in [DOMAIN h \cup {new} -> Int]
  BY <1>1, SizesAreInts
<1>6. \A a \in DOMAIN h \ {b} : SizesOf(g)[a] = SizesOf(h)[a]
  BY <1>1, <1>3, SizesAreInts
<1>7. SizesOf(h)[b] = SizesOf(g)[b] + SizesOf(g)[new]
  <2>1. /\ SizesOf(h)[b] = h[b].size /\ SizesOf(g)[b] = g[b].size
        /\ SizesOf(g)[new] = g[new].size
    BY <1>4, SizesAreInts
  <2>2. PICK z \in Nat : z = h[b].size
    BY <1>4
  <2>3. SizesOf(h)[b] = z /\ SizesOf(g)[b] = s /\ SizesOf(g)[new] = z - s
    BY <1>2, <2>1, <2>2, Zenon
  <2>4. QED
    BY <2>3
<1>8. SumFunction(SizesOf(g)) = SumFunction(SizesOf(h))
  <2>1. Shares(DOMAIN h, SizesOf(h), b, new, SizesOf(g))
    BY <1>1, <1>5, <1>6, <1>7, SizesAreInts DEF Shares
  <2>2. QED
    BY <2>1, SumSplit
<1>9. IsFiniteSet(DOMAIN g)
  BY <1>1, FS_AddElement
<1>10. QED
  BY <1>8, <1>9 DEF Bytes

\* Merging two blocks leaves as many bytes as there were.
LEMMA MergeBytes ==
    ASSUME NEW h, Blocks(h), IsFiniteSet(DOMAIN h), NEW l \in DOMAIN h,
           NEW r \in DOMAIN h, r = h[l].next, r # l,
           NEW g, Blocks(g), Merging(h, l, g)
    PROVE  IsFiniteSet(DOMAIN g) /\ Bytes(g) = Bytes(h)
<1>1. DOMAIN g = DOMAIN h \ {r} /\ g[l].size = h[l].size + h[r].size
  BY DEF Merging
<1>2. ASSUME NEW a \in DOMAIN g \ {l}
      PROVE  h[a].size = g[a].size
  <2>1. NULL \notin DOMAIN h /\ a \in DOMAIN h /\ a # r /\ a # l
    BY <1>1 DEF Blocks
  <2>2. CASE a = h[r].next
    BY <2>1, <2>2, Zenon DEF Merging
  <2>3. CASE a # h[r].next
    BY <2>1, <2>3 DEF Merging
  <2>4. QED
    BY <2>2, <2>3
<1>3. l \in DOMAIN g /\ r \notin DOMAIN g /\ DOMAIN h = DOMAIN g \cup {r}
  BY <1>1
<1>4. SizesOf(h) \in [DOMAIN g \cup {r} -> Int]
  BY <1>3, SizesAreInts
<1>5. \A a \in DOMAIN g \ {l} : SizesOf(h)[a] = SizesOf(g)[a]
  BY <1>2, <1>3, SizesAreInts
<1>6. SizesOf(g)[l] = SizesOf(h)[l] + SizesOf(h)[r]
  BY <1>1, <1>3, SizesAreInts
<1>7. IsFiniteSet(DOMAIN g)
  BY <1>1, FS_RemoveElement
<1>8. SumFunction(SizesOf(h)) = SumFunction(SizesOf(g))
  <2>1. Shares(DOMAIN g, SizesOf(g), l, r, SizesOf(h))
    BY <1>3, <1>4, <1>5, <1>6, <1>7, SizesAreInts DEF Shares
  <2>2. QED
    BY <2>1, SumSplit
<1>9. QED
  BY <1>7, <1>8 DEF Bytes

\* A new block adds its bytes.
LEMMA ExtendBytes ==
    ASSUME NEW h, Blocks(h), IsFiniteSet(DOMAIN h), NEW e \in DOMAIN h,
           NEW new, new \notin DOMAIN h, NEW g, Blocks(g), Extending(h, e, new, g)
    PROVE  /\ IsFiniteSet(DOMAIN g) /\ Bytes(h) \in Int
           /\ Bytes(g) = Bytes(h) + g[new].size
<1>1. DOMAIN g = DOMAIN h \cup {new}
  BY DEF Extending
<1>2. \A a \in DOMAIN h : g[a].size = h[a].size
  BY DEF Extending
<1>3. SizesOf(g) \in [DOMAIN h \cup {new} -> Int]
  BY <1>1, SizesAreInts
<1>4. /\ \A a \in DOMAIN h : SizesOf(g)[a] = SizesOf(h)[a]
      /\ SizesOf(g)[new] = g[new].size
  BY <1>1, <1>2, SizesAreInts
<1>5. /\ SumFunction(SizesOf(h)) \in Int
      /\ SumFunction(SizesOf(g)) = SumFunction(SizesOf(h)) + SizesOf(g)[new]
  <2>1. PICK D : D = DOMAIN h
    OBVIOUS
  <2>2. PICK F \in [D -> Int] : F = SizesOf(h)
    BY <2>1, SizesAreInts
  <2>3. PICK G \in [D \cup {new} -> Int] : G = SizesOf(g)
    BY <1>3, <2>1
  <2>4. (\A z \in D : G[z] = F[z]) /\ IsFiniteSet(D) /\ new \notin D
    BY <1>4, <2>1, <2>2, <2>3
  <2>5. SumFunction(F) \in Int /\ SumFunction(G) = SumFunction(F) + G[new]
    BY <2>4, SumGrown
  <2>6. QED
    BY <2>2, <2>3, <2>5
<1>6. QED
  BY <1>1, <1>4, <1>5, FS_AddElement DEF Bytes

------------------------------------------------------------------------------
(* Used and free blocks.                                                    *)

Used(h) == {a \in DOMAIN h : ~ h[a].is_free}

\* What each patch of a header leaves.
LEMMA PatchedPrev ==
    ASSUME NEW r \in Header, NEW x \in Nat
    PROVE  LET w == [r EXCEPT !.prev = x]
           IN  /\ w \in Header /\ w.prev = x
               /\ w.size = r.size /\ w.next = r.next /\ w.is_free = r.is_free
BY DEF Header

\* A header whose next is assigned keeps its other fields.
LEMMA PatchedNext ==
    ASSUME NEW r \in Header, NEW x \in Nat
    PROVE  LET w == [r EXCEPT !.next = x]
           IN  /\ w \in Header /\ w.next = x
               /\ w.size = r.size /\ w.prev = r.prev /\ w.is_free = r.is_free
BY DEF Header

\* A header whose size is assigned keeps its other fields.
LEMMA PatchedSize ==
    ASSUME NEW r \in Header, NEW x \in Fit
    PROVE  LET w == [r EXCEPT !.size = x]
           IN  /\ w \in Header /\ w.size = x
               /\ w.next = r.next /\ w.prev = r.prev /\ w.is_free = r.is_free
BY DEF Header

\* A header whose is_free is assigned keeps its other fields.
LEMMA PatchedFlag ==
    ASSUME NEW r \in Header, NEW v \in BOOLEAN
    PROVE  LET w == [r EXCEPT !.is_free = v]
           IN  /\ w \in Header /\ w.is_free = v
               /\ w.size = r.size /\ w.next = r.next /\ w.prev = r.prev
BY DEF Header

\* Marking a block used or free changes neither sizes nor links.
LEMMA Marked ==
    ASSUME NEW h, Blocks(h), NEW b \in DOMAIN h, NEW w \in Header,
           w.size = h[b].size, w.next = h[b].next, w.prev = h[b].prev,
           NEW g \in [DOMAIN h -> Header], g[b] = w,
           \A a \in DOMAIN h \ {b} : g[a] = h[a]
    PROVE  /\ Blocks(g) /\ DOMAIN g = DOMAIN h
           /\ \A a \in DOMAIN h : /\ g[a].size = h[a].size /\ g[a].next = h[a].next
                                  /\ g[a].prev = h[a].prev
           /\ Used(g) = IF w.is_free THEN Used(h) \ {b} ELSE Used(h) \cup {b}
<1>1. h[b] \in Header /\ h \in [DOMAIN h -> Header] /\ DOMAIN h \subseteq Nat \ {NULL}
  BY DEF Blocks
<1>2. /\ g \in [DOMAIN h -> Header] /\ g[b] = w
      /\ \A a \in DOMAIN h : a # b => g[a] = h[a]
  OBVIOUS
<1>3. DOMAIN g = DOMAIN h
  BY <1>2
<1>4. Blocks(g)
  BY <1>1, <1>2, <1>3 DEF Blocks
<1>5. \A a \in DOMAIN h : /\ g[a].size = h[a].size /\ g[a].next = h[a].next
                          /\ g[a].prev = h[a].prev
  BY <1>2, Zenon
<1>6. \A a : a \in Used(g) <=> a \in IF w.is_free THEN Used(h) \ {b} ELSE Used(h) \cup {b}
  BY <1>2, <1>3, Zenon DEF Used
<1>7. Used(g) = IF w.is_free THEN Used(h) \ {b} ELSE Used(h) \cup {b}
  BY <1>6, Zenon
<1>8. QED
  BY <1>3, <1>4, <1>5, <1>7

------------------------------------------------------------------------------
(* The invariant.                                                           *)

ListOk == Blocks(blk) /\ Linked(blk, heap_end)

\* A call that has come to the end of the list was refused more memory, or asks
\* for nothing; the block that is being freed is free already.
CallOk ==
    /\ call \in [op : {"idle", "kmalloc", "kfree"}, size : Nat,
                 at : DOMAIN blk \cup {NULL}, failed : BOOLEAN]
    /\ call.op = "kmalloc" => call.size > HEADER \/ (call.size = 0 /\ call.at = NULL)
    /\ NullMeansFailed
    /\ call.op = "kfree" => call.at \in DOMAIN blk /\ call.at \notin Used(blk)

\* The used blocks are those that callers hold.
HeldOk ==
    /\ held \in [DOMAIN held -> Nat] /\ DOMAIN held \subseteq Nat
    /\ \A p \in DOMAIN held : /\ p - HEADER \in Used(blk)
                              /\ blk[p - HEADER].size >= held[p] + HEADER
    /\ \A a \in Used(blk) : a + HEADER \in DOMAIN held

\* The last block ends where the highest chunk does, or before.
Room ==
    /\ chunks \subseteq [base : Nat, len : Nat]
    /\ \E c \in chunks : /\ \A d \in chunks : d.base + d.len <= c.base + c.len
                         /\ heap_end + blk[heap_end].size <= c.base + c.len

\* No byte of the chunks is lost to the list.
Whole ==
    /\ IsFiniteSet(DOMAIN blk) /\ IsFiniteSet(chunks)
    /\ SizesAddUp

IInv == ListOk /\ CallOk /\ HeldOk /\ Room /\ Whole

\* A step that keeps the chunks and the bytes of the list loses none.
LEMMA WholeKept ==
    ASSUME IInv, UNCHANGED chunks, IsFiniteSet(DOMAIN blk'), Bytes(blk') = Bytes(blk)
    PROVE  Whole'
BY DEF IInv, Whole, SizesAddUp, Bytes, SizesOf

\* The one free block of init_heap satisfies the invariant.
LEMMA InitIInv == Init => IInv
<1> SUFFICES ASSUME Init PROVE IInv
  OBVIOUS
<1> DEFINE len == INITIAL_SIZE + HEADER
           r == [size |-> len, is_free |-> TRUE, prev |-> NULL, next |-> NULL]
<1>1. /\ blk = [a \in {heap_start} |-> r] /\ heap_end = heap_start
      /\ call = Idle /\ held = [p \in {} |-> 0]
      /\ chunks = {Chunk(heap_start, len)}
  BY DEF Init
<1>2. len \in Nat /\ len >= HEADER /\ heap_start \in Nat \ {0} /\ HEADER \in Nat \ {0}
  BY HeapAssumption
<1> HIDE DEF len
<1>3. r \in Header /\ r.size = len /\ r.next = NULL /\ r.prev = NULL /\ r.is_free
  BY <1>2 DEF Header, Fit, NULL
<1> HIDE DEF r
<1>4. DOMAIN blk = {heap_start} /\ blk[heap_start] = r
  BY <1>1
<1>5. ListOk
  <2>1. Blocks(blk)
    BY <1>1, <1>2, <1>3, <1>4 DEF Blocks, NULL
  <2>2. Linked(blk, heap_end)
    BY <1>1, <1>2, <1>3, <1>4 DEF Linked, NULL
  <2>3. QED
    BY <2>1, <2>2 DEF ListOk
<1>6. Used(blk) = {}
  BY <1>3, <1>4, Zenon DEF Used
<1>7. CallOk
  BY <1>1 DEF CallOk, NullMeansFailed, Idle
<1>8. HeldOk
  BY <1>1, <1>6 DEF HeldOk
<1>9. Room
  <2> DEFINE c == Chunk(heap_start, len)
  <2>1. c \in [base : Nat, len : Nat] /\ c.base = heap_start /\ c.len = len
    BY <1>2 DEF Chunk
  <2> HIDE DEF c
  <2>2. c.base + c.len <= c.base + c.len /\ heap_start + len <= c.base + c.len
    BY <1>2, <2>1
  <2>3. chunks = {c} /\ blk[heap_end].size = len
    BY <1>1, <1>3, <1>4 DEF c
  <2>4. QED
    BY <1>1, <2>1, <2>2, <2>3 DEF Room
<1>10. Whole
  <2> DEFINE c == Chunk(heap_start, len)
             B == [a \in DOMAIN blk |-> blk[a].size]
             L == [d \in chunks |-> d.len]
  <2>1. c.len = len /\ chunks = {c}
    BY <1>1 DEF Chunk
  <2> HIDE DEF c
  <2>2. len \in Int
    BY <1>2
  <2>3. B \in [{heap_start} -> Int] /\ B[heap_start] = len
    BY <1>3, <1>4, <2>2
  <2>4. L \in [{c} -> Int] /\ L[c] = len
    BY <2>1, <2>2
  <2> HIDE DEF B, L
  <2>5. SumFunction(B) = len
    BY <2>3, SumOne
  <2>6. SumFunction(L) = len
    BY <2>4, SumOne
  <2>7. SizesAddUp
    BY <2>5, <2>6 DEF SizesAddUp, B, L
  <2>8. QED
    BY <1>4, <2>1, <2>7, FS_Singleton DEF Whole
<1>11. QED
  BY <1>5, <1>7, <1>8, <1>9, <1>10 DEF IInv

\* What the invariant says of one block.
LEMMA BlockOf ==
    ASSUME IInv, NEW b \in DOMAIN blk
    PROVE  /\ blk[b] \in Header
           /\ b \in Nat /\ b # NULL /\ blk[b].size \in Nat /\ blk[b].size >= HEADER
           /\ blk[b].next \in Nat /\ blk[b].prev \in Nat
           /\ blk[b].next = NULL <=> b = heap_end
           /\ b # heap_end => blk[b].next \in DOMAIN blk
<1>1. Blocks(blk) /\ Linked(blk, heap_end)
  BY DEF IInv, ListOk
<1>2. QED
  BY <1>1, BlockType DEF Blocks, Linked, NULL

------------------------------------------------------------------------------
(* What the steps have in common.                                           *)

\* A step of a call that leaves the blocks alone.
LEMMA CallStep ==
    ASSUME IInv, UNCHANGED <<blk, heap_end, held, chunks>>, CallOk'
    PROVE  IInv'
<1>1. ListOk' /\ HeldOk' /\ Room' /\ Whole'
  BY DEF IInv, ListOk, HeldOk, Room, Whole, SizesAddUp
<1>2. QED
  BY <1>1 DEF IInv

\* A return ends a call.
LEMMA Returned ==
    ASSUME Return
    PROVE  CallOk'
BY DEF Return, Idle, CallOk, NullMeansFailed

\* Holders keep their blocks when the used blocks and their sizes stay.
LEMMA HeldKept ==
    ASSUME IInv, UNCHANGED held, Used(blk') = Used(blk),
           \A a \in Used(blk) : blk'[a].size = blk[a].size
    PROVE  HeldOk'
<1>1. /\ held \in [DOMAIN held -> Nat] /\ DOMAIN held \subseteq Nat
      /\ \A p \in DOMAIN held : /\ p - HEADER \in Used(blk)
                                /\ blk[p - HEADER].size >= held[p] + HEADER
      /\ \A a \in Used(blk) : a + HEADER \in DOMAIN held
  BY DEF IInv, HeldOk
<1>2. QED
  BY <1>1 DEF HeldOk

\* A block that becomes used is the caller's.
LEMMA Granted ==
    ASSUME IInv, NEW b \in DOMAIN blk, b \notin Used(blk), Grant(b),
           call.size >= HEADER, Used(blk') = Used(blk) \cup {b},
           \A a \in Used(blk) : blk'[a].size = blk[a].size,
           NEW s \in Nat, blk'[b].size = s, call.size <= s
    PROVE  HeldOk'
<1>1. /\ held \in [DOMAIN held -> Nat] /\ DOMAIN held \subseteq Nat
      /\ \A p \in DOMAIN held : /\ p - HEADER \in Used(blk)
                                /\ blk[p - HEADER].size >= held[p] + HEADER
      /\ \A a \in Used(blk) : a + HEADER \in DOMAIN held
  BY DEF IInv, HeldOk
<1>2. call.size \in Nat /\ call.size >= HEADER /\ HEADER \in Nat /\ b \in Nat
  BY BlockOf, HeapAssumption DEF IInv, CallOk
<1>3. PICK c \in Nat : c = call.size - HEADER /\ c + HEADER = call.size
  BY <1>2
<1>4. PICK q \in Nat : q = b + HEADER /\ q - HEADER = b
  BY <1>2
<1>5. held' = [p \in DOMAIN held \cup {q} |-> IF p = q THEN c ELSE held[p]]
  BY <1>3, <1>4 DEF Grant
<1>6. /\ DOMAIN held' = DOMAIN held \cup {q} /\ held'[q] = c
      /\ \A p \in DOMAIN held : p # q => held'[p] = held[p]
      /\ held' \in [DOMAIN held \cup {q} -> Nat]
  BY <1>1, <1>5
<1>7. ASSUME NEW p \in DOMAIN held \cup {q}
      PROVE  /\ p - HEADER \in Used(blk')
             /\ blk'[p - HEADER].size >= held'[p] + HEADER
  <2>1. CASE p = q
    BY <1>2, <1>3, <1>4, <1>6, <2>1
  <2>2. CASE p # q
    BY <1>1, <1>6, <1>7, <2>2
  <2>3. QED
    BY <2>1, <2>2
<1>8. \A a \in Used(blk') : a + HEADER \in DOMAIN held'
  BY <1>1, <1>4, <1>6
<1>9. QED
  BY <1>1, <1>6, <1>7, <1>8 DEF HeldOk

\* The last block still ends within the highest chunk.
LEMMA RoomKept ==
    ASSUME IInv, UNCHANGED chunks, NEW x \in Nat, x = heap_end' + blk'[heap_end'].size,
           x <= heap_end + blk[heap_end].size
    PROVE  Room'
<1>1. PICK c \in chunks : /\ \A d \in chunks : d.base + d.len <= c.base + c.len
                          /\ heap_end + blk[heap_end].size <= c.base + c.len
  BY DEF IInv, Room
<1>2. heap_end \in Nat /\ blk[heap_end].size \in Nat
  <2>1. heap_end \in DOMAIN blk
    BY DEF IInv, ListOk, Linked
  <2>2. QED
    BY <2>1, BlockOf
<1>3. c.base \in Nat /\ c.len \in Nat /\ chunks \subseteq [base : Nat, len : Nat]
  BY DEF IInv, Room
<1>4. x <= c.base + c.len
  BY <1>1, <1>2, <1>3
<1>5. QED
  BY <1>1, <1>3, <1>4 DEF Room

\* kmalloc and kfree find their blocks in the list.
LEMMA AtBlock ==
    ASSUME IInv
    PROVE  /\ call \in [op : {"idle", "kmalloc", "kfree"}, size : Nat,
                        at : DOMAIN blk \cup {NULL}, failed : BOOLEAN]
           /\ heap_end \in DOMAIN blk /\ heap_start \in DOMAIN blk
           /\ Walking => /\ call.at \in DOMAIN blk
                         /\ call.size \in Nat /\ call.size > HEADER /\ call.size >= HEADER
           /\ call.op = "kfree" => call.at \in DOMAIN blk /\ call.at \notin Used(blk)
BY HeapAssumption DEF IInv, CallOk, ListOk, Linked, Walking

------------------------------------------------------------------------------
(* kmalloc.                                                                 *)

\* A request for some bytes is not rounded down to none.
LEMMA AlignedAmount ==
    ASSUME NEW size \in Sizes \ {0}
    PROVE  ALIGN_ADDR(size) \in Nat \ {0}
<1>1. PICK A \in Nat \ {0} : A = ALIGNMENT
  BY HeapAssumption
<1>2. PICK d \in Nat : d = size + A - 1 /\ d >= A
  BY <1>1, HeapAssumption
<1>3. PICK q \in Int : q = d \div A
  BY <1>1
<1>4. q \in Nat /\ q >= 1
  BY <1>1, <1>2, <1>3
<1>5. q * A \in Nat /\ q * A >= 1
  BY <1>1, <1>4
<1>6. QED
  BY <1>1, <1>2, <1>3, <1>5 DEF ALIGN_ADDR

\* A call of kmalloc preserves the invariant: it begins the walk, or ends at once.
LEMMA kmallocIInv ==
    ASSUME IInv, NEW size \in Sizes, kmalloc(size)
    PROVE  IInv'
<1>1. heap_start # NULL /\ UNCHANGED <<blk, heap_end, held, chunks>>
  BY HeapAssumption DEF kmalloc, NULL
<1>2. CASE size = 0
  <2>1. call' = [Idle EXCEPT !.op = "kmalloc"]
    BY <1>2 DEF kmalloc
  <2>2. /\ call'.op = "kmalloc" /\ call'.size = 0 /\ call'.at = NULL
        /\ call' \in [op : {"idle", "kmalloc", "kfree"}, size : Nat,
                      at : DOMAIN blk \cup {NULL}, failed : BOOLEAN]
    BY <2>1 DEF Idle, NULL
  <2>3. CallOk'
    BY <1>1, <2>2 DEF CallOk, NullMeansFailed
  <2>4. QED
    BY <1>1, <2>3, CallStep
<1>3. CASE size # 0
  <2>1. PICK s : s = ALIGN_ADDR(size) + HEADER /\
                 call' = [op |-> "kmalloc", size |-> s, at |-> heap_start, failed |-> FALSE]
    BY <1>3 DEF kmalloc
  <2>2. s \in Nat /\ s > HEADER
    <3>1. ALIGN_ADDR(size) \in Nat \ {0}
      BY <1>3, AlignedAmount
    <3>2. HEADER \in Nat
      BY HeapAssumption
    <3>3. QED
      BY <2>1, <3>1, <3>2
  <2>3. /\ call'.op = "kmalloc" /\ call'.size = s /\ call'.at = heap_start
        /\ call' \in [op : {"idle", "kmalloc", "kfree"}, size : Nat,
                      at : DOMAIN blk \cup {NULL}, failed : BOOLEAN]
    BY <2>1, <2>2, AtBlock
  <2>4. CallOk'
    BY <1>1, <2>2, <2>3 DEF CallOk, NullMeansFailed
  <2>5. QED
    BY <1>1, <2>4, CallStep
<1>4. QED
  BY <1>2, <1>3

\* The walk goes to the next block; at the end of the list it has failed.
LEMMA StepRightIInv ==
    ASSUME IInv, StepRight
    PROVE  IInv'
<1>1. /\ call' = [call EXCEPT !.at = blk[call.at].next] /\ call.op = "kmalloc"
      /\ call.at \in DOMAIN blk /\ call.at # heap_end /\ call.size > HEADER
      /\ UNCHANGED <<blk, heap_end, held, chunks>>
  BY AtBlock DEF StepRight, Walking
<1>2. blk[call.at].next \in DOMAIN blk /\ blk[call.at].next # NULL
  BY <1>1, BlockOf
<1>3. CallOk'
  BY <1>1, <1>2, AtBlock DEF CallOk, NullMeansFailed
<1>4. QED
  BY <1>1, <1>3, CallStep

\* A failed expansion preserves the invariant: the walk passes heap_end.
LEMMA ExpandFailsIInv ==
    ASSUME IInv, ExpandFails
    PROVE  IInv'
<1> DEFINE q == [call EXCEPT !.at = blk[call.at].next]
           w == [q EXCEPT !.failed = TRUE]
<1>1. /\ call' = w /\ call.op = "kmalloc" /\ call.size > HEADER
      /\ call.at = heap_end /\ heap_end \in DOMAIN blk
      /\ UNCHANGED <<blk, heap_end, held, chunks>>
  BY AtBlock DEF ExpandFails, Walking
<1>2. blk[call.at].next = NULL
  BY <1>1, BlockOf
<1>3. q \in [op : {"idle", "kmalloc", "kfree"}, size : Nat,
             at : DOMAIN blk \cup {NULL}, failed : BOOLEAN]
      /\ q.op = "kmalloc" /\ q.size = call.size
  BY <1>1, <1>2, AtBlock
<1> HIDE DEF q
<1>4. w \in [op : {"idle", "kmalloc", "kfree"}, size : Nat,
             at : DOMAIN blk \cup {NULL}, failed : BOOLEAN]
      /\ w.op = "kmalloc" /\ w.size = call.size /\ w.failed = TRUE
  BY <1>3
<1> HIDE DEF w
<1>5. CallOk'
  BY <1>1, <1>4 DEF CallOk, NullMeansFailed
<1>6. QED
  BY <1>1, <1>5, CallStep

\* Handing out a whole block preserves the invariant.
LEMMA TakeWholeIInv ==
    ASSUME IInv, TakeWhole
    PROVE  IInv'
<1>1. PICK b \in DOMAIN blk : b = call.at
  BY AtBlock DEF TakeWhole
<1>2. /\ blk' = [blk EXCEPT ![b].is_free = FALSE] /\ Grant(b) /\ Return
      /\ call.size >= HEADER /\ call.size <= blk[b].size
      /\ UNCHANGED <<heap_end, chunks>>
  BY <1>1, AtBlock DEF TakeWhole, Fits
<1>3. b \notin Used(blk)
  BY <1>1, Zenon DEF TakeWhole, Fits, Used
<1>4. Blocks(blk) /\ Linked(blk, heap_end)
  BY DEF IInv, ListOk
<1>5. /\ Blocks(blk') /\ DOMAIN blk' = DOMAIN blk
      /\ \A a \in DOMAIN blk : /\ blk'[a].size = blk[a].size /\ blk'[a].next = blk[a].next
                               /\ blk'[a].prev = blk[a].prev
      /\ Used(blk') = Used(blk) \cup {b}
  <2> DEFINE w == [blk[b] EXCEPT !.is_free = FALSE]
  <2>1. /\ w \in Header /\ w.is_free = FALSE
        /\ w.size = blk[b].size /\ w.next = blk[b].next /\ w.prev = blk[b].prev
    BY BlockOf, PatchedFlag
  <2>2. blk' = [blk EXCEPT ![b] = w]
    BY <1>2
  <2> HIDE DEF w
  <2>3. PICK g \in [DOMAIN blk -> Header] :
            g[b] = w /\ (\A a \in DOMAIN blk \ {b} : g[a] = blk[a]) /\ blk' = g
    BY <1>4, <2>1, <2>2 DEF Blocks
  <2>4. /\ Blocks(g) /\ DOMAIN g = DOMAIN blk
        /\ \A a \in DOMAIN blk : /\ g[a].size = blk[a].size /\ g[a].next = blk[a].next
                                 /\ g[a].prev = blk[a].prev
        /\ Used(g) = IF w.is_free THEN Used(blk) \ {b} ELSE Used(blk) \cup {b}
    BY <1>4, <2>1, <2>3, Marked
  <2>5. ~ w.is_free
    BY <2>1, Zenon
  <2>6. QED
    BY <2>3, <2>4, <2>5, Zenon
<1>6. ListOk'
  BY <1>2, <1>4, <1>5, SameLinks DEF ListOk
<1>7. HeldOk'
  <2>1. Used(blk) \subseteq DOMAIN blk
    BY DEF Used
  <2>2. PICK s \in Nat : s = blk[b].size
    BY BlockOf
  <2>3. QED
    BY <1>2, <1>3, <1>5, <2>1, <2>2, Granted
<1>8. Room'
  BY <1>2, <1>5, AtBlock DEF IInv, Room
<1>9. Whole'
  <2>1. Bytes(blk') = Bytes(blk)
    BY <1>5, SameBytes
  <2>2. IsFiniteSet(DOMAIN blk')
    BY <1>5 DEF IInv, Whole
  <2>3. QED
    BY <1>2, <2>1, <2>2, WholeKept
<1>10. QED
  BY <1>2, <1>6, <1>7, <1>8, <1>9, Returned DEF IInv

\* The list that split_block leaves.
LEMMA SplitIs ==
    ASSUME IInv, NEW b \in DOMAIN blk, b \notin Used(blk), call.size \in Nat,
           call.size >= HEADER, blk[b].size - call.size >= HEADER
    PROVE  /\ Blocks(split_block(b)) /\ Splitting(blk, b, call.size, split_block(b))
           /\ Used(split_block(b)) = Used(blk)
<1> DEFINE new == b + call.size
           n == blk[b].next
           g == split_block(b)
           wb == [blk[b] EXCEPT !.size = call.size, !.next = new]
           wnew == [size |-> Rest(b), is_free |-> TRUE, prev |-> b, next |-> n]
           wn == [blk[n] EXCEPT !.prev = new]
<1>1. Blocks(blk) /\ Linked(blk, heap_end)
  BY DEF IInv, ListOk
<1>2. new \notin DOMAIN blk /\ n # new /\ n # b /\ new # b /\ new \in Nat \ {NULL}
  <2>1. new \notin DOMAIN blk /\ n # new /\ n # b
    BY <1>1, Between
  <2>2. b \in Nat \ {NULL} /\ call.size \in Nat /\ call.size > 0
    BY BlockOf, HeapAssumption
  <2>3. QED
    BY <2>1, <2>2 DEF NULL
<1>3. n # NULL => n \in DOMAIN blk
  BY BlockOf
<1>4. NULL \notin DOMAIN blk
  BY BlockOf
<1>5. blk[b] \in Header /\ n \in Nat /\ b \in Nat /\ Rest(b) \in Fit /\ call.size \in Fit
      /\ Rest(b) = blk[b].size - call.size
  BY BlockOf, HeapAssumption DEF Fit, Rest
<1>6. /\ wb \in Header /\ wb.size = call.size /\ wb.next = new
      /\ wb.prev = blk[b].prev /\ wb.is_free = blk[b].is_free
  <2> DEFINE q == [blk[b] EXCEPT !.size = call.size]
  <2>1. q \in Header /\ q.size = call.size /\ q.prev = blk[b].prev /\ q.is_free = blk[b].is_free
    BY <1>5, PatchedSize
  <2>2. wb = [q EXCEPT !.next = new]
    OBVIOUS
  <2>3. new \in Nat
    BY <1>2
  <2> HIDE DEF q, wb, new
  <2>4. QED
    BY <2>1, <2>2, <2>3, PatchedNext
<1>7. /\ wnew \in Header /\ wnew.size = blk[b].size - call.size /\ wnew.next = n /\ wnew.prev = b
      /\ wnew.is_free
  BY <1>5 DEF Header
<1>8. n # NULL => /\ wn \in Header /\ wn.prev = new /\ wn.next = blk[n].next
                  /\ wn.size = blk[n].size /\ wn.is_free = blk[n].is_free
  BY <1>2, <1>3, BlockOf, PatchedPrev
<1>9. \A a \in DOMAIN blk : blk[a] \in Header
  BY BlockOf
<1>10. g = [a \in DOMAIN blk \cup {new} |->
              CASE a = b   -> wb
                [] a = new -> wnew
                [] a = n   -> [blk[a] EXCEPT !.prev = new]
                [] OTHER   -> blk[a]]
  BY Zenon DEF split_block
<1> HIDE DEF wb, wnew, g
<1>11. /\ DOMAIN g = DOMAIN blk \cup {new} /\ g[b] = wb /\ g[new] = wnew
  BY <1>2, <1>10, Zenon
<1>12. n # NULL => g[n] = wn
  BY <1>2, <1>3, <1>10, Zenon
<1>13. \A a \in DOMAIN blk \ {b, n} : g[a] = blk[a]
  BY <1>2, <1>10, Zenon
<1> HIDE DEF wn, new, n
<1>14. \A a \in DOMAIN g : g[a] \in Header
  <2>1. TAKE a \in DOMAIN g
  <2>2. CASE a = b \/ a = new
    BY <1>6, <1>7, <1>11, <2>2, Zenon
  <2>3. CASE a # b /\ a # new
    <3>1. a \in DOMAIN blk /\ a # NULL
      BY <1>4, <1>11, <2>3
    <3>2. CASE a = n
      BY <1>8, <1>12, <3>1, <3>2, Zenon
    <3>3. CASE a # n
      <4>1. g[a] = blk[a]
        BY <1>13, <2>3, <3>1, <3>3
      <4>2. QED
        BY <1>9, <3>1, <4>1
    <3>4. QED
      BY <3>2, <3>3
  <2>4. QED
    BY <2>2, <2>3
<1>15. Blocks(g)
  <2>1. g \in [DOMAIN g -> Header]
    BY <1>10, <1>14
  <2>2. DOMAIN g \subseteq Nat \ {NULL}
    BY <1>1, <1>2, <1>11 DEF Blocks
  <2>3. QED
    BY <2>1, <2>2 DEF Blocks
<1>16. Splitting(blk, b, call.size, g)
  BY <1>6, <1>7, <1>8, <1>11, <1>12, <1>13, Zenon DEF Splitting, new, n
<1>17. Used(g) = Used(blk)
  <2>1. \A a : a \in Used(g) <=> a \in Used(blk)
    <3>1. TAKE a
    <3>2. CASE a = b
      BY <1>6, <1>11, <3>2, Zenon DEF Used
    <3>3. CASE a = new
      BY <1>2, <1>7, <1>11, <3>3, Zenon DEF Used
    <3>4. CASE a # b /\ a = n /\ n # NULL
      BY <1>3, <1>8, <1>11, <1>12, <3>4, Zenon DEF Used
    <3>5. CASE a # b /\ a # new /\ (a # n \/ n = NULL)
      <4>1. a \in DOMAIN blk => a \in DOMAIN blk \ {b, n}
        BY <1>4, <3>5
      <4>2. QED
        BY <1>11, <1>13, <3>5, <4>1, Zenon DEF Used
    <3>6. QED
      BY <3>2, <3>3, <3>4, <3>5
  <2>2. QED
    BY <2>1, Zenon
<1>18. QED
  BY <1>15, <1>16, <1>17 DEF g

\* Handing out the first part of a block that is split preserves the invariant.
LEMMA TakePartIInv ==
    ASSUME IInv, TakePart
    PROVE  IInv'
<1>1. PICK b \in DOMAIN blk : b = call.at
  BY AtBlock DEF TakePart
<1>2. PICK s \in Nat : s = call.size /\ s >= HEADER
  BY AtBlock DEF TakePart
<1>3. /\ blk' = [split_block(b) EXCEPT ![b].is_free = FALSE] /\ reset_heap_end
      /\ Grant(b) /\ Return /\ UNCHANGED chunks
      /\ blk[b].size - s > MINIUM_SIZE + HEADER
  BY <1>1, <1>2 DEF TakePart, Splits
<1>4. b \notin Used(blk)
  BY <1>1, Zenon DEF TakePart, Fits, Used
<1>5. /\ blk[b].size \in Nat /\ blk[b].size - s >= HEADER /\ b \in Nat
  BY <1>3, BlockOf, HeapAssumption
<1>6. PICK g : g = split_block(b)
  OBVIOUS
<1>7. Blocks(g) /\ Splitting(blk, b, s, g) /\ Used(g) = Used(blk)
  BY <1>2, <1>4, <1>5, <1>6, SplitIs
<1>8. Blocks(blk) /\ Linked(blk, heap_end)
  BY DEF IInv, ListOk
<1> DEFINE new == b + s
           e2 == IF b = heap_end THEN new ELSE heap_end
<1>9. Linked(g, e2)
  BY <1>2, <1>5, <1>7, <1>8, SplitLinked
<1>10. b \in DOMAIN g /\ DOMAIN g = DOMAIN blk \cup {new}
  BY <1>7 DEF Splitting
<1>11. /\ Blocks(blk') /\ DOMAIN blk' = DOMAIN g
       /\ \A a \in DOMAIN g : /\ blk'[a].size = g[a].size /\ blk'[a].next = g[a].next
                              /\ blk'[a].prev = g[a].prev
       /\ Used(blk') = Used(g) \cup {b}
  <2> DEFINE w == [g[b] EXCEPT !.is_free = FALSE]
  <2>1. /\ w \in Header /\ w.is_free = FALSE
        /\ w.size = g[b].size /\ w.next = g[b].next /\ w.prev = g[b].prev
    <3>1. g[b] \in Header
      BY <1>7, <1>10 DEF Blocks
    <3>2. QED
      BY <3>1, PatchedFlag
  <2>2. blk' = [g EXCEPT ![b] = w]
    BY <1>3, <1>6
  <2> HIDE DEF w
  <2>3. PICK f \in [DOMAIN g -> Header] :
            f[b] = w /\ (\A a \in DOMAIN g \ {b} : f[a] = g[a]) /\ blk' = f
    BY <1>7, <1>10, <2>1, <2>2 DEF Blocks
  <2>4. /\ Blocks(f) /\ DOMAIN f = DOMAIN g
        /\ \A a \in DOMAIN g : /\ f[a].size = g[a].size /\ f[a].next = g[a].next
                               /\ f[a].prev = g[a].prev
        /\ Used(f) = IF w.is_free THEN Used(g) \ {b} ELSE Used(g) \cup {b}
    BY <1>7, <1>10, <2>1, <2>3, Marked
  <2>5. ~ w.is_free
    BY <2>1, Zenon
  <2>6. QED
    BY <2>3, <2>4, <2>5, Zenon
<1>12. Linked(blk', e2)
  BY <1>9, <1>11, SameLinks
<1>13. heap_end' = e2
  <2>1. PICK x \in DOMAIN blk' : IsEnd(blk', x) /\ heap_end' = x
    BY <1>3 DEF reset_heap_end
  <2>2. x = e2
    BY <1>12, <2>1, EndIsUnique
  <2>3. QED
    BY <2>1, <2>2
<1> HIDE DEF e2
<1>14. ListOk'
  BY <1>11, <1>12, <1>13 DEF ListOk
<1>15. HeldOk'
  <2>1. \A a \in Used(blk) : a \in DOMAIN blk \ {b} /\ a # new /\ a # NULL
    <3>1. new \notin DOMAIN blk
      BY <1>2, <1>5, <1>8, Between
    <3>2. QED
      BY <1>4, <3>1, BlockOf DEF Used
  <2>2. \A a \in Used(blk) : blk'[a].size = blk[a].size
    <3>1. TAKE a \in Used(blk)
    <3>2. g[a].size = blk[a].size
      BY <1>7, <2>1, Zenon DEF Splitting
    <3>3. QED
      BY <1>10, <1>11, <2>1, <3>2
  <2>3. blk'[b].size = s
    BY <1>7, <1>10, <1>11, Zenon DEF Splitting
  <2>4. call.size >= HEADER /\ call.size <= s /\ Used(blk') = Used(blk) \cup {b}
    BY <1>2, <1>7, <1>11
  <2>5. QED
    BY <1>3, <1>4, <2>2, <2>3, <2>4, Granted
<1>16. Room'
  <2>1. CASE b = heap_end
    <3>1. blk'[new].size = blk[b].size - s /\ heap_end' = new
      BY <1>7, <1>10, <1>11, <1>13, <2>1 DEF Splitting, e2
    <3>2. PICK x \in Nat : x = b + blk[b].size
      BY <1>5
    <3>3. x = new + (blk[b].size - s)
      BY <1>2, <1>5, <3>2
    <3>4. x <= x
      OBVIOUS
    <3>5. QED
      BY <1>3, <2>1, <3>1, <3>2, <3>3, <3>4, RoomKept
  <2>2. CASE b # heap_end
    <3>1. heap_end \in DOMAIN blk /\ heap_end # NULL
      BY AtBlock, BlockOf
    <3>2. g[heap_end].size = blk[heap_end].size
      BY <1>7, <2>2, <3>1, Zenon DEF Splitting
    <3>3. PICK x \in Nat : x = heap_end + blk[heap_end].size
      BY <3>1, BlockOf
    <3>4. heap_end' = heap_end /\ blk'[heap_end].size = blk[heap_end].size
      BY <1>10, <1>11, <1>13, <2>2, <3>1, <3>2 DEF e2
    <3>5. x <= x
      OBVIOUS
    <3>6. QED
      BY <1>3, <3>3, <3>4, <3>5, RoomKept
  <2>3. QED
    BY <2>1, <2>2
<1>17. Whole'
  <2>1. new \notin DOMAIN blk /\ blk[b].next # b
    BY <1>2, <1>5, <1>8, Between
  <2>2. blk[b].next = NULL \/ blk[b].next \in DOMAIN blk
    BY BlockOf
  <2>3. IsFiniteSet(DOMAIN blk)
    BY DEF IInv, Whole
  <2>4. IsFiniteSet(DOMAIN g) /\ Bytes(g) = Bytes(blk)
    BY <1>7, <1>8, <2>1, <2>2, <2>3, SplitBytes
  <2>5. Bytes(blk') = Bytes(g)
    BY <1>11, SameBytes
  <2>6. QED
    BY <1>3, <1>11, <2>4, <2>5, WholeKept
<1>18. QED
  BY <1>3, <1>14, <1>15, <1>16, <1>17, Returned DEF IInv

\* The end of the highest chunk is above all blocks and chunks.
LEMMA TopIs ==
    ASSUME IInv
    PROVE  /\ Top \in Nat
           /\ heap_end + blk[heap_end].size <= Top
           /\ \A d \in chunks : d.base + d.len <= Top
<1>1. PICK c \in chunks : /\ \A d \in chunks : d.base + d.len <= c.base + c.len
                          /\ heap_end + blk[heap_end].size <= c.base + c.len
  BY DEF IInv, Room
<1>2. \A d \in chunks : d.base + d.len \in Nat
  BY DEF IInv, Room
<1> DEFINE S == {d.base + d.len : d \in chunks}
<1>3. \E m \in S : \A y \in S : m >= y
  BY <1>1, <1>2
<1>4. Top \in S /\ \A y \in S : Top >= y
  BY <1>3, Zenon DEF Top, Max
<1>5. heap_end + blk[heap_end].size \in Nat
  BY AtBlock, BlockOf
<1>6. \A d \in chunks : d.base + d.len \in S
  OBVIOUS
<1> HIDE DEF S
<1>7. \A y \in S : y \in Nat
  BY <1>2 DEF S
<1>8. QED
  BY <1>1, <1>2, <1>4, <1>5, <1>6, <1>7

\* A chunk added by expand_heap preserves the invariant.
LEMMA ExpandIInv ==
    ASSUME IInv, Expand
    PROVE  IInv'
<1>1. /\ call.op = "kmalloc" /\ call.at = heap_end /\ call.size \in Nat
      /\ call.size > HEADER /\ call.size >= HEADER /\ reset_heap_end /\ UNCHANGED held
      /\ call' = [call EXCEPT !.at = blk'[call.at].next]
  BY AtBlock DEF Expand, Walking
<1> DEFINE len == (call.size \div PAGE_SIZE + 1) * PAGE_SIZE + HEADER
<1>2. PICK gap \in Gaps :
        LET new == Top + gap
        IN  /\ chunks' = chunks \cup {Chunk(new, len)}
            /\ blk' = [a \in DOMAIN blk \cup {new} |->
                   CASE a = new      -> [size |-> len, is_free |-> TRUE,
                                         prev |-> heap_end, next |-> NULL]
                     [] a = heap_end -> [blk[a] EXCEPT !.next = new]
                     [] OTHER        -> blk[a]]
  BY DEF Expand
<1> DEFINE new == Top + gap
           wnew == [size |-> len, is_free |-> TRUE, prev |-> heap_end, next |-> NULL]
           we == [blk[heap_end] EXCEPT !.next = new]
<1>3. len \in Nat /\ len >= HEADER
  <2>1. PAGE_SIZE \in Nat \ {0} /\ HEADER \in Nat
    BY HeapAssumption
  <2>2. PICK q \in Nat : q = call.size \div PAGE_SIZE
    BY <1>1, <2>1
  <2>3. (q + 1) * PAGE_SIZE \in Nat
    BY <2>1, <2>2
  <2>4. QED
    BY <2>1, <2>2, <2>3
<1> HIDE DEF len
<1>4. Blocks(blk) /\ Linked(blk, heap_end) /\ heap_end \in DOMAIN blk /\ blk[heap_end] \in Header
  BY AtBlock, BlockOf DEF IInv, ListOk
<1>5. /\ new \in Nat \ {NULL} /\ heap_end + blk[heap_end].size <= new
      /\ \A d \in chunks : d.base + d.len <= new
  <2>1. gap \in Nat \ {0}
    BY HeapAssumption
  <2>2. heap_end + blk[heap_end].size \in Nat /\ \A d \in chunks : d.base + d.len \in Nat
    BY <1>4, BlockOf DEF IInv, Room
  <2>3. QED
    BY <2>1, <2>2, TopIs DEF NULL
<1>6. blk' = [a \in DOMAIN blk \cup {new} |->
                CASE a = new      -> wnew
                  [] a = heap_end -> [blk[a] EXCEPT !.next = new]
                  [] OTHER        -> blk[a]]
  BY <1>2
<1>7. chunks' = chunks \cup {Chunk(new, len)}
  BY <1>2
<1>8. wnew \in Header /\ wnew.size = len /\ wnew.next = NULL /\ wnew.prev = heap_end
      /\ wnew.is_free
  BY <1>3, <1>4, BlockOf DEF Header, Fit, NULL
<1>9. /\ we \in Header /\ we.next = new /\ we.size = blk[heap_end].size
      /\ we.prev = blk[heap_end].prev /\ we.is_free = blk[heap_end].is_free
  BY <1>4, <1>5, PatchedNext
<1>10. new \notin DOMAIN blk
  <2>1. \A a \in DOMAIN blk : a <= heap_end
    BY <1>4 DEF Linked
  <2>2. heap_end < new /\ \A a \in DOMAIN blk : a \in Nat
    BY <1>4, <1>5, BlockOf, HeapAssumption
  <2>3. QED
    BY <2>1, <2>2, <1>4
<1> HIDE DEF new, wnew
<1>11. DOMAIN blk' = DOMAIN blk \cup {new} /\ blk'[new] = wnew
  BY <1>4, <1>6, <1>10, Zenon
<1>12. blk'[heap_end] = we
  BY <1>4, <1>6, <1>10, Zenon
<1>13. \A a \in DOMAIN blk \ {heap_end} : blk'[a] = blk[a]
  BY <1>6, <1>10, Zenon
<1> HIDE DEF we
<1>14. \A a \in DOMAIN blk' : blk'[a] \in Header
  BY <1>8, <1>9, <1>11, <1>12, <1>13, BlockOf
<1>15. Blocks(blk')
  <2>1. DOMAIN blk' \subseteq Nat \ {NULL}
    BY <1>4, <1>5, <1>11 DEF Blocks
  <2>2. blk' \in [DOMAIN blk' -> Header]
    BY <1>6, <1>14
  <2>3. QED
    BY <2>1, <2>2 DEF Blocks
<1>16. Extending(blk, heap_end, new, blk')
  BY <1>8, <1>9, <1>11, <1>12, <1>13, Zenon DEF Extending
<1>17. Linked(blk', new)
  BY <1>4, <1>5, <1>16, ExtendLinked
<1>18. heap_end' = new
  <2>1. PICK x \in DOMAIN blk' : IsEnd(blk', x) /\ heap_end' = x
    BY <1>1 DEF reset_heap_end
  <2>2. x = new
    BY <1>17, <2>1, EndIsUnique
  <2>3. QED
    BY <2>1, <2>2
<1>19. Used(blk') = Used(blk)
  <2>1. \A a : a \in Used(blk') <=> a \in Used(blk)
    BY <1>4, <1>8, <1>9, <1>10, <1>11, <1>12, <1>13, Zenon DEF Used
  <2>2. QED
    BY <2>1, Zenon
<1>20. HeldOk'
  <2>1. \A a \in Used(blk) : blk'[a].size = blk[a].size
    BY <1>9, <1>12, <1>13 DEF Used
  <2>2. QED
    BY <1>1, <1>19, <2>1, HeldKept
<1>21. CallOk'
  <2>1. blk'[call.at].next = new /\ new \in DOMAIN blk' /\ new # NULL
    BY <1>1, <1>5, <1>9, <1>11, <1>12
  <2>2. /\ call' \in [op : {"idle", "kmalloc", "kfree"}, size : Nat,
                      at : DOMAIN blk' \cup {NULL}, failed : BOOLEAN]
        /\ call'.op = "kmalloc" /\ call'.size = call.size /\ call'.at = new
    BY <1>1, <2>1, AtBlock
  <2>3. QED
    BY <1>1, <2>1, <2>2 DEF CallOk, NullMeansFailed
<1>22. Room'
  <2> DEFINE c == Chunk(new, len)
  <2>1. c \in [base : Nat, len : Nat] /\ c.base = new /\ c.len = len
    BY <1>3, <1>5 DEF Chunk
  <2> HIDE DEF c
  <2>2. \A d \in chunks : d.base \in Nat /\ d.len \in Nat
    BY DEF IInv, Room
  <2>3. \A d \in chunks \cup {c} : d.base + d.len <= c.base + c.len
    BY <1>3, <1>5, <2>1, <2>2
  <2>4. chunks' = chunks \cup {c} /\ blk'[heap_end'].size = len
    BY <1>7, <1>8, <1>11, <1>18 DEF c
  <2>5. new + len <= c.base + c.len
    BY <1>3, <1>5, <2>1
  <2>6. chunks \subseteq [base : Nat, len : Nat]
    BY DEF IInv, Room
  <2>7. QED
    BY <1>18, <2>1, <2>3, <2>4, <2>5, <2>6 DEF Room
<1>23. Whole'
  <2> DEFINE c == Chunk(new, len)
             L == [d \in chunks |-> d.len]
             L2 == [d \in chunks \cup {c} |-> d.len]
  <2>1. c.base = new /\ c.len = len
    BY DEF Chunk
  <2> HIDE DEF c
  <2>2. /\ IsFiniteSet(DOMAIN blk) /\ IsFiniteSet(chunks)
        /\ SumFunction(SizesOf(blk)) = SumFunction(L)
    BY DEF IInv, Whole, SizesAddUp, SizesOf
  <2>3. /\ IsFiniteSet(DOMAIN blk') /\ Bytes(blk) \in Int
        /\ Bytes(blk') = Bytes(blk) + len
    BY <1>4, <1>8, <1>10, <1>11, <1>15, <1>16, <2>2, ExtendBytes
  <2>4. \A d \in chunks : d.base \in Nat /\ d.len \in Nat
    BY DEF IInv, Room
  <2>5. c \notin chunks
    <3>1. SUFFICES ASSUME c \in chunks PROVE FALSE
      OBVIOUS
    <3>2. PICK gp \in Nat \ {0} : gp = gap
      BY HeapAssumption
    <3>3. Top \in Nat /\ c.base + c.len <= Top /\ c.base \in Nat /\ c.len \in Nat
      BY <2>4, <3>1, TopIs
    <3>4. c.base = Top + gp
      BY <2>1, <3>2 DEF new
    <3>5. QED
      BY <3>3, <3>4
  <2>6. L \in [chunks -> Int] /\ L2 \in [chunks \cup {c} -> Int] /\ L2[c] = len
    BY <1>3, <2>1, <2>4
  <2>7. \A d \in chunks : L2[d] = L[d]
    OBVIOUS
  <2>8. chunks' = chunks \cup {c}
    BY <1>7 DEF c
  <2>9. [d \in chunks' |-> d.len] = L2
    BY <2>8
  <2> HIDE DEF L, L2
  <2>10. SumFunction(L2) = SumFunction(L) + len
    BY <2>2, <2>5, <2>6, <2>7, SumGrown
  <2>11. SumFunction(SizesOf(blk')) = SumFunction(L2)
    BY <2>2, <2>3, <2>10 DEF Bytes
  <2>12. SizesAddUp'
    BY <2>9, <2>11 DEF SizesAddUp, SizesOf
  <2>13. IsFiniteSet(chunks')
    BY <2>2, <2>8, FS_AddElement
  <2>14. QED
    BY <2>3, <2>12, <2>13 DEF Whole
<1>24. QED
  BY <1>15, <1>17, <1>18, <1>20, <1>21, <1>22, <1>23 DEF IInv, ListOk

------------------------------------------------------------------------------
(* kfree.                                                                   *)

\* A call of kfree preserves the invariant: it finds the caller's block.
LEMMA kfreeIInv ==
    ASSUME IInv, NEW ptr \in DOMAIN held, kfree(ptr)
    PROVE  IInv'
<1>1. /\ held \in [DOMAIN held -> Nat] /\ DOMAIN held \subseteq Nat
      /\ \A p \in DOMAIN held : /\ p - HEADER \in Used(blk)
                                /\ blk[p - HEADER].size >= held[p] + HEADER
      /\ \A a \in Used(blk) : a + HEADER \in DOMAIN held
  BY DEF IInv, HeldOk
<1>2. PICK b \in DOMAIN blk : b = ptr - HEADER
  BY <1>1 DEF Used
<1>3. /\ blk' = [blk EXCEPT ![b].is_free = TRUE]
      /\ held' = Restrict(held, DOMAIN held \ {ptr})
      /\ call' = [Idle EXCEPT !.op = "kfree", !.at = b]
      /\ UNCHANGED <<heap_end, chunks>>
  BY <1>2 DEF kfree
<1>4. Blocks(blk) /\ Linked(blk, heap_end)
  BY DEF IInv, ListOk
<1>5. /\ Blocks(blk') /\ DOMAIN blk' = DOMAIN blk
      /\ \A a \in DOMAIN blk : /\ blk'[a].size = blk[a].size /\ blk'[a].next = blk[a].next
                               /\ blk'[a].prev = blk[a].prev
      /\ Used(blk') = Used(blk) \ {b}
  <2> DEFINE w == [blk[b] EXCEPT !.is_free = TRUE]
  <2>1. /\ w \in Header /\ w.is_free = TRUE
        /\ w.size = blk[b].size /\ w.next = blk[b].next /\ w.prev = blk[b].prev
    BY BlockOf, PatchedFlag
  <2>2. blk' = [blk EXCEPT ![b] = w]
    BY <1>3
  <2> HIDE DEF w
  <2>3. PICK g \in [DOMAIN blk -> Header] :
            g[b] = w /\ (\A a \in DOMAIN blk \ {b} : g[a] = blk[a]) /\ blk' = g
    BY <1>4, <2>1, <2>2 DEF Blocks
  <2>4. /\ Blocks(g) /\ DOMAIN g = DOMAIN blk
        /\ \A a \in DOMAIN blk : /\ g[a].size = blk[a].size /\ g[a].next = blk[a].next
                                 /\ g[a].prev = blk[a].prev
        /\ Used(g) = IF w.is_free THEN Used(blk) \ {b} ELSE Used(blk) \cup {b}
    BY <1>4, <2>1, <2>3, Marked
  <2>5. w.is_free
    BY <2>1, Zenon
  <2>6. QED
    BY <2>3, <2>4, <2>5, Zenon
<1>6. ListOk'
  BY <1>3, <1>4, <1>5, SameLinks DEF ListOk
<1>7. HeldOk'
  <2>1. /\ DOMAIN held' = DOMAIN held \ {ptr}
        /\ \A p \in DOMAIN held \ {ptr} : held'[p] = held[p]
        /\ held' \in [DOMAIN held \ {ptr} -> Nat]
    BY <1>1, <1>3 DEF Restrict
  <2>2. HEADER \in Nat /\ ptr \in Nat /\ \A a \in DOMAIN blk : a \in Nat
    BY <1>1, HeapAssumption, BlockOf
  <2>3. ASSUME NEW p \in DOMAIN held \ {ptr}
        PROVE  /\ p - HEADER \in Used(blk')
               /\ blk'[p - HEADER].size >= held'[p] + HEADER
    <3>1. p - HEADER # b /\ p - HEADER \in Used(blk) /\ p - HEADER \in DOMAIN blk
      BY <1>1, <1>2, <2>2 DEF Used
    <3>2. QED
      BY <1>1, <1>5, <2>1, <3>1
  <2>4. ASSUME NEW a \in Used(blk')
        PROVE  a + HEADER \in DOMAIN held'
    <3>1. a \in Used(blk) /\ a # b /\ a \in Nat
      BY <1>5, <2>2 DEF Used
    <3>2. a + HEADER # ptr
      BY <1>2, <2>2, <3>1
    <3>3. QED
      BY <1>1, <2>1, <3>1, <3>2
  <2>5. QED
    BY <1>1, <2>1, <2>3, <2>4 DEF HeldOk
<1>8. Room'
  BY <1>3, <1>5, AtBlock DEF IInv, Room
<1>9. CallOk'
  <2> DEFINE q == [Idle EXCEPT !.op = "kfree"]
             w == [q EXCEPT !.at = b]
  <2>1. q \in [op : {"idle", "kmalloc", "kfree"}, size : Nat,
               at : DOMAIN blk \cup {NULL}, failed : BOOLEAN] /\ q.op = "kfree"
    BY DEF Idle
  <2>2. call' = w
    BY <1>3
  <2> HIDE DEF q
  <2>3. w \in [op : {"idle", "kmalloc", "kfree"}, size : Nat,
               at : DOMAIN blk \cup {NULL}, failed : BOOLEAN] /\ w.op = "kfree" /\ w.at = b
    BY <2>1
  <2> HIDE DEF w
  <2>4. QED
    BY <1>5, <2>2, <2>3 DEF CallOk, NullMeansFailed
<1>10. Whole'
  <2>1. Bytes(blk') = Bytes(blk)
    BY <1>5, SameBytes
  <2>2. IsFiniteSet(DOMAIN blk')
    BY <1>5 DEF IInv, Whole
  <2>3. QED
    BY <1>3, <2>1, <2>2, WholeKept
<1>11. QED
  BY <1>6, <1>7, <1>8, <1>9, <1>10 DEF IInv

\* Which two blocks merge_blocks puts together: two free neighbours.
LEMMA Neighbours ==
    ASSUME IInv, call.op = "kfree", ~ NothingToMerge(call.at)
    PROVE  LET l == IF IsFree(blk[call.at].prev) THEN blk[call.at].prev ELSE call.at
               r == blk[l].next
           IN  /\ l \in DOMAIN blk /\ l \notin Used(blk) /\ l # heap_end
               /\ r \in DOMAIN blk /\ r \notin Used(blk)
<1> DEFINE t == call.at
<1>1. t \in DOMAIN blk /\ t \notin Used(blk)
  BY AtBlock
<1>2. /\ blk[heap_start].prev = NULL
      /\ \A a \in DOMAIN blk :
            /\ blk[a].next = NULL <=> a = heap_end
            /\ a # heap_end => blk[a].next \in DOMAIN blk
            /\ a # heap_start => blk[a].prev \in DOMAIN blk /\ blk[blk[a].prev].next = a
  BY DEF IInv, ListOk, Linked
<1> HIDE DEF t
<1>3. CASE IsFree(blk[t].prev)
  <2>1. t # heap_start
    BY <1>2, <1>3, Zenon DEF IsFree
  <2>2. blk[t].prev \in DOMAIN blk /\ blk[blk[t].prev].next = t
    BY <1>1, <1>2, <2>1
  <2>3. blk[t].prev \notin Used(blk)
    BY <1>3, Zenon DEF IsFree, Used
  <2>4. t # NULL
    BY <1>1, BlockOf
  <2>5. blk[t].prev # heap_end
    BY <1>2, <2>2, <2>4
  <2>6. QED
    BY <1>1, <1>3, <2>2, <2>3, <2>5, Zenon DEF t
<1>4. CASE ~ IsFree(blk[t].prev)
  <2>1. blk[t].next # NULL /\ IsFree(blk[t].next)
    BY <1>4, Zenon DEF NothingToMerge, t
  <2>2. t # heap_end /\ blk[t].next \in DOMAIN blk
    BY <1>1, <1>2, <2>1
  <2>3. blk[t].next \notin Used(blk)
    BY <2>1, Zenon DEF IsFree, Used
  <2>4. QED
    BY <1>1, <1>4, <2>2, <2>3, Zenon DEF t
<1>5. QED
  BY <1>3, <1>4

\* A step of merge_blocks preserves the invariant.
LEMMA MergeIInv ==
    ASSUME IInv, Merge
    PROVE  IInv'
<1>1. /\ call.op = "kfree" /\ ~ NothingToMerge(call.at)
      /\ reset_heap_end /\ UNCHANGED <<held, chunks>>
  BY DEF Merge
<1>2. PICK left \in DOMAIN blk :
          /\ left = IF IsFree(blk[call.at].prev) THEN blk[call.at].prev ELSE call.at
          /\ left \notin Used(blk) /\ left # heap_end
          /\ blk[left].next \in DOMAIN blk /\ blk[left].next \notin Used(blk)
  BY <1>1, Neighbours
<1> DEFINE right == blk[left].next
           next == blk[right].next
           sum == blk[left].size + blk[right].size
           wl == [blk[left] EXCEPT !.next = next, !.size = sum]
           wn == [blk[next] EXCEPT !.prev = left]
<1>3. /\ blk' = [a \in DOMAIN blk \ {right} |->
                  CASE a = left -> Joined(left)
                    [] a = next -> [blk[a] EXCEPT !.prev = left]
                    [] OTHER    -> blk[a]]
      /\ IF IsFree(next) THEN call' = [call EXCEPT !.at = left] ELSE Return
  <2>1. LET l == IF IsFree(blk[call.at].prev) THEN blk[call.at].prev ELSE call.at
            r == blk[l].next
            n == blk[r].next
        IN  /\ blk' = [a \in DOMAIN blk \ {r} |->
                  CASE a = l   -> Joined(l)
                    [] a = n   -> [blk[a] EXCEPT !.prev = l]
                    [] OTHER   -> blk[a]]
            /\ IF IsFree(n) THEN call' = [call EXCEPT !.at = l] ELSE Return
    BY DEF Merge
  <2>2. QED
    BY <1>2, <2>1
<1>4. Blocks(blk) /\ Linked(blk, heap_end)
  BY DEF IInv, ListOk
<1>5. /\ left \in Nat /\ left # NULL /\ right \in Nat /\ right # NULL
      /\ blk[left] \in Header /\ blk[left].size \in Nat /\ blk[right].size \in Nat
      /\ next \in Nat
  BY <1>2, BlockOf
<1>6. left < right /\ left + blk[left].size <= right /\ left # right
  <2>1. left + blk[left].size <= right /\ blk[left].size >= HEADER
    BY <1>2, <1>4, BlockOf DEF Linked
  <2>2. HEADER \in Nat /\ HEADER > 0
    BY HeapAssumption
  <2>3. QED
    BY <1>5, <2>1, <2>2
<1>7. /\ next # NULL => /\ next \in DOMAIN blk /\ next # left /\ next # right
                        /\ right # heap_end
      /\ next = NULL => right = heap_end
  <2>1. next # NULL => next \in DOMAIN blk /\ right # heap_end /\ right + blk[right].size <= next
    BY <1>2, <1>4, BlockOf DEF Linked
  <2>2. next = NULL => right = heap_end
    BY <1>2, BlockOf
  <2>3. blk[right].size >= HEADER /\ HEADER \in Nat /\ HEADER > 0
    BY <1>2, BlockOf, HeapAssumption
  <2>4. QED
    BY <1>5, <1>6, <2>1, <2>2, <2>3
<1>8. sum \in Fit
  BY <1>2, <1>5, BlockOf, HeapAssumption DEF Fit
<1> HIDE DEF right, next, sum
<1>9. /\ wl \in Header /\ wl.size = sum /\ wl.next = next
      /\ wl.prev = blk[left].prev /\ wl.is_free = blk[left].is_free
  <2> DEFINE q == [blk[left] EXCEPT !.next = next]
  <2>1. /\ q \in Header /\ q.next = next /\ q.prev = blk[left].prev
        /\ q.is_free = blk[left].is_free
    BY <1>5, PatchedNext
  <2>2. wl = [q EXCEPT !.size = sum]
    OBVIOUS
  <2> HIDE DEF q, wl
  <2>3. QED
    BY <1>8, <2>1, <2>2, PatchedSize
<1>10. next # NULL => /\ wn \in Header /\ wn.prev = left /\ wn.next = blk[next].next
                      /\ wn.size = blk[next].size /\ wn.is_free = blk[next].is_free
  BY <1>5, <1>7, BlockOf, PatchedPrev
<1>11. DOMAIN blk' = DOMAIN blk \ {right} /\ blk'[left] = wl
  <2>1. left \in DOMAIN blk \ {right}
    BY <1>2, <1>6
  <2>2. DOMAIN blk' = DOMAIN blk \ {right}
    BY <1>3
  <2>3. blk'[left] = Joined(left)
    BY <1>3, <1>5, <1>7, <2>1, Zenon
  <2>4. Joined(left) = wl
    BY DEF Joined, right, next, sum
  <2>5. QED
    BY <2>2, <2>3, <2>4
<1>12. next # NULL => blk'[next] = wn
  BY <1>3, <1>7, Zenon
<1>13. \A a \in DOMAIN blk \ {left, right, next} : blk'[a] = blk[a]
  BY <1>3, Zenon
<1> HIDE DEF wl, wn
<1>14. NULL \notin DOMAIN blk /\ \A a \in DOMAIN blk : blk[a] \in Header
  BY BlockOf
<1>15. \A a \in DOMAIN blk' : blk'[a] \in Header
  <2>1. TAKE a \in DOMAIN blk'
  <2>2. a \in DOMAIN blk /\ a # right /\ a # NULL
    BY <1>11, <1>14
  <2>3. CASE a = left
    BY <1>9, <1>11, <2>3, Zenon
  <2>4. CASE a = next
    BY <1>10, <1>12, <2>2, <2>4, Zenon
  <2>5. CASE a # left /\ a # next
    <3>1. blk'[a] = blk[a]
      BY <1>13, <2>2, <2>5
    <3>2. QED
      BY <1>14, <2>2, <3>1
  <2>6. QED
    BY <2>3, <2>4, <2>5
<1>16. Blocks(blk')
  <2>1. blk' \in [DOMAIN blk' -> Header]
    BY <1>3, <1>15
  <2>2. DOMAIN blk' \subseteq Nat \ {NULL}
    BY <1>4, <1>11 DEF Blocks
  <2>3. QED
    BY <2>1, <2>2 DEF Blocks
<1>17. Merging(blk, left, blk')
  BY <1>9, <1>10, <1>11, <1>12, <1>13, Zenon DEF Merging, right, next, sum
<1> DEFINE e2 == IF right = heap_end THEN left ELSE heap_end
<1>18. Linked(blk', e2)
  BY <1>2, <1>4, <1>17, MergeLinked DEF right
<1>19. heap_end' = e2
  <2>1. PICK x \in DOMAIN blk' : IsEnd(blk', x) /\ heap_end' = x
    BY <1>1 DEF reset_heap_end
  <2>2. x = e2
    BY <1>18, <2>1, EndIsUnique
  <2>3. QED
    BY <2>1, <2>2
<1> HIDE DEF e2
<1>20. right \in DOMAIN blk /\ right \notin Used(blk)
  BY <1>2 DEF right
<1>21. Used(blk') = Used(blk)
  <2>1. \A a : a \in Used(blk') <=> a \in Used(blk)
    <3>1. TAKE a
    <3>2. CASE a = left
      BY <1>2, <1>9, <1>11, <3>2, Zenon DEF Used
    <3>3. CASE a = right
      BY <1>11, <1>20, <3>3, Zenon DEF Used
    <3>4. CASE a # left /\ a # right /\ a = next /\ next # NULL
      BY <1>7, <1>10, <1>11, <1>12, <3>4, Zenon DEF Used
    <3>5. CASE a # left /\ a # right /\ (a # next \/ next = NULL)
      <4>1. a \in DOMAIN blk => a \in DOMAIN blk \ {left, right, next}
        BY <1>14, <3>5
      <4>2. a \in DOMAIN blk' <=> a \in DOMAIN blk
        BY <1>11, <3>5
      <4>3. QED
        BY <1>13, <3>5, <4>1, <4>2, Zenon DEF Used
    <3>6. QED
      BY <3>2, <3>3, <3>4, <3>5
  <2>2. QED
    BY <2>1, Zenon
<1>22. HeldOk'
  <2>1. \A a \in Used(blk) : blk'[a].size = blk[a].size
    <3>1. TAKE a \in Used(blk)
    <3>2. a \in DOMAIN blk /\ a # left /\ a # right /\ a # NULL
      BY <1>2, <1>14, <1>20 DEF Used
    <3>3. CASE a = next
      BY <1>10, <1>12, <3>2, <3>3, Zenon
    <3>4. CASE a # next
      BY <1>13, <3>2, <3>4
    <3>5. QED
      BY <3>3, <3>4
  <2>2. QED
    BY <1>1, <1>21, <2>1, HeldKept
<1>23. Room'
  <2>1. CASE right = heap_end
    <3>1. heap_end' = left /\ blk'[left].size = sum
      BY <1>9, <1>11, <1>19, <2>1 DEF e2
    <3>2. PICK x \in Nat : x = left + sum
      BY <1>5 DEF sum
    <3>3. x <= right + blk[right].size
      BY <1>5, <1>6, <3>2 DEF sum
    <3>4. QED
      BY <1>1, <2>1, <3>1, <3>2, <3>3, RoomKept
  <2>2. CASE right # heap_end
    <3>1. heap_end' = heap_end /\ heap_end \in DOMAIN blk /\ heap_end # NULL
      BY <1>14, <1>19, <2>2, AtBlock DEF e2
    <3>2. blk'[heap_end].size = blk[heap_end].size
      <4>1. CASE heap_end = next
        BY <1>10, <1>12, <3>1, <4>1, Zenon
      <4>2. CASE heap_end # next
        BY <1>2, <1>13, <2>2, <3>1, <4>2
      <4>3. QED
        BY <4>1, <4>2
    <3>3. PICK x \in Nat : x = heap_end + blk[heap_end].size
      BY <3>1, BlockOf
    <3>4. x <= x
      OBVIOUS
    <3>5. QED
      BY <1>1, <3>1, <3>2, <3>3, <3>4, RoomKept
  <2>3. QED
    BY <2>1, <2>2
<1>24. CallOk'
  <2>1. CASE IsFree(next)
    <3>1. left \in DOMAIN blk' /\ left \notin Used(blk')
      BY <1>2, <1>6, <1>11, <1>21
    <3>2. call' = [call EXCEPT !.at = left]
      BY <1>3, <2>1
    <3>3. /\ call' \in [op : {"idle", "kmalloc", "kfree"}, size : Nat,
                        at : DOMAIN blk' \cup {NULL}, failed : BOOLEAN]
          /\ call'.op = "kfree" /\ call'.at = left
      BY <1>1, <3>1, <3>2, AtBlock
    <3>4. QED
      BY <3>1, <3>3 DEF CallOk, NullMeansFailed
  <2>2. CASE ~ IsFree(next)
    BY <1>3, <2>2, Returned
  <2>3. QED
    BY <2>1, <2>2
<1>25. Whole'
  <2>1. IsFiniteSet(DOMAIN blk)
    BY DEF IInv, Whole
  <2>2. right = blk[left].next
    BY DEF right
  <2>3. IsFiniteSet(DOMAIN blk') /\ Bytes(blk') = Bytes(blk)
    BY <1>2, <1>4, <1>6, <1>16, <1>17, <1>20, <2>1, <2>2, MergeBytes
  <2>4. QED
    BY <1>1, <2>3, WholeKept
<1>26. QED
  BY <1>16, <1>18, <1>19, <1>22, <1>23, <1>24, <1>25 DEF IInv, ListOk

------------------------------------------------------------------------------
(* Every step, and what follows.                                            *)

\* Every step preserves the invariant.
LEMMA NextIInv ==
    ASSUME IInv, [Next]_vars
    PROVE  IInv'
<1>1. CASE \E size \in Sizes : kmalloc(size)
  BY <1>1, kmallocIInv
<1>2. CASE \E ptr \in DOMAIN held : kfree(ptr)
  BY <1>2, kfreeIInv
<1>3. CASE TakePart
  BY <1>3, TakePartIInv
<1>4. CASE TakeWhole
  BY <1>4, TakeWholeIInv
<1>5. CASE StepRight
  BY <1>5, StepRightIInv
<1>6. CASE Expand
  BY <1>6, ExpandIInv
<1>7. CASE ExpandFails
  BY <1>7, ExpandFailsIInv
<1>8. CASE ReturnNull
  <2>1. Return /\ UNCHANGED <<blk, heap_end, held, chunks>>
    BY <1>8 DEF ReturnNull
  <2>2. QED
    BY <2>1, Returned, CallStep
<1>9. CASE MergeReturns
  <2>1. Return /\ UNCHANGED <<blk, heap_end, held, chunks>>
    BY <1>9 DEF MergeReturns
  <2>2. QED
    BY <2>1, Returned, CallStep
<1>10. CASE Merge
  BY <1>10, MergeIInv
<1>11. CASE UNCHANGED vars
  BY <1>11 DEF vars, IInv, ListOk, CallOk, HeldOk, Room, NullMeansFailed, Used, Whole,
                SizesAddUp
<1>12. QED
  BY <1>1, <1>2, <1>3, <1>4, <1>5, <1>6, <1>7, <1>8, <1>9, <1>10, <1>11
  DEF Next, Continue

\* The inductive invariant of the heap (kmalloc.c): the blocks are linked in
\* the order of their addresses and do not overlap, calls and callers refer to
\* blocks that exist, and the last block ends within the highest chunk.
THEOREM Invariance == Spec => []IInv
<1>1. Init => IInv
  BY InitIInv
<1>2. IInv /\ [Next]_vars => IInv'
  BY NextIInv
<1>3. QED
  BY <1>1, <1>2, PTL DEF Spec

\* The invariant implies that the list is well formed.
LEMMA WellFormed ==
    ASSUME IInv
    PROVE  ListWellFormed
<1>1. Blocks(blk) /\ Linked(blk, heap_end)
  BY DEF IInv, ListOk
<1>2. /\ held \in [DOMAIN held -> Nat] /\ chunks \subseteq [base : Nat, len : Nat]
      /\ call \in [op : {"idle", "kmalloc", "kfree"}, size : Nat,
                   at : DOMAIN blk \cup {NULL}, failed : BOOLEAN]
  BY DEF IInv, HeldOk, Room, CallOk
<1>3. TypeOK
  BY <1>1, <1>2 DEF TypeOK, Blocks, Linked, Header, Fit
<1>4. QED
  BY <1>1, <1>3 DEF ListWellFormed, Linked

\* split_block, merge_blocks and expand_heap keep the list whole: for any heap
\* and any calls of kmalloc and kfree, prev and next link the blocks in the
\* order of their addresses and no block reaches into its right neighbour.
THEOREM ListAlwaysWellFormed == Spec => []ListWellFormed
<1>1. IInv => ListWellFormed
  BY WellFormed
<1>2. QED
  BY <1>1, Invariance, PTL

\* The invariant implies that what callers hold is intact.
LEMMA Intact ==
    ASSUME IInv
    PROVE  HeldIntact
<1>1. /\ DOMAIN held \subseteq Nat
      /\ \A p \in DOMAIN held : /\ p - HEADER \in Used(blk)
                                /\ blk[p - HEADER].size >= held[p] + HEADER
      /\ \A a \in Used(blk) : a + HEADER \in DOMAIN held
  BY DEF IInv, HeldOk
<1>2. HEADER \in Nat /\ heap_start \in Nat /\ \A a \in DOMAIN blk : a \in Nat
  BY HeapAssumption, BlockOf
<1>3. /\ \A a \in DOMAIN blk : heap_start <= a /\ a <= heap_end
      /\ \A a \in DOMAIN blk : a # heap_end => a + blk[a].size <= blk[a].next
                                              /\ blk[a].next \in DOMAIN blk
      /\ heap_end \in DOMAIN blk
  BY DEF IInv, ListOk, Linked
<1>4. ASSUME NEW p \in DOMAIN held
      PROVE  Finds(p)
  <2>1. PICK a \in DOMAIN blk : a = p - HEADER
    BY <1>1 DEF Used
  <2>2. a + HEADER = p /\ heap_start <= p
    BY <1>1, <1>2, <1>3, <2>1
  <2>3. blk[a].size >= HEADER /\ blk[a].size \in Nat
    BY BlockOf
  <2>4. a + blk[a].size <= heap_end + blk[heap_end].size
    <3>1. CASE a = heap_end
      BY <1>2, <2>3, <3>1
    <3>2. CASE a # heap_end
      <4>1. a + blk[a].size <= blk[a].next /\ blk[a].next <= heap_end
        BY <1>3, <3>2
      <4>2. blk[a].next \in Nat /\ blk[heap_end].size \in Nat /\ heap_end \in Nat
        BY <1>3, BlockOf
      <4>3. QED
        BY <1>2, <2>3, <4>1, <4>2
    <3>3. QED
      BY <3>1, <3>2
  <2>5. blk[heap_end].size \in Nat /\ heap_end \in Nat
    BY <1>3, BlockOf
  <2>6. p <= heap_end + blk[heap_end].size
    BY <1>1, <1>2, <2>2, <2>3, <2>4, <2>5
  <2>7. QED
    BY <2>1, <2>2, <2>6 DEF Finds
<1>5. Used(blk) = {p - HEADER : p \in DOMAIN held}
  <2>1. \A a \in Used(blk) : \E p \in DOMAIN held : a = p - HEADER
    <3>1. TAKE a \in Used(blk)
    <3>2. a + HEADER \in DOMAIN held /\ a \in Nat
      BY <1>1, <1>2 DEF Used
    <3>3. a = (a + HEADER) - HEADER
      BY <1>2, <3>2
    <3>4. QED
      BY <3>2, <3>3
  <2>2. QED
    BY <1>1, <2>1
<1>6. QED
  BY <1>1, <1>4, <1>5 DEF HeldIntact, Used

\* What kmalloc handed out stays the caller's: for any heap, its block stays
\* used, large enough and findable for kfree until it is freed, and every used
\* block has one owner.
THEOREM HeldAlwaysIntact == Spec => []HeldIntact
<1>1. IInv => HeldIntact
  BY Intact
<1>2. QED
  BY <1>1, Invariance, PTL

\* kmalloc (kmalloc.c) returns NULL only to a request for nothing or when memory is
\* out: the walk meets heap_end before the end of the list, so that expand_heap was
\* tried and failed, and split_block, merge_blocks and expand_heap have lost no
\* byte: the sizes in the list add up to what request_memory supplied.
THEOREM NullAlwaysHasReason == Spec => []NullHasReason
<1>1. IInv => NullHasReason
  BY DEF IInv, CallOk, Whole, NullHasReason
<1>2. QED
  BY <1>1, Invariance, PTL

------------------------------------------------------------------------------
(* The list of blocks is an allocator.                                      *)

\* The bytes of a block that is free, or of another caller's, are apart from
\* those that the holder of q may use.
LEMMA HolderApart ==
    ASSUME IInv, NEW q \in DOMAIN held, NEW b \in DOMAIN blk, b # q - HEADER,
           NEW n \in Nat, n + HEADER <= blk[b].size
    PROVE  Abstract!Apart(b + HEADER, n, q, held[q])
<1>1. /\ q \in Nat /\ held[q] \in Nat /\ q - HEADER \in DOMAIN blk
      /\ blk[q - HEADER].size >= held[q] + HEADER
  BY DEF IInv, HeldOk, Used
<1>2. PICK a \in DOMAIN blk : a = q - HEADER
  BY <1>1
<1>3. HEADER \in Nat \ {0} /\ a \in Nat /\ b \in Nat /\ blk[a].size \in Nat /\ blk[b].size \in Nat
      /\ blk[a].next \in Nat /\ blk[b].next \in Nat
  BY HeapAssumption, BlockOf
<1>4. /\ \A x \in DOMAIN blk : x <= heap_end /\ (x # heap_end => x + blk[x].size <= blk[x].next)
      /\ \A x, y \in DOMAIN blk : x < y => blk[x].next <= y
      /\ heap_end \in DOMAIN blk /\ heap_end \in Nat
  BY AtBlock, BlockOf DEF IInv, ListOk, Linked
<1>5. PICK m \in Nat : m = held[q] /\ m + HEADER <= blk[a].size
  BY <1>1, <1>2
<1>6. CASE a < b
  <2>1. a # heap_end
    BY <1>3, <1>4, <1>6
  <2>2. a + blk[a].size <= blk[a].next /\ blk[a].next <= b
    BY <1>4, <1>6, <2>1
  <2>3. q + m <= b + HEADER
    BY <1>1, <1>2, <1>3, <1>5, <2>2
  <2>4. QED
    BY <1>5, <2>3 DEF Abstract!Apart
<1>7. CASE b < a
  <2>1. b # heap_end
    BY <1>3, <1>4, <1>7
  <2>2. b + blk[b].size <= blk[b].next /\ blk[b].next <= a
    BY <1>4, <1>7, <2>1
  <2>3. (b + HEADER) + n <= q
    BY <1>1, <1>2, <1>3, <2>2
  <2>4. QED
    BY <2>3 DEF Abstract!Apart
<1>8. QED
  BY <1>2, <1>3, <1>6, <1>7

\* The bytes that two callers may use are apart.
THEOREM HeldNeverOverlaps == Spec => []Abstract!NoOverlap
<1>1. ASSUME IInv, NEW p \in DOMAIN held, NEW q \in DOMAIN held, p # q
      PROVE  Abstract!Apart(p, held[p], q, held[q])
  <2>1. /\ p \in Nat /\ q \in Nat /\ held[p] \in Nat /\ p - HEADER \in DOMAIN blk
        /\ blk[p - HEADER].size >= held[p] + HEADER
    BY <1>1 DEF IInv, HeldOk, Used
  <2>2. HEADER \in Nat
    BY HeapAssumption
  <2>3. PICK b \in DOMAIN blk : b = p - HEADER
    BY <2>1
  <2>4. b # q - HEADER /\ b + HEADER = p
    BY <1>1, <2>1, <2>2, <2>3
  <2>5. PICK n \in Nat : n = held[p] /\ n + HEADER <= blk[b].size
    BY <2>1, <2>2, <2>3, BlockOf, <1>1
  <2>6. Abstract!Apart(b + HEADER, n, q, held[q])
    BY <1>1, <2>4, <2>5, HolderApart
  <2>7. QED
    BY <2>4, <2>5, <2>6
<1>2. IInv => Abstract!NoOverlap
  BY <1>1 DEF Abstract!NoOverlap
<1>3. QED
  BY <1>2, Invariance, PTL

\* A call for some bytes wants them.
LEMMA WalkWants ==
    ASSUME IInv, call.op = "kmalloc", call.size # 0
    PROVE  Wanted = call.size - HEADER /\ Wanted \in Nat \ {0}
<1>1. call.size \in Nat /\ call.size > HEADER /\ HEADER \in Nat
  BY HeapAssumption DEF IInv, CallOk
<1>2. QED
  BY <1>1 DEF Wanted

\* A block that is handed out answers the request.
LEMMA GrantGives ==
    ASSUME IInv, NEW b \in DOMAIN blk, b \notin Used(blk), Walking,
           call.size <= blk[b].size, Grant(b), Return
    PROVE  Abstract!Give
<1>0. call.op = "kmalloc" /\ call.size # 0
  BY AtBlock, HeapAssumption DEF Walking
<1>1. PICK n \in Nat \ {0} : n = Wanted /\ n = call.size - HEADER
  BY <1>0, WalkWants
<1>2. call.size \in Nat /\ HEADER \in Nat /\ blk[b].size \in Nat /\ b \in Nat
  BY HeapAssumption, BlockOf DEF IInv, CallOk
<1>3. n + HEADER <= blk[b].size
  BY <1>1, <1>2
<1>4. Wanted' = 0
  BY DEF Return, Idle, Wanted
<1>5. PICK p \in Nat : p = b + HEADER
  BY <1>2
<1>6. held' = [q \in DOMAIN held \cup {p} |-> IF q = p THEN n ELSE held[q]]
  BY <1>1, <1>5 DEF Grant
<1>7. \A q \in DOMAIN held : b # q - HEADER
  BY DEF IInv, HeldOk
<1>8. p \notin DOMAIN held /\ p \in DOMAIN held'
  BY <1>2, <1>5, <1>6, <1>7
<1>9. \A q \in DOMAIN held : Abstract!Apart(p, n, q, held[q])
  BY <1>1, <1>3, <1>5, <1>7, HolderApart
<1>10. QED
  BY <1>1, <1>4, <1>6, <1>8, <1>9 DEF Abstract!Give

\* Every step of the heap is a step of the allocator, or none.
LEMMA StepAllocates ==
    ASSUME IInv, [Next]_vars
    PROVE  Abstract!AllocNext \/ UNCHANGED <<held, Wanted>>
<1>1. ASSUME NEW size \in Sizes \ {0}, kmalloc(size)
      PROVE  Abstract!Ask
  <2>1. /\ call.op = "idle" /\ UNCHANGED held
        /\ call' = [op |-> "kmalloc", size |-> ALIGN_ADDR(size) + HEADER,
                    at |-> heap_start, failed |-> FALSE]
    BY <1>1 DEF kmalloc
  <2>2. Wanted = 0
    BY <2>1 DEF Wanted
  <2>3. ALIGN_ADDR(size) \in Nat /\ HEADER \in Nat \ {0}
    BY AlignedAmount, HeapAssumption
  <2>4. Wanted' = (ALIGN_ADDR(size) + HEADER) - HEADER
    BY <2>1, <2>3 DEF Wanted
  <2>5. Wanted' = ALIGN_ADDR(size)
    BY <2>3, <2>4
  <2>6. QED
    BY <2>1, <2>2, <2>5 DEF Abstract!Ask
<1>2. ASSUME kmalloc(0)
      PROVE  UNCHANGED <<held, Wanted>>
  BY <1>2 DEF kmalloc, Idle, Wanted
<1>3. ASSUME NEW ptr \in DOMAIN held, kfree(ptr)
      PROVE  Abstract!GiveBack
  <2>1. /\ call.op = "idle" /\ call' = [Idle EXCEPT !.op = "kfree", !.at = ptr - HEADER]
        /\ held' = Restrict(held, DOMAIN held \ {ptr})
    BY <1>3 DEF kfree
  <2>2. Wanted = 0 /\ Wanted' = 0
    BY <2>1 DEF Wanted, Idle
  <2>3. held' = [q \in DOMAIN held \ {ptr} |-> held[q]]
    BY <2>1 DEF Restrict
  <2>4. QED
    BY <2>2, <2>3 DEF Abstract!GiveBack
<1>4. CASE TakePart
  <2>1. PICK b \in DOMAIN blk : b = call.at
    BY <1>4, AtBlock DEF TakePart
  <2>2. /\ Grant(b) /\ Return /\ Walking /\ call.size <= blk[b].size
    BY <1>4, <2>1 DEF TakePart, Fits
  <2>3. b \notin Used(blk)
    BY <1>4, <2>1, Zenon DEF TakePart, Fits, Used
  <2>4. QED
    BY <2>2, <2>3, GrantGives DEF Abstract!AllocNext
<1>5. CASE TakeWhole
  <2>1. PICK b \in DOMAIN blk : b = call.at
    BY <1>5, AtBlock DEF TakeWhole
  <2>2. /\ Grant(b) /\ Return /\ Walking /\ call.size <= blk[b].size
    BY <1>5, <2>1 DEF TakeWhole, Fits
  <2>3. b \notin Used(blk)
    BY <1>5, <2>1, Zenon DEF TakeWhole, Fits, Used
  <2>4. QED
    BY <2>2, <2>3, GrantGives DEF Abstract!AllocNext
<1>6. CASE StepRight \/ Expand \/ ExpandFails
  <2>1. UNCHANGED held /\ call.op = "kmalloc" /\ call'.op = call.op /\ call'.size = call.size
    <3>1. CASE StepRight
      BY <3>1, AtBlock DEF StepRight, Walking
    <3>2. CASE Expand
      BY <3>2, AtBlock DEF Expand, Walking
    <3>3. CASE ExpandFails
      BY <3>3, AtBlock DEF ExpandFails, Walking
    <3>4. QED
      BY <1>6, <3>1, <3>2, <3>3
  <2>2. Wanted' = Wanted
    BY <2>1 DEF Wanted
  <2>3. QED
    BY <2>1, <2>2
<1>7. CASE ReturnNull
  <2>1. call.op = "kmalloc" /\ Return /\ UNCHANGED held
    BY <1>7 DEF ReturnNull
  <2>2. Wanted' = 0
    BY <2>1 DEF Return, Idle, Wanted
  <2>3. CASE call.size = 0
    BY <2>1, <2>2, <2>3 DEF Wanted
  <2>4. CASE call.size # 0
    BY <2>1, <2>2, <2>4, WalkWants DEF Abstract!AllocNext, Abstract!Refuse
  <2>5. QED
    BY <2>3, <2>4
<1>8. CASE MergeReturns \/ Merge
  <2>1. call.op = "kfree" /\ UNCHANGED held
    BY <1>8 DEF MergeReturns, Merge
  <2>2. call'.op # "kmalloc"
    <3>1. CASE Return
      BY <3>1 DEF Return, Idle
    <3>2. CASE \E l : call' = [call EXCEPT !.at = l]
      BY <2>1, <3>2, AtBlock
    <3>3. QED
      BY <1>8, <3>1, <3>2, Zenon DEF MergeReturns, Merge
  <2>3. Wanted = 0 /\ Wanted' = 0
    BY <2>1, <2>2 DEF Wanted
  <2>4. QED
    BY <2>1, <2>3
<1>9. CASE UNCHANGED vars
  BY <1>9 DEF vars, Wanted
<1>10. QED
  BY <1>1, <1>2, <1>3, <1>4, <1>5, <1>6, <1>7, <1>8, <1>9
  DEF Next, Continue, Abstract!AllocNext

\* kmalloc and kfree (kmalloc.c) implement an allocator, for any heap and any
\* calls: each kmalloc is answered once, with NULL or with as many bytes as were
\* asked for and none of them another caller's, and what is held stays held.
THEOREM ImplementsAllocator == Spec => IsAllocator
<1>1. Init => Abstract!AllocInit
  BY DEF Init, Idle, Wanted, Abstract!AllocInit
<1>2. IInv /\ [Next]_vars => [Abstract!AllocNext]_(Abstract!allocVars)
  BY StepAllocates DEF Abstract!allocVars
<1>3. QED
  BY <1>1, <1>2, Invariance, PTL DEF Spec, IsAllocator, Abstract!AllocSpec

==============================================================================
