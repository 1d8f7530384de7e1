----------------------------- MODULE RedrawProofs -----------------------------
(***************************************************************************)
(* Proofs about the drawing loop, for any text, any grid and any number of *)
(* keys struck while it draws: what is on the screen when it is done is    *)
(* the end of the text, each glyph in its cell; only tabs carry a drawing  *)
(* off the grid; and where the loop can be when keys move the end of the   *)
(* text under it.                                                          *)
(***************************************************************************)
EXTENDS Redraw, FiniteSetTheorems, SequenceTheorems, WellFoundedInduction, TLAPS

------------------------------------------------------------------------------
(* Numbers.                                                                 *)

\* A set of numbers that is not empty has a smallest.
LEMMA SmallestExists ==
    ASSUME NEW S \in SUBSET Nat, S # {}
    PROVE  Min(S) \in S /\ \A k \in S : Min(S) <= k
<1>1. \E x \in S : \A y \in S : ~ (<<y, x>> \in OpToRel(<, Nat))
  BY NatLessThanWellFounded, WFMin
<1>2. PICK x \in S : \A y \in S : ~ (<<y, x>> \in OpToRel(<, Nat))
  BY <1>1
<1>3. \A y \in S : <<y, x>> \in OpToRel(<, Nat) <=> y < x
  BY DEF OpToRel
<1>4. \A y \in S : ~ (y < x)
  BY <1>2, <1>3, Zenon
<1>5. \A y \in S : x <= y
  BY <1>4
<1>6. QED
  BY <1>5, Zenon DEF Min

\* And a bounded one has a largest.
LEMMA LargestExists ==
    ASSUME NEW S \in SUBSET Nat, S # {}, NEW n \in Nat, \A x \in S : x <= n
    PROVE  Max(S) \in S /\ \A k \in S : k <= Max(S)
<1> DEFINE T == {n - x : x \in S}
<1>1. T \in SUBSET Nat /\ T # {}
  <2>1. \A x \in S : n - x \in Nat
    OBVIOUS
  <2>2. T # {}
    OBVIOUS
  <2>3. QED
    BY <2>1, <2>2
<1>2. PICK t \in T : \A u \in T : t <= u
  BY <1>1, SmallestExists
<1>3. PICK x \in S : t = n - x
  BY <1>2
<1>4. \A y \in S : x >= y
  <2> TAKE y \in S
  <2>1. n - y \in T
    OBVIOUS
  <2>2. n - x <= n - y
    BY <1>2, <1>3, <2>1
  <2>3. QED
    BY <2>2
<1>5. Max(S) \in S /\ \A y \in S : Max(S) >= y
  BY <1>4, Zenon DEF Max
<1>6. QED
  BY <1>5

\* Induction over the naturals, for a set of numbers.
LEMMA Induct ==
    ASSUME NEW N \in SUBSET Nat, 0 \in N, \A n \in N : n + 1 \in N
    PROVE  N = Nat
<1>1. SUFFICES ASSUME Nat \ N # {} PROVE FALSE
  OBVIOUS
<1>2. PICK n \in Nat \ N : \A m \in Nat \ N : n <= m
  BY <1>1, SmallestExists
<1>3. n # 0 /\ n - 1 \in Nat
  BY <1>2
<1>4. n - 1 \in N
  BY <1>2, <1>3
<1>5. QED
  BY <1>2, <1>3, <1>4

\* The remainder is what is left above a multiple.
LEMMA RestIs ==
    ASSUME NEW m \in Nat \ {0}, NEW q \in Int, NEW r \in 0 .. m - 1,
           NEW x \in Int, x = q * m + r
    PROVE  x % m = r
<1>1. PICK p \in Int : p = q * m
  OBVIOUS
<1>2. x = p + r
  BY <1>1
<1>3. QED
  BY <1>1, <1>2

\* Counting on turns over at m.
LEMMA NextColumn ==
    ASSUME NEW m \in Nat \ {0}, NEW d \in Nat
    PROVE  /\ d % m \in 0 .. m - 1
           /\ (d + 1) % m = IF d % m = m - 1 THEN 0 ELSE (d % m) + 1
<1>1. PICK q \in Int : q = d \div m
  OBVIOUS
<1>2. PICK r \in Int : r = d % m
  OBVIOUS
<1>3. d = q * m + r /\ r \in 0 .. m - 1
  BY <1>1, <1>2
<1>4. PICK p \in Int : p = q * m
  OBVIOUS
<1>5. CASE r = m - 1
  <2>1. (q + 1) * m = q * m + m
    OBVIOUS
  <2>2. d + 1 = (q + 1) * m
    BY <1>3, <1>4, <1>5, <2>1
  <2>3. ((q + 1) * m) % m = 0
    OBVIOUS
  <2>4. QED
    BY <1>2, <1>3, <1>5, <2>2, <2>3
<1>6. CASE r # m - 1
  <2>1. d + 1 = p + (r + 1) /\ r + 1 \in 0 .. m - 1
    BY <1>3, <1>4, <1>6
  <2>2. (d + 1) % m = r + 1
    <3>1. PICK e \in Nat : e = d + 1
      OBVIOUS
    <3>2. PICK z \in 0 .. m - 1 : z = r + 1
      BY <2>1
    <3>3. e = q * m + z
      BY <1>4, <2>1, <3>1, <3>2
    <3>4. e % m = z
      BY <3>3, RestIs
    <3>5. QED
      BY <3>1, <3>2, <3>4
  <2>3. QED
    BY <1>2, <1>3, <1>6, <2>2
<1>7. QED
  BY <1>5, <1>6

------------------------------------------------------------------------------
(* The layout of the text.                                                  *)

Rows(first, i) == Cardinality(RowEnds(first, i))

\* A line begins at first or behind a newline.
LEMMA LineBegins ==
    ASSUME NEW first \in Nat, NEW i \in Nat, first <= i
    PROVE  /\ LineOf(first, first) = first
           /\ LineOf(first, i) \in first .. i
           /\ LineOf(first, i + 1) = IF con_memory[i] = "newline" THEN i + 1
                                     ELSE LineOf(first, i)
<1> DEFINE N(n) == {k \in first .. n - 1 : con_memory[k] = "newline"}
           S(n) == {first} \cup {j + 1 : j \in N(n)}
<1>1. \A n \in Nat : LineOf(first, n) = Max(S(n))
  BY DEF LineOf
<1>2. \A n \in Nat : first <= n => S(n) \in SUBSET (first .. n) /\ first \in S(n)
  OBVIOUS
<1>3. \A n \in Nat : first <= n => Max(S(n)) \in S(n) /\ \A k \in S(n) : k <= Max(S(n))
  <2> HIDE DEF S
  <2> TAKE n \in Nat
  <2> HAVE first <= n
  <2>1. S(n) \in SUBSET (first .. n) /\ first \in S(n)
    BY <1>2
  <2>2. S(n) \in SUBSET Nat /\ S(n) # {} /\ \A x \in S(n) : x <= n
    BY <2>1
  <2>3. QED
    BY <2>2, LargestExists
<1>4. LineOf(first, first) = first
  <2>1. S(first) \subseteq first .. first
    BY <1>2
  <2> HIDE DEF S
  <2>2. Max(S(first)) \in first .. first
    BY <1>3, <2>1
  <2>3. QED
    BY <1>1, <2>2
<1>5. LineOf(first, i) \in first .. i
  <2> HIDE DEF S
  <2>1. QED
    BY <1>1, <1>2, <1>3
<1>6. CASE con_memory[i] = "newline"
  <2>1. i + 1 \in S(i + 1)
    <3>1. i \in N(i + 1)
      BY <1>6
    <3>2. QED
      BY <3>1
  <2>2. i + 1 \in Nat /\ first <= i + 1
    OBVIOUS
  <2> HIDE DEF S
  <2>3. Max(S(i + 1)) \in first .. i + 1 /\ i + 1 <= Max(S(i + 1))
    BY <1>2, <1>3, <2>1, <2>2
  <2>4. Max(S(i + 1)) = i + 1
    BY <2>3
  <2>5. QED
    BY <1>1, <1>4, <1>5, <1>6, <2>2, <2>4
<1>7. CASE con_memory[i] # "newline"
  <2>1. N(i + 1) = N(i)
    <3>1. \A k \in first .. (i + 1) - 1 : k = i \/ k \in first .. i - 1
      OBVIOUS
    <3>2. \A k \in first .. i - 1 : k \in first .. (i + 1) - 1
      OBVIOUS
    <3>3. QED
      BY <1>7, <3>1, <3>2
  <2>2. S(i + 1) = S(i)
    BY <2>1
  <2> HIDE DEF S
  <2>3. QED
    BY <1>1, <1>4, <1>5, <1>7, <2>2
<1>8. QED
  BY <1>6, <1>7

\* The columns and rows of a cell are numbers.
LEMMA CellType ==
    ASSUME max_cols \in Nat \ {0}, NEW first \in Nat, NEW i \in Nat, first <= i
    PROVE  /\ Cell(first, i) = <<Rows(first, i), Column0(first, i)>>
           /\ Rows(first, i) \in Nat /\ Column0(first, i) \in 0 .. max_cols - 1
           /\ IsFiniteSet(RowEnds(first, i))
<1>1. PICK d \in Nat : d = i - LineOf(first, i)
  BY LineBegins
<1>2. d % max_cols \in 0 .. max_cols - 1
  BY NextColumn
<1>3. IsFiniteSet(first .. i - 1) /\ RowEnds(first, i) \in SUBSET (first .. i - 1)
  BY FS_Interval DEF RowEnds
<1>4. IsFiniteSet(RowEnds(first, i))
  BY <1>3, FS_Subset
<1>5. QED
  BY <1>1, <1>2, <1>4, FS_CardinalityType DEF Cell, Rows, Column0

\* Where a drawing begins.
LEMMA FirstCell ==
    ASSUME max_cols \in Nat \ {0}, NEW first \in Nat
    PROVE  Rows(first, first) = 0 /\ Column0(first, first) = 0
<1>1. RowEnds(first, first) = {}
  BY DEF RowEnds
<1>2. LineOf(first, first) = first
  BY LineBegins
<1>3. 0 % max_cols = 0
  OBVIOUS
<1>4. QED
  BY <1>1, <1>2, <1>3, FS_EmptySet DEF Rows, Column0

\* The cell after that of the character at i: a new row after a newline and at
\* the end of a row, otherwise the next column.
LEMMA NextCell ==
    ASSUME max_cols \in Nat \ {0}, NEW first \in Nat, NEW i \in Nat, first <= i
    PROVE  IF con_memory[i] = "newline" \/ Column0(first, i) = max_cols - 1
           THEN Rows(first, i + 1) = Rows(first, i) + 1 /\ Column0(first, i + 1) = 0
           ELSE Rows(first, i + 1) = Rows(first, i) /\ Column0(first, i + 1) = Column0(first, i) + 1
<1> DEFINE Ends == con_memory[i] = "newline" \/ Column0(first, i) = max_cols - 1
<1>1. RowEnds(first, i + 1) = RowEnds(first, i) \cup (IF Ends THEN {i} ELSE {})
  <2>1. \A j : j \in first .. (i + 1) - 1 <=> j = i \/ j \in first .. i - 1
    OBVIOUS
  <2>2. QED
    BY <2>1 DEF RowEnds
<1>2. i \notin RowEnds(first, i)
  BY DEF RowEnds
<1>3. IsFiniteSet(RowEnds(first, i)) /\ Rows(first, i) \in Nat
  BY CellType
<1>4. Rows(first, i + 1) = IF Ends THEN Rows(first, i) + 1 ELSE Rows(first, i)
  <2>1. CASE Ends
    <3>1. RowEnds(first, i + 1) = RowEnds(first, i) \cup {i}
      BY <1>1, <2>1
    <3>2. Cardinality(RowEnds(first, i) \cup {i}) = Cardinality(RowEnds(first, i)) + 1
      BY <1>2, <1>3, FS_AddElement
    <3>3. QED
      BY <2>1, <3>1, <3>2 DEF Rows
  <2>2. CASE ~ Ends
    BY <1>1, <2>2 DEF Rows
  <2>3. QED
    BY <2>1, <2>2
<1>5. CASE con_memory[i] = "newline"
  <2>1. LineOf(first, i + 1) = i + 1
    BY <1>5, LineBegins
  <2>2. Column0(first, i + 1) = 0
    <3>1. 0 % max_cols = 0 /\ (i + 1) - (i + 1) = 0
      OBVIOUS
    <3>2. QED
      BY <2>1, <3>1 DEF Column0
  <2>3. QED
    BY <1>4, <1>5, <2>2
<1>6. CASE con_memory[i] # "newline"
  <2>1. PICK l \in first .. i : l = LineOf(first, i) /\ l = LineOf(first, i + 1)
    BY <1>6, LineBegins
  <2>2. PICK d \in Nat : d = i - l /\ d + 1 = i + 1 - l
    OBVIOUS
  <2>3. Column0(first, i) = d % max_cols /\ Column0(first, i + 1) = (d + 1) % max_cols
    BY <2>1, <2>2 DEF Column0
  <2>4. Column0(first, i + 1) = IF Column0(first, i) = max_cols - 1 THEN 0
                                ELSE Column0(first, i) + 1
    BY <2>3, NextColumn, Zenon
  <2>5. QED
    BY <1>4, <1>6, <2>4
<1>7. QED
  BY <1>5, <1>6

\* More text takes at least as many rows.
LEMMA MoreTextMoreRows ==
    ASSUME max_cols \in Nat \ {0}, NEW first \in Nat, NEW i \in Nat, NEW j \in Nat,
           first <= i, i <= j
    PROVE  Rows(first, i) <= Rows(first, j)
<1>1. RowEnds(first, i) \in SUBSET RowEnds(first, j)
  <2>1. \A k \in first .. i - 1 : k \in first .. j - 1
    OBVIOUS
  <2>2. QED
    BY <2>1 DEF RowEnds
<1>2. IsFiniteSet(RowEnds(first, j))
  <2>1. first <= j
    OBVIOUS
  <2>2. QED
    BY <2>1, CellType
<1>3. QED
  BY <1>1, <1>2, FS_Subset DEF Rows

\* So does text from an earlier character on.
LEMMA EarlierTextMoreRows ==
    ASSUME max_cols \in Nat \ {0}, NEW f \in Nat, NEW g \in Nat, NEW n \in Nat,
           f <= g, g <= n
    PROVE  Rows(g, n) <= Rows(f, n)
<1> DEFINE Behind(i) == \/ Rows(g, i) < Rows(f, i)
                        \/ Rows(g, i) = Rows(f, i) /\ Column0(g, i) <= Column0(f, i)
           K == {k \in Nat : Behind(g + k)}
<1>1. \A i \in Nat : g <= i =>
          /\ Rows(f, i) \in Nat /\ Column0(f, i) \in 0 .. max_cols - 1
          /\ Rows(g, i) \in Nat /\ Column0(g, i) \in 0 .. max_cols - 1
  <2> TAKE i \in Nat
  <2> HAVE g <= i
  <2>1. f <= i
    OBVIOUS
  <2>2. Rows(f, i) \in Nat /\ Column0(f, i) \in 0 .. max_cols - 1
    BY <2>1, CellType
  <2>3. Rows(g, i) \in Nat /\ Column0(g, i) \in 0 .. max_cols - 1
    BY CellType
  <2>4. QED
    BY <2>2, <2>3
<1>2. 0 \in K
  <2>1. Rows(g, g) = 0 /\ Column0(g, g) = 0
    BY FirstCell
  <2>2. QED
    BY <1>1, <2>1
<1>3. ASSUME NEW k \in K PROVE k + 1 \in K
  <2>1. PICK i \in Nat : i = g + k /\ i + 1 = g + (k + 1) /\ g <= i /\ f <= i
    OBVIOUS
  <2>2. Behind(i)
    BY <2>1
  <2>3. /\ Rows(f, i) \in Nat /\ Column0(f, i) \in 0 .. max_cols - 1
        /\ Rows(g, i) \in Nat /\ Column0(g, i) \in 0 .. max_cols - 1
    BY <1>1, <2>1
  <2>4. IF con_memory[i] = "newline" \/ Column0(f, i) = max_cols - 1
        THEN Rows(f, i + 1) = Rows(f, i) + 1 /\ Column0(f, i + 1) = 0
        ELSE Rows(f, i + 1) = Rows(f, i) /\ Column0(f, i + 1) = Column0(f, i) + 1
    BY <2>1, NextCell
  <2>5. IF con_memory[i] = "newline" \/ Column0(g, i) = max_cols - 1
        THEN Rows(g, i + 1) = Rows(g, i) + 1 /\ Column0(g, i + 1) = 0
        ELSE Rows(g, i + 1) = Rows(g, i) /\ Column0(g, i + 1) = Column0(g, i) + 1
    BY <2>1, NextCell
  <2>6. Behind(i + 1)
    BY <2>2, <2>3, <2>4, <2>5
  <2>7. QED
    BY <2>1, <2>6
<1>4. K = Nat
  <2> HIDE DEF K
  <2>1. K \in SUBSET Nat
    BY DEF K
  <2>2. QED
    BY <1>2, <1>3, <2>1, Induct
<1>5. Behind(n)
  <2>1. n - g \in Nat /\ g + (n - g) = n
    OBVIOUS
  <2>2. n - g \in K
    BY <1>4, <2>1
  <2>3. QED
    BY <2>1, <2>2
<1>6. QED
  BY <1>1, <1>5

\* Counting newlines back from the end finds one, or the beginning of the text.
LEMMA FirstLineInText ==
    ASSUME mem_end \in Nat, max_rows \in Nat \ {0}
    PROVE  FirstLine \in 0 .. mem_end
<1> DEFINE N == {i \in 0 .. mem_end - 1 : con_memory[i] = "newline"}
           From(i) == {j \in N : j >= i}
           After(i) == Cardinality(From(i))
<1>1. FirstLine = IF Cardinality(N) < max_rows THEN 0
                  ELSE 1 + CHOOSE i \in N : After(i) = max_rows
  BY DEF FirstLine
<1>2. CASE Cardinality(N) < max_rows
  BY <1>1, <1>2
<1>3. CASE ~ (Cardinality(N) < max_rows)
  <2> DEFINE K == {k \in 0 .. mem_end : After(mem_end - k) >= max_rows}
  <2>1. IsFiniteSet(N) /\ N \in SUBSET (0 .. mem_end - 1)
    <3>1. IsFiniteSet(0 .. mem_end - 1) /\ N \in SUBSET (0 .. mem_end - 1)
      BY FS_Interval
    <3>2. QED
      BY <3>1, FS_Subset
  <2>2. \A i : IsFiniteSet(From(i)) /\ After(i) \in Nat
    <3>1. \A i : From(i) \in SUBSET N
      OBVIOUS
    <3>2. QED
      BY <2>1, <3>1, FS_Subset, FS_CardinalityType
  <2>3. From(0) = N
    BY <2>1
  <2>4. mem_end \in K
    BY <1>3, <2>2, <2>3
  <2>5. PICK k \in K : \A l \in K : k <= l
    <3> HIDE DEF After
    <3>1. \A k \in K : k \in Nat
      OBVIOUS
    <3> HIDE DEF K
    <3>2. QED
      BY <2>4, <3>1, SmallestExists
  <2>6. From(mem_end) = {}
    BY <2>1
  <2>7. After(mem_end) = 0
    BY <2>6, FS_EmptySet
  <2>8. k # 0 /\ k \in 1 .. mem_end
    BY <2>5, <2>7
  <2>9. PICK i \in 0 .. mem_end - 1 : i = mem_end - k /\ i + 1 = mem_end - (k - 1)
    BY <2>8
  <2>10. After(i) >= max_rows
    BY <2>5, <2>9
  <2>11. After(i + 1) < max_rows
    <3>1. k - 1 \notin K
      BY <2>5, <2>8
    <3>2. k - 1 \in 0 .. mem_end
      BY <2>8
    <3>3. ~ (After(i + 1) >= max_rows)
      BY <2>9, <3>1, <3>2
    <3>4. After(i + 1) \in Nat
      BY <2>2
    <3> HIDE DEF After
    <3>5. QED
      BY <3>3, <3>4
  <2>12. i \in N
    <3>1. SUFFICES ASSUME i \notin N PROVE FALSE
      OBVIOUS
    <3>2. From(i) = From(i + 1)
      BY <2>1, <3>1
    <3>3. After(i) = After(i + 1) /\ After(i) \in Nat
      BY <2>2, <3>2
    <3> HIDE DEF After
    <3>4. QED
      BY <2>10, <2>11, <3>3
  <2>13. After(i) = max_rows
    <3>1. From(i) = From(i + 1) \cup {i} /\ i \notin From(i + 1)
      BY <2>1, <2>12
    <3>2. Cardinality(From(i + 1) \cup {i}) = Cardinality(From(i + 1)) + 1
      BY <2>2, <3>1, FS_AddElement
    <3>3. After(i) = After(i + 1) + 1 /\ After(i + 1) \in Nat
      BY <2>2, <3>1, <3>2
    <3> HIDE DEF After
    <3>4. QED
      BY <2>10, <2>11, <3>3
  <2> HIDE DEF N, From, After, K
  <2>14. (CHOOSE j \in N : After(j) = max_rows) \in N
    BY <2>12, <2>13
  <2>15. PICK l \in 0 .. mem_end - 1 : l = CHOOSE j \in N : After(j) = max_rows
    BY <2>1, <2>14
  <2>16. FirstLine = 1 + l
    BY <1>1, <1>3, <2>15
  <2>17. QED
    BY <2>15, <2>16
<1>4. QED
  BY <1>2, <1>3

------------------------------------------------------------------------------
(* The invariant.                                                           *)

\* The text: kept below the end of the memory by the bound on keys; the input
\* line and the prompt before it, which keys may change, are glyphs.
TextInv ==
    /\ mem_end \in Nat /\ line \in Nat /\ keys \in 0 .. MaxKeys
    /\ mem_end + (MaxKeys - keys) * (Prompt + 1) < LIMIT
    /\ line + Prompt <= mem_end
    /\ con_memory \in [0 .. LIMIT - 1 -> Kinds]
    /\ \A i \in 0 .. LIMIT - 1 :
          /\ con_memory[i] = "nul" <=> i >= mem_end
          /\ i \in mem_end - line - Prompt .. mem_end - 1 => con_memory[i] = "glyph"

\* The loop and the grid.
LoopType ==
    /\ max_rows \in Nat \ {0} /\ max_cols \in Nat \ {0}
    /\ c \in Nat /\ start \in Nat /\ row \in Nat /\ col \in Nat
    /\ row < max_rows
    /\ disturbed \in BOOLEAN /\ scrolled \in BOOLEAN

\* Behind a tab; behind one on the same line, as long as no key has been struck.
BehindTab(i) ==
    \E j \in 0 .. i - 1 :
        /\ Char(j) = "tab"
        /\ disturbed \/ \A k \in j .. i - 1 : Char(k) # "newline"

\* Right of the grid, and what is drawn there.
TabsOnly ==
    /\ col >= max_cols => BehindTab(c)
    /\ \A cell \in DOMAIN screen :
          /\ cell \in Nat \X Nat /\ cell[1] < max_rows
          /\ screen[cell] \in Nat
          /\ cell[2] >= max_cols =>
                BehindTab(screen[cell]) /\ (disturbed \/ Char(screen[cell]) # "newline")

\* A row may hold the rest of the text when its first line is skipped.
SmallGrid == ~ (max_rows > 2 \/ (max_rows = 2 /\ max_cols > 1))

\* How far c is from start, and from the line that would be skipped.
Near ==
    NoTab =>
        /\ c <= First + row * max_cols + col
        /\ row = 0 => c = First + col
        /\ ~ disturbed =>
              /\ row > 0 => SkipLine + row + col <= c + 1 + IF scrolled THEN 0 ELSE 1
              /\ c <= mem_end \/ (SmallGrid /\ start >= mem_end)
              /\ pc = "draw" => c # mem_end
              /\ pc \in {"cursor", "drawn"} => c = mem_end

\* What has been drawn: the glyphs up to c, each in its cell.
Drawn ==
    NoTab /\ ~ disturbed /\ c <= mem_end =>
        /\ First <= c /\ <<row, col>> = Cell(First, c)
        /\ screen = [cell \in DOMAIN screen |-> screen[cell]]
        /\ \A cell \in DOMAIN screen :
              /\ cell[1] < row \/ (cell[1] = row /\ cell[2] < col)
              /\ screen[cell] \in First .. c - 1
              /\ con_memory[screen[cell]] = "glyph"
              /\ Cell(First, screen[cell]) = cell
        /\ \A i \in First .. c - 1 :
              con_memory[i] = "glyph" =>
                  Cell(First, i) \in DOMAIN screen /\ screen[Cell(First, i)] = i
        /\ scrolled => Cell(Max({0, start - 1 - max_cols}), mem_end)[1] >= max_rows
        /\ pc = "drawn" => cursor = <<row, col>>

IInv == TextInv /\ LoopType /\ TabsOnly /\ Near /\ Drawn

\* What the proofs use of the assumption.
LEMMA Constants ==
    /\ TAB_WDITH \in Nat /\ MaxKeys \in Nat /\ LIMIT \in Nat /\ Prompt \in Nat \ {0}
    /\ \A t \in Texts : /\ t \in Seq({"glyph", "newline", "tab"})
                        /\ Len(t) + Prompt + MaxKeys * (Prompt + 1) < LIMIT
    /\ \A g \in Grids : g[1] \in Nat \ {0} /\ g[2] \in Nat \ {0}
<1>1. Kinds \ {"nul"} = {"glyph", "newline", "tab"}
  BY DEF Kinds
<1>2. QED
  BY <1>1, RedrawAssumption

\* Without a tab nothing is right of the grid.
LEMMA NoTabNoExcess ==
    ASSUME TextInv, LoopType, TabsOnly, NoTab
    PROVE  /\ col < max_cols
           /\ \A cell \in DOMAIN screen : cell \in Cells
<1>1. \A j \in Nat : Char(j) # "tab"
  BY Constants DEF TextInv, NoTab, Char
<1>2. \A i \in Nat : ~ BehindTab(i)
  BY <1>1 DEF BehindTab
<1>3. col < max_cols
  BY <1>2 DEF LoopType, TabsOnly
<1>4. ASSUME NEW cell \in DOMAIN screen PROVE cell \in Cells
  <2>1. cell \in Nat \X Nat /\ cell[1] < max_rows /\ screen[cell] \in Nat
    BY DEF TabsOnly
  <2>2. cell[2] < max_cols
    BY <1>2, <2>1 DEF TabsOnly, LoopType
  <2>3. PICK x \in Nat, y \in Nat : cell = <<x, y>> /\ x < max_rows /\ y < max_cols
    BY <2>1, <2>2
  <2>4. x \in 0 .. max_rows - 1 /\ y \in 0 .. max_cols - 1
    BY <2>3 DEF LoopType
  <2>5. QED
    BY <2>3, <2>4 DEF Cells
<1>5. QED
  BY <1>3, <1>4

------------------------------------------------------------------------------
(* The first state.                                                         *)

\* Before the first drawing.
LEMMA InitIInv == Init => IInv
<1> SUFFICES ASSUME Init PROVE IInv
  OBVIOUS
<1>1. PICK t \in Texts :
          /\ con_memory = [i \in 0 .. LIMIT - 1 |->
                IF i < Len(t) THEN t[i + 1]
                ELSE IF i < Len(t) + Prompt THEN "glyph" ELSE "nul"]
          /\ mem_end = Len(t) + Prompt
  BY DEF Init
<1>2. PICK g \in Grids : max_rows = g[1] /\ max_cols = g[2]
  BY DEF Init
<1>3. /\ line = 0 /\ pc = "idle" /\ c = 0 /\ start = 0 /\ row = 0 /\ col = 0
      /\ screen = <<>> /\ scrolled = FALSE /\ disturbed = FALSE /\ keys = 0
  BY DEF Init
<1>4. PICK n \in Nat : n = Len(t) /\ \A k \in 1 .. n : t[k] \in {"glyph", "newline", "tab"}
  BY Constants
<1>5. max_rows \in Nat \ {0} /\ max_cols \in Nat \ {0}
  BY <1>2, Constants
<1>6. TextInv
  <2>1. PICK x \in Nat : x = MaxKeys * (Prompt + 1)
    BY Constants
  <2>2. mem_end \in Nat /\ mem_end = n + Prompt /\ mem_end + x < LIMIT
    BY <1>1, <1>4, <2>1, Constants
  <2>3. mem_end + (MaxKeys - keys) * (Prompt + 1) < LIMIT
    BY <1>3, <2>1, <2>2, Constants
  <2>4. \A i \in 0 .. LIMIT - 1 :
            con_memory[i] = IF i < n THEN t[i + 1] ELSE IF i < n + Prompt THEN "glyph" ELSE "nul"
    BY <1>1, <1>4
  <2>5. \A i \in 0 .. LIMIT - 1 : i < n => t[i + 1] \in {"glyph", "newline", "tab"}
    BY <1>4
  <2>6. con_memory \in [0 .. LIMIT - 1 -> Kinds]
    <3>1. \A i \in 0 .. LIMIT - 1 : con_memory[i] \in Kinds
      BY <2>4, <2>5 DEF Kinds
    <3>2. QED
      BY <1>1, <3>1
  <2>7. \A i \in 0 .. LIMIT - 1 :
            /\ con_memory[i] = "nul" <=> i >= mem_end
            /\ i \in mem_end - line - Prompt .. mem_end - 1 => con_memory[i] = "glyph"
    <3> TAKE i \in 0 .. LIMIT - 1
    <3>1. con_memory[i] = IF i < n THEN t[i + 1] ELSE IF i < n + Prompt THEN "glyph" ELSE "nul"
      BY <2>4
    <3>2. i < n => con_memory[i] \in {"glyph", "newline", "tab"}
      BY <2>5, <3>1
    <3>3. i \in Nat /\ Prompt \in Nat \ {0} /\ mem_end = n + Prompt /\ line = 0
      BY <1>3, <2>2, Constants
    <3>4. con_memory[i] = "nul" <=> i >= mem_end
      BY <3>1, <3>2, <3>3
    <3>5. i \in mem_end - line - Prompt .. mem_end - 1 => con_memory[i] = "glyph"
      BY <3>1, <3>3
    <3>6. QED
      BY <3>4, <3>5
  <2>8. QED
    BY <1>3, <2>2, <2>3, <2>6, <2>7, Constants DEF TextInv
<1>7. LoopType
  <2>1. disturbed \in BOOLEAN /\ scrolled \in BOOLEAN
    BY <1>3, Zenon
  <2>2. QED
    BY <1>3, <1>5, <2>1 DEF LoopType
<1>8. TabsOnly
  BY <1>3, <1>5 DEF TabsOnly
<1>9. Near
  BY <1>3, <1>5, <1>6 DEF Near, First, TextInv
<1>10. Drawn
  <2>1. Cell(0, 0) = <<0, 0>>
    BY <1>5, FirstCell, CellType
  <2>2. QED
    BY <1>3, <2>1 DEF Drawn, First
<1>11. QED
  BY <1>6, <1>7, <1>8, <1>9, <1>10 DEF IInv

------------------------------------------------------------------------------
(* The keyboard interrupt.                                                  *)

\* A key changes what is behind the prompt only, where no tab is, and makes a
\* drawing that is under way a disturbed one.
LEMMA KeyKeeps ==
    ASSUME IInv, KeyStruck, TextInv',
           \A i \in 0 .. LIMIT - 1 : con_memory'[i] = "tab" <=> con_memory[i] = "tab"
    PROVE  IInv'
<1>1. /\ disturbed' = TRUE
      /\ UNCHANGED <<max_rows, max_cols, pc, c, start, row, col, screen, scrolled>>
  BY DEF KeyStruck, grid, place
<1>2. \A i \in Nat : Char(i)' = "tab" <=> Char(i) = "tab"
  BY Constants DEF Char
<1>3. LoopType'
  <2>1. disturbed' \in BOOLEAN
    BY <1>1, Zenon
  <2>2. QED
    BY <1>1, <2>1 DEF IInv, LoopType
<1>4. \A i \in Nat : BehindTab(i) => BehindTab(i)'
  BY <1>1, <1>2 DEF BehindTab
<1>5. TabsOnly'
  <2>1. col' >= max_cols' => BehindTab(c)'
    <3>1. c \in Nat /\ c' = c /\ (col >= max_cols => BehindTab(c))
      BY <1>1 DEF IInv, TabsOnly, LoopType
    <3>2. BehindTab(c) => BehindTab(c)'
      BY <1>1, <1>2, <3>1 DEF BehindTab
    <3>3. QED
      BY <1>1, <3>1, <3>2
  <2>2. ASSUME NEW cell \in DOMAIN screen'
        PROVE  /\ cell \in Nat \X Nat /\ cell[1] < max_rows'
               /\ screen'[cell] \in Nat
               /\ cell[2] >= max_cols' => BehindTab(screen[cell])'
    <3>1. cell \in DOMAIN screen /\ screen'[cell] = screen[cell]
      BY <1>1
    <3>2. PICK i \in Nat : i = screen[cell] /\ (cell[2] >= max_cols => BehindTab(i))
      BY <3>1 DEF IInv, TabsOnly
    <3>3. cell[2] >= max_cols' => BehindTab(i)'
      BY <1>1, <1>4, <3>2
    <3>4. QED
      BY <1>1, <3>1, <3>2, <3>3 DEF IInv, TabsOnly, BehindTab
  <2>3. QED
    BY <1>1, <2>1, <2>2 DEF TabsOnly
<1>6. NoTab' => NoTab
  <2>1. DOMAIN con_memory = 0 .. LIMIT - 1 /\ DOMAIN con_memory' = 0 .. LIMIT - 1
    BY DEF IInv, TextInv
  <2>2. QED
    BY <2>1 DEF NoTab
<1>7. Near'
  BY <1>1, <1>6 DEF IInv, Near, First
<1>8. Drawn'
  BY <1>1 DEF Drawn
<1>9. QED
  BY <1>3, <1>5, <1>7, <1>8 DEF IInv

\* What kprintf does to the text when there is room.
LEMMA Printed ==
    ASSUME TextInv, KeyStruck, NEW n \in Nat, NEW str, Len(str) = n,
           n \in 1 .. Prompt + 1, str[1] \in {"glyph", "newline"},
           \A k \in 2 .. n : str[k] = "glyph",
           kprintf(str),
           \/ line' = line + 1 /\ n = 1 /\ str[1] = "glyph"
           \/ line' = 0 /\ n = Prompt + 1
    PROVE  /\ TextInv'
           /\ \A i \in 0 .. LIMIT - 1 : con_memory'[i] = "tab" <=> con_memory[i] = "tab"
<1>1. /\ mem_end' = mem_end + n /\ keys < MaxKeys /\ keys' = keys + 1
      /\ con_memory' = [i \in DOMAIN con_memory |->
            IF i \in mem_end .. mem_end + n - 1 THEN str[i - mem_end + 1] ELSE con_memory[i]]
  BY DEF kprintf, KeyStruck
<1>2. DOMAIN con_memory = 0 .. LIMIT - 1 /\ con_memory \in [0 .. LIMIT - 1 -> Kinds]
  BY DEF TextInv
<1>3. /\ mem_end \in Nat /\ line \in Nat /\ keys \in 0 .. MaxKeys /\ line + Prompt <= mem_end
      /\ mem_end + (MaxKeys - keys) * (Prompt + 1) < LIMIT
  BY DEF TextInv
<1>4. \A i \in 0 .. LIMIT - 1 :
          con_memory'[i] = IF i \in mem_end .. mem_end + n - 1 THEN str[i - mem_end + 1]
                           ELSE con_memory[i]
  BY <1>1, <1>2
<1>5. \A i \in mem_end .. mem_end + n - 1 :
          str[i - mem_end + 1] \in {"glyph", "newline"} /\ (i > mem_end => str[i - mem_end + 1] = "glyph")
  <2> TAKE i \in mem_end .. mem_end + n - 1
  <2>1. PICK k \in 1 .. n : k = i - mem_end + 1 /\ (i > mem_end => k \in 2 .. n)
    BY <1>3
  <2>2. QED
    BY <2>1
<1>6. mem_end' + (MaxKeys - keys') * (Prompt + 1) < LIMIT
  <2>1. PICK a \in Nat : a = MaxKeys - keys - 1
    BY <1>1, <1>3, Constants
  <2>2. PICK b \in Nat : b = Prompt + 1
    BY Constants
  <2>3. (a + 1) * b = a * b + b
    BY <2>1, <2>2
  <2>4. PICK x \in Nat : x = a * b
    BY <2>1, <2>2
  <2>5. MaxKeys - keys = a + 1 /\ MaxKeys - keys' = a
    BY <1>1, <1>3, <2>1, Constants
  <2>6. mem_end + (x + b) < LIMIT
    BY <1>3, <2>2, <2>3, <2>4, <2>5
  <2>7. QED
    BY <1>1, <1>3, <2>2, <2>4, <2>5, <2>6, Constants
<1>7. con_memory' \in [0 .. LIMIT - 1 -> Kinds]
  <2>1. \A i \in 0 .. LIMIT - 1 : con_memory'[i] \in Kinds
    BY <1>2, <1>4, <1>5 DEF Kinds
  <2>2. QED
    BY <1>1, <1>2, <2>1
<1>8. \A i \in 0 .. LIMIT - 1 :
          /\ con_memory'[i] = "nul" <=> i >= mem_end'
          /\ i \in mem_end' - line' - Prompt .. mem_end' - 1 => con_memory'[i] = "glyph"
  <2> TAKE i \in 0 .. LIMIT - 1
  <2>1. /\ con_memory[i] = "nul" <=> i >= mem_end
        /\ i \in mem_end - line - Prompt .. mem_end - 1 => con_memory[i] = "glyph"
    BY DEF TextInv
  <2>2. CASE i \in mem_end .. mem_end + n - 1
    <3>1. con_memory'[i] \in {"glyph", "newline"} /\ (i > mem_end => con_memory'[i] = "glyph")
      BY <1>4, <1>5, <2>2
    <3>2. i = mem_end => con_memory'[i] = str[1]
      BY <1>3, <1>4, <2>2
    <3>3. i < mem_end'
      BY <1>1, <1>3, <2>2
    <3>4. i \in mem_end' - line' - Prompt .. mem_end' - 1 => i > mem_end \/ str[1] = "glyph"
      BY <1>1, <1>3, <2>2, Constants
    <3>5. QED
      BY <1>1, <1>3, <2>2, <3>1, <3>2, <3>3, <3>4
  <2>3. CASE i \notin mem_end .. mem_end + n - 1
    <3>1. con_memory'[i] = con_memory[i]
      BY <1>4, <2>3
    <3>2. i \in mem_end' - line' - Prompt .. mem_end' - 1 => i \in mem_end - line - Prompt .. mem_end - 1
      BY <1>1, <1>3, <2>3, Constants
    <3>3. i >= mem_end <=> i >= mem_end'
      BY <1>1, <1>3, <2>3
    <3>4. QED
      BY <2>1, <3>1, <3>2, <3>3
  <2>4. QED
    BY <2>2, <2>3
<1>9. TextInv'
  BY <1>1, <1>3, <1>6, <1>7, <1>8, Constants DEF TextInv
<1>10. \A i \in 0 .. LIMIT - 1 : con_memory'[i] = "tab" <=> con_memory[i] = "tab"
  <2> TAKE i \in 0 .. LIMIT - 1
  <2>1. CASE i \in mem_end .. mem_end + n - 1
    <3>1. con_memory'[i] \in {"glyph", "newline"}
      BY <1>4, <1>5, <2>1
    <3>2. con_memory[i] = "nul"
      BY <1>3, <2>1 DEF TextInv
    <3>3. QED
      BY <3>1, <3>2
  <2>2. CASE i \notin mem_end .. mem_end + n - 1
    BY <1>4, <2>2
  <2>3. QED
    BY <2>1, <2>2
<1>11. QED
  BY <1>9, <1>10

\* Every key preserves the invariant.
LEMMA KeyIInv ==
    ASSUME IInv, type_char \/ enter \/ backspace
    PROVE  IInv'
<1>0. TextInv
  BY DEF IInv
<1>1. CASE type_char
  <2> DEFINE str == <<"glyph">>
  <2>1. KeyStruck /\ kprintf(str) /\ line' = line + 1
    BY <1>1 DEF type_char
  <2>2. Len(str) = 1 /\ str[1] = "glyph" /\ 1 \in 1 .. Prompt + 1
    BY Constants
  <2> HIDE DEF str
  <2>3. \A k \in 2 .. 1 : str[k] = "glyph"
    OBVIOUS
  <2>4. /\ TextInv'
        /\ \A i \in 0 .. LIMIT - 1 : con_memory'[i] = "tab" <=> con_memory[i] = "tab"
    BY ONLY <1>0, <2>1, <2>2, <2>3, Printed
  <2>5. QED
    BY <2>1, <2>4, KeyKeeps
<1>2. CASE enter
  <2> DEFINE str == <<"newline">> \o [i \in 1 .. Prompt |-> "glyph"]
  <2>1. KeyStruck /\ kprintf(str) /\ line' = 0
    BY <1>2 DEF enter
  <2>2. /\ Len(str) = Prompt + 1 /\ str[1] = "newline"
        /\ \A k \in 2 .. Prompt + 1 : str[k] = "glyph"
    <3> DEFINE s == <<"newline">>
               t == [i \in 1 .. Prompt |-> "glyph"]
    <3>1. Prompt \in Nat
      BY Constants
    <3>2. s \in Seq(Kinds) /\ Len(s) = 1 /\ s[1] = "newline"
      BY DEF Kinds
    <3>3. t \in [1 .. Prompt -> Kinds] /\ \A i \in 1 .. Prompt : t[i] = "glyph"
      BY DEF Kinds
    <3> HIDE DEF s, t
    <3>4. t \in Seq(Kinds) /\ Len(t) = Prompt
      BY <3>1, <3>3
    <3>5. /\ Len(s \o t) = Prompt + 1 /\ (s \o t)[1] = "newline"
          /\ \A k \in 2 .. Prompt + 1 : (s \o t)[k] = "glyph"
      <4>1. /\ Len(s \o t) = Len(s) + Len(t)
            /\ \A i \in 1 .. Len(s) + Len(t) :
                  (s \o t)[i] = IF i <= Len(s) THEN s[i] ELSE t[i - Len(s)]
        BY <3>2, <3>4, ConcatProperties
      <4>2. \A k \in 2 .. Prompt + 1 : k - 1 \in 1 .. Prompt
        BY <3>1
      <4>3. QED
        BY <3>1, <3>2, <3>3, <3>4, <4>1, <4>2
    <3>6. str = s \o t
      BY DEF s, t
    <3>7. QED
      BY <3>5, <3>6
  <2> HIDE DEF str
  <2>3. Prompt + 1 \in Nat /\ Prompt + 1 \in 1 .. Prompt + 1 /\ str[1] \in {"glyph", "newline"}
    BY <2>2, Constants
  <2>4. /\ TextInv'
        /\ \A i \in 0 .. LIMIT - 1 : con_memory'[i] = "tab" <=> con_memory[i] = "tab"
    BY ONLY <1>0, <2>1, <2>2, <2>3, Printed
  <2>5. QED
    BY <2>1, <2>4, KeyKeeps
<1>3. CASE backspace
  <2>1. /\ KeyStruck /\ line > 0 /\ line' = line - 1 /\ mem_end' = mem_end - 1
        /\ con_memory' = [con_memory EXCEPT ![mem_end - 1] = "nul"]
        /\ keys < MaxKeys /\ keys' = keys + 1
    BY <1>3 DEF backspace, KeyStruck
  <2>2. /\ mem_end \in Nat /\ line \in Nat /\ keys \in 0 .. MaxKeys /\ line + Prompt <= mem_end
        /\ mem_end + (MaxKeys - keys) * (Prompt + 1) < LIMIT
        /\ con_memory \in [0 .. LIMIT - 1 -> Kinds]
    BY <1>0 DEF TextInv
  <2>3. PICK x \in Nat, y \in Nat : /\ x = (MaxKeys - keys) * (Prompt + 1)
                                    /\ y = (MaxKeys - keys') * (Prompt + 1) /\ y <= x
    <3>1. PICK a \in Nat : a = MaxKeys - keys - 1
      BY <2>1, <2>2, Constants
    <3>2. PICK b \in Nat : b = Prompt + 1
      BY Constants
    <3>3. (a + 1) * b = a * b + b
      BY <3>1, <3>2
    <3>4. PICK z \in Nat : z = a * b
      BY <3>1, <3>2
    <3>5. MaxKeys - keys = a + 1 /\ MaxKeys - keys' = a
      BY <2>1, <2>2, <3>1, Constants
    <3>6. QED
      BY <3>2, <3>3, <3>4, <3>5
  <2>4. mem_end - 1 \in 0 .. LIMIT - 1
    BY <2>1, <2>2, <2>3, Constants
  <2>5. \A i \in 0 .. LIMIT - 1 :
            con_memory'[i] = IF i = mem_end - 1 THEN "nul" ELSE con_memory[i]
    BY <2>1, <2>2
  <2>6. con_memory' \in [0 .. LIMIT - 1 -> Kinds]
    BY <2>1, <2>2 DEF Kinds
  <2>7. con_memory[mem_end - 1] = "glyph"
    BY <1>0, <2>2, <2>4, Constants DEF TextInv
  <2>8. \A i \in 0 .. LIMIT - 1 :
            /\ con_memory'[i] = "nul" <=> i >= mem_end'
            /\ i \in mem_end' - line' - Prompt .. mem_end' - 1 => con_memory'[i] = "glyph"
    <3> TAKE i \in 0 .. LIMIT - 1
    <3>1. /\ con_memory[i] = "nul" <=> i >= mem_end
          /\ i \in mem_end - line - Prompt .. mem_end - 1 => con_memory[i] = "glyph"
      BY <1>0 DEF TextInv
    <3>2. QED
      BY <2>1, <2>2, <2>5, <3>1, Constants
  <2>9. mem_end' \in Nat /\ line' \in Nat /\ keys' \in 0 .. MaxKeys /\ line' + Prompt <= mem_end'
    BY <2>1, <2>2, Constants
  <2>10. mem_end' + (MaxKeys - keys') * (Prompt + 1) < LIMIT
    BY <2>1, <2>2, <2>3, Constants
  <2>11. TextInv'
    BY <2>6, <2>8, <2>9, <2>10 DEF TextInv
  <2>12. \A i \in 0 .. LIMIT - 1 : con_memory'[i] = "tab" <=> con_memory[i] = "tab"
    BY <2>5, <2>7
  <2>13. QED
    BY <2>1, <2>11, <2>12, KeyKeeps
<1>4. QED
  BY <1>1, <1>2, <1>3

------------------------------------------------------------------------------
(* The loop.                                                                *)

\* The layout is of the text and the width of the grid only.
LEMMA CellKept ==
    ASSUME UNCHANGED <<con_memory, max_cols>>, NEW f, NEW i
    PROVE  Cell(f, i)' = Cell(f, i)
<1>1. con_memory' = con_memory /\ max_cols' = max_cols
  OBVIOUS
<1>2. \A k : LineOf(f, k)' = LineOf(f, k)
  BY <1>1, Zenon DEF LineOf
<1>3. \A k : Column0(f, k)' = Column0(f, k)
  BY <1>1, <1>2, Zenon DEF Column0
<1>4. RowEnds(f, i)' = RowEnds(f, i)
  BY <1>1, <1>3 DEF RowEnds
<1>5. QED
  BY <1>3, <1>4, Zenon DEF Cell

\* The loop leaves the text alone.
LEMMA TextKept ==
    ASSUME TextInv, UNCHANGED <<con_memory, mem_end, line, keys>>
    PROVE  TextInv' /\ (NoTab' <=> NoTab) /\ \A i : Char(i)' = Char(i)
BY DEF TextInv, NoTab, Char

\* And what is behind a tab stays behind it.
LEMMA BehindKept ==
    ASSUME UNCHANGED <<con_memory, disturbed>>, NEW i
    PROVE  BehindTab(i)' <=> BehindTab(i)
<1>1. \A k : Char(k)' = Char(k)
  BY DEF Char
<1>2. QED
  BY <1>1, Zenon DEF BehindTab

\* Where the line after that at start begins.
LEMMA SkipLineIs ==
    ASSUME max_cols \in Nat \ {0}, start \in Nat
    PROVE  /\ SkipLine \in start + 1 .. start + 1 + max_cols
           /\ \A k \in 0 .. max_cols : Char(start + k) = "newline" => SkipLine <= start + 1 + k
<1> DEFINE S == {k \in 0 .. max_cols : k = max_cols \/ Char(start + k) = "newline"}
<1>1. S \in SUBSET (0 .. max_cols) /\ max_cols \in S
  OBVIOUS
<1>2. \A k \in 0 .. max_cols : Char(start + k) = "newline" => k \in S
  OBVIOUS
<1>3. SkipLine = start + 1 + Min(S)
  BY DEF SkipLine
<1> HIDE DEF S
<1>4. S \in SUBSET Nat /\ S # {}
  BY <1>1
<1>5. PICK m \in 0 .. max_cols : m = Min(S) /\ \A k \in S : m <= k
  BY <1>1, <1>4, SmallestExists
<1>6. QED
  BY <1>2, <1>3, <1>5

\* The larger of a number and zero.
LEMMA NotBelowZero ==
    ASSUME NEW x \in Int
    PROVE  Max({0, x}) = IF x > 0 THEN x ELSE 0
<1>1. PICK m \in {0, x} : m = (IF x > 0 THEN x ELSE 0) /\ \A y \in {0, x} : m >= y
  OBVIOUS
<1>2. \A n \in {0, x} : (\A y \in {0, x} : n >= y) => n = m
  BY <1>1
<1>3. Max({0, x}) \in {0, x} /\ \A y \in {0, x} : Max({0, x}) >= y
  BY <1>1, Zenon DEF Max
<1>4. QED
  BY <1>1, <1>2, <1>3

\* A step that moves nothing but pc and the cursor.
LEMMA QuietIInv ==
    ASSUME IInv,
           UNCHANGED <<text, grid, place, screen, scrolled, disturbed, keys>>,
           NoTab /\ ~ disturbed =>
               /\ pc' = "draw" => c # mem_end
               /\ pc' \in {"cursor", "drawn"} => c = mem_end
               /\ pc' = "drawn" => cursor' = <<row, col>>
    PROVE  IInv'
<1>1. UNCHANGED <<con_memory, mem_end, line, max_rows, max_cols, c, start, row, col, screen,
                  scrolled, disturbed, keys>>
  BY DEF text, grid, place
<1>2. TextInv' /\ (NoTab' <=> NoTab) /\ \A i : Char(i)' = Char(i)
  BY <1>1, TextKept DEF IInv
<1>3. LoopType'
  BY <1>1 DEF IInv, LoopType
<1>4. TabsOnly'
  <2>1. \A i : BehindTab(i)' <=> BehindTab(i)
    BY <1>1, BehindKept
  <2>2. QED
    BY <1>1, <1>2, <2>1 DEF IInv, TabsOnly
<1>5. SkipLine' = SkipLine /\ First' = First /\ (SmallGrid' <=> SmallGrid)
  BY <1>1, <1>2 DEF SkipLine, First, SmallGrid
<1>6. Near'
  BY <1>1, <1>2, <1>5 DEF IInv, Near
<1>7. Drawn'
  <2>1. \A f, i : Cell(f, i)' = Cell(f, i)
    BY <1>1, CellKept
  <2>2. QED
    BY <1>1, <1>2, <1>5, <2>1 DEF IInv, Drawn
<1>8. QED
  BY <1>2, <1>3, <1>4, <1>6, <1>7 DEF IInv

\* A drawing begins with an empty grid, within the text.
LEMMA BeginIInv ==
    ASSUME IInv, console_loop
    PROVE  IInv'
<1>1. /\ UNCHANGED <<con_memory, mem_end, line, max_rows, max_cols, keys>>
      /\ row' = 0 /\ col' = 0 /\ pc' = "test" /\ screen' = <<>>
      /\ c' = FirstLine /\ start' = FirstLine /\ scrolled' = FALSE /\ disturbed' = FALSE
  BY DEF console_loop, text, grid, fill_screen
<1>2. TextInv' /\ mem_end \in Nat
  BY <1>1, TextKept DEF IInv, TextInv
<1>3. max_rows \in Nat \ {0} /\ max_cols \in Nat \ {0}
  BY DEF IInv, LoopType
<1>4. PICK f \in 0 .. mem_end : f = c' /\ f = start' /\ f = First'
  BY <1>1, <1>2, <1>3, FirstLineInText DEF First
<1>5. LoopType'
  <2>1. disturbed' \in BOOLEAN /\ scrolled' \in BOOLEAN
    BY <1>1, Zenon
  <2>2. QED
    BY <1>1, <1>3, <1>4, <2>1 DEF LoopType
<1>6. TabsOnly'
  BY <1>1, <1>3 DEF TabsOnly
<1>7. Near'
  <2>1. PICK m \in Nat : m = max_cols'
    BY <1>1, <1>3
  <2>2. f <= mem_end' /\ pc' = "test"
    BY <1>1, <1>4
  <2>3. c' <= First' + row' * max_cols' + col' /\ c' = First' + col'
    <3>1. f <= f + 0 * m + 0 /\ f = f + 0
      <4>1. f \in Nat
        BY <1>2, <1>4
      <4>2. 0 * m = 0
        OBVIOUS
      <4>3. QED
        BY <4>1, <4>2
    <3>2. QED
      BY <1>1, <1>4, <2>1, <3>1, Zenon
  <2>4. ~ (row' > 0)
    BY <1>1
  <2>5. c' <= mem_end'
    BY <1>4, <2>2
  <2>6. QED
    BY <2>2, <2>3, <2>4, <2>5, Zenon DEF Near
<1>8. Drawn'
  <2>1. Cell(f, f)' = <<0, 0>>
    <3>1. f \in Nat
      BY <1>2, <1>4
    <3>2. Cell(f, f) = <<0, 0>>
      BY <1>3, <3>1, FirstCell, CellType
    <3>3. Cell(f, f)' = Cell(f, f)
      BY <1>1, CellKept
    <3>4. QED
      BY <3>2, <3>3
  <2>2. QED
    <3>1. DOMAIN screen' = {} /\ screen' = [cell \in DOMAIN screen' |-> screen'[cell]]
      BY <1>1
    <3>2. f .. f - 1 = {}
      <4>1. f \in Nat
        BY <1>2, <1>4
      <4>2. QED
        BY ONLY <4>1
    <3>3. First' <= c' /\ <<row', col'>> = Cell(First, c)'
      BY <1>1, <1>2, <1>4, <2>1
    <3>4. ~ scrolled' /\ pc' = "test"
      BY <1>1
    <3>5. QED
      BY <1>4, <3>1, <3>2, <3>3, <3>4 DEF Drawn
<1>9. QED
  BY <1>2, <1>5, <1>6, <1>7, <1>8 DEF IInv

\* The column of the next character, and the end of a row: by more than one
\* only over a tab, and with no tab in the text never past the grid.
LEMMA ColumnIs ==
    ASSUME LoopType
    PROVE  /\ Column \in Nat /\ Column > col
           /\ Char(c) # "tab" => Column = col + 1
<1>1. CASE Char(c) = "tab"
  BY <1>1, Constants DEF LoopType, Column
<1>2. CASE Char(c) # "tab"
  BY <1>2 DEF LoopType, Column
<1>3. QED
  BY <1>1, <1>2

\* A character drawn to the right of the grid is behind a tab.
LEMMA AdvanceTabs ==
    ASSUME IInv, draw \/ next_row
    PROVE  TabsOnly'
<1>1. /\ UNCHANGED <<con_memory, max_rows, max_cols, disturbed>>
      /\ c' = c + 1 /\ screen' = draw_char
      /\ \/ ~ EndsRow /\ col' = Column
         \/ EndsRow /\ col' = 0
  BY DEF draw, next_row, text, grid
<1>2. /\ max_rows \in Nat \ {0} /\ max_cols \in Nat \ {0} /\ c \in Nat /\ row \in Nat /\ col \in Nat
      /\ row < max_rows
  BY DEF IInv, LoopType
<1>3. \A i : BehindTab(i)' <=> BehindTab(i)
  BY <1>1, BehindKept
<1>4. \A i : Char(i)' = Char(i)
  BY <1>1 DEF Char
<1>5. col' >= max_cols => BehindTab(c + 1)
  <2>1. SUFFICES ASSUME ~ EndsRow, Column >= max_cols PROVE BehindTab(c + 1)
    BY <1>1, <1>2
  <2>2. Char(c) # "newline" /\ Column # max_cols
    BY <2>1 DEF EndsRow
  <2>3. CASE Char(c) = "tab"
    <3>1. c \in 0 .. (c + 1) - 1 /\ \A k \in c .. (c + 1) - 1 : k = c
      BY <1>2
    <3>2. QED
      BY <2>2, <2>3, <3>1 DEF BehindTab
  <2>4. CASE Char(c) # "tab"
    <3>1. col >= max_cols
      BY <1>2, <2>1, <2>2, <2>4, ColumnIs DEF IInv
    <3>2. PICK j \in 0 .. c - 1 : /\ Char(j) = "tab"
                                  /\ disturbed \/ \A k \in j .. c - 1 : Char(k) # "newline"
      BY <3>1 DEF IInv, TabsOnly, BehindTab
    <3>3. j \in 0 .. (c + 1) - 1 /\ \A k \in j .. (c + 1) - 1 : k = c \/ k \in j .. c - 1
      BY <1>2, <3>2
    <3>4. QED
      BY <2>2, <3>2, <3>3 DEF BehindTab
  <2>5. QED
    BY <2>3, <2>4
<1>6. ASSUME NEW cell \in DOMAIN screen'
      PROVE  /\ cell \in Nat \X Nat /\ cell[1] < max_rows
             /\ screen'[cell] \in Nat
             /\ cell[2] >= max_cols =>
                   BehindTab(screen'[cell]) /\ (disturbed \/ Char(screen'[cell]) # "newline")
  <2>1. \/ screen' = screen
        \/ /\ Char(c) # "newline"
           /\ screen' = [x \in DOMAIN screen \cup {<<row, col>>} |->
                            IF x = <<row, col>> THEN c ELSE screen[x]]
    BY <1>1 DEF draw_char
  <2>2. CASE cell \in DOMAIN screen /\ screen'[cell] = screen[cell]
    BY <2>2 DEF IInv, TabsOnly
  <2>3. CASE cell = <<row, col>> /\ screen'[cell] = c /\ Char(c) # "newline"
    BY <1>2, <2>3 DEF IInv, TabsOnly
  <2>4. QED
    BY <2>1, <2>2, <2>3
<1>7. (col >= max_cols => BehindTab(c))'
  <2>1. PICK d \in Nat : d = c + 1 /\ d = c'
    BY <1>1, <1>2
  <2>2. col' >= max_cols' => BehindTab(d)'
    BY <1>1, <1>3, <1>5, <2>1
  <2>3. QED
    BY <2>1, <2>2
<1>8. ASSUME NEW cell \in DOMAIN screen'
      PROVE  (cell[2] >= max_cols =>
                 BehindTab(screen[cell]) /\ (disturbed \/ Char(screen[cell]) # "newline"))'
  <2>1. PICK d : d = screen'[cell]
    OBVIOUS
  <2>2. cell[2] >= max_cols' => BehindTab(d)' /\ (disturbed' \/ Char(d)' # "newline")
    BY <1>1, <1>3, <1>4, <1>6, <2>1
  <2>3. QED
    BY <2>1, <2>2
<1>9. QED
  BY <1>1, <1>6, <1>7, <1>8 DEF TabsOnly

\* Where the loop is, one character on.
LEMMA AdvanceNear ==
    ASSUME IInv, draw \/ next_row
    PROVE  Near'
<1>1. /\ UNCHANGED <<con_memory, mem_end, line, keys, max_rows, max_cols, start, scrolled, disturbed>>
      /\ c' = c + 1 /\ pc = "draw" /\ pc' = "test"
      /\ \/ ~ EndsRow /\ col' = Column /\ row' = row
         \/ EndsRow /\ col' = 0 /\ row' = row + 1
  BY DEF draw, next_row, text, grid
<1>2. /\ max_rows \in Nat \ {0} /\ max_cols \in Nat \ {0} /\ c \in Nat /\ row \in Nat /\ col \in Nat
      /\ start \in Nat
  BY DEF IInv, LoopType
<1>3. TextInv /\ (NoTab' <=> NoTab) /\ \A i : Char(i)' = Char(i)
  BY <1>1, TextKept DEF IInv
<1>4. SkipLine' = SkipLine /\ First' = First /\ (SmallGrid' <=> SmallGrid)
  BY <1>1, <1>3 DEF SkipLine, First, SmallGrid
<1> SUFFICES ASSUME NoTab PROVE Near'
  BY <1>3 DEF Near
<1>5. col < max_cols /\ Char(c) # "tab"
  <2>1. col < max_cols
    BY NoTabNoExcess DEF IInv
  <2>2. Char(c) # "tab"
    BY <1>2, <1>3, Constants DEF TextInv, NoTab, Char
  <2>3. QED
    BY <2>1, <2>2
<1>6. Column = col + 1
  BY <1>5, ColumnIs DEF IInv
<1>7. PICK d \in Nat : d = c' /\ d = c + 1
  BY <1>1, <1>2
<1>8. PICK e \in Nat : e = col' /\ (e = col + 1 \/ e = 0)
  BY <1>1, <1>2, <1>6
<1>9. PICK r \in Nat : r = row' /\ (r = row \/ r = row + 1)
  BY <1>1, <1>2
<1>10. (r = row /\ e = col + 1) \/ (EndsRow /\ r = row + 1 /\ e = 0)
  <2>1. ~ EndsRow => r = row /\ e = col + 1
    BY <1>1, <1>6, <1>8, <1>9, Zenon
  <2>2. EndsRow => r = row + 1 /\ e = 0
    BY <1>1, <1>8, <1>9, Zenon
  <2>3. QED
    BY <2>1, <2>2
<1>11. EndsRow <=> Char(c) = "newline" \/ col + 1 = max_cols
  BY <1>6 DEF EndsRow
<1>12. PICK first \in Nat : first = First /\ first = start + IF scrolled THEN 1 ELSE 0
  BY <1>2 DEF First
<1>13. PICK x \in Nat, y \in Nat : x = row * max_cols /\ y = (row + 1) * max_cols /\ y = x + max_cols
  <2>1. PICK m \in Nat, q \in Nat : m = max_cols /\ q = row
    BY <1>2
  <2>2. q * m \in Nat /\ (q + 1) * m \in Nat /\ (q + 1) * m = q * m + m
    OBVIOUS
  <2>3. QED
    BY <2>1, <2>2
<1>14. c <= first + x + col
  BY <1>12, <1>13 DEF IInv, Near
<1>15. c' <= First' + row' * max_cols' + col'
  <2>3. d <= first + r * max_cols + e
    <3>1. CASE r = row /\ e = col + 1
      <4>1. r * max_cols = x
        BY <1>13, <3>1, Zenon
      <4>2. QED
        BY <1>2, <1>7, <1>14, <3>1, <4>1
    <3>2. CASE r = row + 1 /\ e = 0
      <4>1. r * max_cols = y
        BY <1>13, <3>2, Zenon
      <4>2. QED
        BY <1>2, <1>5, <1>7, <1>13, <1>14, <3>2, <4>1
    <3>3. QED
      BY <1>10, <3>1, <3>2
  <2>4. First' = first /\ max_cols' = max_cols
    BY <1>1, <1>4, <1>12
  <2>5. QED
    BY <1>7, <1>8, <1>9, <2>3, <2>4, Zenon
<1>16. row' = 0 => c' = First' + col'
  <2>1. row = 0 => c = first + col
    BY <1>12 DEF IInv, Near
  <2>2. QED
    BY <1>1, <1>2, <1>4, <1>6, <1>12, <2>1
<1>17. ASSUME ~ disturbed, row' > 0
       PROVE  SkipLine' + row' + col' <= c' + 1 + IF scrolled' THEN 0 ELSE 1
  <2>1. PICK s \in Nat : s = SkipLine /\ s \in start + 1 .. start + 1 + max_cols
    BY <1>2, SkipLineIs
  <2>2. PICK z \in 0 .. 1 : z = (IF scrolled THEN 0 ELSE 1) /\ first = start + 1 - z
    BY <1>2, <1>12
  <2>3. row > 0 => s + row + col <= c + 1 + z
    BY <1>17, <2>1, <2>2 DEF IInv, Near
  <2>4. row = 0 => c = first + col
    BY <1>12 DEF IInv, Near
  <2>5. row = 0 /\ EndsRow => s <= c + 1 + z
    <3>1. SUFFICES ASSUME row = 0, EndsRow PROVE s <= c + 1 + z
      OBVIOUS
    <3>2. c = start + (col + 1 - z)
      BY <1>2, <1>12, <2>2, <2>4, <3>1
    <3>3. CASE Char(c) = "newline"
      <4>1. PICK k \in 0 .. max_cols : k = col + 1 - z
        <5>1. /\ z \in 0 .. 1 /\ col \in Nat /\ max_cols \in Nat /\ col < max_cols
          BY <1>2, <1>5, <2>2
        <5>2. QED
          BY ONLY <5>1
      <4>2. Char(start + k) = "newline"
        BY <3>2, <3>3, <4>1
      <4>3. SkipLine <= start + 1 + k
        BY <1>2, <4>2, SkipLineIs
      <4>4. QED
        BY <1>2, <2>1, <2>2, <3>2, <4>1, <4>3
    <3>4. CASE col + 1 = max_cols
      BY <1>2, <2>1, <2>2, <3>2, <3>4
    <3>5. QED
      BY <1>11, <3>1, <3>3, <3>4
  <2>6. s + r + e <= d + 1 + z
    <3>1. r > 0 /\ z \in Nat
      BY <1>9, <1>17, <2>2
    <3>2. CASE r = row /\ e = col + 1
      BY <1>2, <1>7, <2>3, <3>1, <3>2
    <3>3. CASE EndsRow /\ r = row + 1 /\ e = 0
      <4>1. s + row <= c + 1 + z
        BY <1>2, <2>3, <2>5, <3>1, <3>3
      <4>2. QED
        BY <1>2, <1>7, <3>1, <3>3, <4>1
    <3>4. QED
      BY <1>10, <3>2, <3>3
  <2>7. SkipLine' = s /\ z = IF scrolled' THEN 0 ELSE 1
    BY <1>1, <1>4, <2>1, <2>2
  <2>8. QED
    BY <1>7, <1>8, <1>9, <2>6, <2>7, Zenon
<1>18. ~ disturbed => c' <= mem_end' \/ (SmallGrid' /\ start' >= mem_end')
  <2>1. ~ disturbed => (c <= mem_end /\ c # mem_end) \/ (SmallGrid /\ start >= mem_end)
    BY <1>1 DEF IInv, Near
  <2>2. mem_end \in Nat
    BY <1>3 DEF TextInv
  <2>3. QED
    BY <1>1, <1>2, <1>4, <2>1, <2>2
<1>19. QED
  BY <1>1, <1>15, <1>16, <1>17, <1>18 DEF Near

\* Without a tab the loop ends a row where the layout does.
LEMMA InStep ==
    ASSUME IInv, NoTab, c < LIMIT, c < mem_end, First \in Nat, First <= c,
           <<row, col>> = Cell(First, c)
    PROVE  /\ con_memory[c] \in {"glyph", "newline"} /\ Char(c) = con_memory[c]
           /\ Column = col + 1
           /\ IF EndsRow
              THEN Rows(First, c + 1) = row + 1 /\ Column0(First, c + 1) = 0
              ELSE Rows(First, c + 1) = row /\ Column0(First, c + 1) = Column
<1>1. c \in Nat /\ max_cols \in Nat \ {0} /\ row \in Nat /\ col \in Nat
  BY DEF IInv, LoopType
<1>2. Char(c) = con_memory[c] /\ c \in 0 .. LIMIT - 1
  BY <1>1, Constants DEF Char
<1>3. con_memory[c] \in {"glyph", "newline"}
  BY <1>1, <1>2 DEF IInv, TextInv, Kinds, NoTab
<1>4. Column = col + 1
  BY <1>2, <1>3, ColumnIs DEF IInv
<1>5. PICK f \in Nat : f = First
  OBVIOUS
<1>6. Rows(f, c) = row /\ Column0(f, c) = col
  BY <1>5 DEF Cell, Rows
<1>7. IF con_memory[c] = "newline" \/ Column0(f, c) = max_cols - 1
      THEN Rows(f, c + 1) = Rows(f, c) + 1 /\ Column0(f, c + 1) = 0
      ELSE Rows(f, c + 1) = Rows(f, c) /\ Column0(f, c + 1) = Column0(f, c) + 1
  BY <1>1, <1>5, NextCell
<1>8. EndsRow <=> con_memory[c] = "newline" \/ col = max_cols - 1
  BY <1>1, <1>2, <1>4 DEF EndsRow
<1>9. QED
  BY <1>2, <1>3, <1>4, <1>5, <1>6, <1>7, <1>8

\* The glyphs drawn so far, and one more.
LEMMA AdvanceDrawn ==
    ASSUME IInv, draw \/ next_row
    PROVE  Drawn'
<1>1. /\ UNCHANGED <<con_memory, mem_end, line, keys, max_rows, max_cols, start, scrolled, disturbed>>
      /\ c < LIMIT /\ c' = c + 1 /\ pc = "draw" /\ pc' = "test" /\ screen' = draw_char
      /\ \/ ~ EndsRow /\ col' = Column /\ row' = row
         \/ EndsRow /\ col' = 0 /\ row' = row + 1
  BY DEF draw, next_row, text, grid
<1>2. /\ max_rows \in Nat \ {0} /\ max_cols \in Nat \ {0} /\ c \in Nat /\ row \in Nat /\ col \in Nat
      /\ start \in Nat
  BY DEF IInv, LoopType
<1>3. TextInv /\ mem_end \in Nat /\ (NoTab' <=> NoTab)
  BY <1>1, TextKept DEF IInv, TextInv
<1> SUFFICES ASSUME NoTab, ~ disturbed, c < mem_end PROVE Drawn'
  BY <1>1, <1>2, <1>3 DEF Drawn
<1>4. PICK f \in Nat : f = First /\ f = First'
  BY <1>1, <1>2 DEF First
<1>5. /\ f <= c /\ <<row, col>> = Cell(f, c)
      /\ screen = [cell \in DOMAIN screen |-> screen[cell]]
      /\ scrolled => Cell(Max({0, start - 1 - max_cols}), mem_end)[1] >= max_rows
  BY <1>2, <1>3, <1>4 DEF IInv, Drawn
<1>6. \A cell \in DOMAIN screen :
          /\ cell[1] < row \/ (cell[1] = row /\ cell[2] < col)
          /\ screen[cell] \in f .. c - 1
          /\ con_memory[screen[cell]] = "glyph"
          /\ Cell(f, screen[cell]) = cell
  BY <1>2, <1>3, <1>4 DEF IInv, Drawn
<1>7. \A i \in f .. c - 1 :
          con_memory[i] = "glyph" => Cell(f, i) \in DOMAIN screen /\ screen[Cell(f, i)] = i
  BY <1>2, <1>3, <1>4 DEF IInv, Drawn
<1>8. /\ con_memory[c] \in {"glyph", "newline"} /\ Char(c) = con_memory[c]
      /\ Column = col + 1
      /\ IF EndsRow
         THEN Rows(f, c + 1) = row + 1 /\ Column0(f, c + 1) = 0
         ELSE Rows(f, c + 1) = row /\ Column0(f, c + 1) = Column
  BY <1>1, <1>4, <1>5, InStep
<1>9. \A a, b : Cell(a, b)' = Cell(a, b)
  BY <1>1, CellKept
<1>10. PICK d \in Nat : d = c' /\ d = c + 1 /\ f <= d
  BY <1>1, <1>2, <1>5
<1>11. PICK r \in Nat : r = row' /\ (EndsRow => r = row + 1) /\ (~ EndsRow => r = row)
  BY <1>1, <1>2
<1>12. PICK k \in Nat : k = col' /\ (EndsRow => k = 0) /\ (~ EndsRow => k = col + 1)
  BY <1>1, <1>2, <1>8
<1>13. <<r, k>> = Cell(f, d)
  <2>1. Cell(f, d) = <<Rows(f, d), Column0(f, d)>>
    BY <1>2, <1>10, CellType
  <2>2. Rows(f, d) = r /\ Column0(f, d) = k
    BY <1>8, <1>10, <1>11, <1>12
  <2>3. QED
    BY <2>1, <2>2
<1>14. PICK s : s = screen' /\ s = draw_char
  BY <1>1
<1>15. <<row, col>> \notin DOMAIN screen
  BY <1>2, <1>6
<1>16. /\ con_memory[c] = "newline" => s = screen
       /\ con_memory[c] = "glyph" =>
              s = [cell \in DOMAIN screen \cup {<<row, col>>} |->
                      IF cell = <<row, col>> THEN c ELSE screen[cell]]
  BY <1>8, <1>14 DEF draw_char
<1>17. s = [cell \in DOMAIN s |-> s[cell]]
  <2>1. CASE con_memory[c] = "newline"
    BY <1>5, <1>16, <2>1
  <2>2. CASE con_memory[c] = "glyph"
    BY <1>16, <2>2
  <2>3. QED
    BY <1>8, <2>1, <2>2
<1>18. \A cell \in DOMAIN screen : cell \in DOMAIN s /\ s[cell] = screen[cell]
  BY <1>8, <1>15, <1>16
<1>19. con_memory[c] = "glyph" => <<row, col>> \in DOMAIN s /\ s[<<row, col>>] = c
  BY <1>16
<1>20. ASSUME NEW cell \in DOMAIN s
       PROVE  /\ cell[1] < r \/ (cell[1] = r /\ cell[2] < k)
              /\ s[cell] \in f .. d - 1
              /\ con_memory[s[cell]] = "glyph"
              /\ Cell(f, s[cell]) = cell
  <2>1. cell \in DOMAIN screen \/ (cell = <<row, col>> /\ con_memory[c] = "glyph")
    BY <1>8, <1>16
  <2>2. CASE cell \in DOMAIN screen
    <3>1. PICK x \in Nat, y \in Nat : cell = <<x, y>>
      BY <2>2 DEF IInv, TabsOnly
    <3>2. x < row \/ (x = row /\ y < col)
      BY <1>6, <2>2, <3>1
    <3>3. x < r \/ (x = r /\ y < k)
      BY <1>2, <1>11, <1>12, <3>2
    <3>4. s[cell] = screen[cell] /\ s[cell] \in f .. c - 1
      BY <1>6, <1>18, <2>2
    <3>5. s[cell] \in f .. d - 1
      BY <1>2, <1>10, <3>4
    <3>6. con_memory[s[cell]] = "glyph" /\ Cell(f, s[cell]) = cell
      BY <1>6, <2>2, <3>4
    <3>7. QED
      BY <3>1, <3>3, <3>5, <3>6
  <2>3. CASE cell = <<row, col>> /\ con_memory[c] = "glyph"
    <3>1. s[cell] = c
      BY <1>19, <2>3
    <3>2. c \in f .. d - 1
      BY <1>2, <1>5, <1>10
    <3>3. row < r \/ (row = r /\ col < k)
      BY <1>2, <1>11, <1>12
    <3>4. QED
      BY <1>5, <2>3, <3>1, <3>2, <3>3
  <2>4. QED
    BY <2>1, <2>2, <2>3
<1>21. ASSUME NEW i \in f .. d - 1, con_memory[i] = "glyph"
       PROVE  Cell(f, i) \in DOMAIN s /\ s[Cell(f, i)] = i
  <2>1. CASE i = c
    BY <1>5, <1>19, <1>21, <2>1
  <2>2. CASE i # c
    <3>1. i \in f .. c - 1
      BY <1>2, <1>10, <2>2
    <3>2. QED
      BY <1>7, <1>18, <1>21, <3>1
  <2>3. QED
    BY <2>1, <2>2
<1>22. scrolled' => (Cell(Max({0, start - 1 - max_cols}), mem_end)[1] >= max_rows)'
  <2>1. PICK g : g = Max({0, start - 1 - max_cols}) /\ g = Max({0, start - 1 - max_cols})'
    BY <1>1
  <2>2. scrolled' => Cell(g, mem_end)[1] >= max_rows
    BY <1>1, <1>5, <2>1
  <2>3. PICK e : e = mem_end /\ e = mem_end'
    BY <1>1
  <2>4. scrolled' => Cell(g, e)'[1] >= max_rows'
    BY <1>1, <1>9, <2>2, <2>3
  <2>5. QED
    BY <2>1, <2>3, <2>4
<1>23. QED
  <2>1. First' <= c' /\ <<row', col'>> = Cell(First, c)'
    BY <1>4, <1>9, <1>10, <1>11, <1>12, <1>13
  <2>2. screen' = [cell \in DOMAIN screen' |-> screen'[cell]]
    BY <1>14, <1>17
  <2>3. (\A cell \in DOMAIN screen :
            /\ cell[1] < row \/ (cell[1] = row /\ cell[2] < col)
            /\ screen[cell] \in First .. c - 1
            /\ con_memory[screen[cell]] = "glyph"
            /\ Cell(First, screen[cell]) = cell)'
    BY <1>1, <1>4, <1>9, <1>10, <1>11, <1>12, <1>14, <1>20
  <2>4. (\A i \in First .. c - 1 :
            con_memory[i] = "glyph" =>
                Cell(First, i) \in DOMAIN screen /\ screen[Cell(First, i)] = i)'
    BY <1>1, <1>4, <1>9, <1>10, <1>14, <1>21
  <2>5. pc' # "drawn"
    BY <1>1
  <2>6. QED
    BY <1>22, <2>1, <2>2, <2>3, <2>4, <2>5 DEF Drawn

\* A character drawn within its row, or the last of a row that is not the last.
LEMMA AdvanceIInv ==
    ASSUME IInv, draw \/ next_row
    PROVE  IInv'
<1>1. UNCHANGED <<con_memory, mem_end, line, keys, max_rows, max_cols, start, scrolled, disturbed>>
  BY DEF draw, next_row, text, grid
<1>2. TextInv'
  BY <1>1, TextKept DEF IInv
<1>3. LoopType'
  <2>1. /\ max_rows \in Nat \ {0} /\ max_cols \in Nat \ {0} /\ c \in Nat /\ row \in Nat /\ col \in Nat
        /\ start \in Nat /\ row < max_rows
    BY DEF IInv, LoopType
  <2>2. Column \in Nat
    BY ColumnIs DEF IInv
  <2>3. c' \in Nat /\ col' \in Nat /\ row' \in Nat /\ row' < max_rows
    BY <2>1, <2>2 DEF draw, next_row
  <2>4. disturbed' \in BOOLEAN /\ scrolled' \in BOOLEAN
    BY <1>1, Zenon DEF IInv, LoopType
  <2>5. QED
    BY <1>1, <2>1, <2>3, <2>4 DEF LoopType
<1>4. QED
  BY <1>2, <1>3, AdvanceTabs, AdvanceNear, AdvanceDrawn DEF IInv

\* After scrolling, the grid is empty again and the drawing begins at c; it
\* had filled the grid before the end of the text.
LEMMA ScrollIInv ==
    ASSUME IInv, scroll
    PROVE  IInv'
<1>1. /\ UNCHANGED <<con_memory, mem_end, line, keys, max_rows, max_cols, disturbed>>
      /\ pc = "draw" /\ c < LIMIT /\ EndsRow /\ row + 1 = max_rows
      /\ screen' = [cell \in DOMAIN screen \ Cells |-> screen[cell]]
      /\ row' = 0 /\ col' = 0 /\ pc' = "test" /\ scrolled' = TRUE
      /\ start' = SkipLine /\ c' = SkipLine + 1
  BY DEF scroll, text, grid, clear_grid
<1>2. /\ max_rows \in Nat \ {0} /\ max_cols \in Nat \ {0} /\ c \in Nat /\ row \in Nat /\ col \in Nat
      /\ start \in Nat
  BY DEF IInv, LoopType
<1>3. PICK s \in Nat : s = SkipLine /\ s \in start + 1 .. start + 1 + max_cols
  BY <1>2, SkipLineIs
<1>4. TextInv /\ TextInv' /\ mem_end \in Nat /\ (NoTab' <=> NoTab) /\ \A i : Char(i)' = Char(i)
  BY <1>1, TextKept DEF IInv, TextInv
<1>5. PICK d \in Nat : d = s + 1 /\ d = c' /\ d = First'
  BY <1>1, <1>3 DEF First
<1>6. LoopType'
  <2>1. disturbed' \in BOOLEAN /\ scrolled' \in BOOLEAN
    BY <1>1, Zenon DEF IInv, LoopType
  <2>2. QED
    BY <1>1, <1>2, <1>3, <1>5, <2>1 DEF LoopType
<1>7. TabsOnly'
  <2>1. \A i : BehindTab(i)' <=> BehindTab(i)
    BY <1>1, BehindKept
  <2>2. \A cell \in DOMAIN screen' : cell \in DOMAIN screen /\ screen'[cell] = screen[cell]
    BY <1>1
  <2>3. ASSUME NEW cell \in DOMAIN screen'
        PROVE  (/\ cell \in Nat \X Nat /\ cell[1] < max_rows
                /\ screen[cell] \in Nat
                /\ cell[2] >= max_cols =>
                      BehindTab(screen[cell]) /\ (disturbed \/ Char(screen[cell]) # "newline"))'
    <3>1. PICK i : i = screen[cell] /\ i = screen'[cell]
      BY <2>2
    <3>2. /\ cell \in Nat \X Nat /\ cell[1] < max_rows /\ i \in Nat
          /\ cell[2] >= max_cols => BehindTab(i) /\ (disturbed \/ Char(i) # "newline")
      BY <2>2, <2>3, <3>1 DEF IInv, TabsOnly
    <3>3. cell[2] >= max_cols' => BehindTab(i)' /\ (disturbed' \/ Char(i)' # "newline")
      BY <1>1, <1>4, <2>1, <3>2
    <3>4. QED
      BY <1>1, <3>1, <3>2, <3>3
  <2>4. ~ (col' >= max_cols')
    BY <1>1, <1>2
  <2>5. QED
    BY <2>3, <2>4 DEF TabsOnly
<1>8. SmallGrid' <=> SmallGrid
  BY <1>1 DEF SmallGrid
<1>9. ASSUME NoTab, ~ disturbed
      PROVE  d <= mem_end \/ (SmallGrid /\ s >= mem_end)
  <2>1. CASE SmallGrid
    BY <1>3, <1>4, <1>5, <2>1
  <2>2. CASE ~ SmallGrid
    <3>1. c < mem_end
      <4>1. c <= mem_end /\ c # mem_end
        BY <1>1, <1>9, <2>2 DEF IInv, Near
      <4>2. QED
        BY <1>2, <1>4, <4>1
    <3>2. PICK z \in 0 .. 1 : z = IF scrolled THEN 0 ELSE 1
      OBVIOUS
    <3>3. row > 0 => s + row + col <= c + 1 + z
      BY <1>3, <1>9, <3>2 DEF IInv, Near
    <3>4. max_rows > 2 \/ (max_rows = 2 /\ max_cols > 1)
      BY <2>2 DEF SmallGrid
    <3>5. CASE max_rows > 2
      BY <1>1, <1>2, <1>3, <1>4, <1>5, <3>1, <3>2, <3>3, <3>5
    <3>6. CASE max_rows = 2 /\ max_cols > 1
      <4>1. row = 1 /\ s + col <= c + z
        BY <1>1, <1>2, <1>3, <3>2, <3>3, <3>6
      <4>2. CASE col > 0
        BY <1>2, <1>3, <1>4, <1>5, <3>1, <3>2, <4>1, <4>2
      <4>3. CASE col = 0
        <5>1. c \in 0 .. LIMIT - 1 /\ Char(c) = con_memory[c]
          BY <1>1, <1>2, Constants DEF Char
        <5>2. Char(c) # "tab"
          BY <1>4, <1>9, <5>1 DEF TextInv, NoTab
        <5>3. Column = 1
          BY <4>3, <5>2, ColumnIs DEF IInv
        <5>4. con_memory[c] = "newline"
          BY <1>1, <3>6, <5>1, <5>3 DEF EndsRow
        <5>5. con_memory[mem_end - 1] = "glyph"
          <6>1. mem_end - 1 \in 0 .. LIMIT - 1
            BY <1>1, <1>2, <1>4, <3>1, Constants DEF TextInv
          <6>2. /\ line \in Nat
                /\ \A i \in 0 .. LIMIT - 1 :
                      i \in mem_end - line - Prompt .. mem_end - 1 => con_memory[i] = "glyph"
            BY <1>4 DEF TextInv
          <6>3. mem_end - 1 \in mem_end - line - Prompt .. mem_end - 1
            BY <1>4, <6>2, Constants
          <6>4. QED
            BY <6>1, <6>2, <6>3
        <5>6. c + 1 < mem_end
          <6>1. c # mem_end - 1
            BY <5>4, <5>5
          <6>2. QED
            BY <1>2, <1>4, <3>1, <6>1
        <5>7. QED
          BY <1>2, <1>3, <1>4, <1>5, <3>2, <4>1, <4>3, <5>6
      <4>4. QED
        BY <1>2, <4>2, <4>3
    <3>7. QED
      BY <3>4, <3>5, <3>6
  <2>3. QED
    BY <2>1, <2>2
<1>10. Near'
  <2>1. PICK m \in Nat : m = max_cols'
    BY <1>1, <1>2
  <2>2. d <= d + 0 * m + 0 /\ d = d + 0
    <3>1. 0 * m = 0
      OBVIOUS
    <3>2. QED
      BY <3>1
  <2>3. c' <= First' + row' * max_cols' + col' /\ c' = First' + col'
    BY <1>1, <1>5, <2>1, <2>2, Zenon
  <2>4. pc' = "test" /\ ~ (row' > 0)
    BY <1>1
  <2>5. NoTab' /\ ~ disturbed' => c' <= mem_end' \/ (SmallGrid' /\ start' >= mem_end')
    BY <1>1, <1>3, <1>4, <1>5, <1>8, <1>9
  <2>6. pc' # "draw" /\ pc' \notin {"cursor", "drawn"}
    BY <2>4
  <2>7. QED
    BY <2>3, <2>4, <2>5, <2>6, Zenon DEF Near
<1>11. Drawn'
  <2> SUFFICES ASSUME NoTab, ~ disturbed, d <= mem_end PROVE Drawn'
    BY <1>1, <1>4, <1>5 DEF Drawn
  <2>1. PICK f \in Nat : f = First /\ start <= f
    BY <1>2 DEF First
  <2>2. c < mem_end
    <3>1. c <= mem_end \/ start >= mem_end
      BY DEF IInv, Near
    <3>2. c # mem_end
      BY <1>1 DEF IInv, Near
    <3>3. start < mem_end
      BY <1>2, <1>3, <1>4, <1>5
    <3>4. QED
      BY <1>2, <1>4, <3>1, <3>2, <3>3
  <2>3. f <= c /\ <<row, col>> = Cell(f, c)
    BY <1>2, <1>4, <2>1, <2>2 DEF IInv, Drawn
  <2>4. Rows(f, c + 1) = max_rows
    BY <1>1, <2>1, <2>2, <2>3, InStep
  <2>5. Rows(f, mem_end) >= max_rows /\ Rows(f, mem_end) \in Nat
    <3>1. f <= c + 1 /\ c + 1 <= mem_end /\ f <= mem_end /\ c + 1 \in Nat
      BY <1>2, <1>4, <2>2, <2>3
    <3>2. Rows(f, c + 1) <= Rows(f, mem_end)
      BY <1>2, <1>4, <3>1, MoreTextMoreRows
    <3>3. Rows(f, mem_end) \in Nat
      BY <1>2, <1>4, <3>1, CellType
    <3>4. QED
      BY <1>2, <2>4, <3>2, <3>3
  <2>6. PICK g \in Nat : g = Max({0, s - 1 - max_cols}) /\ g <= f
    <3>1. s - 1 - max_cols \in Int /\ s - 1 - max_cols <= f
      BY <1>2, <1>3, <2>1
    <3>2. Max({0, s - 1 - max_cols}) = IF s - 1 - max_cols > 0 THEN s - 1 - max_cols ELSE 0
      BY <3>1, NotBelowZero
    <3>3. QED
      BY <3>1, <3>2
  <2>7. Cell(g, mem_end)[1] >= max_rows
    <3>1. f <= mem_end /\ g <= mem_end
      BY <1>2, <1>4, <2>2, <2>3, <2>6
    <3>2. Rows(f, mem_end) <= Rows(g, mem_end)
      BY <1>2, <1>4, <2>6, <3>1, EarlierTextMoreRows
    <3>3. Cell(g, mem_end)[1] = Rows(g, mem_end) /\ Rows(g, mem_end) \in Nat
      BY <1>2, <1>4, <2>6, <3>1, CellType
    <3>4. QED
      BY <1>2, <2>5, <3>2, <3>3
  <2>8. \A a, b : Cell(a, b)' = Cell(a, b)
    BY <1>1, CellKept
  <2>9. (Cell(Max({0, start - 1 - max_cols}), mem_end)[1] >= max_rows)'
    <3>1. g = Max({0, start - 1 - max_cols})'
      BY <1>1, <1>3, <2>6
    <3>2. PICK e : e = mem_end /\ e = mem_end'
      BY <1>1
    <3>3. Cell(g, e)'[1] >= max_rows'
      BY <1>1, <2>7, <2>8, <3>2
    <3>4. QED
      BY <3>1, <3>2, <3>3
  <2>10. DOMAIN screen' = {} /\ screen' = [cell \in DOMAIN screen' |-> screen'[cell]]
    <3>1. DOMAIN screen \ Cells = {}
      BY NoTabNoExcess DEF IInv
    <3>2. QED
      BY <1>1, <3>1
  <2>11. First' <= c' /\ <<row', col'>> = Cell(First, c)'
    <3>1. Cell(d, d) = <<0, 0>>
      BY <1>2, FirstCell, CellType
    <3>2. QED
      BY <1>1, <1>5, <2>8, <3>1
  <2>12. d .. d - 1 = {}
    OBVIOUS
  <2>13. pc' = "test"
    BY <1>1
  <2>14. QED
    BY <1>5, <2>9, <2>10, <2>11, <2>12, <2>13 DEF Drawn
<1>12. QED
  BY <1>4, <1>6, <1>7, <1>10, <1>11 DEF IInv

\* Every step of the loop and of the interrupt preserves the invariant.
LEMMA NextIInv == IInv /\ [Next]_vars => IInv'
<1> SUFFICES ASSUME IInv, [Next]_vars PROVE IInv'
  OBVIOUS
<1>1. CASE type_char \/ enter \/ backspace
  BY <1>1, KeyIInv
<1>2. CASE console_loop
  BY <1>2, BeginIInv
<1>3. CASE draw \/ next_row
  BY <1>3, AdvanceIInv
<1>4. CASE scroll
  BY <1>4, ScrollIInv
<1>5. CASE test
  BY <1>5, QuietIInv DEF test
<1>6. CASE draw_cursor
  BY <1>6, QuietIInv DEF draw_cursor, IInv, Near
<1>7. CASE drawn
  BY <1>7, QuietIInv DEF drawn
<1>8. CASE leave_memory
  BY <1>8, QuietIInv DEF leave_memory
<1>9. CASE UNCHANGED vars
  <2>1. /\ UNCHANGED <<text, grid, place, screen, scrolled, disturbed, keys>>
        /\ pc' = pc /\ cursor' = cursor
    BY <1>9 DEF vars
  <2>2. NoTab /\ ~ disturbed =>
            /\ pc = "draw" => c # mem_end
            /\ pc \in {"cursor", "drawn"} => c = mem_end
            /\ pc = "drawn" => cursor = <<row, col>>
    BY DEF IInv, TextInv, Near, Drawn
  <2>3. QED
    BY <2>1, <2>2, QuietIInv
<1>10. QED
  BY <1>1, <1>2, <1>3, <1>4, <1>5, <1>6, <1>7, <1>8, <1>9 DEF Next, MainStep

\* The invariant holds throughout.
LEMMA Invariance == Spec => []IInv
<1>1. IInv /\ [Next]_vars => IInv'
  BY NextIInv
<1>2. QED
  BY <1>1, InitIInv, PTL DEF Spec

------------------------------------------------------------------------------
(* What the screen shows, and where the loop can be.                        *)

\* A drawing that no key disturbed shows the end of the text, each glyph in its
\* cell, and no line was scrolled away for nothing (console.c:401-470).
THEOREM ScreenIsAlwaysTail == Spec => []ScreenIsTail
<1>1. ASSUME IInv, pc = "drawn", ~ disturbed, NoTab
      PROVE  /\ scrolled => Cell(Max({0, start - 1 - max_cols}), mem_end)[1] >= max_rows
             /\ cursor = Cell(First, mem_end)
             /\ screen = [cell \in {Cell(First, i) : i \in Glyphs(First)} |->
                             CHOOSE i \in Glyphs(First) : Cell(First, i) = cell]
  <2>1. c = mem_end /\ mem_end \in Nat
    BY <1>1 DEF IInv, TextInv, Near
  <2>2. Drawn /\ c <= mem_end
    BY <1>1, <2>1 DEF IInv
  <2>3. /\ <<row, col>> = Cell(First, mem_end) /\ cursor = <<row, col>>
        /\ scrolled => Cell(Max({0, start - 1 - max_cols}), mem_end)[1] >= max_rows
        /\ screen = [cell \in DOMAIN screen |-> screen[cell]]
    BY <1>1, <2>1, <2>2 DEF Drawn
  <2>4. \A cell \in DOMAIN screen :
            screen[cell] \in Glyphs(First) /\ Cell(First, screen[cell]) = cell
    BY <1>1, <2>1, <2>2 DEF Drawn, Glyphs
  <2>5. \A i \in Glyphs(First) : Cell(First, i) \in DOMAIN screen /\ screen[Cell(First, i)] = i
    BY <1>1, <2>1, <2>2 DEF Drawn, Glyphs
  <2>6. DOMAIN screen = {Cell(First, i) : i \in Glyphs(First)}
    BY <2>4, <2>5
  <2>7. ASSUME NEW cell \in DOMAIN screen
        PROVE  screen[cell] = CHOOSE i \in Glyphs(First) : Cell(First, i) = cell
    <3>1. screen[cell] \in Glyphs(First) /\ Cell(First, screen[cell]) = cell
      BY <2>4
    <3>2. \A i \in Glyphs(First) : Cell(First, i) = cell => i = screen[cell]
      BY <2>5
    <3>3. QED
      BY <3>1, <3>2, Zenon
  <2>8. QED
    BY <2>3, <2>6, <2>7
<1>2. IInv => ScreenIsTail
  BY <1>1 DEF ScreenIsTail
<1>3. QED
  BY <1>2, Invariance, PTL

\* Nothing is drawn below the grid, and only what follows a tab to the right of
\* it, where the column is compared for equality (console.c:436-443).
THEOREM OnlyTabsEverLeaveGrid == Spec => []OnlyTabsLeaveGrid
<1>1. ASSUME IInv, NEW cell \in DOMAIN screen \ Cells
      PROVE  /\ cell[1] < max_rows
             /\ \E j \in 0 .. screen[cell] - 1 :
                   /\ Char(j) = "tab"
                   /\ disturbed \/ \A k \in j .. screen[cell] : Char(k) # "newline"
  <2>1. /\ cell \in Nat \X Nat /\ cell[1] < max_rows /\ screen[cell] \in Nat
        /\ max_cols \in Nat \ {0} /\ max_rows \in Nat \ {0}
    BY <1>1 DEF IInv, TabsOnly, LoopType
  <2>2. PICK x \in Nat, y \in Nat : cell = <<x, y>> /\ x < max_rows
    BY <2>1
  <2>3. y >= max_cols
    <3>1. SUFFICES ASSUME y < max_cols PROVE FALSE
      BY <2>1
    <3>2. x \in 0 .. max_rows - 1 /\ y \in 0 .. max_cols - 1
      BY <2>1, <2>2, <3>1
    <3>3. cell \in Cells
      BY <2>2, <3>2 DEF Cells
    <3>4. QED
      BY <1>1, <3>3
  <2>4. BehindTab(screen[cell]) /\ (disturbed \/ Char(screen[cell]) # "newline")
    BY <1>1, <2>2, <2>3 DEF IInv, TabsOnly
  <2>5. PICK i \in Nat : i = screen[cell]
    BY <2>1
  <2>6. PICK j \in 0 .. i - 1 : /\ Char(j) = "tab"
                                /\ disturbed \/ \A k \in j .. i - 1 : Char(k) # "newline"
    BY <2>4, <2>5 DEF BehindTab
  <2>7. \A k \in j .. i : k = i \/ k \in j .. i - 1
    BY <2>5
  <2>8. QED
    BY <2>1, <2>4, <2>5, <2>6, <2>7
<1>2. IInv => OnlyTabsLeaveGrid
  BY <1>1 DEF OnlyTabsLeaveGrid
<1>3. QED
  BY <1>2, Invariance, PTL

\* An undisturbed drawing stays within the text, and a disturbed one within a
\* screenful of it as long as there is a line to skip (console.c:434, c != mem_end).
THEOREM LoopNeverLost == Spec => []NeverLost
<1>1. ASSUME IInv, NoTab
      PROVE  /\ ~ disturbed /\ (max_rows > 2 \/ (max_rows = 2 /\ max_cols > 1)) => c <= mem_end
             /\ c > mem_end + max_rows * max_cols => SkipLine >= mem_end
  <2>1. ~ disturbed => c <= mem_end \/ SmallGrid
    BY <1>1 DEF IInv, Near
  <2>2. /\ max_rows \in Nat \ {0} /\ max_cols \in Nat \ {0} /\ c \in Nat /\ row \in Nat /\ col \in Nat
        /\ start \in Nat /\ row < max_rows /\ mem_end \in Nat
    BY <1>1 DEF IInv, LoopType, TextInv
  <2>3. col < max_cols
    BY <1>1, NoTabNoExcess DEF IInv
  <2>4. PICK f \in Nat : f = First /\ f <= start + 1
    BY <2>2 DEF First
  <2>5. c <= f + row * max_cols + col
    BY <1>1, <2>4 DEF IInv, Near
  <2>6. row * max_cols + max_cols <= max_rows * max_cols
    <3>1. PICK n \in Nat : max_rows = row + 1 + n
      <4>1. max_rows - row - 1 \in Nat /\ max_rows = row + 1 + (max_rows - row - 1)
        BY <2>2
      <4>2. QED
        BY <4>1
    <3>2. PICK m \in Nat, r \in Nat : m = max_cols /\ r = row
      BY <2>2
    <3>3. (r + 1 + n) * m = r * m + m + n * m /\ n * m \in Nat /\ r * m \in Nat
      OBVIOUS
    <3>4. max_rows * max_cols = (r + 1 + n) * m /\ row * max_cols = r * m
      BY <3>1, <3>2, Zenon
    <3>5. QED
      BY <3>2, <3>3, <3>4
  <2>7. PICK a \in Nat, b \in Nat : a = row * max_cols /\ b = max_rows * max_cols
    BY <2>2
  <2>8. PICK s \in Nat : s = SkipLine /\ s >= start + 1
    BY <2>2, SkipLineIs
  <2>9. c > mem_end + b => s >= mem_end
    BY <2>2, <2>3, <2>4, <2>5, <2>6, <2>7, <2>8
  <2>10. QED
    BY <2>1, <2>7, <2>8, <2>9 DEF SmallGrid
<1>2. IInv => NeverLost
  BY <1>1 DEF NeverLost
<1>3. QED
  BY <1>2, Invariance, PTL

==============================================================================
