---------------------------- MODULE SnakeProofs -----------------------------
(***************************************************************************)
(* Proofs about the snake game, for any board and any keys.                *)
(***************************************************************************)
EXTENDS Snake, FiniteSets, FiniteSetTheorems, TLAPS

Points == Int \X Int

------------------------------------------------------------------------------
(* The board.                                                               *)

\* Where p and q are on the board they are the same tile only if they are the
\* same.
LEMMA TilesApart ==
    ASSUME NEW w \in Nat \ {0}, NEW x1 \in 0 .. w - 1, NEW x2 \in 0 .. w - 1,
           NEW y1 \in Nat, NEW y2 \in Nat, y1 * w + x1 = y2 * w + x2
    PROVE  x1 = x2 /\ y1 = y2
<1>1. ASSUME NEW a \in Nat, NEW b \in Nat, NEW x \in 0 .. w - 1, NEW y \in 0 .. w - 1,
             a < b, a * w + x = b * w + y
      PROVE  FALSE
  <2>1. b * w >= (a + 1) * w
    BY <1>1
  <2>2. (a + 1) * w = a * w + w
    OBVIOUS
  <2>3. a * w \in Nat /\ b * w \in Nat
    OBVIOUS
  <2>4. QED
    BY <1>1, <2>1, <2>2, <2>3
<1>2. y1 = y2
  BY <1>1
<1>3. y1 * w \in Nat
  OBVIOUS
<1>4. QED
  BY <1>2, <1>3

\* The index of a tile is one of the board's.
LEMMA TileInRange ==
    ASSUME NEW w \in Nat \ {0}, NEW h \in Nat \ {0}, NEW x \in 0 .. w - 1,
           NEW y \in 0 .. h - 1
    PROVE  y * w + x \in 0 .. w * h - 1
<1>1. (y + 1) * w <= h * w
  OBVIOUS
<1>2. (y + 1) * w = y * w + w /\ h * w = w * h /\ y * w \in Nat
  OBVIOUS
<1>3. QED
  BY <1>1, <1>2

\* Every point on the board has a tile.
LEMMA OnBoardTile ==
    ASSUME NEW p \in Points, OnBoard(p)
    PROVE  Tile(p) \in Tiles
BY TileInRange, BoardAssumption DEF Points, OnBoard, Tile, Tiles

\* And no two points have the same.
LEMMA TileInjective ==
    ASSUME NEW p \in Points, NEW q \in Points, OnBoard(p), OnBoard(q), Tile(p) = Tile(q)
    PROVE  p = q
<1>1. p[1] = q[1] /\ p[2] = q[2]
  BY TilesApart, BoardAssumption DEF Points, OnBoard, Tile
<1>2. QED
  BY <1>1 DEF Points

\* No more points on the board than it has tiles.
LEMMA Pigeonhole ==
    ASSUME NEW s \in Seq(Points), NEW n \in 0 .. Len(s),
           \A k \in 1 .. n : OnBoard(s[k]),
           \A k, l \in 1 .. n : k < l => s[k] # s[l]
    PROVE  n <= GB_WIDTH * GB_HEIGHT
<1> DEFINE f == [k \in 1 .. n |-> Tile(s[k])]
<1>1. n \in Nat /\ \A k \in 1 .. n : s[k] \in Points
  OBVIOUS
<1>2. f \in Injection(1 .. n, Tiles)
  <2>1. f \in [1 .. n -> Tiles]
    BY <1>1, OnBoardTile
  <2>2. ASSUME NEW k \in 1 .. n, NEW l \in 1 .. n, f[k] = f[l]
        PROVE  k = l
    <3>1. s[k] = s[l]
      BY <1>1, <2>2, TileInjective
    <3>2. QED
      BY <1>1, <3>1
  <2>3. QED
    BY <2>1, <2>2 DEF Injection, IsInjective
<1>3. /\ GB_WIDTH * GB_HEIGHT \in Nat
      /\ IsFiniteSet(Tiles) /\ Cardinality(Tiles) = GB_WIDTH * GB_HEIGHT
  <2>1. PICK m \in Nat : m = GB_WIDTH * GB_HEIGHT
    BY BoardAssumption
  <2>2. 0 \in Int /\ m - 1 \in Int
    OBVIOUS
  <2>3. IsFiniteSet(0 .. m - 1) /\ Cardinality(0 .. m - 1) = m
    BY <2>2, FS_Interval
  <2>4. QED
    BY <2>1, <2>3 DEF Tiles
<1>4. IsFiniteSet(1 .. n) /\ Cardinality(1 .. n) = n
  <2>1. 1 \in Int /\ n \in Int
    BY <1>1
  <2>2. QED
    BY <1>1, <2>1, FS_Interval
<1>5. Cardinality(1 .. n) <= Cardinality(Tiles)
  <2> HIDE DEF f
  <2>1. QED
    BY <1>2, <1>3, FS_Injection
<1>6. QED
  BY <1>3, <1>4, <1>5

------------------------------------------------------------------------------
(* The snake.                                                               *)

\* The point beside p in direction d.
Beside(p, d) == <<p[1] + Step[d][1], p[2] + Step[d][2]>>

\* What SnakeInOnePiece says of a snake.
OnePiece(s) ==
    /\ \A k \in 1 .. Len(s) : OnBoard(s[k])
    /\ \A k \in 1 .. Len(s), l \in 1 .. Len(s) :
          k < l /\ s[k] = s[l] => k = Len(s) - 1 /\ l = Len(s)
    /\ \A k \in 1 .. Len(s) - 2 : \E d \in Dirs : s[k] = Beside(s[k + 1], d)

\* A snake that has not just eaten: all its segments are apart.
Stretched(s) ==
    /\ \A k \in 1 .. Len(s) : OnBoard(s[k])
    /\ \A k \in 1 .. Len(s), l \in 1 .. Len(s) : k < l => s[k] # s[l]
    /\ \A k \in 1 .. Len(s) - 1 : \E d \in Dirs : s[k] = Beside(s[k + 1], d)

\* The tile beside a point, on the board or not, is a point.
LEMMA BesidePoint ==
    ASSUME NEW p \in Points, NEW d \in Dirs
    PROVE  Beside(p, d) \in Points
BY DEF Points, Dirs, Beside, Step

\* After two moves, the second not opposite to the first, the head is not
\* where it was.
LEMMA NotBack ==
    ASSUME NEW p \in Points, NEW d \in Dirs, NEW e \in Dirs, e # Opposite[d]
    PROVE  Beside(Beside(p, d), e) # p
BY DEF Points, Dirs, Beside, Step, Opposite

\* What a move makes of the snake.
LEMMA MovedIs ==
    ASSUME body \in Seq(Points), Len(body) >= 2, NEW d \in Dirs
    PROVE  /\ Moved(d) \in Seq(Points) /\ Len(Moved(d)) = Len(body)
           /\ Moved(d)[1] = Beside(body[1], d)
           /\ \A k \in 2 .. Len(body) : Moved(d)[k] = body[k - 1]
<1> DEFINE head == Beside(body[1], d)
           rest == SubSeq(body, 1, Len(body) - 1)
<1>1. body[1] \in Points /\ Len(body) \in Nat
  OBVIOUS
<1>2. head \in Points
  BY <1>1, BesidePoint
<1>3. /\ rest \in Seq(Points) /\ Len(rest) = Len(body) - 1
      /\ \A k \in 1 .. Len(body) - 1 : rest[k] = body[k]
  BY <1>1
<1>4. Moved(d) = <<head>> \o rest
  BY DEF Moved, Beside
<1> HIDE DEF head, rest
<1>5. QED
  BY <1>1, <1>2, <1>3, <1>4 DEF head

\* A move onto the board that does not hit the snake leaves it stretched.
LEMMA MoveStretches ==
    ASSUME body \in Seq(Points), Len(body) >= 2, OnePiece(body), NEW d \in Dirs,
           OnBoard(Moved(d)[1]), ~ HitsItself(Moved(d))
    PROVE  Stretched(Moved(d))
<1> DEFINE s == Moved(d)
<1>1. /\ s \in Seq(Points) /\ Len(s) = Len(body)
      /\ s[1] = Beside(body[1], d)
      /\ \A k \in 2 .. Len(body) : s[k] = body[k - 1]
  BY MovedIs
<1>2. \A k \in 2 .. Len(body) : s[k] # s[1]
  BY <1>1 DEF HitsItself
<1>3. OnBoard(s[1])
  OBVIOUS
<1> HIDE DEF s
<1>4. PICK n \in Nat : n = Len(body) /\ n >= 2
  OBVIOUS
<1>5. \A k \in 1 .. n : OnBoard(s[k])
  <2>1. \A k \in 2 .. n : k - 1 \in 1 .. n
    OBVIOUS
  <2>2. \A k \in 1 .. n : k = 1 \/ k \in 2 .. n
    OBVIOUS
  <2>3. QED
    BY <1>1, <1>3, <1>4, <2>1, <2>2, Zenon DEF OnePiece
<1>6. ASSUME NEW k \in 1 .. n, NEW l \in 1 .. n, k < l
      PROVE  s[k] # s[l]
  <2>1. CASE k = 1
    BY <1>2, <1>4, <1>6, <2>1
  <2>2. CASE k # 1
    <3>1. k - 1 \in 1 .. n /\ l - 1 \in 1 .. n /\ k - 1 < l - 1 /\ l - 1 # n
      BY <1>6, <2>2
    <3>2. body[k - 1] # body[l - 1]
      BY <1>4, <3>1 DEF OnePiece
    <3>3. QED
      BY <1>1, <1>4, <1>6, <2>2, <3>2
  <2>3. QED
    BY <2>1, <2>2
<1>7. ASSUME NEW k \in 1 .. n - 1
      PROVE  \E e \in Dirs : s[k] = Beside(s[k + 1], e)
  <2>1. s[k + 1] = body[k]
    BY <1>1, <1>4
  <2>2. CASE k = 1
    BY <1>1, <2>1, <2>2
  <2>3. CASE k # 1
    <3>1. k - 1 \in 1 .. n - 2 /\ (k - 1) + 1 = k /\ k \in 2 .. n
      BY <2>3
    <3>2. \E e \in Dirs : body[k - 1] = Beside(body[k], e)
      BY <1>4, <3>1 DEF OnePiece
    <3>3. QED
      BY <1>1, <1>4, <2>1, <3>1, <3>2
  <2>4. QED
    BY <2>2, <2>3
<1>8. Stretched(s)
  BY <1>1, <1>4, <1>5, <1>6, <1>7 DEF Stretched
<1>9. QED
  BY <1>8 DEF s

\* A stretched snake is in one piece, also with a second segment on its tail.
LEMMA StretchedIsOnePiece ==
    ASSUME NEW s \in Seq(Points), Len(s) >= 2, Stretched(s)
    PROVE  OnePiece(s) /\ OnePiece(Append(s, s[Len(s)]))
<1>1. PICK n \in Nat : n = Len(s) /\ n >= 2
  OBVIOUS
<1>2. /\ \A k \in 1 .. n : OnBoard(s[k])
      /\ \A k \in 1 .. n, l \in 1 .. n : k < l => s[k] # s[l]
      /\ \A k \in 1 .. n - 1 : \E d \in Dirs : s[k] = Beside(s[k + 1], d)
  BY <1>1 DEF Stretched
<1>3. OnePiece(s)
  <2>1. \A k \in 1 .. n - 2 : k \in 1 .. n - 1
    BY <1>1
  <2>2. QED
    BY <1>1, <1>2, <2>1 DEF OnePiece
<1> DEFINE t == Append(s, s[n])
<1>4. /\ Len(t) = n + 1 /\ t[n + 1] = s[n]
      /\ \A k \in 1 .. n : t[k] = s[k]
  BY <1>1
<1> HIDE DEF t
<1>5. \A k \in 1 .. n + 1 : OnBoard(t[k])
  BY <1>1, <1>2, <1>4
<1>6. ASSUME NEW k \in 1 .. n + 1, NEW l \in 1 .. n + 1, k < l, t[k] = t[l]
      PROVE  k = n /\ l = n + 1
  <2>1. CASE l \in 1 .. n
    BY <1>2, <1>4, <1>6, <2>1
  <2>2. CASE l = n + 1
    BY <1>1, <1>2, <1>4, <1>6, <2>2
  <2>3. QED
    BY <2>1, <2>2
<1>7. \A k \in 1 .. n - 1 : \E d \in Dirs : t[k] = Beside(t[k + 1], d)
  <2>1. \A k \in 1 .. n - 1 : k \in 1 .. n /\ k + 1 \in 1 .. n
    BY <1>1
  <2>2. QED
    BY <1>2, <1>4, <2>1
<1>8. OnePiece(t)
  BY <1>1, <1>4, <1>5, <1>6, <1>7 DEF OnePiece
<1>9. QED
  BY <1>1, <1>3, <1>8 DEF t

\* A snake in one piece has at most one segment more than there are tiles.
LEMMA OnePieceFits ==
    ASSUME NEW s \in Seq(Points), Len(s) >= 2, OnePiece(s)
    PROVE  Len(s) <= GB_WIDTH * GB_HEIGHT + 1
<1>1. PICK n \in Nat : n = Len(s) - 1 /\ n \in 0 .. Len(s)
  OBVIOUS
<1>2. \A k \in 1 .. n : OnBoard(s[k])
  BY <1>1 DEF OnePiece
<1>3. \A k, l \in 1 .. n : k < l => s[k] # s[l]
  BY <1>1 DEF OnePiece
<1>4. n <= GB_WIDTH * GB_HEIGHT
  BY <1>1, <1>2, <1>3, Pigeonhole
<1>5. GB_WIDTH * GB_HEIGHT \in Nat
  BY BoardAssumption
<1>6. QED
  BY <1>1, <1>4, <1>5

------------------------------------------------------------------------------
(* The invariant.                                                           *)

BodyFits == Len(body) <= GB_WIDTH * GB_HEIGHT + 2

\* While a game is played the snake has a head and a neck, and has grown by
\* its score.
Grown == playing = TRUE => Len(body) >= 2 /\ score = Len(body) - START_LEN

\* While it goes on the neck is behind the head, in the direction in which
\* the snake goes.
NeckBehind ==
    playing = TRUE /\ return_flag = FALSE =>
        /\ OnePiece(body)
        /\ body[1] = Beside(body[2], move_dir)

Apple == playing = TRUE /\ return_flag = FALSE => \E t \in Tiles : food = {t}

IInv == TypeOK /\ BodyFits /\ Grown /\ NeckBehind /\ Apple

\* Before the first game the invariant holds.
LEMMA InitIInv == Init => IInv
<1> SUFFICES ASSUME Init PROVE IInv
  OBVIOUS
<1>1. /\ playing = FALSE /\ body = <<>> /\ move_dir = "east" /\ keypress = "other"
      /\ food = {} /\ return_flag = FALSE /\ score = 0
  BY DEF Init
<1>2. TypeOK
  <2>1. body \in Seq(Int \X Int)
    BY <1>1
  <2>2. move_dir \in Dirs /\ keypress \in Keys /\ food \subseteq Tiles /\ score \in Nat
    BY <1>1 DEF Dirs, Keys
  <2>3. QED
    BY <1>1, <2>1, <2>2, Zenon DEF TypeOK
<1>3. BodyFits
  <2>1. GB_WIDTH * GB_HEIGHT \in Nat /\ Len(body) = 0
    BY <1>1, BoardAssumption
  <2>2. QED
    BY <2>1 DEF BodyFits
<1>4. Grown /\ NeckBehind /\ Apple
  BY <1>1, Zenon DEF Grown, NeckBehind, Apple
<1>5. QED
  BY <1>2, <1>3, <1>4 DEF IInv

\* init_game lays out a snake in one piece that goes east, and puts an apple.
LEMMA start_gameIInv ==
    ASSUME IInv, start_game
    PROVE  IInv'
<1>1. PICK s : s = [k \in 1 .. START_LEN |-> <<START_X - (k - 1), 0>>] /\ body' = s
  BY DEF start_game
<1>2. /\ playing' = TRUE /\ return_flag' = FALSE /\ move_dir' = "east"
      /\ keypress' = "other" /\ score' = 0
  BY DEF start_game
<1>3. PICK t \in Tiles : food' = {t}
  BY DEF start_game
<1>4. PICK n \in Nat : n = START_LEN /\ n >= 2
  BY BoardAssumption
<1>5. /\ GB_WIDTH \in Nat \ {0} /\ GB_HEIGHT \in Nat \ {0}
      /\ START_X \in n - 1 .. GB_WIDTH - 1
  BY <1>4, BoardAssumption
<1>6. /\ s \in Seq(Points) /\ Len(s) = n
      /\ \A k \in 1 .. n : s[k] = <<START_X - (k - 1), 0>>
  BY <1>1, <1>4, <1>5 DEF Points
<1>7. Stretched(s)
  <2>1. \A k \in 1 .. n : OnBoard(s[k])
    BY <1>5, <1>6 DEF OnBoard
  <2>2. \A k \in 1 .. n, l \in 1 .. n : k < l => s[k] # s[l]
    BY <1>5, <1>6
  <2>3. \A k \in 1 .. n - 1 : s[k] = Beside(s[k + 1], "east")
    BY <1>4, <1>5, <1>6 DEF Beside, Step
  <2>4. "east" \in Dirs
    BY DEF Dirs
  <2>5. QED
    BY <1>6, <2>1, <2>2, <2>3, <2>4 DEF Stretched
<1>8. OnePiece(s) /\ Len(s) <= GB_WIDTH * GB_HEIGHT + 1 /\ s[1] = Beside(s[2], "east")
  <2>1. OnePiece(s)
    BY <1>4, <1>6, <1>7, StretchedIsOnePiece
  <2>2. s[1] = Beside(s[2], "east")
    BY <1>4, <1>5, <1>6 DEF Beside, Step
  <2>3. QED
    BY <1>4, <1>6, <2>1, <2>2, OnePieceFits
<1>9. TypeOK'
  <2>1. /\ body' \in Seq(Int \X Int) /\ move_dir' \in Dirs /\ keypress' \in Keys
        /\ food' \subseteq Tiles /\ score' \in Nat
    BY <1>1, <1>2, <1>3, <1>6 DEF Dirs, Keys, Points
  <2>2. QED
    BY <1>2, <2>1, Zenon DEF TypeOK
<1>10. BodyFits' /\ Grown'
  <2>1. GB_WIDTH * GB_HEIGHT \in Nat
    BY BoardAssumption
  <2>2. QED
    BY <1>1, <1>2, <1>4, <1>6, <1>8, <2>1 DEF BodyFits, Grown
<1>11. NeckBehind' /\ Apple'
  BY <1>1, <1>2, <1>3, <1>8, Zenon DEF NeckBehind, Apple
<1>12. QED
  BY <1>9, <1>10, <1>11 DEF IInv

\* The direction that a move takes is not the opposite of the last one.
LEMMA Turns ==
    ASSUME IInv, snake_change_dir
    PROVE  move_dir' \in Dirs /\ move_dir' # Opposite[move_dir]
<1>1. move_dir \in Dirs /\ move_dir # Opposite[move_dir]
  BY DEF IInv, TypeOK, Dirs, Opposite
<1>2. \A k \in DOMAIN Wasd : Wasd[k] \in Dirs
  BY DEF Wasd, Dirs
<1>3. QED
  BY <1>1, <1>2, Zenon DEF snake_change_dir

\* The snake as update leaves it, if the game goes on.
LEMMA UpdatedBody ==
    ASSUME IInv, update
    PROVE  /\ playing = TRUE /\ return_flag = FALSE /\ playing' = TRUE
           /\ return_flag' \in BOOLEAN
           /\ body \in Seq(Points) /\ Len(body) >= 2
           /\ body' \in Seq(Points)
           /\ body'[1] = Beside(body[1], move_dir') /\ body'[2] = body[1]
           /\ \/ Len(body') = Len(body) + 1 /\ score' = score + 1
              \/ Len(body') = Len(body) /\ score' = score
           /\ food' \subseteq Tiles
           /\ return_flag' = FALSE => OnePiece(body') /\ \E t \in Tiles : food' = {t}
<1>1. playing = TRUE /\ return_flag = FALSE /\ playing' = TRUE
  BY Zenon DEF update, IInv, TypeOK
<1>2. body \in Seq(Points) /\ Len(body) >= 2 /\ OnePiece(body) /\ food \subseteq Tiles
  <2>1. Len(body) >= 2 /\ OnePiece(body)
    BY <1>1, Zenon DEF IInv, Grown, NeckBehind
  <2>2. QED
    BY <2>1 DEF IInv, TypeOK, Points
<1>3. PICK d \in Dirs : move_dir' = d
  BY Turns DEF update
<1> DEFINE s == Moved(d)
<1>4. /\ s \in Seq(Points) /\ Len(s) = Len(body)
      /\ s[1] = Beside(body[1], d) /\ s[2] = body[1]
  <2>1. 2 \in 2 .. Len(body) /\ 2 - 1 = 1
    BY <1>2
  <2>2. QED
    BY <1>2, <2>1, MovedIs
<1>5. return_flag' = (~ OnBoard(s[1]) \/ HitsItself(s))
  BY <1>3, Zenon DEF update
<1>6. return_flag' \in BOOLEAN
  BY <1>5, Zenon
<1>7. return_flag' = FALSE => OnBoard(s[1]) /\ Stretched(s)
  <2>1. return_flag' = FALSE => OnBoard(s[1]) /\ ~ HitsItself(s)
    BY <1>5, Zenon
  <2>2. QED
    BY <1>2, <2>1, MoveStretches
<1>8. PICK eats \in HasFood(s[1]) :
          IF eats THEN Eat(s) ELSE body' = s /\ UNCHANGED <<food, score>>
  BY <1>3, Zenon DEF update
<1>9. return_flag' = FALSE => eats = (Tile(s[1]) \in food) /\ Tile(s[1]) \in Tiles
  <2> SUFFICES ASSUME return_flag' = FALSE
               PROVE  eats = (Tile(s[1]) \in food) /\ Tile(s[1]) \in Tiles
    BY Zenon
  <2>1. s[1] \in Points
    BY <1>2, <1>4
  <2>2. Tile(s[1]) \in Tiles
    BY <1>7, <2>1, OnBoardTile
  <2>3. HasFood(s[1]) = {Tile(s[1]) \in food}
    <3>1. ~ (Tile(s[1]) < 0)
      BY <2>2, BoardAssumption DEF Tiles
    <3>2. QED
      BY <2>2, <3>1, Zenon DEF HasFood
  <2>4. QED
    BY <1>8, <2>2, <2>3, Zenon
<1> HIDE DEF s
<1>10. CASE eats
  <2>1. PICK t \in Tiles : food' = (food \ {Tile(s[1])}) \cup {t}
    BY <1>8, <1>10, Zenon DEF Eat
  <2>2. body' = Append(s, s[Len(s)]) /\ score' = score + 1
    BY <1>8, <1>10, Zenon DEF Eat
  <2>3. /\ body' \in Seq(Points) /\ Len(body') = Len(body) + 1
        /\ body'[1] = s[1] /\ body'[2] = s[2]
    BY <1>2, <1>4, <2>2
  <2>4. return_flag' = FALSE => OnePiece(body')
    BY <1>2, <1>4, <1>7, <2>2, StretchedIsOnePiece
  <2>5. return_flag' = FALSE => food' = {t}
    <3>1. PICK u \in Tiles : food = {u}
      BY <1>1, Zenon DEF IInv, Apple
    <3>2. return_flag' = FALSE => Tile(s[1]) = u
      BY <1>9, <1>10, <3>1, Zenon
    <3>3. QED
      BY <2>1, <3>1, <3>2
  <2>6. food' \subseteq Tiles
    BY <1>2, <2>1
  <2>7. QED
    BY <1>1, <1>2, <1>3, <1>4, <1>6, <2>2, <2>3, <2>4, <2>5, <2>6, Zenon
<1>11. CASE ~ eats
  <2>1. body' = s /\ food' = food /\ score' = score
    BY <1>8, <1>11, Zenon
  <2>2. return_flag' = FALSE => OnePiece(body')
    BY <1>2, <1>4, <1>7, <2>1, StretchedIsOnePiece
  <2>3. \E t \in Tiles : food' = {t}
    BY <1>1, <2>1, Zenon DEF IInv, Apple
  <2>4. QED
    BY <1>1, <1>2, <1>3, <1>4, <1>6, <2>1, <2>2, <2>3, Zenon
<1>12. QED
  BY <1>10, <1>11

\* A move preserves the invariant, whatever key was noted.
LEMMA updateIInv ==
    ASSUME IInv, update
    PROVE  IInv'
<1>1. /\ playing = TRUE /\ return_flag = FALSE /\ playing' = TRUE
      /\ return_flag' \in BOOLEAN
      /\ body \in Seq(Points) /\ Len(body) >= 2
      /\ body' \in Seq(Points)
      /\ body'[1] = Beside(body[1], move_dir') /\ body'[2] = body[1]
      /\ \/ Len(body') = Len(body) + 1 /\ score' = score + 1
         \/ Len(body') = Len(body) /\ score' = score
      /\ food' \subseteq Tiles
      /\ return_flag' = FALSE => OnePiece(body') /\ \E t \in Tiles : food' = {t}
  BY UpdatedBody
<1>2. move_dir' \in Dirs /\ UNCHANGED keypress
  BY Turns DEF update
<1>3. score \in Nat /\ score = Len(body) - START_LEN /\ Len(body) \in Nat
  BY <1>1 DEF IInv, TypeOK, Grown
<1>4. PICK n \in Nat : n = Len(body')
  BY <1>1
<1>5. n >= 2 /\ n <= Len(body) + 1
  BY <1>1, <1>3, <1>4
<1>6. PICK g \in Nat : g = score'
  BY <1>1, <1>3
<1>7. TypeOK'
  <2>1. body' \in Seq(Int \X Int)
    BY <1>1 DEF Points
  <2>2. keypress' \in Keys
    BY <1>2 DEF IInv, TypeOK
  <2>3. score' \in Nat
    BY <1>6
  <2>4. QED
    BY <1>1, <1>2, <2>1, <2>2, <2>3, Zenon DEF TypeOK
<1>8. BodyFits'
  <2>1. OnePiece(body)
    BY <1>1, Zenon DEF IInv, NeckBehind
  <2>2. Len(body) <= GB_WIDTH * GB_HEIGHT + 1
    BY <1>1, <2>1, OnePieceFits
  <2>3. GB_WIDTH * GB_HEIGHT \in Nat
    BY BoardAssumption
  <2>4. n <= GB_WIDTH * GB_HEIGHT + 2
    BY <1>3, <1>5, <2>2, <2>3
  <2>5. QED
    BY <1>4, <2>4 DEF BodyFits
<1>9. Grown'
  <2>1. START_LEN \in Nat
    BY BoardAssumption
  <2>2. g = n - START_LEN
    BY <1>1, <1>3, <1>4, <1>6, <2>1
  <2>3. QED
    BY <1>4, <1>5, <1>6, <2>2 DEF Grown
<1>10. NeckBehind' /\ Apple'
  BY <1>1, Zenon DEF NeckBehind, Apple
<1>11. QED
  BY <1>7, <1>8, <1>9, <1>10 DEF IInv

------------------------------------------------------------------------------
(* The theorems.                                                            *)

\* Every step preserves the invariant.
LEMMA NextIInv == IInv /\ [Next]_vars => IInv'
<1> SUFFICES ASSUME IInv, [Next]_vars PROVE IInv'
  OBVIOUS
<1>1. CASE start_game
  BY <1>1, start_gameIInv
<1>2. CASE \E k \in Keys : handle_key_input(k)
  <2>1. /\ keypress' \in Keys
        /\ UNCHANGED <<playing, body, move_dir, food, return_flag, score>>
    BY <1>2, Zenon DEF handle_key_input
  <2>2. TypeOK' /\ BodyFits' /\ Grown' /\ NeckBehind' /\ Apple'
    BY <2>1, Zenon DEF IInv, TypeOK, BodyFits, Grown, NeckBehind, Apple
  <2>3. QED
    BY <2>2 DEF IInv
<1>3. CASE update
  BY <1>3, updateIInv
<1>4. CASE game_over
  <2>1. /\ playing' = FALSE
        /\ UNCHANGED <<body, move_dir, keypress, food, return_flag, score>>
    BY <1>4 DEF game_over
  <2>2. TypeOK' /\ BodyFits' /\ Grown' /\ NeckBehind' /\ Apple'
    BY <2>1, Zenon DEF IInv, TypeOK, BodyFits, Grown, NeckBehind, Apple
  <2>3. QED
    BY <2>2 DEF IInv
<1>5. CASE UNCHANGED vars
  <2>1. UNCHANGED <<playing, body, move_dir, keypress, food, return_flag, score>>
    BY <1>5 DEF vars
  <2>2. TypeOK' /\ BodyFits' /\ Grown' /\ NeckBehind' /\ Apple'
    BY <2>1, Zenon DEF IInv, TypeOK, BodyFits, Grown, NeckBehind, Apple
  <2>3. QED
    BY <2>2 DEF IInv
<1>6. QED
  BY <1>1, <1>2, <1>3, <1>4, <1>5 DEF Next

\* The snake, its direction, the apple and the score agree (snake.c).
THEOREM Invariance == Spec => []IInv
BY InitIInv, NextIInv, PTL DEF Spec

\* There is one apple while the game goes on (put_apple, rand_apple).
THEOREM AlwaysOneApple == Spec => []OneApple
<1>1. IInv => OneApple
  BY Zenon DEF IInv, TypeOK, Apple, OneApple, Alive
<1>2. QED
  BY <1>1, Invariance, PTL

\* On a board of any size the snake stays on it in one piece and fits into an
\* array of two entries more than the board has tiles (snake_move_snake).
THEOREM AlwaysInOnePiece == Spec => []SnakeInOnePiece
<1>1. IInv => SnakeInOnePiece
  BY Zenon DEF IInv, TypeOK, BodyFits, NeckBehind, OnePiece, Beside, SnakeInOnePiece,
               SnakeFits, Alive
<1>2. QED
  BY <1>1, Invariance, PTL

\* The score tells by how much the snake has grown (start_game, put_apple).
THEOREM ScoreIsAlwaysGrowth == Spec => []ScoreIsGrowth
<1>1. IInv => ScoreIsGrowth
  BY Zenon DEF IInv, TypeOK, Grown, ScoreIsGrowth
<1>2. QED
  BY <1>1, Invariance, PTL

\* No sequence of keys between two moves turns the head onto the neck: the
\* interrupt only notes the key, and snake_change_dir looks at it once a move.
THEOREM NeverReverses == Spec => NoReversal
<1>1. IInv /\ [Next]_vars => [Alive /\ body' # body => body'[1] # body[2]]_vars
  <2> SUFFICES ASSUME IInv, Next, Alive, body' # body
               PROVE  body'[1] # body[2]
    BY DEF vars
  <2>1. update
    BY Zenon DEF Next, start_game, handle_key_input, game_over, Alive
  <2>2. /\ body \in Seq(Points) /\ Len(body) >= 2
        /\ body'[1] = Beside(body[1], move_dir')
    BY <2>1, UpdatedBody
  <2>3. body[1] = Beside(body[2], move_dir)
    BY Zenon DEF IInv, TypeOK, NeckBehind, Alive
  <2>4. PICK d \in Dirs : move_dir' = d /\ d # Opposite[move_dir]
    BY <2>1, Turns DEF update
  <2>5. move_dir \in Dirs /\ body[2] \in Points
    BY <2>2 DEF IInv, TypeOK
  <2>6. Beside(Beside(body[2], move_dir), d) # body[2]
    BY <2>4, <2>5, NotBack
  <2>7. QED
    BY <2>2, <2>3, <2>4, <2>6
<1>2. QED
  BY <1>1, Invariance, PTL DEF Spec, NoReversal
==============================================================================
