-------------------------------- MODULE Snake --------------------------------
(***************************************************************************)
(* The snake game (console/apps/snake.c).  The main loop plays, the        *)
(* keyboard interrupt leaves the last key in game_bd->keypress; any number *)
(* of keys may come between two moves.  Drawing and colors are left out,   *)
(* rand() is any number.                                                   *)
(***************************************************************************)
EXTENDS Integers, Sequences

CONSTANTS
    GB_WIDTH, GB_HEIGHT,
    START_X,        \* where make_snake puts the head of the snake
    START_LEN       \* and how long it makes it

VARIABLES
    playing,        \* game_bd is allocated and main is in its loop
    body,           \* snake.data[0 .. current_len - 1], the head first
    move_dir,
    keypress,
    food,           \* the tiles with has_food, as indices of tiles[]
    return_flag,
    score

vars == <<playing, body, move_dir, keypress, food, return_flag, score>>

ASSUME BoardAssumption ==
    /\ GB_WIDTH \in Nat \ {0} /\ GB_HEIGHT \in Nat \ {0}
    /\ START_LEN \in Nat \ {0, 1}
    /\ START_X \in START_LEN - 1 .. GB_WIDTH - 1

Dirs == {"north", "east", "south", "west"}

Step == [north |-> <<0, -1>>, east |-> <<1, 0>>,
         south |-> <<0, 1>>,  west |-> <<-1, 0>>]

Opposite == [north |-> "south", east |-> "west",
             south |-> "north", west |-> "east"]

Wasd == [w |-> "north", a |-> "west", s |-> "south", d |-> "east"]

Keys == DOMAIN Wasd \cup {"other"}

\* tiles[] is indexed by row and column together.
Tile(p) == p[2] * GB_WIDTH + p[1]

Tiles == 0 .. GB_WIDTH * GB_HEIGHT - 1

OnBoard(p) == p[1] \in 0 .. GB_WIDTH - 1 /\ p[2] \in 0 .. GB_HEIGHT - 1

Init ==
    /\ playing = FALSE
    /\ body = <<>> /\ move_dir = "east"
    /\ keypress = "other"
    /\ food = {} /\ return_flag = FALSE /\ score = 0

\* Mutant of start_game: the score of the last game is kept.
start_gameKeepsScore ==
    /\ ~ playing /\ playing' = TRUE
    /\ body' = [i \in 1 .. START_LEN |-> <<START_X - (i - 1), 0>>]
    /\ move_dir' = "east"
    /\ keypress' = "other"
    /\ return_flag' = FALSE
    /\ UNCHANGED score
    /\ \E t \in Tiles : food' = {t}

\* init_game, attach_keyboard and the first rand_apple.
start_game ==
    /\ ~ playing /\ playing' = TRUE
    /\ body' = [i \in 1 .. START_LEN |-> <<START_X - (i - 1), 0>>]
    /\ move_dir' = "east"
    /\ keypress' = "other"
    /\ return_flag' = FALSE
    /\ score' = 0
    /\ \E t \in Tiles : food' = {t}

\* Mutant of handle_key_input: the interrupt turns the snake itself, so that
\* two keys between two moves turn it round.
handle_key_inputTurns(k) ==
    /\ playing
    /\ keypress' = k
    /\ move_dir' = IF k \in DOMAIN Wasd /\ Wasd[k] # Opposite[move_dir]
                   THEN Wasd[k] ELSE move_dir
    /\ UNCHANGED <<playing, body, food, return_flag, score>>

\* The interrupt.  Releases count as well: they carry the key's character.
handle_key_input(k) ==
    /\ playing
    /\ keypress' = k
    /\ UNCHANGED <<playing, body, move_dir, food, return_flag, score>>

\* snake_change_dir ignores a key that would turn the snake on itself.
snake_change_dir ==
    move_dir' = IF keypress \in DOMAIN Wasd /\ Wasd[keypress] # Opposite[move_dir]
                THEN Wasd[keypress] ELSE move_dir

\* Every segment takes the place of the one before it.
Moved(dir) ==
    LET head == <<body[1][1] + Step[dir][1], body[1][2] + Step[dir][2]>>
    IN  <<head>> \o SubSeq(body, 1, Len(body) - 1)

\* Mutant of HitsItself: the tail is not compared.
HitsItselfButTail(b) == \E i \in 2 .. Len(b) - 1 : b[i] = b[1]

HitsItself(b) == \E i \in 2 .. Len(b) : b[i] = b[1]

\* has_food of the tile under the head; a head beside the board reads a tile
\* of another row, or memory before or after tiles[].  After it is
\* snake.data[], where has_food is never set; before it is the heap.
HasFood(p) ==
    CASE Tile(p) \in Tiles -> {Tile(p) \in food}
      [] Tile(p) < 0       -> BOOLEAN
      [] OTHER             -> {FALSE}

\* Mutant of Eat: the apple eaten stays.
EatKeepsApple(b) ==
    /\ body' = Append(b, b[Len(b)])
    /\ score' = score + 1
    /\ \E t \in Tiles : food' = food \cup {t}

\* put_apple(..., false), the new segment on the tail, and rand_apple.
Eat(b) ==
    /\ body' = Append(b, b[Len(b)])
    /\ score' = score + 1
    /\ \E t \in Tiles : food' = (food \ {Tile(b[1])}) \cup {t}

\* update: snake_change_dir and snake_move_snake.
update ==
    /\ playing /\ ~ return_flag
    /\ snake_change_dir
    /\ LET moved == Moved(move_dir') IN
        /\ return_flag' = (~ OnBoard(moved[1]) \/ HitsItself(moved))
        /\ \E eats \in HasFood(moved[1]) :
              IF eats THEN Eat(moved)
                      ELSE body' = moved /\ UNCHANGED <<food, score>>
    /\ UNCHANGED <<playing, keypress>>

\* main leaves its loop, waits and frees the game.
game_over ==
    /\ playing /\ return_flag
    /\ playing' = FALSE
    /\ UNCHANGED <<body, move_dir, keypress, food, return_flag, score>>

Next ==
    \/ start_game
    \/ \E k \in Keys : handle_key_input(k)
    \/ update
    \/ game_over

Spec == Init /\ [][Next]_vars

------------------------------------------------------------------------------
(* Properties.                                                              *)

TypeOK ==
    /\ {playing, return_flag} \subseteq BOOLEAN
    /\ body \in Seq(Int \X Int)
    /\ move_dir \in Dirs
    /\ keypress \in Keys
    /\ food \subseteq Tiles
    /\ score \in Nat

Alive == playing /\ ~ return_flag

\* While the game goes on there is one apple on the board, although rand_apple
\* does not look where it puts it.
OneApple == Alive => \E t \in Tiles : food = {t}

\* snake.data[] never overflows: the snake is at most one segment longer than
\* the board has tiles (601 in the code, where MAX_SNAKE_LEN is 1000), and the
\* game that ends may add one.
SnakeFits == Len(body) <= GB_WIDTH * GB_HEIGHT + 2

\* The snake lies on the board in one piece: each segment is beside the next,
\* and no two are on the same tile but the last two when it has just eaten.  So it
\* fits into its array, even with the segment of the last move.
SnakeInOnePiece ==
    /\ TypeOK /\ SnakeFits
    /\ Alive =>
           /\ \A i \in 1 .. Len(body) : OnBoard(body[i])
           /\ \A i \in 1 .. Len(body), j \in 1 .. Len(body) :
                 i < j /\ body[i] = body[j] => i = Len(body) - 1 /\ j = Len(body)
           /\ \A i \in 1 .. Len(body) - 2 : \E d \in Dirs :
                 body[i] = <<body[i + 1][1] + Step[d][1], body[i + 1][2] + Step[d][2]>>

\* The score is the number of segments the snake has grown by.
ScoreIsGrowth == playing => score = Len(body) - START_LEN

\* The head never turns back onto the neck, whatever keys come between moves.
NoReversal ==
    [][Alive /\ body' # body => body'[1] # body[2]]_vars

==============================================================================
