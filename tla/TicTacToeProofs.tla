--------------------------- MODULE TicTacToeProofs ---------------------------
(***************************************************************************)
(* The tic-tac-toe room is the chess room with nine cells for the position *)
(* and three in a row for mate: it implements Room, with every cell and    *)
(* the turn read as chess would show them, and so keeps what Room keeps.   *)
(* The proof follows a command's results from one game into the other.     *)
(***************************************************************************)
EXTENDS TicTacToeRoom, FiniteSetTheorems, TLAPS

USE ParametersAssumption, TicTacToeAssumption DEF RoomWith

-----------------------------------------------------------------------------
(* The board as chess sees it.                                             *)

Filled(b, m) == \E i \in DOMAIN WinningLines : \A c \in WinningLines[i] : b[c] = m
Marks(b, m) == {c \in Cell : b[c] = m}

BoardOutcome(b) ==
  IF WinnerForBoard(b) # NoColor THEN "checkmate" ELSE IF IsBoardFull(b) THEN "draw" ELSE "open"
Mover(n) == IF n % 2 = 0 THEN White ELSE Black

\* The record chess would hold: the outcome of the board, and the turn passed on
\* after every move, also after the one that ended the game.
Table(r) == [r EXCEPT !.board = BoardOutcome(@), !.turn = Mover(r.moves)]

\* The board is that of the moves counted, and only the player who moved last can
\* have a line on it; he keeps the turn when his move decided the game.
BoardSound(r) ==
  /\ r \in BoardRoom
  /\ r.turn = IF BoardOutcome(r.board) = "open" THEN Mover(r.moves) ELSE Opposite(Mover(r.moves))
  /\ \A m \in {"x", "o"} : Filled(r.board, m) => m = MarkForColor(Opposite(Mover(r.moves)))
  /\ Cardinality(Marks(r.board, "x")) + Cardinality(Marks(r.board, "o")) = r.moves
  /\ Cardinality(Marks(r.board, "x")) - Cardinality(Marks(r.board, "o")) = r.moves % 2

Seen == IF Exists THEN Table(room) ELSE Absent

Chess == INSTANCE RoomProofs WITH room <- Seen

BoardInvariant == (Exists => BoardSound(room)) /\ Chess!RoomSound

-----------------------------------------------------------------------------
(* Lines.                                                                  *)

LEMMA FilledLines ==
  ASSUME NEW b, NEW m
  PROVE  Filled(b, m) <=>
           \/ b[0] = m /\ b[1] = m /\ b[2] = m
           \/ b[3] = m /\ b[4] = m /\ b[5] = m
           \/ b[6] = m /\ b[7] = m /\ b[8] = m
           \/ b[0] = m /\ b[3] = m /\ b[6] = m
           \/ b[1] = m /\ b[4] = m /\ b[7] = m
           \/ b[2] = m /\ b[5] = m /\ b[8] = m
           \/ b[0] = m /\ b[4] = m /\ b[8] = m
           \/ b[2] = m /\ b[4] = m /\ b[6] = m
<1>1. DOMAIN WinningLines = 1 .. 8 BY DEF WinningLines
<1>2. Filled(b, m) <=> \E i \in {1, 2, 3, 4, 5, 6, 7, 8} : \A c \in WinningLines[i] : b[c] = m
  BY <1>1 DEF Filled
<1>3. /\ WinningLines[1] = {0, 1, 2} /\ WinningLines[2] = {3, 4, 5}
      /\ WinningLines[3] = {6, 7, 8} /\ WinningLines[4] = {0, 3, 6}
      /\ WinningLines[5] = {1, 4, 7} /\ WinningLines[6] = {2, 5, 8}
      /\ WinningLines[7] = {0, 4, 8} /\ WinningLines[8] = {2, 4, 6}
  BY DEF WinningLines
<1> QED BY <1>2, <1>3

\* The code's list holds the rows, the columns and the diagonals.
LEMMA LinesAreThreeInARow ==
  ASSUME NEW b, NEW m
  PROVE  Filled(b, m) <=> ThreeInARow(b, m)
<1>1. ThreeInARow(b, m) <=>
        \/ \E i \in {0, 1, 2} : \A j \in {0, 1, 2} : b[3 * i + j] = m
        \/ \E j \in {0, 1, 2} : \A i \in {0, 1, 2} : b[3 * i + j] = m
        \/ \A i \in {0, 1, 2} : b[4 * i] = m
        \/ \A i \in {0, 1, 2} : b[2 * i + 2] = m
  <2>1. 0 .. 2 = {0, 1, 2} OBVIOUS
  <2> QED BY <2>1 DEF ThreeInARow
<1>2. ThreeInARow(b, m) <=>
        \/ b[0] = m /\ b[1] = m /\ b[2] = m
        \/ b[3] = m /\ b[4] = m /\ b[5] = m
        \/ b[6] = m /\ b[7] = m /\ b[8] = m
        \/ b[0] = m /\ b[3] = m /\ b[6] = m
        \/ b[1] = m /\ b[4] = m /\ b[7] = m
        \/ b[2] = m /\ b[5] = m /\ b[8] = m
        \/ b[0] = m /\ b[4] = m /\ b[8] = m
        \/ b[2] = m /\ b[4] = m /\ b[6] = m
  BY <1>1
<1> QED BY <1>2, FilledLines

LEMMA MarkFacts ==
  /\ MarkForColor(White) = "x" /\ MarkForColor(Black) = "o" /\ White # Black
  /\ \A c \in Color : ColorFromMark(MarkForColor(c)) = c /\ Opposite(c) \in Color
                        /\ Opposite(Opposite(c)) = c /\ Opposite(c) # c
                        /\ MarkForColor(c) \in {"x", "o"}
  /\ \A m \in {"x", "o"} : ColorFromMark(m) \in Color /\ MarkForColor(ColorFromMark(m)) = m
  /\ NoColor \notin Color
BY DEF MarkForColor, ColorFromMark, Color, White, Black, NoColor, Opposite

LEMMA LeastOfEight ==
  ASSUME NEW S, S \subseteq 1 .. 8, S # {}
  PROVE  \E x \in S : \A y \in S : x <= y
<1>1. \A k \in 1 .. 8 : k \in S /\ (\A y \in S : ~(y < k)) => \E x \in S : \A y \in S : x <= y
  OBVIOUS
<1>2. \A y \in S : y = 1 \/ y = 2 \/ y = 3 \/ y = 4 \/ y = 5 \/ y = 6 \/ y = 7 \/ y = 8
  OBVIOUS
<1>3. CASE 1 \in S BY <1>1, <1>3
<1>4. CASE 1 \notin S /\ 2 \in S BY <1>1, <1>2, <1>4
<1>5. CASE 1 \notin S /\ 2 \notin S /\ 3 \in S BY <1>1, <1>2, <1>5
<1>6. CASE 1 \notin S /\ 2 \notin S /\ 3 \notin S /\ 4 \in S BY <1>1, <1>2, <1>6
<1>7. CASE 1 \notin S /\ 2 \notin S /\ 3 \notin S /\ 4 \notin S /\ 5 \in S BY <1>1, <1>2, <1>7
<1>8. CASE S \subseteq {6, 7, 8}
  <2>1. CASE 6 \in S BY <1>1, <1>8, <2>1
  <2>2. CASE 6 \notin S /\ 7 \in S BY <1>1, <1>8, <2>2
  <2>3. CASE 6 \notin S /\ 7 \notin S
    <3>1. S = {8} BY <1>8, <2>3
    <3> QED BY <3>1
  <2> QED BY <2>1, <2>2, <2>3
<1> QED BY <1>2, <1>3, <1>4, <1>5, <1>6, <1>7, <1>8

\* The winner named by the code has a line, and is named whenever there is one.
LEMMA WinnerHasALine ==
  ASSUME NEW b
  PROVE  \/ WinnerForBoard(b) = NoColor /\ ~Filled(b, "x") /\ ~Filled(b, "o")
         \/ WinnerForBoard(b) \in Color /\ Filled(b, MarkForColor(WinnerForBoard(b)))
<1> DEFINE filled == {i \in DOMAIN WinningLines :
                        \E m \in {"x", "o"} : \A c \in WinningLines[i] : b[c] = m}
<1>1. CASE filled = {}
  BY <1>1 DEF WinnerForBoard, Filled
<1>2. CASE filled # {}
  <2>1. filled \subseteq 1 .. 8 BY DEF WinningLines
  <2> DEFINE i == Min(filled)
  <2>2. i \in filled
    <3> HIDE DEF filled
    <3>1. \E x \in filled : \A y \in filled : x <= y
      BY <1>2, <2>1, LeastOfEight
    <3> QED BY <3>1 DEF Min
  <2>3. PICK m \in {"x", "o"} : \A c \in WinningLines[i] : b[c] = m
    BY <2>2
  <2>4. WinningLines[i] # {}
    <3>1. i \in 1 .. 8 BY <2>1, <2>2
    <3> HIDE DEF i
    <3>2. i \in {1, 2, 3, 4, 5, 6, 7, 8} BY <3>1
    <3> QED BY <3>2 DEF WinningLines
  <2>5. i \in DOMAIN WinningLines BY <2>2
  <2>6. WinnerForBoard(b) = ColorFromMark(b[CHOOSE c \in WinningLines[i] : TRUE])
    BY <1>2 DEF WinnerForBoard
  <2> HIDE DEF i, filled
  <2>7. WinnerForBoard(b) = ColorFromMark(m)
    BY <2>3, <2>4, <2>6
  <2>8. Filled(b, m) BY <2>3, <2>5 DEF Filled
  <2> QED BY <2>7, <2>8, MarkFacts
<1> QED BY <1>1, <1>2

LEMMA OutcomeFacts ==
  ASSUME NEW b
  PROVE  /\ BoardOutcome(b) \in Outcome /\ BoardOutcome(b) # "stalemate"
         /\ BoardOutcome(b) = "checkmate" <=> Filled(b, "x") \/ Filled(b, "o")
         /\ BoardOutcome(b) = "open" => ~IsBoardFull(b)
         /\ IsBoardFull(b) => BoardOutcome(b) \in {"checkmate", "draw"}
         /\ BoardOutcome(b) = "draw" => IsBoardFull(b)
BY WinnerHasALine, MarkFacts DEF BoardOutcome, Outcome

-----------------------------------------------------------------------------
(* Counting marks.                                                         *)

LEMMA CellsAreNine == IsFiniteSet(Cell) /\ Cardinality(Cell) = 9
<1>1. 0 \in Int /\ 8 \in Int /\ 8 - 0 + 1 = 9 /\ 0 <= 8 OBVIOUS
<1>2. IsFiniteSet(0 .. 8) /\ Cardinality(0 .. 8) = IF 0 > 8 THEN 0 ELSE 8 - 0 + 1
  BY ONLY <1>1, FS_Interval
<1> QED BY <1>1, <1>2 DEF Cell

LEMMA MarksAreFinite ==
  ASSUME NEW b, NEW m
  PROVE  IsFiniteSet(Marks(b, m)) /\ Cardinality(Marks(b, m)) \in Nat
<1>1. Marks(b, m) \subseteq Cell BY DEF Marks
<1> QED BY <1>1, CellsAreNine, FS_Subset, FS_CardinalityType

\* The marked cells are those with an X and those with an O.
LEMMA MarksAddUp ==
  ASSUME NEW b \in Board
  PROVE  LET n == Cardinality(Marks(b, "x")) + Cardinality(Marks(b, "o"))
         IN  n \in 0 .. 9 /\ (IsBoardFull(b) <=> n = 9)
<1> DEFINE x == Marks(b, "x")
           o == Marks(b, "o")
           n == Cardinality(x) + Cardinality(o)
<1>1. IsFiniteSet(x) /\ IsFiniteSet(o) /\ Cardinality(x) \in Nat /\ Cardinality(o) \in Nat
  BY MarksAreFinite
<1>2. x \cap o = {} /\ x \cup o \subseteq Cell /\ (IsBoardFull(b) <=> x \cup o = Cell)
  BY DEF Marks, Board, IsBoardFull, Empty
<1> HIDE DEF x, o
<1>3. IsFiniteSet(x \cup o) /\ Cardinality(x \cup o) = n
  <2>1. Cardinality(x \cap o) = 0 BY <1>2, FS_EmptySet
  <2> QED BY <1>1, <2>1, FS_Union
<1>4. n <= 9 /\ (n = 9 => x \cup o = Cell)
  BY <1>2, <1>3, CellsAreNine, FS_Subset
<1> QED BY <1>1, <1>2, <1>3, <1>4, CellsAreNine DEF x, o

\* A mark on an empty cell adds one to its count and leaves the other count alone; a
\* line that is there afterwards was there before or is of that mark.
LEMMA MarkAdded ==
  ASSUME NEW b \in Board, NEW cell \in Cell, b[cell] = Empty, NEW m \in {"x", "o"}
  PROVE  LET q == [b EXCEPT ![cell] = m]
         IN  /\ q \in Board
             /\ Cardinality(Marks(q, m)) = Cardinality(Marks(b, m)) + 1
             /\ \A k \in {"x", "o"} \ {m} : Cardinality(Marks(q, k)) = Cardinality(Marks(b, k))
             /\ \A k \in {"x", "o"} \ {m} : Filled(q, k) => Filled(b, k)
<1> DEFINE q == [b EXCEPT ![cell] = m]
<1>1. q \in Board BY DEF Board
<1>2. q[cell] = m /\ \A c \in Cell \ {cell} : q[c] = b[c] BY DEF Board
<1> HIDE DEF q
<1>3. Marks(q, m) = Marks(b, m) \cup {cell} /\ cell \notin Marks(b, m)
  BY <1>2 DEF Marks, Empty
<1>4. Cardinality(Marks(q, m)) = Cardinality(Marks(b, m)) + 1
  BY <1>3, MarksAreFinite, FS_AddElement
<1>5. \A k \in {"x", "o"} \ {m} : Marks(q, k) = Marks(b, k)
  BY <1>2 DEF Marks, Empty
<1>6. ASSUME NEW k \in {"x", "o"} \ {m}, Filled(q, k) PROVE Filled(b, k)
  <2>1. PICK i \in DOMAIN WinningLines : \A c \in WinningLines[i] : q[c] = k
    BY <1>6 DEF Filled
  <2>2. WinningLines[i] \subseteq Cell
    <3>1. i \in {1, 2, 3, 4, 5, 6, 7, 8} BY DEF WinningLines
    <3> QED BY <3>1 DEF WinningLines, Cell
  <2>3. \A c \in WinningLines[i] : b[c] = k BY <1>2, <2>1, <2>2
  <2> QED BY <2>3 DEF Filled
<1> QED BY <1>1, <1>4, <1>5, <1>6 DEF q

-----------------------------------------------------------------------------
(* The commands that leave the board alone, in both games.                 *)

SameBoard(q, r) == q \in BoardRoom /\ q.board = r.board /\ q.turn = r.turn /\ q.moves = r.moves

LEMMA SameBoardSound ==
  ASSUME NEW q, NEW r, BoardSound(r), SameBoard(q, r)
  PROVE  BoardSound(q)
BY DEF BoardSound, SameBoard

LEMMA TableFields ==
  ASSUME NEW r \in BoardRoom
  PROVE  /\ Table(r) \in Room
         /\ Table(r).board = BoardOutcome(r.board) /\ Table(r).turn = Mover(r.moves)
         /\ Table(r).mode = r.mode /\ Table(r).clockEnabled = r.clockEnabled
         /\ Table(r).status = r.status /\ Table(r).winner = r.winner
         /\ Table(r).seat = r.seat /\ Table(r).spectators = r.spectators
         /\ Table(r).connected = r.connected /\ Table(r).clocks = r.clocks
         /\ Table(r).activeColor = r.activeColor /\ Table(r).turnStartedAt = r.turnStartedAt
         /\ Table(r).moves = r.moves /\ Table(r).firstMoveAt = r.firstMoveAt
         /\ Table(r).drawOffer = r.drawOffer /\ Table(r).botMoveDueAt = r.botMoveDueAt
<1> DEFINE o == BoardOutcome(r.board)
           m == Mover(r.moves)
<1>1. o \in Outcome BY OutcomeFacts
<1>2. m \in Color BY DEF Mover, Color
<1>3. Table(r) = [r EXCEPT !.board = o, !.turn = m] BY DEF Table, BoardRoom
<1> HIDE DEF o, m
<1>4. Table(r) \in Room /\ Table(r).board = o /\ Table(r).turn = m
  BY <1>1, <1>2, <1>3 DEF BoardRoom, Room
<1> QED BY <1>3, <1>4 DEF BoardRoom, o, m

\* A change of any other field commutes with the view.
LEMMA TableOfSame ==
  ASSUME NEW r \in BoardRoom, NEW q, SameBoard(q, r)
  PROVE  Table(q) = [q EXCEPT !.board = Table(r).board, !.turn = Table(r).turn]
<1>1. Table(r).board = BoardOutcome(r.board) /\ Table(r).turn = Mover(r.moves) BY TableFields
<1> QED BY <1>1 DEF Table, SameBoard, BoardRoom

LEMMA PresenceSeen ==
  ASSUME NEW r \in BoardRoom, NEW t \in Token
  PROVE  /\ SameBoard(Reconnect(r, t), r) /\ Table(Reconnect(r, t)) = Reconnect(Table(r), t)
         /\ SameBoard(Disconnect(r, t), r) /\ Table(Disconnect(r, t)) = Disconnect(Table(r), t)
<1> DEFINE o == Table(r).board
           m == Table(r).turn
<1>1. Table(r) = [r EXCEPT !.board = o, !.turn = m]
  BY TableOfSame DEF SameBoard
<1>2. SameBoard(Reconnect(r, t), r) /\ SameBoard(Disconnect(r, t), r)
  BY DEF SameBoard, BoardRoom, Reconnect, Disconnect
<1>3. /\ Table(Reconnect(r, t)) = [Reconnect(r, t) EXCEPT !.board = o, !.turn = m]
      /\ Table(Disconnect(r, t)) = [Disconnect(r, t) EXCEPT !.board = o, !.turn = m]
  BY <1>2, TableOfSame
<1> HIDE DEF o, m
<1>4. [Reconnect(r, t) EXCEPT !.board = o, !.turn = m] = Reconnect(Table(r), t)
  BY <1>1 DEF Reconnect, BoardRoom
<1>5. [Disconnect(r, t) EXCEPT !.board = o, !.turn = m] = Disconnect(Table(r), t)
  BY <1>1 DEF Disconnect, BoardRoom
<1> QED BY <1>2, <1>3, <1>4, <1>5

LEMMA FinishSeen ==
  ASSUME NEW r \in BoardRoom, NEW w \in Color \cup {NoColor}, NEW s \in Status
  PROVE  SameBoard(FinishGame(r, w, s), r) /\ Table(FinishGame(r, w, s)) = FinishGame(Table(r), w, s)
<1> DEFINE o == Table(r).board
           m == Table(r).turn
<1>1. Table(r) = [r EXCEPT !.board = o, !.turn = m]
  BY TableOfSame DEF SameBoard
<1>2. SameBoard(FinishGame(r, w, s), r)
  BY DEF SameBoard, BoardRoom, FinishGame, Time, NoTime, NoColor
<1>3. Table(FinishGame(r, w, s)) = [FinishGame(r, w, s) EXCEPT !.board = o, !.turn = m]
  BY <1>2, TableOfSame
<1> HIDE DEF o, m
<1>4. [FinishGame(r, w, s) EXCEPT !.board = o, !.turn = m]
        = FinishGame([r EXCEPT !.board = o, !.turn = m], w, s)
  BY ONLY DEF FinishGame
<1> QED BY <1>1, <1>2, <1>3, <1>4

LEMMA OfferSeen ==
  ASSUME NEW r \in BoardRoom, NEW c \in Color \cup {NoColor}
  PROVE  LET q == [r EXCEPT !.drawOffer = c]
         IN  SameBoard(q, r) /\ Table(q) = [Table(r) EXCEPT !.drawOffer = c]
<1> DEFINE q == [r EXCEPT !.drawOffer = c]
           o == Table(r).board
           m == Table(r).turn
<1>1. Table(r) = [r EXCEPT !.board = o, !.turn = m] BY TableOfSame DEF SameBoard
<1>2. SameBoard(q, r) BY DEF SameBoard, BoardRoom
<1>3. Table(q) = [q EXCEPT !.board = o, !.turn = m] BY <1>2, TableOfSame
<1> HIDE DEF o, m
<1>4. [q EXCEPT !.board = o, !.turn = m] = [[r EXCEPT !.board = o, !.turn = m] EXCEPT !.drawOffer = c]
  OBVIOUS
<1> QED BY <1>1, <1>2, <1>3, <1>4

\* Any people in the seats, and any spectators.
LEMMA PeopleSeen ==
  ASSUME NEW r \in BoardRoom, NEW seat \in [Color -> Token \cup {Machine, Nobody}],
         NEW watching \in SUBSET Token
  PROVE  /\ SameBoard([r EXCEPT !.seat = seat], r)
         /\ Table([r EXCEPT !.seat = seat]) = [Table(r) EXCEPT !.seat = seat]
         /\ SameBoard([r EXCEPT !.spectators = watching], r)
         /\ Table([r EXCEPT !.spectators = watching]) = [Table(r) EXCEPT !.spectators = watching]
<1> DEFINE o == Table(r).board
           m == Table(r).turn
<1>1. Table(r) = [r EXCEPT !.board = o, !.turn = m] BY TableOfSame DEF SameBoard
<1>2. SameBoard([r EXCEPT !.seat = seat], r) /\ SameBoard([r EXCEPT !.spectators = watching], r)
  BY DEF SameBoard, BoardRoom
<1>3. /\ Table([r EXCEPT !.seat = seat]) = [[r EXCEPT !.seat = seat] EXCEPT !.board = o, !.turn = m]
      /\ Table([r EXCEPT !.spectators = watching])
           = [[r EXCEPT !.spectators = watching] EXCEPT !.board = o, !.turn = m]
  BY <1>2, TableOfSame
<1> HIDE DEF o, m
<1>4. [[r EXCEPT !.seat = seat] EXCEPT !.board = o, !.turn = m]
        = [[r EXCEPT !.board = o, !.turn = m] EXCEPT !.seat = seat]
  OBVIOUS
<1>5. [[r EXCEPT !.spectators = watching] EXCEPT !.board = o, !.turn = m]
        = [[r EXCEPT !.board = o, !.turn = m] EXCEPT !.spectators = watching]
  OBVIOUS
<1> QED BY <1>1, <1>2, <1>3, <1>4, <1>5

LEMMA SitDownSeen ==
  ASSUME NEW r \in BoardRoom, NEW c \in Color, NEW t \in Token
  PROVE  SameBoard(SitDown(r, c, t), r) /\ Table(SitDown(r, c, t)) = SitDown(Table(r), c, t)
<1> DEFINE seat == [r.seat EXCEPT ![c] = t]
           connected == r.connected \cup {t}
           o == Table(r).board
           m == Table(r).turn
<1>1. /\ seat \in [Color -> Token \cup {Machine, Nobody}]
      /\ connected \in SUBSET (Token \cup {Machine})
  BY DEF BoardRoom
<1>2. SitDown(r, c, t) = [r EXCEPT !.seat = seat, !.connected = connected]
  BY DEF SitDown, BoardRoom
<1>3. SitDown(Table(r), c, t) = [Table(r) EXCEPT !.seat = seat, !.connected = connected]
  <2>1. Table(r) \in Room /\ Table(r).seat = r.seat /\ Table(r).connected = r.connected
    BY TableFields
  <2> QED BY <2>1 DEF SitDown, Room
<1>4. Table(r) = [r EXCEPT !.board = o, !.turn = m] BY TableOfSame DEF SameBoard
<1> HIDE DEF seat, connected
<1>5. SameBoard(SitDown(r, c, t), r) BY <1>1, <1>2 DEF SameBoard, BoardRoom
<1>6. Table(SitDown(r, c, t)) = [SitDown(r, c, t) EXCEPT !.board = o, !.turn = m]
  BY <1>5, TableOfSame
<1> HIDE DEF o, m
<1>7. [[r EXCEPT !.seat = seat, !.connected = connected] EXCEPT !.board = o, !.turn = m]
        = [[r EXCEPT !.board = o, !.turn = m] EXCEPT !.seat = seat, !.connected = connected]
  OBVIOUS
<1> QED BY <1>2, <1>3, <1>4, <1>5, <1>6, <1>7

\* A game that has not begun is White's to begin.
LEMMA StartSeen ==
  ASSUME NEW r \in BoardRoom, r.moves = 0, r.turn = White
  PROVE  SameBoard(StartGame(r), r) /\ Table(StartGame(r)) = StartGame(Table(r))
<1> DEFINE o == Table(r).board
<1>1. Table(r) = [r EXCEPT !.board = o, !.turn = White]
  <2>1. Table(r).turn = White BY TableFields DEF Mover
  <2> QED BY <2>1, TableOfSame DEF SameBoard
<1>2. SameBoard(StartGame(r), r)
  <2>1. "active" \in Status /\ NoColor \in Color \cup {NoColor} /\ NoTime \in Time
    BY DEF Status, Time
  <2>2. White \in Color BY DEF Color
  <2> QED BY <2>1, <2>2 DEF SameBoard, BoardRoom, StartGame
<1>3. Table(StartGame(r)) = [StartGame(r) EXCEPT !.board = o, !.turn = White]
  <2>1. Table(r).turn = White BY TableFields DEF Mover
  <2> QED BY <1>2, <2>1, TableOfSame
<1> HIDE DEF o
<1>4. [StartGame(r) EXCEPT !.board = o, !.turn = White]
        = StartGame([r EXCEPT !.board = o, !.turn = White])
  BY ONLY DEF StartGame
<1> QED BY <1>1, <1>2, <1>3, <1>4

-----------------------------------------------------------------------------
(* A command's results, seen as chess sees them.                           *)

LEMMA SameSession ==
  ASSUME NEW r \in BoardRoom
  PROVE  /\ Members(Table(r)) = Members(r) /\ HumanSeats(Table(r)) = HumanSeats(r)
         /\ \A t : HoldsSeat(Table(r), t) <=> HoldsSeat(r, t)
         /\ \A t, c : Holds(Table(r), t, c) <=> Holds(r, t, c)
         /\ IsFinished(Table(r)) <=> IsFinished(r)
         /\ ShouldDelete(Table(r)) <=> ShouldDelete(r)
         /\ \A t : MayAnswerOffer(Table(r), t) <=> MayAnswerOffer(r, t)
BY TableFields DEF Members, HumanSeats, HoldsSeat, Holds, IsFinished, ShouldDelete, MayAnswerOffer

LEMMA PresenceResultsSeen ==
  ASSUME NEW r, BoardSound(r), NEW t \in Token
  PROVE  /\ \A q \in SyncResults(r, t) : BoardSound(q) /\ Table(q) \in SyncResults(Table(r), t)
         /\ \A q \in MarkDisconnectedResults(r, t) :
              BoardSound(q) /\ Table(q) \in MarkDisconnectedResults(Table(r), t)
<1>1. r \in BoardRoom BY DEF BoardSound
<1> QED
  BY <1>1, PresenceSeen, SameBoardSound, SameSession DEF SyncResults, MarkDisconnectedResults

LEMMA ResignResultsSeen ==
  ASSUME NEW r, BoardSound(r), NEW t \in Token, NEW q \in ResignResults(r, t)
  PROVE  BoardSound(q) /\ Table(q) \in ResignResults(Table(r), t)
<1>1. r \in BoardRoom BY DEF BoardSound
<1>2. PICK c \in Color : Holds(r, t, c) /\ ~IsFinished(r) /\ q = FinishGame(r, Opposite(c), "resigned")
  BY DEF ResignResults
<1>3. "resigned" \in Status /\ Opposite(c) \in Color BY MarkFacts DEF Status, FinishedStatus
<1>4. SameBoard(q, r) /\ Table(q) = FinishGame(Table(r), Opposite(c), "resigned")
  BY <1>1, <1>2, <1>3, FinishSeen
<1> QED BY <1>1, <1>2, <1>4, SameBoardSound, SameSession DEF ResignResults

LEMMA DrawResultsSeen ==
  ASSUME NEW r, BoardSound(r), NEW t \in Token
  PROVE  /\ \A q \in OfferDrawResults(r, t) : BoardSound(q) /\ Table(q) \in OfferDrawResults(Table(r), t)
         /\ \A q \in AcceptDrawResults(r, t) : BoardSound(q) /\ Table(q) \in AcceptDrawResults(Table(r), t)
         /\ \A q \in DeclineDrawResults(r, t) :
              BoardSound(q) /\ Table(q) \in DeclineDrawResults(Table(r), t)
<1>1. r \in BoardRoom BY DEF BoardSound
<1>2. ASSUME NEW q \in OfferDrawResults(r, t)
      PROVE  BoardSound(q) /\ Table(q) \in OfferDrawResults(Table(r), t)
  <2>1. PICK c \in Color : /\ Holds(r, t, c) /\ r.mode # "bot_easy" /\ r.status = "active"
                           /\ r.drawOffer # c /\ q = [r EXCEPT !.drawOffer = c]
    BY <1>2 DEF OfferDrawResults
  <2>2. SameBoard(q, r) /\ Table(q) = [Table(r) EXCEPT !.drawOffer = c]
    BY <1>1, <2>1, OfferSeen
  <2> QED BY <1>1, <2>1, <2>2, SameBoardSound, SameSession, TableFields DEF OfferDrawResults
<1>3. ASSUME NEW q \in AcceptDrawResults(r, t)
      PROVE  BoardSound(q) /\ Table(q) \in AcceptDrawResults(Table(r), t)
  <2>1. MayAnswerOffer(r, t) /\ q = FinishGame(r, NoColor, "draw") BY <1>3 DEF AcceptDrawResults
  <2>2. SameBoard(q, r) /\ Table(q) = FinishGame(Table(r), NoColor, "draw")
    BY <1>1, <2>1, FinishSeen DEF Status, FinishedStatus
  <2> QED BY <1>1, <2>1, <2>2, SameBoardSound, SameSession DEF AcceptDrawResults
<1>4. ASSUME NEW q \in DeclineDrawResults(r, t)
      PROVE  BoardSound(q) /\ Table(q) \in DeclineDrawResults(Table(r), t)
  <2>1. MayAnswerOffer(r, t) /\ q = [r EXCEPT !.drawOffer = NoColor] BY <1>4 DEF DeclineDrawResults
  <2>2. SameBoard(q, r) /\ Table(q) = [Table(r) EXCEPT !.drawOffer = NoColor]
    BY <1>1, <2>1, OfferSeen
  <2> QED BY <1>1, <2>1, <2>2, SameBoardSound, SameSession DEF DeclineDrawResults
<1> QED BY <1>2, <1>3, <1>4

LEMMA JoinResultsSeen ==
  ASSUME NEW r, BoardSound(r), VerdictSound(Table(r)), NEW t \in Token, NEW fresh \in Token,
         NEW q \in JoinResults(r, t, fresh)
  PROVE  BoardSound(q) /\ Table(q) \in JoinResults(Table(r), t, fresh)
<1>1. /\ r \in BoardRoom /\ Table(r).seat = r.seat /\ Table(r).status = r.status
      /\ Members(Table(r)) = Members(r) /\ White \in Color /\ Black \in Color
  BY TableFields, SameSession DEF BoardSound, Color
<1>2. CASE t \in Members(r)
  BY <1>1, <1>2, PresenceSeen, SameBoardSound DEF JoinResults
<1>3. ASSUME NEW c \in Color
      PROVE  LET s == SitDown(r, c, fresh)
             IN  /\ BoardSound(s) /\ Table(s) = SitDown(Table(r), c, fresh)
                 /\ r.status = "waiting" =>
                      BoardSound(StartGame(s)) /\ Table(StartGame(s)) = StartGame(SitDown(Table(r), c, fresh))
  <2> DEFINE s == SitDown(r, c, fresh)
  <2>1. SameBoard(s, r) /\ Table(s) = SitDown(Table(r), c, fresh) BY <1>1, SitDownSeen
  <2> HIDE DEF s
  <2>2. BoardSound(s) BY <2>1, SameBoardSound
  <2>3. ASSUME r.status = "waiting"
        PROVE  BoardSound(StartGame(s)) /\ Table(StartGame(s)) = StartGame(Table(s))
    <3>1. r.moves = 0 /\ BoardOutcome(r.board) = "open"
      BY <1>1, <2>3, TableFields DEF VerdictSound
    <3>2. s \in BoardRoom /\ s.moves = 0 /\ s.turn = White
      BY <2>1, <3>1 DEF SameBoard, BoardSound, Mover
    <3> QED BY <2>2, <3>2, StartSeen, SameBoardSound
  <2> QED BY <2>1, <2>2, <2>3 DEF s
<1>4. CASE t \notin Members(r) /\ r.seat[White] = Nobody
  BY <1>1, <1>3, <1>4 DEF JoinResults
<1>5. CASE t \notin Members(r) /\ r.seat[White] # Nobody /\ r.seat[Black] = Nobody
  BY <1>1, <1>3, <1>5 DEF JoinResults
<1>6. CASE t \notin Members(r) /\ r.seat[White] # Nobody /\ r.seat[Black] # Nobody
  <2> DEFINE watching == r.spectators \cup {fresh}
             s == [r EXCEPT !.spectators = watching]
  <2>1. q = Reconnect(s, fresh) BY <1>6 DEF JoinResults
  <2>2. watching \in SUBSET Token /\ r.seat \in [Color -> Token \cup {Machine, Nobody}]
    BY <1>1 DEF BoardRoom
  <2>3. SameBoard(s, r) /\ Table(s) = [Table(r) EXCEPT !.spectators = watching]
    BY <1>1, <2>2, PeopleSeen
  <2>4. Table(r).spectators = r.spectators BY <1>1, TableFields
  <2>5. JoinResults(Table(r), t, fresh)
          = {Reconnect([Table(r) EXCEPT !.spectators = @ \cup {fresh}], fresh)}
    BY <1>1, <1>6 DEF JoinResults
  <2> HIDE DEF s
  <2>6. BoardSound(s) /\ s \in BoardRoom BY <2>3, SameBoardSound DEF SameBoard
  <2>7. SameBoard(q, s) /\ Table(q) = Reconnect(Table(s), fresh) BY <2>1, <2>6, PresenceSeen
  <2>8. [Table(r) EXCEPT !.spectators = @ \cup {fresh}] = [Table(r) EXCEPT !.spectators = watching]
    <3>1. Table(r) \in Room BY <1>1, TableFields
    <3> QED BY <2>4, <3>1 DEF Room
  <2> QED BY <2>3, <2>5, <2>6, <2>7, <2>8, SameBoardSound
<1> QED BY <1>2, <1>4, <1>5, <1>6

\* What LeaveRoom saves when it keeps the room.
Left(r, t) ==
  IF HoldsSeat(r, t) THEN StandUp(r, t) ELSE [Disconnect(r, t) EXCEPT !.spectators = @ \ {t}]

LEMMA LeftSeen ==
  ASSUME NEW r \in BoardRoom, NEW t \in Token
  PROVE  SameBoard(Left(r, t), r) /\ Table(Left(r, t)) = Left(Table(r), t)
<1> DEFINE d == Disconnect(r, t)
           seat == [c \in Color |-> IF r.seat[c] = t THEN Nobody ELSE r.seat[c]]
           watching == r.spectators \ {t}
           T == Table(r)
           e == Disconnect(T, t)
<1>1. /\ T \in Room /\ T.seat = r.seat /\ T.status = r.status /\ T.spectators = r.spectators
      /\ HoldsSeat(T, t) <=> HoldsSeat(r, t)
      /\ IsFinished(T) <=> IsFinished(r)
  BY TableFields, SameSession
<1>2. SameBoard(d, r) /\ Table(d) = e BY PresenceSeen
<1>3. d.spectators = r.spectators /\ e.spectators = r.spectators
  BY <1>1 DEF Disconnect, BoardRoom, Room
<1>4. seat \in [Color -> Token \cup {Machine, Nobody}] /\ watching \in SUBSET Token
  BY DEF BoardRoom
<1>5. Left(r, t) = IF HoldsSeat(r, t)
                   THEN IF r.status = "waiting" \/ IsFinished(r) THEN [d EXCEPT !.seat = seat] ELSE d
                   ELSE [d EXCEPT !.spectators = watching]
  <2>1. d \in BoardRoom BY <1>2 DEF SameBoard
  <2>2. [d EXCEPT !.spectators = @ \ {t}] = [d EXCEPT !.spectators = watching]
    BY <1>3, <2>1 DEF BoardRoom
  <2> QED BY <2>2 DEF Left, StandUp
<1>6. Left(T, t) = IF HoldsSeat(r, t)
                   THEN IF r.status = "waiting" \/ IsFinished(r) THEN [e EXCEPT !.seat = seat] ELSE e
                   ELSE [e EXCEPT !.spectators = watching]
  <2>1. e \in Room BY <1>1 DEF Disconnect, Room
  <2>2. [e EXCEPT !.spectators = @ \ {t}] = [e EXCEPT !.spectators = watching]
    BY <1>3, <2>1 DEF Room
  <2>3. [c \in Color |-> IF T.seat[c] = t THEN Nobody ELSE T.seat[c]] = seat BY <1>1
  <2> HIDE DEF seat, T
  <2> QED BY <1>1, <2>2, <2>3 DEF Left, StandUp
<1> HIDE DEF d, e, seat, watching, T
<1>7. d \in BoardRoom BY <1>2 DEF SameBoard
<1>8. /\ SameBoard([d EXCEPT !.seat = seat], d)
      /\ Table([d EXCEPT !.seat = seat]) = [e EXCEPT !.seat = seat]
      /\ SameBoard([d EXCEPT !.spectators = watching], d)
      /\ Table([d EXCEPT !.spectators = watching]) = [e EXCEPT !.spectators = watching]
  BY <1>2, <1>4, <1>7, PeopleSeen
<1>9. SameBoard(Left(r, t), r) /\ Table(Left(r, t)) = Left(T, t)
  BY <1>2, <1>5, <1>6, <1>8 DEF SameBoard
<1> QED BY <1>9 DEF T

LEMMA LeaveResultsSeen ==
  ASSUME NEW r, BoardSound(r), NEW t \in Token, NEW q \in LeaveResults(r, t)
  PROVE  IF q = Absent THEN Absent \in LeaveResults(Table(r), t)
         ELSE BoardSound(q) /\ Table(q) \in LeaveResults(Table(r), t)
<1>1. r \in BoardRoom BY DEF BoardSound
<1>2. SameBoard(Left(r, t), r) /\ Table(Left(r, t)) = Left(Table(r), t) BY <1>1, LeftSeen
<1>3. BoardSound(Left(r, t)) /\ Left(r, t) \in BoardRoom
  BY <1>2, SameBoardSound DEF SameBoard
<1>4. ShouldDelete(Left(Table(r), t)) <=> ShouldDelete(Left(r, t)) BY <1>2, <1>3, SameSession
<1>5. Table(r).mode = r.mode /\ Members(Table(r)) = Members(r)
      /\ (HoldsSeat(Table(r), t) <=> HoldsSeat(r, t))
  BY <1>1, TableFields, SameSession
<1>6. \A s : LeaveResults(s, t)
               = IF t \notin Members(s) THEN {}
                 ELSE IF (s.mode = "bot_easy" /\ HoldsSeat(s, t)) \/ ShouldDelete(Left(s, t))
                 THEN {Absent}
                 ELSE {Left(s, t)}
  BY DEF LeaveResults, Left
<1> QED BY <1>2, <1>3, <1>4, <1>5, <1>6

-----------------------------------------------------------------------------
(* The clock, and moves.                                                   *)

LEMMA ClockSeen ==
  ASSUME NEW r \in BoardRoom, NEW ts \in Nat
  PROVE  LET q == FinishIfTimedOut(AdvanceClock(r, ts))
         IN  /\ SameBoard(q, r) /\ Table(q) = FinishIfTimedOut(AdvanceClock(Table(r), ts))
             /\ q.status = "active" => r.status = "active"
<1> DEFINE a == AdvanceClock(r, ts)
           q == FinishIfTimedOut(a)
           T == Table(r)
           runs == /\ r.clockEnabled
                   /\ r.activeColor # NoColor /\ r.turnStartedAt # NoTime
                   /\ ts > r.turnStartedAt
           clocks == [r.clocks EXCEPT ![r.activeColor] = TimeLeft(@, ts - r.turnStartedAt)]
           o == T.board
           m == T.turn
<1>1. /\ T \in Room /\ T.clockEnabled = r.clockEnabled /\ T.activeColor = r.activeColor
      /\ T.turnStartedAt = r.turnStartedAt /\ T.clocks = r.clocks
  BY TableFields
<1>2. a = IF runs THEN [r EXCEPT !.clocks = clocks, !.turnStartedAt = ts] ELSE r
  BY DEF AdvanceClock, BoardRoom
<1>3. AdvanceClock(T, ts) = IF runs THEN [T EXCEPT !.clocks = clocks, !.turnStartedAt = ts] ELSE T
  <2> HIDE DEF T
  <2> QED BY <1>1 DEF AdvanceClock, Room
<1>4. runs => clocks \in [Color -> 0 .. InitialMs]
  <2> SUFFICES ASSUME runs PROVE clocks \in [Color -> 0 .. InitialMs] OBVIOUS
  <2> DEFINE c == r.activeColor
             e == ts - r.turnStartedAt
             left == TimeLeft(r.clocks[c], e)
  <2>1. c \in Color /\ e \in Nat /\ r.clocks \in [Color -> 0 .. InitialMs]
    BY DEF BoardRoom, Time, NoTime, NoColor
  <2>2. left \in 0 .. InitialMs BY <2>1 DEF TimeLeft
  <2>3. clocks = [r.clocks EXCEPT ![c] = left] OBVIOUS
  <2> HIDE DEF c, left, e, clocks
  <2> QED BY <2>1, <2>2, <2>3
<1>5. T = [r EXCEPT !.board = o, !.turn = m] BY TableOfSame DEF SameBoard
<1> HIDE DEF a, clocks, T, runs
<1>6. SameBoard(a, r) /\ a.status = r.status
  <2>1. CASE runs BY <1>2, <1>4, <2>1 DEF SameBoard, BoardRoom, Time
  <2>2. CASE ~runs BY <1>2, <2>2 DEF SameBoard
  <2> QED BY <2>1, <2>2
<1>7. Table(a) = AdvanceClock(T, ts)
  <2>1. Table(a) = [a EXCEPT !.board = o, !.turn = m] BY <1>6, TableOfSame DEF T
  <2> HIDE DEF o, m
  <2>2. [[r EXCEPT !.clocks = clocks, !.turnStartedAt = ts] EXCEPT !.board = o, !.turn = m]
          = [[r EXCEPT !.board = o, !.turn = m] EXCEPT !.clocks = clocks, !.turnStartedAt = ts]
    OBVIOUS
  <2> QED BY <1>2, <1>3, <1>5, <2>1, <2>2
<1>8. a \in BoardRoom BY <1>6 DEF SameBoard
<1>9. /\ Table(a).clockEnabled = a.clockEnabled /\ Table(a).status = a.status
      /\ Table(a).clocks = a.clocks
  BY <1>8, TableFields
<1>10. \A c \in Color : /\ SameBoard(FinishGame(a, c, "timeout"), a)
                        /\ FinishGame(a, c, "timeout").status = "timeout"
                        /\ Table(FinishGame(a, c, "timeout")) = FinishGame(Table(a), c, "timeout")
  <2>1. "timeout" \in Status BY DEF Status, FinishedStatus
  <2>2. \A c \in Color : FinishGame(a, c, "timeout").status = "timeout"
    BY <1>8 DEF FinishGame, BoardRoom
  <2> QED BY <1>8, <2>1, <2>2, FinishSeen
<1>11. \/ q = a /\ FinishIfTimedOut(Table(a)) = Table(a)
       \/ \E c \in Color : /\ q = FinishGame(a, c, "timeout")
                           /\ FinishIfTimedOut(Table(a)) = FinishGame(Table(a), c, "timeout")
  BY <1>9 DEF FinishIfTimedOut, Color
<1> HIDE DEF q
<1>12. /\ SameBoard(q, a) /\ Table(q) = FinishIfTimedOut(Table(a))
       /\ q.status = "active" => a.status = "active"
  BY <1>8, <1>10, <1>11 DEF SameBoard
<1> QED BY <1>6, <1>7, <1>12 DEF SameBoard, q, T, a

LEMMA MoverFacts ==
  ASSUME NEW n \in Nat
  PROVE  /\ Mover(n) \in Color /\ Mover(n + 1) = Opposite(Mover(n))
         /\ n % 2 \in {0, 1} /\ (n + 1) % 2 = 1 - (n % 2)
         /\ Mover(n) = White <=> n % 2 = 0
<1>1. n % 2 \in {0, 1} /\ (n + 1) % 2 = 1 - (n % 2) OBVIOUS
<1> QED BY <1>1, MarkFacts DEF Mover, Opposite, Color

LEMMA PassTurnSeen ==
  ASSUME NEW r \in BoardRoom, r.turn = Mover(r.moves), NEW ts \in Nat
  PROVE  SameBoard(PassTurn(r, ts), r) /\ Table(PassTurn(r, ts)) = PassTurn(Table(r), ts)
<1> DEFINE T == Table(r)
           active == IF r.clockEnabled THEN r.turn ELSE NoColor
           since == IF r.clockEnabled THEN ts ELSE NoTime
           due == IF IsBotTurn(r) THEN ts + BotMoveDelayMs ELSE NoTime
           o == T.board
           m == T.turn
<1>1. /\ T.clockEnabled = r.clockEnabled /\ T.turn = r.turn /\ T.seat = r.seat
  BY TableFields
<1>2. PassTurn(r, ts) = [r EXCEPT !.activeColor = active, !.turnStartedAt = since,
                                  !.botMoveDueAt = due]
  BY DEF PassTurn
<1>3. PassTurn(T, ts) = [T EXCEPT !.activeColor = active, !.turnStartedAt = since,
                                  !.botMoveDueAt = due]
  <2> HIDE DEF T
  <2> QED BY <1>1 DEF PassTurn, IsBotTurn
<1>4. active \in Color \cup {NoColor} /\ since \in Time /\ due \in Time
  BY DEF BoardRoom, Time
<1>5. T = [r EXCEPT !.board = o, !.turn = m] BY TableOfSame DEF SameBoard
<1> HIDE DEF active, since, due
<1>6. SameBoard(PassTurn(r, ts), r) BY <1>2, <1>4, ZenonT(60) DEF SameBoard, BoardRoom
<1>7. Table(PassTurn(r, ts)) = [PassTurn(r, ts) EXCEPT !.board = o, !.turn = m]
  BY <1>6, TableOfSame
<1> HIDE DEF o, m, T
<1>8. [[r EXCEPT !.activeColor = active, !.turnStartedAt = since, !.botMoveDueAt = due]
         EXCEPT !.board = o, !.turn = m]
        = [[r EXCEPT !.board = o, !.turn = m]
             EXCEPT !.activeColor = active, !.turnStartedAt = since, !.botMoveDueAt = due]
  OBVIOUS
<1> QED BY <1>2, <1>3, <1>5, <1>6, <1>7, <1>8 DEF T

LEMMA RetrySeen ==
  ASSUME NEW r \in BoardRoom, NEW ts \in Nat
  PROVE  SameBoard(RetryBotLater(r, ts), r) /\ Table(RetryBotLater(r, ts)) = RetryBotLater(Table(r), ts)
<1> DEFINE o == Table(r).board
           m == Table(r).turn
<1>1. Table(r) = [r EXCEPT !.board = o, !.turn = m] BY TableOfSame DEF SameBoard
<1>2. SameBoard(RetryBotLater(r, ts), r) BY DEF SameBoard, BoardRoom, RetryBotLater, Time
<1>3. Table(RetryBotLater(r, ts)) = [RetryBotLater(r, ts) EXCEPT !.board = o, !.turn = m]
  BY <1>2, TableOfSame
<1> HIDE DEF o, m
<1>4. [RetryBotLater(r, ts) EXCEPT !.board = o, !.turn = m]
        = RetryBotLater([r EXCEPT !.board = o, !.turn = m], ts)
  BY ONLY DEF RetryBotLater
<1> QED BY <1>1, <1>2, <1>3, <1>4

\* The record with one more mark: the board is sound but for the turn, and chess sees
\* the move played.
LEMMA MarkedSeen ==
  ASSUME NEW r, BoardSound(r), BoardOutcome(r.board) = "open", NEW cell \in Cell,
         r.board[cell] = Empty, NEW ts \in Nat
  PROVE  LET p == Marked(r, cell, ts)
             o == BoardOutcome(p.board)
         IN  /\ p \in BoardRoom /\ p.turn = r.turn /\ p.moves = r.moves + 1 /\ r.turn = Mover(r.moves)
             /\ \A m \in {"x", "o"} : Filled(p.board, m) => m = MarkForColor(r.turn)
             /\ Cardinality(Marks(p.board, "x")) + Cardinality(Marks(p.board, "o")) = p.moves
             /\ Cardinality(Marks(p.board, "x")) - Cardinality(Marks(p.board, "o")) = p.moves % 2
             /\ o \in MoveOutcomes(Table(r))
             /\ Table(p) = Played(Table(r), o, ts)
<1> DEFINE p == Marked(r, cell, ts)
           b == r.board
           mark == MarkForColor(r.turn)
           board == [b EXCEPT ![cell] = mark]
           moves == r.moves + 1
           first == IF r.moves = 0 THEN ts ELSE r.firstMoveAt
           o == BoardOutcome(board)
           T == Table(r)
<1>1. /\ r \in BoardRoom /\ b \in Board /\ r.moves \in 0 .. 9 /\ r.turn = Mover(r.moves)
      /\ r.turn \in Color
      /\ Cardinality(Marks(b, "x")) + Cardinality(Marks(b, "o")) = r.moves
      /\ Cardinality(Marks(b, "x")) - Cardinality(Marks(b, "o")) = r.moves % 2
  BY DEF BoardSound, BoardRoom
<1>2. mark \in {"x", "o"} /\ b[cell] = Empty BY <1>1, MarkFacts
<1> HIDE DEF mark, b
<1>3. /\ board \in Board
      /\ Cardinality(Marks(board, mark)) = Cardinality(Marks(b, mark)) + 1
      /\ \A k \in {"x", "o"} \ {mark} : Cardinality(Marks(board, k)) = Cardinality(Marks(b, k))
      /\ \A k \in {"x", "o"} \ {mark} : Filled(board, k) => Filled(b, k)
  BY <1>1, <1>2, MarkAdded
<1>4. ~IsBoardFull(b) /\ ~Filled(b, "x") /\ ~Filled(b, "o") BY OutcomeFacts DEF b
<1>5. r.moves < 9 /\ r.moves \in Nat BY <1>1, <1>4, MarksAddUp
<1>6. p = [r EXCEPT !.board = board, !.moves = moves, !.firstMoveAt = first, !.drawOffer = NoColor]
  BY <1>1 DEF Marked, BoardRoom, mark, b
<1>7. moves \in 0 .. MaxMoves /\ first \in Time BY <1>1, <1>5 DEF BoardRoom, Time
<1>8. /\ T \in Room /\ T.moves = r.moves /\ T.turn = Mover(r.moves) /\ T.firstMoveAt = r.firstMoveAt
  BY <1>1, TableFields
<1>9. Mover(moves) = Opposite(Mover(r.moves)) /\ r.moves % 2 \in {0, 1} /\ moves % 2 = 1 - (r.moves % 2)
      /\ (Mover(r.moves) = White <=> r.moves % 2 = 0)
  BY <1>5, MoverFacts
<1> HIDE DEF p, board, moves, first, mark, T
<1>10. /\ p \in BoardRoom /\ p.board = board /\ p.moves = moves /\ p.turn = r.turn
  BY <1>1, <1>3, <1>6, <1>7 DEF BoardRoom
<1>11. \A m \in {"x", "o"} : Filled(board, m) => m = mark BY <1>3, <1>4
<1>12. /\ Cardinality(Marks(board, "x")) + Cardinality(Marks(board, "o")) = moves
       /\ Cardinality(Marks(board, "x")) - Cardinality(Marks(board, "o")) = moves % 2
  <2>1. /\ Cardinality(Marks(b, "x")) \in Nat /\ Cardinality(Marks(b, "o")) \in Nat
        /\ moves = r.moves + 1
    BY MarksAreFinite DEF moves
  <2>2. CASE r.turn = White
    <3>1. mark = "x" /\ r.moves % 2 = 0 BY <1>1, <1>9, <2>2, MarkFacts DEF mark
    <3>2. /\ Cardinality(Marks(board, "x")) = Cardinality(Marks(b, "x")) + 1
          /\ Cardinality(Marks(board, "o")) = Cardinality(Marks(b, "o"))
      BY <1>3, <3>1
    <3> QED BY <1>1, <1>9, <2>1, <3>1, <3>2
  <2>3. CASE r.turn # White
    <3>1. r.turn = Black BY <1>1, <2>3 DEF Color
    <3>2. mark = "o" /\ r.moves % 2 = 1 BY <1>1, <1>9, <2>3, <3>1, MarkFacts DEF mark
    <3>3. /\ Cardinality(Marks(board, "x")) = Cardinality(Marks(b, "x"))
          /\ Cardinality(Marks(board, "o")) = Cardinality(Marks(b, "o")) + 1
      BY <1>3, <3>2
    <3> QED BY <1>1, <1>9, <2>1, <3>2, <3>3, SMTT(30)
  <2> QED BY <2>2, <2>3
<1>13. o \in MoveOutcomes(T)
  <2>1. o \in Outcome BY OutcomeFacts
  <2>2. ASSUME ~(T.moves + 1 < MaxMoves) PROVE o # "open"
    <3>1. moves = 9 BY <1>5, <1>8, <2>2 DEF moves
    <3>2. IsBoardFull(board) BY <1>3, <1>12, <3>1, MarksAddUp
    <3> QED BY <3>2, OutcomeFacts
  <2> QED BY <2>1, <2>2 DEF MoveOutcomes
<1>14. Table(p) = Played(T, o, ts)
  <2> DEFINE turn == Mover(moves)
             old == T.board
             was == T.turn
  <2>1. Table(p) = [p EXCEPT !.board = o, !.turn = turn] BY <1>10 DEF Table, BoardRoom
  <2>2. Played(T, o, ts) = [T EXCEPT !.board = o, !.turn = turn, !.moves = moves,
                                     !.firstMoveAt = first, !.drawOffer = NoColor]
    BY <1>8, <1>9 DEF Played, Room, moves, first
  <2>3. T = [r EXCEPT !.board = old, !.turn = was] BY <1>1, TableOfSame DEF SameBoard, T
  <2> HIDE DEF o, turn, old, was
  <2>4. [[r EXCEPT !.board = board, !.moves = moves, !.firstMoveAt = first, !.drawOffer = NoColor]
           EXCEPT !.board = o, !.turn = turn]
          = [[r EXCEPT !.board = old, !.turn = was]
               EXCEPT !.board = o, !.turn = turn, !.moves = moves, !.firstMoveAt = first,
                      !.drawOffer = NoColor]
    OBVIOUS
  <2> QED BY <1>6, <2>1, <2>2, <2>3, <2>4
<1>15. moves = r.moves + 1 BY DEF moves
<1>16. mark = MarkForColor(r.turn) BY DEF mark
<1> QED BY <1>1, <1>10, <1>11, <1>12, <1>13, <1>14, <1>15, <1>16 DEF p, T

\* applyMoveToState, in both games: chess sees a mating move, a drawn position, or a
\* move after which the game goes on.
LEMMA MarkSeen ==
  ASSUME NEW r, BoardSound(r), BoardOutcome(r.board) = "open", NEW cell \in Cell,
         r.board[cell] = Empty, NEW ts \in Nat
  PROVE  LET q == MarkCell(r, cell, ts)
         IN  /\ BoardSound(q)
             /\ \E o \in MoveOutcomes(Table(r)) : Table(q) = ApplyMove(Table(r), o, ts)
<1> DEFINE p == Marked(r, cell, ts)
           q == MarkCell(r, cell, ts)
           o == BoardOutcome(p.board)
           winner == WinnerForBoard(p.board)
           T == Table(r)
<1>1. /\ p \in BoardRoom /\ p.turn = r.turn /\ p.moves = r.moves + 1 /\ r.turn = Mover(r.moves)
      /\ \A m \in {"x", "o"} : Filled(p.board, m) => m = MarkForColor(r.turn)
      /\ Cardinality(Marks(p.board, "x")) + Cardinality(Marks(p.board, "o")) = p.moves
      /\ Cardinality(Marks(p.board, "x")) - Cardinality(Marks(p.board, "o")) = p.moves % 2
      /\ o \in MoveOutcomes(T)
      /\ Table(p) = Played(T, o, ts)
  BY MarkedSeen
<1>2. r \in BoardRoom /\ r.moves \in Nat /\ T.turn = r.turn /\ r.turn \in Color
  BY <1>1, TableFields DEF BoardSound, BoardRoom
<1>3. Mover(p.moves) = Opposite(r.turn) /\ Opposite(Mover(p.moves)) = r.turn
  BY <1>1, <1>2, MoverFacts, MarkFacts
<1>4. q = IF winner # NoColor THEN FinishGame(p, winner, WonOnBoard)
          ELSE IF IsBoardFull(p.board) THEN FinishGame(p, NoColor, "draw")
          ELSE PassTurn([p EXCEPT !.turn = Opposite(@)], ts)
  BY DEF MarkCell
<1>5. ApplyMove(T, o, ts)
        = IF o = "open" THEN PassTurn(Table(p), ts)
          ELSE IF o = "checkmate" THEN FinishGame(Table(p), r.turn, WonOnBoard)
          ELSE FinishGame(Table(p), NoColor, o)
  BY <1>1, <1>2 DEF ApplyMove
<1>6. o = IF winner # NoColor THEN "checkmate" ELSE IF IsBoardFull(p.board) THEN "draw" ELSE "open"
  BY DEF BoardOutcome
<1>7. winner # NoColor => winner = r.turn
  BY <1>1, <1>2, WinnerHasALine, MarkFacts
<1>8. \A w \in Color \cup {NoColor}, s \in Status :
        SameBoard(FinishGame(p, w, s), p) /\ Table(FinishGame(p, w, s)) = FinishGame(Table(p), w, s)
  BY <1>1, FinishSeen
<1>9. WonOnBoard \in Status /\ "draw" \in Status BY DEF Status, FinishedStatus
<1> HIDE DEF p, q, winner, T
<1>10. \A s : SameBoard(s, p) /\ o # "open" => BoardSound(s)
  BY <1>1, <1>3 DEF BoardSound, SameBoard
<1>11. CASE winner # NoColor
  <2>1. q = FinishGame(p, r.turn, WonOnBoard) /\ o = "checkmate" BY <1>4, <1>6, <1>7, <1>11
  <2>2. SameBoard(q, p) /\ Table(q) = FinishGame(Table(p), r.turn, WonOnBoard)
    BY <1>2, <1>8, <1>9, <2>1
  <2>3. BoardSound(q) BY <1>10, <2>1, <2>2
  <2> QED BY <1>1, <1>5, <2>1, <2>2, <2>3 DEF q, T
<1>12. CASE winner = NoColor /\ IsBoardFull(p.board)
  <2>1. q = FinishGame(p, NoColor, "draw") /\ o = "draw" BY <1>4, <1>6, <1>12
  <2>2. SameBoard(q, p) /\ Table(q) = FinishGame(Table(p), NoColor, "draw")
    BY <1>8, <1>9, <2>1
  <2>3. BoardSound(q) BY <1>10, <2>1, <2>2
  <2> QED BY <1>1, <1>5, <2>1, <2>2, <2>3 DEF q, T
<1>13. CASE winner = NoColor /\ ~IsBoardFull(p.board)
  <2> DEFINE s == [p EXCEPT !.turn = Opposite(@)]
  <2>1. q = PassTurn(s, ts) /\ o = "open" BY <1>4, <1>6, <1>13
  <2>2. s = [p EXCEPT !.turn = Opposite(r.turn)] BY <1>1 DEF BoardRoom
  <2>3. Opposite(r.turn) \in Color BY <1>2, MarkFacts
  <2>4. /\ s \in BoardRoom /\ s.board = p.board /\ s.moves = p.moves /\ s.turn = Opposite(r.turn)
    BY <1>1, <2>2, <2>3 DEF BoardRoom
  <2>5. Table(s) = Table(p)
    <3> DEFINE x == BoardOutcome(p.board)
               y == Mover(p.moves)
               z == Opposite(r.turn)
    <3>1. Table(s) = [s EXCEPT !.board = x, !.turn = y] BY <2>4 DEF Table, BoardRoom
    <3>2. Table(p) = [p EXCEPT !.board = x, !.turn = y] BY <1>1 DEF Table, BoardRoom
    <3> HIDE DEF s, x, y, z
    <3>3. [[p EXCEPT !.turn = z] EXCEPT !.board = x, !.turn = y] = [p EXCEPT !.board = x, !.turn = y]
      OBVIOUS
    <3> QED BY <2>2, <3>1, <3>2, <3>3 DEF z
  <2> HIDE DEF s
  <2>6. SameBoard(q, s) /\ Table(q) = PassTurn(Table(p), ts)
    BY <1>3, <2>1, <2>4, <2>5, PassTurnSeen
  <2>7. BoardSound(s)
    BY <1>1, <1>3, <2>1, <2>4 DEF BoardSound
  <2>8. BoardSound(q) BY <2>6, <2>7, SameBoardSound
  <2> QED BY <1>1, <1>5, <2>1, <2>6, <2>8 DEF q, T
<1> QED BY <1>11, <1>12, <1>13

\* A game in play has an undecided board, and its turn is the one chess shows.
LEMMA InPlay ==
  ASSUME NEW r, BoardSound(r), VerdictSound(Table(r)), NEW ts \in Nat
  PROVE  LET q == FinishIfTimedOut(AdvanceClock(r, ts))
             T == FinishIfTimedOut(AdvanceClock(Table(r), ts))
         IN  /\ BoardSound(q) /\ q \in BoardRoom /\ Table(q) = T
             /\ T.status = q.status /\ Table(r).status = r.status
             /\ q.status = "active" =>
                  /\ BoardOutcome(q.board) = "open" /\ T.board = "open" /\ T.turn = q.turn
                  /\ q.turn = Mover(q.moves)
<1> DEFINE q == FinishIfTimedOut(AdvanceClock(r, ts))
<1>1. r \in BoardRoom BY DEF BoardSound
<1>2. /\ SameBoard(q, r) /\ Table(q) = FinishIfTimedOut(AdvanceClock(Table(r), ts))
      /\ q.status = "active" => r.status = "active"
  BY <1>1, ClockSeen
<1> HIDE DEF q
<1>3. BoardSound(q) /\ q \in BoardRoom BY <1>2, SameBoardSound DEF SameBoard
<1>4. Table(r).status = r.status /\ Table(r).board = BoardOutcome(r.board) BY <1>1, TableFields
<1>5. Table(q).status = q.status /\ Table(q).board = BoardOutcome(q.board)
      /\ Table(q).turn = Mover(q.moves)
  BY <1>3, TableFields
<1>6. q.status = "active" => BoardOutcome(q.board) = "open"
  BY <1>2, <1>4 DEF VerdictSound, SameBoard
<1> QED BY <1>2, <1>3, <1>4, <1>5, <1>6 DEF BoardSound, q

LEMMA SubmitResultsSeen ==
  ASSUME NEW r, BoardSound(r), VerdictSound(Table(r)), NEW t \in Token, NEW cell \in Cell,
         NEW ts \in Nat, NEW q \in SubmitCellResults(r, t, cell, ts)
  PROVE  BoardSound(q) /\ Table(q) \in SubmitActionResults(Table(r), t, ts)
<1> DEFINE timed == FinishIfTimedOut(AdvanceClock(r, ts))
           T == FinishIfTimedOut(AdvanceClock(Table(r), ts))
<1>1. /\ BoardSound(timed) /\ timed \in BoardRoom /\ Table(timed) = T /\ T.status = timed.status
      /\ timed.status = "active" =>
           BoardOutcome(timed.board) = "open" /\ T.turn = timed.turn
  BY InPlay
<1>2. HoldsSeat(Table(r), t) <=> HoldsSeat(r, t) BY SameSession DEF BoardSound
<1>3. \A c : Holds(T, t, c) <=> Holds(timed, t, c) BY <1>1, SameSession
<1>4. SubmitActionResults(Table(r), t, ts)
        = IF ~HoldsSeat(Table(r), t) THEN {}
          ELSE IF T.status = "timeout" THEN {T}
          ELSE IF T.status = "active" /\ Holds(T, t, T.turn)
          THEN {ApplyMove(T, o, ts) : o \in MoveOutcomes(T)}
          ELSE {}
  BY DEF SubmitActionResults
<1>5. SubmitCellResults(r, t, cell, ts)
        = IF ~HoldsSeat(r, t) THEN {}
          ELSE IF timed.status = "timeout" THEN {timed}
          ELSE IF /\ timed.status = "active" /\ Holds(timed, t, timed.turn)
                  /\ timed.board[cell] = Empty
          THEN {MarkCell(timed, cell, ts)}
          ELSE {}
  BY DEF SubmitCellResults
<1> HIDE DEF timed, T
<1>6. CASE timed.status = "timeout"
  BY <1>1, <1>2, <1>4, <1>5, <1>6
<1>7. CASE timed.status # "timeout"
  <2>1. /\ HoldsSeat(r, t) /\ timed.status = "active" /\ Holds(timed, t, timed.turn)
        /\ timed.board[cell] = Empty /\ q = MarkCell(timed, cell, ts)
    BY <1>5, <1>7
  <2>2. BoardSound(q) /\ \E o \in MoveOutcomes(T) : Table(q) = ApplyMove(T, o, ts)
    BY <1>1, <2>1, MarkSeen
  <2> QED BY <1>1, <1>2, <1>3, <1>4, <2>1, <2>2
<1> QED BY <1>6, <1>7

LEMMA LeastCell ==
  ASSUME NEW S, S \subseteq Cell, S # {}
  PROVE  Min(S) \in S
<1>1. \E x \in S : \A y \in S : x <= y
  <2>1. CASE 0 \in S BY <2>1 DEF Cell
  <2>2. CASE 0 \notin S
    <3>1. S \subseteq 1 .. 8 BY <2>2 DEF Cell
    <3> QED BY <3>1, LeastOfEight
  <2> QED BY <2>1, <2>2
<1> QED BY <1>1 DEF Min

\* The engine answers a free cell.
LEMMA EasyMoveIsFree ==
  ASSUME NEW b, NEW turn, NEW cell \in SelectEasyMove(b, turn)
  PROVE  cell \in Cell /\ b[cell] = Empty
<1> DEFINE own == WinningMoves(b, MarkForColor(turn))
           other == WinningMoves(b, MarkForColor(Opposite(turn)))
           free == AvailableMoves(b)
<1>1. own \subseteq free /\ other \subseteq free /\ free \subseteq Cell
      /\ \A c \in free : b[c] = Empty
  BY DEF WinningMoves, AvailableMoves
<1>2. \A S : S \subseteq Cell /\ S # {} => Min(S) \in S BY LeastCell
<1>3. SelectEasyMove(b, turn)
        = IF own # {} THEN {Min(own)}
          ELSE IF other # {} THEN {Min(other)}
          ELSE IF b[Centre] = Empty THEN {Centre}
          ELSE IF Corners \cap free # {} THEN Corners \cap free
          ELSE IF Sides \cap free # {} THEN Sides \cap free
          ELSE free
  BY DEF SelectEasyMove
<1>4. own # {} => Min(own) \in free BY <1>1, <1>2
<1>5. other # {} => Min(other) \in free BY <1>1, <1>2
<1>6. b[Centre] = Empty => Centre \in free BY DEF Centre, AvailableMoves, Cell
<1> HIDE DEF own, other, free
<1>7. cell \in free BY <1>3, <1>4, <1>5, <1>6
<1> QED BY <1>1, <1>7

LEMMA TickResultsSeen ==
  ASSUME NEW r, BoardSound(r), VerdictSound(Table(r)), NEW ts \in Nat,
         NEW q \in TickBoardResults(r, ts)
  PROVE  BoardSound(q) /\ Table(q) \in TickResults(Table(r), ts)
<1> DEFINE timed == FinishIfTimedOut(AdvanceClock(r, ts))
           T == FinishIfTimedOut(AdvanceClock(Table(r), ts))
<1>1. /\ BoardSound(timed) /\ timed \in BoardRoom /\ Table(timed) = T /\ T.status = timed.status
      /\ Table(r).status = r.status
      /\ timed.status = "active" =>
           BoardOutcome(timed.board) = "open" /\ T.board = "open" /\ T.turn = timed.turn
  BY InPlay
<1>2. T.botMoveDueAt = timed.botMoveDueAt /\ T.seat = timed.seat BY <1>1, TableFields
<1>3. TickResults(Table(r), ts)
        = IF ShouldPlayBotMove(T, ts)
          THEN {PerformBotMove(T, ans, ts) : ans \in BotAnswers(T)}
          ELSE IF T.status # Table(r).status THEN {T} ELSE {}
  BY DEF TickResults
<1>4. TickBoardResults(r, ts)
        = IF ShouldPlayBotMove(timed, ts)
          THEN {PerformMachineMove(timed, ans, ts) : ans \in EngineAnswers(timed)}
          ELSE IF timed.status # r.status THEN {timed} ELSE {}
  BY DEF TickBoardResults
<1> HIDE DEF timed, T
<1>5. ShouldPlayBotMove(T, ts) <=> ShouldPlayBotMove(timed, ts)
  BY <1>1, <1>2 DEF ShouldPlayBotMove, IsBotTurn
<1>6. CASE ~ShouldPlayBotMove(timed, ts)
  BY <1>1, <1>3, <1>4, <1>5, <1>6
<1>7. CASE ShouldPlayBotMove(timed, ts)
  <2>1. timed.status = "active" BY <1>7 DEF ShouldPlayBotMove
  <2>2. PICK ans \in EngineAnswers(timed) : q = PerformMachineMove(timed, ans, ts)
    BY <1>4, <1>7
  <2>3. ~IsBoardFull(timed.board) BY <1>1, <2>1, OutcomeFacts
  <2>4. ans = Failed \/ ans \in SelectEasyMove(timed.board, timed.turn)
    BY <2>3 DEF EngineAnswers
  <2>5. CASE ans = Failed
    <3>1. q = RetryBotLater(timed, ts) BY <2>2, <2>5 DEF PerformMachineMove, Failed, NoMove
    <3>2. SameBoard(q, timed) /\ Table(q) = RetryBotLater(T, ts) BY <1>1, <3>1, RetrySeen
    <3>3. Table(q) = PerformBotMove(T, "error", ts) BY <3>2 DEF PerformBotMove
    <3>4. "error" \in BotAnswers(T) BY DEF BotAnswers
    <3> QED BY <1>1, <1>3, <1>5, <1>7, <3>2, <3>3, <3>4, SameBoardSound
  <2>6. CASE ans \in SelectEasyMove(timed.board, timed.turn)
    <3> DEFINE p == MarkCell(timed, ans, ts)
    <3>1. ans \in Cell /\ timed.board[ans] = Empty BY <2>6, EasyMoveIsFree
    <3>2. ans # Failed /\ ans # NoMove BY <3>1 DEF Cell, Failed, NoMove
    <3>3. q = RetryBotLater(p, ts) BY <2>2, <3>2 DEF PerformMachineMove
    <3>4. BoardSound(p) /\ \E o \in MoveOutcomes(T) : Table(p) = ApplyMove(T, o, ts)
      BY <1>1, <2>1, <3>1, MarkSeen
    <3> HIDE DEF p
    <3>5. PICK o \in MoveOutcomes(T) : Table(p) = ApplyMove(T, o, ts) BY <3>4
    <3>6. SameBoard(q, p) /\ Table(q) = RetryBotLater(Table(p), ts)
      BY <3>3, <3>4, RetrySeen DEF BoardSound
    <3>7. o \in BotAnswers(T) /\ o # "none" /\ o # "error"
      BY DEF BotAnswers, MoveOutcomes, Outcome
    <3>8. Table(q) = PerformBotMove(T, o, ts) BY <3>5, <3>6, <3>7 DEF PerformBotMove
    <3> QED BY <1>3, <1>5, <1>7, <3>4, <3>6, <3>7, <3>8, SameBoardSound
  <2> QED BY <2>4, <2>5, <2>6
<1> QED BY <1>6, <1>7

-----------------------------------------------------------------------------
(* The steps.                                                              *)

LEMMA NewBoardSeen ==
  ASSUME NEW mode \in {"pvp", "bot_easy"}, NEW clockEnabled \in BOOLEAN, NEW t \in Token
  PROVE  LET q == NewBoardRoom(mode, clockEnabled, t)
         IN  BoardSound(q) /\ Table(q) = NewRoom(mode, clockEnabled, t)
<1> DEFINE n == NewRoom(mode, clockEnabled, t)
           q == NewBoardRoom(mode, clockEnabled, t)
           b == InitialBoard
           status == IF mode = "bot_easy" THEN "active" ELSE "waiting"
           seat == [c \in Color |-> IF c = White THEN t
                                   ELSE IF mode = "bot_easy" THEN Machine ELSE Nobody]
           connected == IF mode = "bot_easy" THEN {t, Machine} ELSE {t}
           clocks == [c \in Color |-> IF clockEnabled THEN InitialMs ELSE 0]
<1>1. /\ n \in Room /\ n.moves = 0 /\ n.turn = White /\ n.board = "open"
  <2>1. /\ seat \in [Color -> Token \cup {Machine, Nobody}] /\ clocks \in [Color -> 0 .. InitialMs]
        /\ connected \in SUBSET (Token \cup {Machine}) /\ status \in Status
    BY DEF Status
  <2>2. n = [mode |-> mode, clockEnabled |-> clockEnabled, board |-> "open",
             turn |-> White, status |-> status, winner |-> NoColor, seat |-> seat,
             spectators |-> {}, connected |-> connected, clocks |-> clocks,
             activeColor |-> NoColor, turnStartedAt |-> NoTime, moves |-> 0,
             firstMoveAt |-> NoTime, drawOffer |-> NoColor, botMoveDueAt |-> NoTime]
    BY DEF NewRoom, StartGame
  <2>3. 0 \in 0 .. MaxMoves /\ White \in Color /\ "open" \in Outcome /\ NoTime \in Time
    BY DEF Color, Outcome, Time
  <2> HIDE DEF n, seat, connected, clocks, status
  <2> QED BY <2>1, <2>2, <2>3 DEF Room
<1>2. /\ b \in Board /\ \A c \in Cell : b[c] = Empty
  BY DEF InitialBoard, Board
<1>3. q = [n EXCEPT !.board = b] BY DEF NewBoardRoom
<1>4. q \in BoardRoom /\ q.board = b /\ q.moves = 0 /\ q.turn = White
  <2> HIDE DEF n, b
  <2> QED BY <1>1, <1>2, <1>3 DEF Room, BoardRoom, RoomWith
<1>5. \A m \in {"x", "o"} : Marks(b, m) = {} /\ ~Filled(b, m)
  BY <1>2, FilledLines DEF Marks, Cell, Empty
<1>6. BoardOutcome(b) = "open"
  <2>1. ~IsBoardFull(b) BY <1>2 DEF IsBoardFull, Cell, Empty
  <2> QED BY <1>5, <2>1, OutcomeFacts DEF Outcome
<1>7. Mover(0) = White BY DEF Mover
<1>8. BoardSound(q)
  BY <1>4, <1>5, <1>6, <1>7, FS_EmptySet DEF BoardSound
<1>9. Table(q) = n
  <2>1. Table(q) = [[n EXCEPT !.board = b] EXCEPT !.board = "open", !.turn = White]
    BY <1>3, <1>4, <1>6, <1>7 DEF Table
  <2>2. n = [n EXCEPT !.board = "open", !.turn = White] BY <1>1 DEF Room
  <2>3. [[n EXCEPT !.board = b] EXCEPT !.board = "open", !.turn = White]
          = [n EXCEPT !.board = "open", !.turn = White]
    <3> HIDE DEF n, b
    <3> QED OBVIOUS
  <2> QED BY <2>1, <2>2, <2>3
<1> QED BY <1>8, <1>9

\* Chess and tic-tac-toe name the same rules.
LEMMA SameWords ==
  /\ Chess!White = White /\ Chess!Black = Black /\ Chess!Color = Color
  /\ Chess!NoColor = NoColor /\ Chess!NoTime = NoTime
  /\ Chess!FinishedStatus = FinishedStatus /\ Chess!Outcome = Outcome
  /\ \A r, t : Chess!HoldsSeat(r, t) = HoldsSeat(r, t)
  /\ \A r : Chess!Members(r) = Members(r)
  /\ \A r : Chess!VerdictSound(r) = VerdictSound(r)
  /\ Chess!Room = Room
<1>1. /\ Chess!White = White /\ Chess!Black = Black /\ Chess!Color = Color
      /\ Chess!NoColor = NoColor /\ Chess!NoTime = NoTime
  BY DEF Chess!White, White, Chess!Black, Black, Chess!Color, Color, Chess!NoColor, NoColor,
         Chess!NoTime, NoTime
<1>2. /\ Chess!FinishedStatus = FinishedStatus /\ Chess!Outcome = Outcome
  BY DEF Chess!FinishedStatus, FinishedStatus, Chess!Outcome, Outcome
<1>3. \A r, t : Chess!HoldsSeat(r, t) = HoldsSeat(r, t)
  BY <1>1 DEF Chess!HoldsSeat, HoldsSeat, Chess!Holds, Holds
<1>4. \A r : Chess!Members(r) = Members(r)
  BY <1>3 DEF Chess!Members, Members
<1>5. \A r : Chess!VerdictSound(r) = VerdictSound(r)
  BY <1>1 DEF Chess!VerdictSound, VerdictSound, Chess!Opposite, Opposite
<1>6. Chess!Room = Room
  BY <1>1, <1>2 DEF Chess!Room, Room, Chess!RoomWith, RoomWith, Chess!Time, Time, Chess!Status, Status
<1> QED BY <1>1, <1>2, <1>3, <1>4, <1>5, <1>6

LEMMA SameResults ==
  /\ \A mode, c, t : Chess!NewRoom(mode, c, t) = NewRoom(mode, c, t)
  /\ \A r, t, fresh : Chess!JoinResults(r, t, fresh) = JoinResults(r, t, fresh)
  /\ \A r, t : /\ Chess!LeaveResults(r, t) = LeaveResults(r, t)
               /\ Chess!SyncResults(r, t) = SyncResults(r, t)
               /\ Chess!MarkDisconnectedResults(r, t) = MarkDisconnectedResults(r, t)
               /\ Chess!ResignResults(r, t) = ResignResults(r, t)
               /\ Chess!OfferDrawResults(r, t) = OfferDrawResults(r, t)
               /\ Chess!AcceptDrawResults(r, t) = AcceptDrawResults(r, t)
               /\ Chess!DeclineDrawResults(r, t) = DeclineDrawResults(r, t)
  /\ \A r, t, ts : Chess!SubmitActionResults(r, t, ts) = SubmitActionResults(r, t, ts)
  /\ \A r, ts : Chess!TickResults(r, ts) = TickResults(r, ts)
<1>1. /\ \A c : Chess!Opposite(c) = Opposite(c)
      /\ \A r, t, c : Chess!Holds(r, t, c) = Holds(r, t, c)
      /\ \A r : Chess!IsFinished(r) = IsFinished(r) /\ Chess!IsBotTurn(r) = IsBotTurn(r)
      /\ \A r : Chess!HumanSeats(r) = HumanSeats(r)
  BY SameWords DEF Chess!Opposite, Opposite, Chess!Holds, Holds, Chess!IsFinished, IsFinished,
         Chess!IsBotTurn, IsBotTurn, Chess!HumanSeats, HumanSeats
<1>2. /\ \A r : Chess!StartGame(r) = StartGame(r)
      /\ \A r, w, s : Chess!FinishGame(r, w, s) = FinishGame(r, w, s)
      /\ \A r, t : Chess!Reconnect(r, t) = Reconnect(r, t) /\ Chess!Disconnect(r, t) = Disconnect(r, t)
      /\ \A r, c, t : Chess!SitDown(r, c, t) = SitDown(r, c, t)
      /\ \A r, ts : Chess!RetryBotLater(r, ts) = RetryBotLater(r, ts)
  BY SameWords DEF Chess!StartGame, StartGame, Chess!FinishGame, FinishGame,
         Chess!Reconnect, Reconnect, Chess!Disconnect, Disconnect, Chess!SitDown, SitDown,
         Chess!RetryBotLater, RetryBotLater
<1>3. /\ \A r, ts : Chess!AdvanceClock(r, ts) = AdvanceClock(r, ts)
      /\ \A r : Chess!FinishIfTimedOut(r) = FinishIfTimedOut(r)
      /\ \A r, ts : Chess!PassTurn(r, ts) = PassTurn(r, ts)
      /\ \A r : Chess!MoveOutcomes(r) = MoveOutcomes(r)
      /\ \A r, o, ts : Chess!Played(r, o, ts) = Played(r, o, ts)
  BY SameWords, <1>1, <1>2 DEF Chess!AdvanceClock, AdvanceClock, Chess!TimeLeft, TimeLeft,
         Chess!FinishIfTimedOut, FinishIfTimedOut, Chess!PassTurn, PassTurn,
         Chess!MoveOutcomes, MoveOutcomes, Chess!Played, Played
<1>4. \A mode, c, t : Chess!NewRoom(mode, c, t) = NewRoom(mode, c, t)
  BY SameWords, <1>2 DEF Chess!NewRoom, NewRoom
<1>5. \A r, t, fresh : Chess!JoinResults(r, t, fresh) = JoinResults(r, t, fresh)
  BY SameWords, <1>2, SMTT(30) DEF Chess!JoinResults, JoinResults
<1>6. \A r, t : Chess!LeaveResults(r, t) = LeaveResults(r, t)
  <2>1. \A r, t : Chess!StandUp(r, t) = StandUp(r, t)
    BY SameWords, <1>1, <1>2 DEF Chess!StandUp, StandUp
  <2>2. \A r : Chess!ShouldDelete(r) = ShouldDelete(r)
    BY <1>1 DEF Chess!ShouldDelete, ShouldDelete
  <2> QED BY SameWords, <1>2, <2>1, <2>2 DEF Chess!LeaveResults, LeaveResults
<1>7. \A r, t : /\ Chess!SyncResults(r, t) = SyncResults(r, t)
                /\ Chess!MarkDisconnectedResults(r, t) = MarkDisconnectedResults(r, t)
  BY SameWords, <1>2 DEF Chess!SyncResults, SyncResults,
         Chess!MarkDisconnectedResults, MarkDisconnectedResults
<1>8. \A r, t : /\ Chess!ResignResults(r, t) = ResignResults(r, t)
                /\ Chess!OfferDrawResults(r, t) = OfferDrawResults(r, t)
                /\ Chess!AcceptDrawResults(r, t) = AcceptDrawResults(r, t)
                /\ Chess!DeclineDrawResults(r, t) = DeclineDrawResults(r, t)
  BY SameWords, <1>1, <1>2 DEF Chess!ResignResults, ResignResults,
         Chess!OfferDrawResults, OfferDrawResults, Chess!MayAnswerOffer, MayAnswerOffer,
         Chess!AcceptDrawResults, AcceptDrawResults, Chess!DeclineDrawResults, DeclineDrawResults
<1>9. \A r, o, ts : Chess!ApplyMove(r, o, ts) = ApplyMove(r, o, ts)
  BY SameWords, <1>2, <1>3 DEF Chess!ApplyMove, ApplyMove
<1>10. \A r, t, ts : Chess!SubmitActionResults(r, t, ts) = SubmitActionResults(r, t, ts)
  BY SameWords, <1>1, <1>3, <1>9 DEF Chess!SubmitActionResults, SubmitActionResults
<1>11. \A r, ts : Chess!TickResults(r, ts) = TickResults(r, ts)
  <2>1. \A r, ans, ts : Chess!PerformBotMove(r, ans, ts) = PerformBotMove(r, ans, ts)
    BY SameWords, <1>1, <1>2, <1>9 DEF Chess!PerformBotMove, PerformBotMove
  <2>2. \A r : Chess!BotAnswers(r) = BotAnswers(r)
    BY <1>3 DEF Chess!BotAnswers, BotAnswers
  <2>3. \A r, ts : Chess!ShouldPlayBotMove(r, ts) = ShouldPlayBotMove(r, ts)
    BY SameWords, <1>1 DEF Chess!ShouldPlayBotMove, ShouldPlayBotMove
  <2> QED BY <1>3, <2>1, <2>2, <2>3 DEF Chess!TickResults, TickResults
<1> QED BY <1>4, <1>5, <1>6, <1>7, <1>8, <1>10, <1>11

LEMMA TableThere ==
  ASSUME NEW r \in BoardRoom
  PROVE  r # Absent /\ Table(r) # Absent /\ Members(Table(r)) = Members(r)
BY TableFields DEF Members, HoldsSeat, Holds

\* What is known of the stored room, as either game sees it.
LEMMA SeenNow ==
  ASSUME BoardInvariant
  PROVE  /\ issued \subseteq Token /\ now \in Nat /\ (Chess!Exists <=> Exists)
         /\ Exists => /\ BoardSound(room) /\ room \in BoardRoom /\ Seen = Table(room)
                      /\ VerdictSound(Table(room)) /\ Members(Seen) = Members(room)
<1>1. issued \subseteq Token /\ now \in Nat
  BY DEF BoardInvariant, Chess!RoomSound, Chess!TypeOK
<1>2. CASE ~Exists
  BY <1>1, <1>2 DEF Seen, Chess!Exists
<1>3. CASE Exists
  <2>1. BoardSound(room) /\ room \in BoardRoom /\ Seen = Table(room)
    BY <1>3 DEF BoardInvariant, BoardSound, Seen
  <2>2. Chess!Exists /\ Members(Seen) = Members(room)
    BY <2>1, TableThere DEF Chess!Exists
  <2>3. VerdictSound(Table(room))
    BY <2>1, <2>2, SameWords DEF BoardInvariant, Chess!RoomSound, Chess!Sound
  <2> QED BY <1>1, <1>3, <2>1, <2>2, <2>3
<1> QED BY <1>2, <1>3

\* A sound board saved or deleted is a room saved or deleted.
LEMMA SavedSeen ==
  ASSUME NEW R, UNCHANGED <<issued, now>>,
         IF room' = Absent THEN Absent \in R ELSE BoardSound(room') /\ Table(room') \in R
  PROVE  Chess!Saves(R) /\ (Exists => BoardSound(room))'
BY DEF Chess!Saves, Exists, Seen

LEMMA StepSeen ==
  ASSUME BoardInvariant, [Next]_vars
  PROVE  [Chess!Next]_(Chess!vars) /\ (Exists => BoardSound(room))'
<1>1. /\ issued \subseteq Token /\ now \in Nat /\ (Chess!Exists <=> Exists)
      /\ Exists => /\ BoardSound(room) /\ room \in BoardRoom /\ Seen = Table(room)
                   /\ VerdictSound(Table(room)) /\ Members(Seen) = Members(room)
  BY SeenNow
<1>2. \A q : BoardSound(q) => q # Absent /\ Table(q) # Absent /\ Members(Table(q)) = Members(q)
  BY TableThere DEF BoardSound
<1>3. ASSUME NEW mode \in {"pvp", "bot_easy"}, NEW clockEnabled \in BOOLEAN, NEW t \in Token,
             CreateRoom(mode, clockEnabled, t)
      PROVE  Chess!CreateRoom(mode, clockEnabled, t) /\ (Exists => BoardSound(room))'
  <2>1. /\ BoardSound(room') /\ Table(room') = NewRoom(mode, clockEnabled, t)
        /\ issued' = {t} /\ now' = now /\ ~Exists /\ issued = {}
    BY <1>3, NewBoardSeen DEF CreateRoom
  <2>2. Seen' = Chess!NewRoom(mode, clockEnabled, t)
    BY <1>2, <2>1, SameResults DEF Seen, Exists
  <2> QED BY <1>1, <2>1, <2>2 DEF Chess!CreateRoom
<1>4. ASSUME NEW t \in Token, NEW fresh \in Token, JoinRoom(t, fresh)
      PROVE  Chess!JoinRoom(t, fresh) /\ (Exists => BoardSound(room))'
  <2>1. /\ Exists /\ room' \in JoinResults(room, t, fresh) /\ now' = now
        /\ issued' = issued \cup Members(room') /\ (t \notin Members(room) => fresh \notin issued)
    BY <1>4 DEF JoinRoom
  <2>2. BoardSound(room') /\ Table(room') \in JoinResults(Seen, t, fresh)
    BY <1>1, <2>1, JoinResultsSeen
  <2>3. Seen' = Table(room') /\ Members(Seen') = Members(room')
    BY <1>2, <2>2 DEF Seen, Exists
  <2> QED BY <1>1, <2>1, <2>2, <2>3, SameResults, SameWords DEF Chess!JoinRoom
<1>5. ASSUME NEW t \in Token, LeaveRoom(t)
      PROVE  Chess!LeaveRoom(t) /\ (Exists => BoardSound(room))'
  <2>1. Exists /\ room' \in LeaveResults(room, t) /\ UNCHANGED <<issued, now>>
    BY <1>5 DEF LeaveRoom, Saves
  <2>2. IF room' = Absent THEN Absent \in Chess!LeaveResults(Seen, t)
        ELSE BoardSound(room') /\ Table(room') \in Chess!LeaveResults(Seen, t)
    BY <1>1, <2>1, LeaveResultsSeen, SameResults
  <2> QED BY <1>1, <2>1, <2>2, SavedSeen DEF Chess!LeaveRoom
<1>6. ASSUME NEW t \in Token, SyncState(t)
      PROVE  Chess!SyncState(t) /\ (Exists => BoardSound(room))'
  <2>1. Exists /\ room' \in SyncResults(room, t) /\ UNCHANGED <<issued, now>>
    BY <1>6 DEF SyncState, Saves
  <2>2. room' # Absent /\ BoardSound(room') /\ Table(room') \in Chess!SyncResults(Seen, t)
    BY <1>1, <1>2, <2>1, PresenceResultsSeen, SameResults
  <2> QED BY <1>1, <2>1, <2>2, SavedSeen DEF Chess!SyncState
<1>7. ASSUME NEW t \in Token, MarkDisconnected(t)
      PROVE  Chess!MarkDisconnected(t) /\ (Exists => BoardSound(room))'
  <2>1. Exists /\ room' \in MarkDisconnectedResults(room, t) /\ UNCHANGED <<issued, now>>
    BY <1>7 DEF MarkDisconnected, Saves
  <2>2. room' # Absent /\ BoardSound(room') /\ Table(room') \in Chess!MarkDisconnectedResults(Seen, t)
    BY <1>1, <1>2, <2>1, PresenceResultsSeen, SameResults
  <2> QED BY <1>1, <2>1, <2>2, SavedSeen DEF Chess!MarkDisconnected
<1>8. ASSUME NEW t \in Token, NEW cell \in Cell, SubmitAction(t, cell)
      PROVE  Chess!SubmitAction(t) /\ (Exists => BoardSound(room))'
  <2>1. Exists /\ room' \in SubmitCellResults(room, t, cell, now) /\ UNCHANGED <<issued, now>>
    BY <1>8 DEF SubmitAction, Saves
  <2>2. room' # Absent /\ BoardSound(room') /\ Table(room') \in Chess!SubmitActionResults(Seen, t, now)
    BY <1>1, <1>2, <2>1, SubmitResultsSeen, SameResults
  <2> QED BY <1>1, <2>1, <2>2, SavedSeen DEF Chess!SubmitAction
<1>9. ASSUME NEW t \in Token, Resign(t)
      PROVE  Chess!Resign(t) /\ (Exists => BoardSound(room))'
  <2>1. Exists /\ room' \in ResignResults(room, t) /\ UNCHANGED <<issued, now>>
    BY <1>9 DEF Resign, Saves
  <2>2. room' # Absent /\ BoardSound(room') /\ Table(room') \in Chess!ResignResults(Seen, t)
    BY <1>1, <1>2, <2>1, ResignResultsSeen, SameResults
  <2> QED BY <1>1, <2>1, <2>2, SavedSeen DEF Chess!Resign
<1>10. ASSUME NEW t \in Token, OfferDraw(t)
       PROVE  Chess!OfferDraw(t) /\ (Exists => BoardSound(room))'
  <2>1. Exists /\ room' \in OfferDrawResults(room, t) /\ UNCHANGED <<issued, now>>
    BY <1>10 DEF OfferDraw, Saves
  <2>2. room' # Absent /\ BoardSound(room') /\ Table(room') \in Chess!OfferDrawResults(Seen, t)
    BY <1>1, <1>2, <2>1, DrawResultsSeen, SameResults
  <2> QED BY <1>1, <2>1, <2>2, SavedSeen DEF Chess!OfferDraw
<1>11. ASSUME NEW t \in Token, AcceptDraw(t)
       PROVE  Chess!AcceptDraw(t) /\ (Exists => BoardSound(room))'
  <2>1. Exists /\ room' \in AcceptDrawResults(room, t) /\ UNCHANGED <<issued, now>>
    BY <1>11 DEF AcceptDraw, Saves
  <2>2. room' # Absent /\ BoardSound(room') /\ Table(room') \in Chess!AcceptDrawResults(Seen, t)
    BY <1>1, <1>2, <2>1, DrawResultsSeen, SameResults
  <2> QED BY <1>1, <2>1, <2>2, SavedSeen DEF Chess!AcceptDraw
<1>12. ASSUME NEW t \in Token, DeclineDraw(t)
       PROVE  Chess!DeclineDraw(t) /\ (Exists => BoardSound(room))'
  <2>1. Exists /\ room' \in DeclineDrawResults(room, t) /\ UNCHANGED <<issued, now>>
    BY <1>12 DEF DeclineDraw, Saves
  <2>2. room' # Absent /\ BoardSound(room') /\ Table(room') \in Chess!DeclineDrawResults(Seen, t)
    BY <1>1, <1>2, <2>1, DrawResultsSeen, SameResults
  <2> QED BY <1>1, <2>1, <2>2, SavedSeen DEF Chess!DeclineDraw
<1>13. ASSUME TickActiveRooms
       PROVE  Chess!TickActiveRooms /\ (Exists => BoardSound(room))'
  <2>1. Exists /\ room' \in TickBoardResults(room, now) /\ UNCHANGED <<issued, now>>
    BY <1>13 DEF TickActiveRooms, Saves
  <2>2. room' # Absent /\ BoardSound(room') /\ Table(room') \in Chess!TickResults(Seen, now)
    BY <1>1, <1>2, <2>1, TickResultsSeen, SameResults
  <2> QED BY <1>1, <2>1, <2>2, SavedSeen DEF Chess!TickActiveRooms
<1>14. ASSUME TimePasses PROVE Chess!TimePasses /\ (Exists => BoardSound(room))'
  BY <1>1, <1>14 DEF TimePasses, Chess!TimePasses, Seen, Exists
<1>15. ASSUME UNCHANGED vars PROVE (UNCHANGED Chess!vars) /\ (Exists => BoardSound(room))'
  BY <1>1, <1>15 DEF vars, Chess!vars, Seen, Exists
<1> QED
  BY <1>3, <1>4, <1>5, <1>6, <1>7, <1>8, <1>9, <1>10, <1>11, <1>12, <1>13, <1>14, <1>15
  DEF Next, Chess!Next, Chess!PlayerAction

\* What chess assumes of its parameters holds here.
LEMMA ChessAssumptions == Chess!ParametersAssumption /\ Chess!MaxTimeAssumption
BY SameWords DEF Chess!ParametersAssumption, Chess!MaxTimeAssumption

LEMMA InitSeen == Init => Chess!Init /\ BoardInvariant
<1>1. Init => ~Exists /\ Chess!Init
  BY DEF Init, Exists, Seen, Chess!Init
<1>2. Chess!Init => Chess!RoomSound BY Chess!InitSound, ChessAssumptions
<1> QED BY <1>1, <1>2 DEF BoardInvariant

\* The invariant: the board is that of the moves counted, and what chess would
\* show of it is a sound chess room.
THEOREM BoardIsSound == Spec => []BoardInvariant
<1>1. Init => BoardInvariant BY InitSeen
<1>2. BoardInvariant /\ [Next]_vars => BoardInvariant'
  <2>1. Chess!RoomSound /\ [Chess!Next]_(Chess!vars) => Chess!RoomSound' BY Chess!NextSound, ChessAssumptions
  <2> QED BY <2>1, StepSeen DEF BoardInvariant
<1> QED BY <1>1, <1>2, PTL DEF Spec

\* Every step of a handler, of the tick and of the machine is one that a chess room
\* could take: the two services differ in what they do to the board and in nothing
\* that the seats, the clocks, the offers and the verdict could tell
\* (tictactoe/service.go against chess/service.go).
THEOREM TicTacToeIsAChessRoom == Spec => Chess!Spec
<1>1. Init => Chess!Init BY InitSeen
<1>2. BoardInvariant /\ [Next]_vars => [Chess!Next]_(Chess!vars) BY StepSeen
<1> QED BY <1>1, <1>2, BoardIsSound, PTL DEF Spec, Chess!Spec

-----------------------------------------------------------------------------
(* What follows of the board itself.                                       *)

\* The statuses, the outcome and the turn, as chess's verdict ties them.
LEMMA VerdictSeen ==
  ASSUME NEW r, BoardSound(r), VerdictSound(Table(r))
  PROVE  /\ r.status \in {"waiting", "active"} => BoardOutcome(r.board) = "open"
         /\ r.status = "won" <=> BoardOutcome(r.board) = "checkmate"
         /\ r.status = "won" => r.winner = Opposite(Mover(r.moves))
         /\ BoardOutcome(r.board) = "draw" => r.status = "draw"
         /\ r.status = "draw" => r.winner = NoColor
         /\ r.status = "timeout" => /\ BoardOutcome(r.board) = "open"
                                    /\ r.winner = Opposite(Mover(r.moves))
                                    /\ r.clocks[Mover(r.moves)] = 0
<1>1. r \in BoardRoom BY DEF BoardSound
<1>2. r.status \in Status BY <1>1 DEF BoardRoom, RoomWith
<1>3. BoardOutcome(r.board) \in Outcome /\ BoardOutcome(r.board) # "stalemate" BY OutcomeFacts
<1> QED BY <1>1, <1>2, <1>3, TableFields DEF VerdictSound, Status, FinishedStatus, Outcome

LEMMA TablesAlikeNow == BoardInvariant => TablesAlike
<1> SUFFICES ASSUME BoardInvariant PROVE TablesAlike OBVIOUS
<1>1. /\ issued \subseteq Token /\ now \in 0 .. MaxTime
  BY DEF BoardInvariant, Chess!RoomSound, Chess!TypeOK
<1>2. CASE ~Exists
  BY <1>1, <1>2 DEF TablesAlike, TypeOK, Exists
<1>3. CASE Exists
  <2> DEFINE r == room
             T == Table(room)
  <2>1. /\ BoardSound(r) /\ r \in BoardRoom /\ Seen = T /\ VerdictSound(T)
        /\ Members(T) = Members(r) /\ Chess!Exists
    BY <1>3, SeenNow
  <2>2. Members(r) \subseteq issued
    BY <2>1, SameWords DEF BoardInvariant, Chess!RoomSound, Chess!TypeOK
  <2>3. /\ Chess!SeatsSound(T) /\ Chess!HasPlayer(T) /\ Chess!OfferSound(T)
        /\ Chess!MoverOnTheClock(T) /\ Chess!ClockConserved(T) /\ Chess!BotScheduled(T)
    BY <2>1 DEF BoardInvariant, Chess!RoomSound, Chess!Sound
  <2>4. /\ SeatsSound(T) /\ HasPlayer(T) /\ OfferSound(T)
        /\ MoverOnTheClock(T) /\ ClockConserved(T) /\ BotScheduled(T)
    BY <2>3, SameWords DEF Chess!SeatsSound, SeatsSound, Chess!HasPlayer, HasPlayer,
       Chess!HumanSeats, HumanSeats, Chess!OfferSound, OfferSound,
       Chess!MoverOnTheClock, MoverOnTheClock, Chess!ClockConserved, ClockConserved,
       Chess!BotScheduled, BotScheduled, Chess!IsBotTurn, IsBotTurn
  <2>5. r.status = "active" => T.turn = r.turn
    BY <2>1, TableFields, VerdictSeen DEF BoardSound
  <2>6. SeatsSound(r) /\ HasPlayer(r) /\ OfferSound(r)
    BY <2>1, <2>4, TableFields DEF SeatsSound, HasPlayer, HumanSeats, OfferSound
  <2>7. MoverOnTheClock(r) /\ ClockConserved(r) /\ BotScheduled(r)
    BY <2>1, <2>4, <2>5, TableFields DEF MoverOnTheClock, ClockConserved, BotScheduled, IsBotTurn
  <2> QED BY <1>1, <2>1, <2>2, <2>6, <2>7 DEF TablesAlike, TypeOK
<1> QED BY <1>2, <1>3

\* The winner's line is on the board and the loser's is not.
LEMMA LinesSeen ==
  ASSUME NEW r, BoardSound(r), NEW c \in Color
  PROVE  /\ ThreeInARow(r.board, MarkForColor(c)) => c = Opposite(Mover(r.moves))
         /\ ThreeInARow(r.board, MarkForColor(c)) => BoardOutcome(r.board) = "checkmate"
         /\ BoardOutcome(r.board) = "checkmate" =>
              ThreeInARow(r.board, MarkForColor(Opposite(Mover(r.moves))))
<1>1. Mover(r.moves) \in Color /\ MarkForColor(c) \in {"x", "o"}
  BY DEF Mover, MarkForColor, Color
<1>2. \A d \in Color : MarkForColor(c) = MarkForColor(d) => c = d
  BY DEF MarkForColor, Color, White, Black
<1>3. \A m \in {"x", "o"} : Filled(r.board, m) => m = MarkForColor(Opposite(Mover(r.moves)))
  BY DEF BoardSound
<1>4. Opposite(Mover(r.moves)) \in Color BY DEF Opposite, Color
<1> QED BY <1>1, <1>2, <1>3, <1>4, OutcomeFacts, LinesAreThreeInARow

LEMMA VerdictOnBoardNow == BoardInvariant => VerdictOnBoard
<1> SUFFICES ASSUME BoardInvariant, Exists
             PROVE  /\ room.status = "won" <=>
                         \E c \in Color : ThreeInARow(room.board, MarkForColor(c))
                    /\ \A c \in Color : ThreeInARow(room.board, MarkForColor(c)) =>
                         room.winner = c /\ room.turn = c
                    /\ IsBoardFull(room.board) => room.status \in {"won", "draw"}
                    /\ room.status = "draw" => room.winner = NoColor
                    /\ room.status = "timeout" =>
                         room.winner = Opposite(room.turn) /\ room.clocks[room.turn] = 0
  BY DEF VerdictOnBoard
<1> DEFINE r == room
           o == BoardOutcome(room.board)
<1>1. BoardSound(r) /\ VerdictSound(Table(r)) BY SeenNow
<1>2. r.turn = IF o = "open" THEN Mover(r.moves) ELSE Opposite(Mover(r.moves))
  BY <1>1 DEF BoardSound
<1>3. Opposite(Mover(r.moves)) \in Color BY DEF Opposite, Color
<1>4. o = "checkmate" <=> \E c \in Color : ThreeInARow(r.board, MarkForColor(c))
  BY <1>1, <1>3, LinesSeen
<1>5. IsBoardFull(r.board) => o \in {"checkmate", "draw"} BY OutcomeFacts
<1> QED BY <1>1, <1>2, <1>4, <1>5, LinesSeen, VerdictSeen

LEMMA MarksAlternateNow == BoardInvariant => MarksAlternate
<1> DEFINE marks(m) == Cardinality({c \in Cell : room.board[c] = m})
<1> SUFFICES ASSUME BoardInvariant, Exists
             PROVE  /\ marks("x") - marks("o") \in {0, 1}
                    /\ marks("x") + marks("o") = room.moves
                    /\ room.status = "active" => (room.turn = White <=> marks("x") = marks("o"))
  BY DEF MarksAlternate
<1>1. BoardSound(room) /\ VerdictSound(Table(room)) BY SeenNow
<1>2. room.moves \in Nat BY <1>1 DEF BoardSound, BoardRoom, RoomWith
<1>3. marks("x") \in Nat /\ marks("o") \in Nat
  BY MarksAreFinite, FS_CardinalityType DEF Marks
<1>4. marks("x") + marks("o") = room.moves /\ marks("x") - marks("o") = room.moves % 2
  BY <1>1 DEF BoardSound, Marks
<1>5. room.status = "active" => room.turn = Mover(room.moves)
  BY <1>1, VerdictSeen DEF BoardSound
<1> HIDE DEF marks
<1> QED BY <1>2, <1>3, <1>4, <1>5 DEF Mover, White, Black

\* What chess keeps, tic-tac-toe keeps: seats, offers, the running clock, the time
\* it measures and the machine's schedule (tictactoe/service.go 127-392, 575-632).
THEOREM TicTacToeTables == Spec => []TablesAlike
BY BoardIsSound, TablesAlikeNow, PTL

\* The verdict is the one on the board: a won game has the winner's line and not
\* the loser's, and a full board is won or drawn at once (applyMoveToState 785-793).
THEOREM VerdictIsOnBoard == Spec => []VerdictOnBoard
BY BoardIsSound, VerdictOnBoardNow, PTL

\* The board is that of a fair game, although moves, retried bot moves and ticks
\* interleave (SubmitAction, performBotMove, TickActiveRooms).
THEOREM MarksTakeTurns == Spec => []MarksAlternate
BY BoardIsSound, MarksAlternateNow, PTL

-----------------------------------------------------------------------------
(* The promised match.                                                     *)

\* Both games tell the same match.
ToldAlike ==
  /\ Chess!MatchPhase = MatchPhase
  /\ (Chess!Exists /\ Seen.mode = "bot_easy") = (Exists /\ room.mode = "bot_easy")
  /\ (IF Chess!Exists THEN Seen.moves ELSE 0) = (IF Exists THEN room.moves ELSE 0)
  /\ Chess!MatchResult = MatchResult

LEMMA ToldAlikeNow == BoardInvariant => ToldAlike
<1> SUFFICES ASSUME BoardInvariant PROVE ToldAlike OBVIOUS
<1>1. Chess!Exists <=> Exists BY SeenNow
<1>2. CASE ~Exists
  BY <1>1, <1>2 DEF ToldAlike, Chess!MatchPhase, MatchPhase, Chess!MatchResult, MatchResult
<1>3. CASE Exists
  <2>1. /\ Seen.mode = room.mode /\ Seen.moves = room.moves /\ Seen.status = room.status
        /\ Seen.winner = room.winner
    BY <1>3, SeenNow, TableFields
  <2>2. Chess!IsFinished(Seen) <=> IsFinished(room)
    BY <2>1, SameWords DEF Chess!IsFinished, IsFinished
  <2>3. Chess!Told(room.status) = IF room.status = "won" THEN "checkmate" ELSE room.status
    BY DEF Chess!Told
  <2> QED
    BY <1>1, <1>3, <2>1, <2>2, <2>3
    DEF ToldAlike, Chess!MatchPhase, MatchPhase, Chess!MatchResult, MatchResult
<1> QED BY <1>2, <1>3

LEMMA MatchStepTold ==
  ASSUME ToldAlike, ToldAlike', [Chess!Match!Next]_(Chess!Match!vars)
  PROVE  [Match!Next]_(Match!vars)
<1>1. UNCHANGED Chess!Match!vars => UNCHANGED Match!vars
  BY DEF ToldAlike, Chess!Match!vars, Match!vars
<1>2. \A alone \in BOOLEAN : Chess!Match!Open(alone) => Match!Open(alone)
  BY DEF ToldAlike, Chess!Match!Open, Match!Open
<1>3. Chess!Match!Start => Match!Start
  BY DEF ToldAlike, Chess!Match!Start, Match!Start
<1>4. Chess!Match!Move => Match!Move
  BY DEF ToldAlike, Chess!Match!Move, Match!Move, Chess!Match!Mover, Match!Mover
<1>5. Chess!Match!Stop => Match!Stop
  BY DEF ToldAlike, Chess!Match!Stop, Match!Stop, Chess!Match!Mover, Match!Mover,
         Chess!Match!Other, Match!Other
<1>6. Chess!Match!Close => Match!Close
  BY DEF ToldAlike, Chess!Match!Close, Match!Close, Chess!Match!Undecided, Match!Undecided
<1> QED BY <1>1, <1>2, <1>3, <1>4, <1>5, <1>6 DEF Chess!Match!Next, Match!Next

\* The tic-tac-toe room implements the match its players are promised, because the
\* chess room does: one verdict, for the right player, and no mark after it, although
\* the turn stays with the player whose mark ended the game (applyMoveToState 785-795).
THEOREM TicTacToeImplementsMatch == Spec => ImplementsMatch
<1>1. ToldAlike /\ Chess!Match!Init => Match!Init
  BY DEF ToldAlike, Chess!Match!Init, Match!Init, Chess!Match!Undecided, Match!Undecided
<1>2. ToldAlike /\ ToldAlike' /\ [Chess!Match!Next]_(Chess!Match!vars) => [Match!Next]_(Match!vars)
  BY MatchStepTold
<1>3. Chess!Spec => Chess!ImplementsMatch
  BY Chess!RoomImplementsMatch, ChessAssumptions
<1> QED
  BY <1>1, <1>2, <1>3, TicTacToeIsAChessRoom, BoardIsSound, ToldAlikeNow, PTL
  DEF ImplementsMatch, Match!Spec, Chess!ImplementsMatch, Chess!Match!Spec

-----------------------------------------------------------------------------
(* The machine's priorities.                                               *)

\* A cell completes a line exactly when marking it gives three in a row.
LEMMA ThreatsComplete ==
  ASSUME NEW b \in Board, NEW m \in {"x", "o"}, ~Filled(b, m)
  PROVE  WinningMoves(b, m) = Threats(b, m)
<1> SUFFICES ASSUME NEW c \in Cell, b[c] = Empty
             PROVE  CompletesLine(b, c, m) <=> ThreeInARow([b EXCEPT ![c] = m], m)
  BY DEF WinningMoves, AvailableMoves, Threats
<1> DEFINE d == [b EXCEPT ![c] = m]
<1>1. d[c] = m /\ \A e \in Cell \ {c} : d[e] = b[e] BY DEF Board
<1>2. \A i \in DOMAIN WinningLines : WinningLines[i] \subseteq Cell
  <2>1. DOMAIN WinningLines = 1 .. 8 BY DEF WinningLines
  <2>2. \A i \in {1, 2, 3, 4, 5, 6, 7, 8} : WinningLines[i] \subseteq Cell
    BY DEF WinningLines, Cell
  <2> QED BY <2>1, <2>2
<1>3. ASSUME NEW i \in DOMAIN WinningLines
      PROVE  (\A e \in WinningLines[i] : d[e] = m) <=>
               c \in WinningLines[i] /\ \A e \in WinningLines[i] \ {c} : b[e] = m
  <2>1. ~(\A e \in WinningLines[i] : b[e] = m) BY DEF Filled
  <2> HIDE DEF d
  <2> QED BY <1>1, <1>2, <2>1
<1> HIDE DEF d
<1>4. EngineLines = WinningLines BY DEF EngineLines, WinningLines
<1>5. Filled(d, m) <=> CompletesLine(b, c, m) BY <1>3, <1>4 DEF Filled, CompletesLine
<1> QED BY <1>5, LinesAreThreeInARow DEF d

\* Only a mark makes the game longer.
LEMMA OthersDoNotMark ==
  ASSUME NEW r \in BoardRoom, NEW t, NEW fresh
  PROVE  /\ \A q \in JoinResults(r, t, fresh) : q.moves = r.moves
         /\ \A q \in LeaveResults(r, t) : q = Absent \/ q.moves = r.moves
         /\ \A q \in SyncResults(r, t) \cup MarkDisconnectedResults(r, t) : q.moves = r.moves
         /\ \A q \in ResignResults(r, t) \cup OfferDrawResults(r, t) \cup AcceptDrawResults(r, t)
                       \cup DeclineDrawResults(r, t) : q.moves = r.moves
<1>1. \A q \in JoinResults(r, t, fresh) : q.moves = r.moves
  BY ZenonT(60) DEF JoinResults, SitDown, StartGame, Reconnect, BoardRoom
<1>2. \A q \in LeaveResults(r, t) : q = Absent \/ q.moves = r.moves
  BY DEF LeaveResults, StandUp, Disconnect, BoardRoom
<1>3. \A q \in SyncResults(r, t) \cup MarkDisconnectedResults(r, t) : q.moves = r.moves
  BY DEF SyncResults, MarkDisconnectedResults, Reconnect, Disconnect, BoardRoom
<1>4. /\ \A w, s : FinishGame(r, w, s).moves = r.moves
      /\ \A c : [r EXCEPT !.drawOffer = c].moves = r.moves
  BY DEF FinishGame, BoardRoom
<1>5. \A q \in ResignResults(r, t) \cup AcceptDrawResults(r, t) : q.moves = r.moves
  BY <1>4 DEF ResignResults, AcceptDrawResults
<1>6. \A q \in OfferDrawResults(r, t) \cup DeclineDrawResults(r, t) : q.moves = r.moves
  BY <1>4 DEF OfferDrawResults, DeclineDrawResults
<1> QED BY <1>1, <1>2, <1>3, <1>5, <1>6

LEMMA MarkPlaced ==
  ASSUME NEW r \in BoardRoom, NEW cell \in Cell, NEW ts \in Nat
  PROVE  LET q == RetryBotLater(MarkCell(r, cell, ts), ts)
         IN  q.board = [r.board EXCEPT ![cell] = MarkForColor(r.turn)]
BY DEF RetryBotLater, MarkCell, Marked, FinishGame, PassTurn, BoardRoom

\* The machine that is on turn marks a cell of its strategy, on the board as stored.
LEMMA MachineMarks ==
  ASSUME NEW r, BoardSound(r), VerdictSound(Table(r)), NEW ts \in Nat,
         NEW q \in TickBoardResults(r, ts), q.moves > r.moves
  PROVE  /\ BoardOutcome(r.board) = "open"
         /\ \E cell \in SelectEasyMove(r.board, r.turn) :
              /\ cell \in Cell /\ r.board[cell] = Empty
              /\ q.board = [r.board EXCEPT ![cell] = MarkForColor(r.turn)]
<1> DEFINE timed == FinishIfTimedOut(AdvanceClock(r, ts))
<1>1. r \in BoardRoom /\ r.moves \in Nat BY DEF BoardSound, BoardRoom
<1>2. SameBoard(timed, r) BY <1>1, ClockSeen
<1>3. timed.status = "active" => BoardOutcome(timed.board) = "open" BY InPlay
<1>4. TickBoardResults(r, ts)
        = IF ShouldPlayBotMove(timed, ts)
          THEN {PerformMachineMove(timed, ans, ts) : ans \in EngineAnswers(timed)}
          ELSE IF timed.status # r.status THEN {timed} ELSE {}
  BY DEF TickBoardResults
<1> HIDE DEF timed
<1>5. timed.moves = r.moves /\ timed.board = r.board /\ timed.turn = r.turn /\ timed \in BoardRoom
  BY <1>2 DEF SameBoard
<1>6. ShouldPlayBotMove(timed, ts) BY <1>1, <1>4, <1>5
<1>7. timed.status = "active" BY <1>6 DEF ShouldPlayBotMove
<1>8. BoardOutcome(r.board) = "open" /\ ~IsBoardFull(timed.board) BY <1>3, <1>5, <1>7, OutcomeFacts
<1>9. PICK ans \in EngineAnswers(timed) : q = PerformMachineMove(timed, ans, ts) BY <1>4, <1>6
<1>10. ans \in SelectEasyMove(r.board, r.turn)
  <2>1. ans # Failed
    <3> SUFFICES ASSUME ans = Failed PROVE FALSE OBVIOUS
    <3>1. q = RetryBotLater(timed, ts) BY <1>9 DEF PerformMachineMove, Failed, NoMove
    <3>2. q.moves = timed.moves BY <1>5, <3>1, RetrySeen DEF SameBoard
    <3> QED BY <1>1, <1>5, <3>2
  <2> QED BY <1>5, <1>8, <2>1 DEF EngineAnswers
<1>11. ans \in Cell /\ r.board[ans] = Empty BY <1>10, EasyMoveIsFree
<1>12. q = RetryBotLater(MarkCell(timed, ans, ts), ts)
  <2>1. ans # Failed /\ ans # NoMove BY <1>11 DEF Cell, Failed, NoMove
  <2> QED BY <1>9, <2>1 DEF PerformMachineMove
<1>13. q.board = [r.board EXCEPT ![ans] = MarkForColor(r.turn)]
  BY <1>5, <1>11, <1>12, MarkPlaced
<1> QED BY <1>8, <1>10, <1>11, <1>13

\* A human's command does not mark for the machine.
LEMMA HumanWaits ==
  ASSUME NEW r, BoardSound(r), NEW t \in Token, NEW cell \in Cell, NEW ts \in Nat, IsBotTurn(r),
         NEW q \in SubmitCellResults(r, t, cell, ts)
  PROVE  q.moves = r.moves
<1> DEFINE timed == FinishIfTimedOut(AdvanceClock(r, ts))
<1>1. r \in BoardRoom BY DEF BoardSound
<1>2. SameBoard(timed, r) BY <1>1, ClockSeen
<1>3. timed.seat = r.seat
  BY <1>1 DEF FinishIfTimedOut, AdvanceClock, FinishGame, BoardRoom
<1>4. ~Holds(timed, t, timed.turn)
  BY <1>2, <1>3 DEF SameBoard, Holds, IsBotTurn
<1>5. q = timed
  <2> HIDE DEF timed
  <2> QED BY <1>4 DEF SubmitCellResults, timed
<1> QED BY <1>2, <1>5 DEF SameBoard

LEMMA PrioritiesKept ==
  ASSUME BoardInvariant, BoardInvariant', [Next]_vars,
         Exists, room' # Absent, IsBotTurn(room), room'.moves > room.moves
  PROVE  LET b == room.board
             free == {c \in Cell : b[c] = Empty}
             cell == CHOOSE c \in free : room'.board[c] # Empty
         IN  /\ Threats(b, "o") # {} => room'.winner = Black
             /\ Threats(b, "o") = {} /\ Threats(b, "x") # {} => cell \in Threats(b, "x")
             /\ Threats(b, "o") \cup Threats(b, "x") = {} =>
                  /\ 4 \in free => cell = 4
                  /\ 4 \notin free /\ free \cap {0, 2, 6, 8} # {} => cell \in {0, 2, 6, 8}
<1> DEFINE r == room
           q == room'
           b == room.board
           free == {c \in Cell : b[c] = Empty}
           own == WinningMoves(b, "o")
           other == WinningMoves(b, "x")
<1>1. /\ BoardSound(r) /\ VerdictSound(Table(r)) /\ r \in BoardRoom /\ r.moves \in Nat
      /\ issued \subseteq Token /\ now \in Nat /\ b \in Board
  BY SeenNow DEF BoardRoom
<1>2. r.turn = Black
  <2>1. TablesAlike BY TablesAlikeNow
  <2>2. SeatsSound(r) BY <2>1 DEF TablesAlike
  <2>3. r.turn \in Color /\ r.mode \in {"pvp", "bot_easy"} BY <1>1 DEF BoardRoom
  <2> QED BY <2>2, <2>3 DEF SeatsSound, IsBotTurn, Color
<1>3. room' \in TickBoardResults(r, now)
  <2>1. \A t, fresh : ~JoinRoom(t, fresh) /\ ~LeaveRoom(t) /\ ~SyncState(t) /\ ~MarkDisconnected(t)
    BY <1>1, OthersDoNotMark DEF JoinRoom, LeaveRoom, SyncState, MarkDisconnected, Saves
  <2>2. \A t : ~Resign(t) /\ ~OfferDraw(t) /\ ~AcceptDraw(t) /\ ~DeclineDraw(t)
    BY <1>1, OthersDoNotMark DEF Resign, OfferDraw, AcceptDraw, DeclineDraw, Saves
  <2>3. \A t \in Token, cell \in Cell : ~SubmitAction(t, cell)
    BY <1>1, HumanWaits DEF SubmitAction, Saves
  <2>4. \A mode, clockEnabled, t : ~CreateRoom(mode, clockEnabled, t)
    BY DEF CreateRoom
  <2>5. ~TimePasses /\ ~UNCHANGED vars
    BY <1>1 DEF TimePasses, vars
  <2>6. TickActiveRooms BY <2>1, <2>2, <2>3, <2>4, <2>5 DEF Next
  <2> QED BY <2>6 DEF TickActiveRooms, Saves
<1>4. MarkForColor(Black) = "o" /\ MarkForColor(Opposite(Black)) = "x"
  BY DEF MarkForColor, Opposite, White, Black
<1>5. /\ BoardOutcome(b) = "open"
      /\ \E cell \in SelectEasyMove(b, Black) :
           cell \in Cell /\ b[cell] = Empty /\ q.board = [b EXCEPT ![cell] = "o"]
  BY <1>1, <1>2, <1>3, <1>4, MachineMarks
<1>6. PICK cell \in SelectEasyMove(b, Black) :
        cell \in Cell /\ b[cell] = Empty /\ q.board = [b EXCEPT ![cell] = "o"]
  BY <1>5
<1>7. (CHOOSE c \in free : q.board[c] # Empty) = cell
  <2>1. \A c \in Cell : q.board[c] = IF c = cell THEN "o" ELSE b[c] BY <1>1, <1>6 DEF Board
  <2>2. \A c \in free : q.board[c] # Empty <=> c = cell BY <2>1, <1>6 DEF Empty
  <2>3. cell \in free BY <1>6
  <2> QED BY <2>2, <2>3
<1>8. own = Threats(b, "o") /\ other = Threats(b, "x")
  <2>1. ~Filled(b, "o") /\ ~Filled(b, "x") BY <1>5, OutcomeFacts
  <2> QED BY <1>1, <2>1, ThreatsComplete
<1>9. own # {} => cell \in own
  BY <1>4, <1>6, LeastCell DEF SelectEasyMove, WinningMoves, AvailableMoves
<1>10. own = {} /\ other # {} => cell \in other
  BY <1>4, <1>6, LeastCell DEF SelectEasyMove, WinningMoves, AvailableMoves
<1>11. own = {} /\ other = {} =>
         /\ 4 \in free => cell = 4
         /\ 4 \notin free /\ free \cap {0, 2, 6, 8} # {} => cell \in {0, 2, 6, 8}
  <2>1. AvailableMoves(b) = free BY DEF AvailableMoves
  <2>2. 4 \in free <=> b[Centre] = Empty BY DEF Centre, Cell
  <2> HIDE DEF free
  <2> QED BY <1>4, <1>6, <2>1, <2>2 DEF SelectEasyMove, Centre, Corners
<1>12. cell \in own => q.winner = Black
  <2>1. ASSUME cell \in own PROVE q.winner = Black
    <3>1. ThreeInARow(q.board, MarkForColor(Black)) BY <1>4, <1>6, <1>8, <2>1 DEF Threats
    <3>2. VerdictOnBoard' BY VerdictOnBoardNow, PTL
    <3> QED BY <3>1, <3>2 DEF VerdictOnBoard, Exists, Color
  <2> QED BY <2>1
<1> QED BY <1>7, <1>8, <1>9, <1>10, <1>11, <1>12

\* The machine wins when it can, else blocks, else prefers the centre, else a corner
\* (README.md 204; easy.go).
THEOREM MachineHasPriorities == Spec => EasyPriorities
<1>1. BoardInvariant /\ BoardInvariant' /\ [Next]_vars =>
        [Exists /\ room' # Absent /\ IsBotTurn(room) /\ room'.moves > room.moves =>
           LET b == room.board
               free == {c \in Cell : b[c] = Empty}
               cell == CHOOSE c \in free : room'.board[c] # Empty
           IN  /\ Threats(b, "o") # {} => room'.winner = Black
               /\ Threats(b, "o") = {} /\ Threats(b, "x") # {} => cell \in Threats(b, "x")
               /\ Threats(b, "o") \cup Threats(b, "x") = {} =>
                    /\ 4 \in free => cell = 4
                    /\ 4 \notin free /\ free \cap {0, 2, 6, 8} # {} => cell \in {0, 2, 6, 8}]_vars
  BY PrioritiesKept
<1> QED BY <1>1, BoardIsSound, PTL DEF Spec, EasyPriorities
=============================================================================
