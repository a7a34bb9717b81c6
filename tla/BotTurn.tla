------------------------------ MODULE BotTurn --------------------------------
(***************************************************************************)
(* One move of the machine at chess, from match-core to bot-engine and     *)
(* back: the engine draws among the legal moves by weight and names its    *)
(* choice by two squares and a letter; match-core, on its own board, looks *)
(* that name up among the same legal moves and plays what it finds.  The   *)
(* rules of chess are the library's: a pair of squares carries no legal    *)
(* move, one, or a promotion to each of four pieces.                       *)
(***************************************************************************)
EXTENDS Naturals, FiniteSets, Sequences

CONSTANTS OnePair, AnotherPair      \* pairs of squares, from and to

VARIABLES legal,       \* the legal moves, in the order of the library
          turn         \* what has become of the move

turnVars == <<legal, turn>>

Pieces == <<"queen", "rook", "bishop", "knight">>
NoPiece == "none"
Tags == {"capture", "check", "center"}

Move(pair, promo, tags) == [pair |-> pair, promo |-> promo, tags |-> tags]

\* The four promotions of a pair: which of them give check depends on the piece.
Promotions(pair, tags, checking) ==
  [i \in 1..4 |->
     Move(pair, Pieces[i], tags \cup IF Pieces[i] \in checking THEN {"check"} ELSE {})]

MovesOf(pair) ==
  {<<>>} \cup {<<Move(pair, NoPiece, tags)>> : tags \in SUBSET Tags}
         \cup {Promotions(pair, tags, checking) :
                 tags \in {{}, {"capture"}}, checking \in {{}, {"queen"}, {"knight"}}}

\* The machine is asked in a game that goes on: there is a legal move.
Asked == [step |-> "asked"]
Init ==
  /\ legal \in {one \o another : one \in MovesOf(OnePair), another \in MovesOf(AnotherPair)}
  /\ legal # <<>>
  /\ turn = Asked

-----------------------------------------------------------------------------
(* bot-engine *)

Weight(m) == 1 + (IF "capture" \in m.tags THEN 4 ELSE 0)
               + (IF m.promo # NoPiece THEN 4 ELSE 0)
               + (IF "check" \in m.tags THEN 2 ELSE 0)
               + (IF "center" \in m.tags THEN 1 ELSE 0)

\* The weight of the first n moves.
UpTo(n) == LET f[i \in 0..n] == IF i = 0 THEN 0 ELSE f[i - 1] + Weight(legal[i]) IN f[n]

Rolls == 0 .. UpTo(Len(legal)) - 1

\* (slip) A roll that meets the weight still takes the move.
DrawnInclusive(roll) ==
  CHOOSE i \in DOMAIN legal : roll <= UpTo(i) /\ \A j \in 1..(i - 1) : roll > UpTo(j)

\* The loop over the weights: the first move whose share the roll falls in.
Drawn(roll) ==
  CHOOSE i \in DOMAIN legal : roll < UpTo(i) /\ \A j \in 1..(i - 1) : roll >= UpTo(j)

\* promotionToString, of both services
Letter(promo) == CASE promo = "queen" -> "q" [] promo = "rook" -> "r"
                   [] promo = "bishop" -> "b" [] promo = "knight" -> "n"
                   [] OTHER -> ""

\* SelectEasyMove, and the name of the move drawn as the answer.
GetAction ==
  /\ turn = Asked
  /\ \E roll \in Rolls : LET m == legal[Drawn(roll)] IN
       turn' = [step |-> "found", roll |-> roll, move |-> m,
                pair |-> m.pair, letter |-> Letter(m.promo)]
  /\ UNCHANGED legal

-----------------------------------------------------------------------------
(* match-core *)

PromotionOrDefault(letter) == IF letter = "" THEN "q" ELSE letter

\* The candidates selectMove does not pass over.
Fits(m, pair, letter) ==
  m.pair = pair /\ (Letter(m.promo) = letter \/ (letter = "q" /\ Letter(m.promo) = ""))

\* selectMove: the first candidate that fits, or INVALID_MOVE.
SelectMove(pair, letter) ==
  LET fit == {i \in DOMAIN legal : Fits(legal[i], pair, letter)}
  IN  IF fit = {} THEN [step |-> "invalid"]
      ELSE [step |-> "played",
            move |-> legal[CHOOSE i \in fit : \A j \in fit : i <= j]]

\* performBotMove plays the move that was named.
PerformBotMove ==
  /\ turn.step = "found"
  /\ turn' = [step |-> "answered", drawn |-> turn.move, roll |-> turn.roll,
              played |-> SelectMove(turn.pair, PromotionOrDefault(turn.letter))]
  /\ UNCHANGED legal

Next == GetAction \/ PerformBotMove

Spec == Init /\ [][Next]_turnVars

-----------------------------------------------------------------------------

DrawnMoveIsPlayed ==
  turn.step = "answered" => turn.played = [step |-> "played", move |-> turn.drawn]

DrawnByWeight ==
  turn = Asked =>
    \A i \in DOMAIN legal : Cardinality({roll \in Rolls : Drawn(roll) = i}) = Weight(legal[i])

\* However the move is named on the way, with an empty letter for an ordinary move,
\* which match-core reads as a queen (promotionOrDefault 1124), the move played is
\* the move drawn (selectMove 1072-1093); and over all rolls each legal move is
\* drawn as often as its weight says (easy.go 58-73): none is out of reach.
BotPlaysAsDrawn == DrawnMoveIsPlayed /\ DrawnByWeight
=============================================================================
