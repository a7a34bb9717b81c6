------------------------------ MODULE MCSweep -------------------------------
EXTENDS Sweep
CONSTANTS c1, c2, t1
\* Two rooms of chess and one of tic-tac-toe; one record of chess cannot be read,
\* and in the other two rooms the machine moves.
ChessRooms == {c1, c2}
TicTacToeRooms == {t1}
InTraining == {c2, t1}
Broken == {c1}
=============================================================================
