-------------------------------- MODULE Torus --------------------------------
(***************************************************************************)
(* The unidirectional torus that noc_init_all (src/macsim/src/node.c)      *)
(* builds and the coordinates of share.h: ranks count the nodes row by     *)
(* row, the rows and the columns are closed to rings.                      *)
(***************************************************************************)
EXTENDS Naturals, TLAPS

CONSTANTS Width, Height   \* conf_noc_width, conf_noc_height

ASSUME TorusAssumption == Width \in Nat \ {0} /\ Height \in Nat \ {0}

Node == 0 .. Width * Height - 1

X(r) == r % Width
Y(r) == r \div Width
RankOf(x, y) == y * Width + x

\* The wires the flits take: a router's west input is its western neighbour's
\* east output, its south input its southern neighbour's north output.
West(r) == RankOf(IF X(r) = 0 THEN Width - 1 ELSE X(r) - 1, Y(r))
South(r) == RankOf(X(r), IF Y(r) = Height - 1 THEN 0 ELSE Y(r) + 1)

\* The wires of the request signals, against the direction of the flits.
East(r) == RankOf(IF X(r) = Width - 1 THEN 0 ELSE X(r) + 1, Y(r))
North(r) == RankOf(X(r), IF Y(r) = 0 THEN Height - 1 ELSE Y(r) - 1)

-----------------------------------------------------------------------------
\* X_FROM_RANK and Y_FROM_RANK give coordinates inside the grid.
LEMMA Coordinates ==
  ASSUME NEW r \in Node
  PROVE  X(r) \in 0 .. Width - 1 /\ Y(r) \in 0 .. Height - 1
  <1> USE TorusAssumption
  <1>1. X(r) \in 0 .. Width - 1
    BY DEF X, Node
  <1>2. r = Width * (r \div Width) + (r % Width) /\ r \div Width \in Nat
    BY DEF Node
  <1>3. SUFFICES ASSUME r \div Width >= Height PROVE FALSE
    BY <1>1, <1>2 DEF Y
  <1>4. Width * (r \div Width) >= Width * Height
    BY <1>2, <1>3
  <1> QED
    BY <1>2, <1>4 DEF Node

\* Column and row of the loops of noc_init_all give the rank of a node.
LEMMA RankInGrid ==
  ASSUME NEW x \in 0 .. Width - 1, NEW y \in 0 .. Height - 1
  PROVE  RankOf(x, y) \in Node
  <1> USE TorusAssumption
  <1>1. y * Width <= (Height - 1) * Width
    OBVIOUS
  <1>2. (Height - 1) * Width = Height * Width - Width /\ Height * Width = Width * Height
    OBVIOUS
  <1>3. y * Width \in Nat
    OBVIOUS
  <1> QED
    BY <1>1, <1>2, <1>3 DEF RankOf, Node

\* noc_init_all connects every router to routers of the torus.
LEMMA Neighbours ==
  ASSUME NEW r \in Node
  PROVE  West(r) \in Node /\ East(r) \in Node /\ South(r) \in Node /\ North(r) \in Node
  <1>1. X(r) \in 0 .. Width - 1 /\ Y(r) \in 0 .. Height - 1
    BY Coordinates
  <1>2. /\ (IF X(r) = 0 THEN Width - 1 ELSE X(r) - 1) \in 0 .. Width - 1
        /\ (IF X(r) = Width - 1 THEN 0 ELSE X(r) + 1) \in 0 .. Width - 1
        /\ (IF Y(r) = 0 THEN Height - 1 ELSE Y(r) - 1) \in 0 .. Height - 1
        /\ (IF Y(r) = Height - 1 THEN 0 ELSE Y(r) + 1) \in 0 .. Height - 1
    BY <1>1, TorusAssumption
  <1> QED
    BY <1>1, <1>2, RankInGrid DEF West, East, South, North

\* The loops of noc_init_all meet every node once: ranks and coordinates determine
\* one another.
LEMMA CoordinatesOfRank ==
  ASSUME NEW x \in 0 .. Width - 1, NEW y \in 0 .. Height - 1
  PROVE  X(RankOf(x, y)) = x /\ Y(RankOf(x, y)) = y
  <1> USE TorusAssumption
  <1> DEFINE r == y * Width + x
             q == r \div Width
             m == r % Width
  <1>1. r \in Nat
    <2>1. y * Width \in Nat
      OBVIOUS
    <2> QED
      BY <2>1
  <1>2. r = Width * q + m /\ q \in Nat /\ m \in 0 .. Width - 1
    <2> HIDE DEF r
    <2> QED
      BY <1>1
  <1>3. y * Width = Width * y
    OBVIOUS
  <1> HIDE DEF q, m
  <1>4. Width * y + x = Width * q + m
    BY <1>2, <1>3
  <1>5. ~(q < y)
    <2>1. SUFFICES ASSUME q < y
                   PROVE  FALSE
      OBVIOUS
    <2>2. Width * (q + 1) <= Width * y
      BY <1>2, <2>1
    <2>3. Width * (q + 1) = Width * q + Width
      BY <1>2
    <2> QED
      BY <1>2, <1>4, <2>2, <2>3
  <1>6. ~(y < q)
    <2>1. SUFFICES ASSUME y < q
                   PROVE  FALSE
      OBVIOUS
    <2>2. Width * (y + 1) <= Width * q
      BY <1>2, <2>1
    <2>3. Width * (y + 1) = Width * y + Width
      OBVIOUS
    <2> QED
      BY <1>2, <1>4, <2>2, <2>3
  <1>7. q = y
    BY <1>2, <1>5, <1>6
  <1>8. m = x
    BY <1>2, <1>4, <1>7
  <1> QED
    BY <1>7, <1>8 DEF RankOf, X, Y, q, m

LEMMA RankOfCoordinates ==
  ASSUME NEW r \in Node
  PROVE  RankOf(X(r), Y(r)) = r
  <1> USE TorusAssumption
  <1>1. r = Width * (r \div Width) + (r % Width) /\ r \div Width \in Nat
    BY DEF Node
  <1>2. Width * (r \div Width) = (r \div Width) * Width
    BY <1>1
  <1> QED
    BY <1>1, <1>2 DEF RankOf, X, Y

\* A flit that goes one way on a wire comes from the node that the other
\* direction leads to, and stays in its column, or in its row.
LEMMA Opposite ==
  ASSUME NEW r \in Node
  PROVE  /\ South(North(r)) = r /\ North(South(r)) = r /\ West(East(r)) = r /\ East(West(r)) = r
         /\ X(North(r)) = X(r) /\ X(South(r)) = X(r) /\ Y(West(r)) = Y(r) /\ Y(East(r)) = Y(r)
  <1> DEFINE e == IF X(r) = Width - 1 THEN 0 ELSE X(r) + 1
             w == IF X(r) = 0 THEN Width - 1 ELSE X(r) - 1
             n == IF Y(r) = 0 THEN Height - 1 ELSE Y(r) - 1
             s == IF Y(r) = Height - 1 THEN 0 ELSE Y(r) + 1
  <1>1. X(r) \in 0 .. Width - 1 /\ Y(r) \in 0 .. Height - 1 /\ RankOf(X(r), Y(r)) = r
    BY Coordinates, RankOfCoordinates
  <1>2. /\ e \in 0 .. Width - 1 /\ w \in 0 .. Width - 1
        /\ n \in 0 .. Height - 1 /\ s \in 0 .. Height - 1
        /\ (IF e = 0 THEN Width - 1 ELSE e - 1) = X(r)
        /\ (IF w = Width - 1 THEN 0 ELSE w + 1) = X(r)
        /\ (IF n = Height - 1 THEN 0 ELSE n + 1) = Y(r)
        /\ (IF s = 0 THEN Height - 1 ELSE s - 1) = Y(r)
    BY <1>1, TorusAssumption
  <1>3. /\ East(r) = RankOf(e, Y(r)) /\ West(r) = RankOf(w, Y(r))
        /\ North(r) = RankOf(X(r), n) /\ South(r) = RankOf(X(r), s)
    BY DEF East, West, North, South
  <1> HIDE DEF e, w, n, s
  <1>4. /\ X(East(r)) = e /\ Y(East(r)) = Y(r) /\ X(West(r)) = w /\ Y(West(r)) = Y(r)
        /\ X(North(r)) = X(r) /\ Y(North(r)) = n /\ X(South(r)) = X(r) /\ Y(South(r)) = s
    BY <1>1, <1>2, <1>3, CoordinatesOfRank
  <1> QED
    BY <1>1, <1>2, <1>4 DEF East, West, North, South
=============================================================================
