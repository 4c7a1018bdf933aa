--------------------------- MODULE TerminalProofs ---------------------------
(***************************************************************************)
(* The inductive invariant of Terminal, and what follows from it.          *)
(*                                                                         *)
(* A sequence of the terminal has an effect (a grid, the cursor's row, the *)
(* scrollback) that Land makes the new state.  Effects are the effects     *)
(* that keep the invariant; every operation on effects stays among them.   *)
(***************************************************************************)
EXTENDS Terminal, BasicsProofs

-----------------------------------------------------------------------------
(* What the operations on a grid do to its type and to the number of its   *)
(* cells.                                                                  *)

\* The cells a vector keeps, and those that come in, are cells.
LEMMA BlankIsCell == Blank \in Cell /\ Continuation \in Cell
BY DEF Blank, Continuation, Cell

\* cell() always returns a cell.
LEMMA CellAtType ==
    ASSUME NEW g \in GridType, NEW c \in Nat, NEW r \in Nat
    PROVE  CellAt(g, c, r) \in Cell
<1>1. CASE InGrid(g, c, r)
  <2>1. Position(g, c, r) \in Nat
    BY DEF Position, GridType
  <2>2. Position(g, c, r) + 1 \in 1 .. Len(g.cells) /\ g.cells \in Seq(Cell)
    BY <1>1, <2>1 DEF InGrid, GridType
  <2>. QED  BY <1>1, <2>2 DEF CellAt
<1>2. CASE ~InGrid(g, c, r)
  BY <1>2, BlankIsCell DEF CellAt
<1>. QED  BY <1>1, <1>2

\* A grid that may differ from g in its cells only, and not in their number.
SameShape(g) ==
    {h \in GridType : h.columns = g.columns /\ h.rows = g.rows /\ Len(h.cells) = Len(g.cells)}

\* Replacing cells in place, wherever and by whatever rule, keeps the shape.
LEMMA InPlace ==
    ASSUME NEW g \in GridType, NEW s, s \in [DOMAIN g.cells -> Cell]
    PROVE  [g EXCEPT !.cells = s] \in SameShape(g)
<1>1. g.cells \in Seq(Cell) /\ DOMAIN g.cells = 1 .. Len(g.cells) /\ Len(g.cells) \in Nat
  BY DEF GridType
<1>2. s \in Seq(Cell) /\ Len(s) = Len(g.cells)
  BY <1>1
<1>3. [g EXCEPT !.cells = s] = [cells |-> s, columns |-> g.columns, rows |-> g.rows]
  BY DEF GridType
<1>. QED  BY <1>2, <1>3 DEF SameShape, GridType

LEMMA ClearedShape ==
    ASSUME NEW g \in GridType, NEW a \in Int, NEW b \in Int
    PROVE  Cleared(g, a, b) \in SameShape(g)
<1>. DEFINE s == [p \in DOMAIN g.cells |-> IF a < p /\ p <= b THEN Blank ELSE g.cells[p]]
<1>1. \A p \in DOMAIN g.cells : s[p] \in Cell
  BY BlankIsCell DEF GridType
<1>2. s \in [DOMAIN g.cells -> Cell]
  BY <1>1
<1>3. Cleared(g, a, b) = [g EXCEPT !.cells = s]
  BY DEF Cleared
<1>. HIDE DEF s
<1>. QED  BY <1>1, <1>2, <1>3, InPlace

LEMMA WithCellShape ==
    ASSUME NEW g \in GridType, NEW p \in Nat, NEW cell \in Cell
    PROVE  WithCell(g, p, cell) \in SameShape(g)
<1>. DEFINE s == [g.cells EXCEPT ![p + 1] = cell]
<1>1. \A q \in DOMAIN g.cells : s[q] \in Cell
  BY DEF GridType
<1>2. s \in [DOMAIN g.cells -> Cell]
  BY <1>1
<1>3. [g EXCEPT !.cells[p + 1] = cell] = [g EXCEPT !.cells = s]
  BY DEF GridType
<1>4. [g EXCEPT !.cells = s] \in SameShape(g)
  <2>. HIDE DEF s
  <2>. QED  BY <1>1, <1>2, InPlace
<1>5. g \in SameShape(g)
  BY DEF SameShape
<1>. QED  BY <1>3, <1>4, <1>5 DEF WithCell

\* Where the cells come from that insert_cells and delete_cells shift.
LEMMA RoomType ==
    ASSUME NEW g \in GridType, NEW c \in Nat, NEW n \in Nat
    PROVE  Room(g, c, n) \in Nat
BY DEF Room, Within, Lesser, GridType

LEMMA InsertedShape ==
    ASSUME NEW g \in GridType, NEW c \in Nat, NEW r \in Nat, NEW n \in Nat
    PROVE  WithInserted(g, c, r, n) \in SameShape(g)
<1>. DEFINE k     == Room(g, c, n)
            from  == Position(g, c, r)
            shift == {p \in DOMAIN g.cells :
                         from + k < p /\ p <= Position(g, g.columns, r) /\ r < g.rows}
            s     == [p \in DOMAIN g.cells |->
                         IF from < p /\ p <= from + k THEN Blank
                         ELSE IF p \in shift THEN g.cells[p - k] ELSE g.cells[p]]
<1>1. WithInserted(g, c, r, n) = [g EXCEPT !.cells = s]
  BY DEF WithInserted
<1>2. k \in Nat /\ from \in Nat
  <2>1. k \in Nat
    BY RoomType
  <2>. HIDE DEF k
  <2>. QED  BY <2>1 DEF Position, GridType
<1>3. ASSUME NEW p \in DOMAIN g.cells PROVE s[p] \in Cell
  <2>1. p \in 1 .. Len(g.cells) /\ g.cells[p] \in Cell
    BY DEF GridType
  <2>2. p \in shift => p - k \in 1 .. Len(g.cells)
    <3>. HIDE DEF k, from
    <3>. QED  BY <1>2, <2>1
  <2>3. p \in shift => g.cells[p - k] \in Cell
    BY <2>2 DEF GridType
  <2>. HIDE DEF shift, k, from
  <2>. QED  BY <2>1, <2>3, BlankIsCell
<1>4. s \in [DOMAIN g.cells -> Cell]
  BY <1>3
<1>. HIDE DEF s
<1>. QED  BY <1>1, <1>3, <1>4, InPlace

LEMMA DeletedShape ==
    ASSUME NEW g \in GridType, NEW c \in Nat, NEW r \in Nat, NEW n \in Nat
    PROVE  WithDeleted(g, c, r, n) \in SameShape(g)
<1>. DEFINE k     == Room(g, c, n)
            from  == Position(g, c, r)
            end   == Position(g, g.columns, r)
            shift == {p \in DOMAIN g.cells : from < p /\ p <= end - k /\ r < g.rows}
            s     == [p \in DOMAIN g.cells |->
                         IF k <= g.columns /\ end - k < p /\ p <= end THEN Blank
                         ELSE IF p \in shift /\ p + k <= Len(g.cells) THEN g.cells[p + k]
                         ELSE g.cells[p]]
<1>1. WithDeleted(g, c, r, n) = [g EXCEPT !.cells = s]
  BY DEF WithDeleted
<1>2. k \in Nat
  BY RoomType
<1>3. ASSUME NEW p \in DOMAIN g.cells PROVE s[p] \in Cell
  <2>1. p \in 1 .. Len(g.cells) /\ g.cells[p] \in Cell
    BY DEF GridType
  <2>2. p + k <= Len(g.cells) => g.cells[p + k] \in Cell
    <3>. HIDE DEF k
    <3>. QED  BY <1>2, <2>1 DEF GridType
  <2>. HIDE DEF shift, k, from, end
  <2>. QED  BY <2>1, <2>2, BlankIsCell
<1>4. s \in [DOMAIN g.cells -> Cell]
  BY <1>3
<1>. HIDE DEF s
<1>. QED  BY <1>1, <1>3, <1>4, InPlace

LEMMA Joined ==
    ASSUME NEW s \in Seq(Cell), NEW t \in Seq(Cell)
    PROVE  s \o t \in Seq(Cell) /\ Len(s \o t) = Len(s) + Len(t)
BY ConcatProperties

LEMMA JoinedCell ==
    ASSUME NEW s \in Seq(Cell), NEW t \in Seq(Cell), NEW k \in 1 .. Len(s) + Len(t)
    PROVE  (s \o t)[k] = IF k <= Len(s) THEN s[k] ELSE t[k - Len(s)]
BY ConcatProperties

LEMMA Ends ==
    ASSUME NEW s \in Seq(Cell), NEW a \in Nat, a <= Len(s)
    PROVE  /\ SubSeq(s, 1, a) \in Seq(Cell) /\ Len(SubSeq(s, 1, a)) = a
           /\ \A k \in 1 .. a : SubSeq(s, 1, a)[k] = s[k]
           /\ SubSeq(s, a + 1, Len(s)) \in Seq(Cell) /\ Len(SubSeq(s, a + 1, Len(s))) = Len(s) - a
           /\ \A k \in 1 .. Len(s) - a : SubSeq(s, a + 1, Len(s))[k] = s[k + a]
<1>1. Len(s) \in Nat
  OBVIOUS
<1>2. /\ SubSeq(s, 1, a) \in Seq(Cell) /\ Len(SubSeq(s, 1, a)) = IF 1 <= a THEN a - 1 + 1 ELSE 0
      /\ \A k \in 1 .. a - 1 + 1 : SubSeq(s, 1, a)[k] = s[1 + k - 1]
  BY <1>1, SubSeqProperties
<1>3. /\ SubSeq(s, a + 1, Len(s)) \in Seq(Cell)
      /\ Len(SubSeq(s, a + 1, Len(s))) = IF a + 1 <= Len(s) THEN Len(s) - (a + 1) + 1 ELSE 0
      /\ \A k \in 1 .. Len(s) - (a + 1) + 1 : SubSeq(s, a + 1, Len(s))[k] = s[a + 1 + k - 1]
  BY <1>1, SubSeqProperties
<1>. QED  BY <1>1, <1>2, <1>3

\* Vec::drain and Vec::insert, within the vector.
LEMMA DrainedFacts ==
    ASSUME NEW s \in Seq(Cell), NEW a \in Nat, NEW b \in Nat, a <= b, b <= Len(s)
    PROVE  Drained(s, a, b) \in Seq(Cell) /\ Len(Drained(s, a, b)) = Len(s) - (b - a)
<1>. DEFINE c == SubSeq(s, 1, a)
            d == SubSeq(s, b + 1, Len(s))
<1>1. Len(s) \in Nat /\ a <= Len(s)
  OBVIOUS
<1>2. c \in Seq(Cell) /\ Len(c) = a /\ d \in Seq(Cell) /\ Len(d) = Len(s) - b
  BY <1>1, Ends
<1>3. Drained(s, a, b) = c \o d
  BY DEF Drained
<1>. HIDE DEF c, d
<1>4. c \o d \in Seq(Cell) /\ Len(c \o d) = Len(c) + Len(d)
  BY <1>2, Joined
<1>. QED  BY <1>1, <1>2, <1>3, <1>4

LEMMA DrainedCell ==
    ASSUME NEW s \in Seq(Cell), NEW a \in Nat, NEW b \in Nat, a <= b, b <= Len(s),
           NEW k \in 1 .. Len(s) - (b - a)
    PROVE  Drained(s, a, b)[k] = s[IF k <= a THEN k ELSE k + (b - a)]
<1>. DEFINE c == SubSeq(s, 1, a)
            d == SubSeq(s, b + 1, Len(s))
<1>1. Len(s) \in Nat /\ a <= Len(s)
  OBVIOUS
<1>2. /\ c \in Seq(Cell) /\ Len(c) = a
      /\ \A j \in 1 .. a : c[j] = s[j]
  BY <1>1, Ends
<1>3. /\ d \in Seq(Cell) /\ Len(d) = Len(s) - b
      /\ \A j \in 1 .. Len(s) - b : d[j] = s[j + b]
  BY <1>1, Ends
<1>4. Drained(s, a, b) = c \o d
  BY DEF Drained
<1>. HIDE DEF c, d
<1>5. k \in 1 .. Len(c) + Len(d)
  BY <1>1, <1>2, <1>3
<1>6. (c \o d)[k] = IF k <= Len(c) THEN c[k] ELSE d[k - Len(c)]
  BY <1>2, <1>3, <1>5, JoinedCell
<1>7. CASE k <= a
  BY <1>2, <1>4, <1>6, <1>7
<1>8. CASE ~(k <= a)
  <2>1. k - a \in 1 .. Len(s) - b /\ (k - a) + b = k + (b - a)
    BY <1>1, <1>8
  <2>. QED  BY <1>2, <1>3, <1>4, <1>6, <1>8, <2>1
<1>. QED  BY <1>7, <1>8

LEMMA BlanksAtFacts ==
    ASSUME NEW s \in Seq(Cell), NEW at \in Nat, NEW n \in Nat, at <= Len(s)
    PROVE  BlanksAt(s, at, n) \in Seq(Cell) /\ Len(BlanksAt(s, at, n)) = Len(s) + n
<1>. DEFINE b == [p \in 1 .. n |-> Blank]
            c == SubSeq(s, 1, at)
            d == SubSeq(s, at + 1, Len(s))
<1>1. b \in Seq(Cell) /\ Len(b) = n
  BY BlankIsCell
<1>2. c \in Seq(Cell) /\ Len(c) = at /\ d \in Seq(Cell) /\ Len(d) = Len(s) - at
  BY Ends
<1>3. BlanksAt(s, at, n) = (c \o b) \o d
  BY DEF BlanksAt
<1>. HIDE DEF b, c, d
<1>4. c \o b \in Seq(Cell) /\ Len(c \o b) = Len(c) + Len(b)
  BY <1>1, <1>2, Joined
<1>5. (c \o b) \o d \in Seq(Cell) /\ Len((c \o b) \o d) = Len(c \o b) + Len(d)
  BY <1>2, <1>4, Joined
<1>6. Len(s) \in Nat
  OBVIOUS
<1>. QED  BY <1>1, <1>2, <1>3, <1>4, <1>5, <1>6

LEMMA BlanksAtCell ==
    ASSUME NEW s \in Seq(Cell), NEW at \in Nat, NEW n \in Nat, at <= Len(s),
           NEW k \in 1 .. Len(s) + n
    PROVE  BlanksAt(s, at, n)[k] =
               IF k <= at THEN s[k] ELSE IF k <= at + n THEN Blank ELSE s[k - n]
<1>. DEFINE b == [p \in 1 .. n |-> Blank]
            c == SubSeq(s, 1, at)
            d == SubSeq(s, at + 1, Len(s))
            e == c \o b
<1>1. b \in Seq(Cell) /\ Len(b) = n /\ \A j \in 1 .. n : b[j] = Blank
  BY BlankIsCell
<1>2. /\ c \in Seq(Cell) /\ Len(c) = at
      /\ \A j \in 1 .. at : c[j] = s[j]
  BY Ends
<1>3. /\ d \in Seq(Cell) /\ Len(d) = Len(s) - at
      /\ \A j \in 1 .. Len(s) - at : d[j] = s[j + at]
  BY Ends
<1>4. BlanksAt(s, at, n) = e \o d
  BY DEF BlanksAt
<1>. HIDE DEF b, c, d
<1>5. e \in Seq(Cell) /\ Len(e) = at + n
  <2>1. e \in Seq(Cell) /\ Len(e) = Len(c) + Len(b)
    BY <1>1, <1>2, Joined
  <2>. QED  BY <1>1, <1>2, <2>1
<1>6. ASSUME NEW j \in 1 .. at + n
      PROVE  e[j] = IF j <= at THEN s[j] ELSE Blank
  <2>1. e[j] = IF j <= Len(c) THEN c[j] ELSE b[j - Len(c)]
    <3>1. j \in 1 .. Len(c) + Len(b)
      BY <1>1, <1>2
    <3>. QED  BY <1>1, <1>2, <3>1, JoinedCell
  <2>2. ~(j <= at) => j - at \in 1 .. n
    OBVIOUS
  <2>. QED  BY <1>1, <1>2, <2>1, <2>2
<1>. HIDE DEF e
<1>7. Len(s) \in Nat
  OBVIOUS
<1>8. k \in 1 .. Len(e) + Len(d)
  BY <1>3, <1>5, <1>7
<1>9. (e \o d)[k] = IF k <= Len(e) THEN e[k] ELSE d[k - Len(e)]
  BY <1>3, <1>5, <1>8, JoinedCell
<1>10. CASE k <= at + n
  <2>1. k \in 1 .. at + n
    BY <1>7, <1>10
  <2>2. (e \o d)[k] = e[k] /\ e[k] = IF k <= at THEN s[k] ELSE Blank
    BY <1>5, <1>6, <1>9, <1>10, <2>1
  <2>. QED  BY <1>4, <1>10, <2>2
<1>11. CASE ~(k <= at + n)
  <2>1. k - (at + n) \in 1 .. Len(s) - at /\ (k - (at + n)) + at = k - n /\ ~(k <= at)
    BY <1>7, <1>11
  <2>2. (e \o d)[k] = d[k - (at + n)] /\ d[k - (at + n)] = s[k - n]
    BY <1>3, <1>5, <1>9, <1>11, <2>1
  <2>. QED  BY <1>4, <1>11, <2>1, <2>2
<1>. QED  BY <1>10, <1>11

\* A grid that may differ from g in its cells only, and has no fewer of them.
NoSmaller(g) ==
    {h \in GridType : h.columns = g.columns /\ h.rows = g.rows /\ Len(h.cells) >= Len(g.cells)}

\* The places the scrolls compute are natural numbers.
LEMMA PlacesType ==
    ASSUME NEW g \in GridType, NEW top \in Nat, NEW bottom \in Nat, NEW n \in Nat
    PROVE  /\ Start(g, top) \in Nat /\ End(g, bottom) \in Nat
           /\ Moved(g, top, bottom, n) \in Nat
           /\ UpTo(g, top, bottom, n) \in Nat
           /\ DownFrom(g, top, bottom, n) \in Nat /\ DownTo(g, bottom) \in Nat
           /\ Len(g.cells) \in Nat /\ g.cells \in Seq(Cell)
<1>1. g.columns \in Nat /\ Len(g.cells) \in Nat /\ g.cells \in Seq(Cell)
  BY DEF GridType
<1>2. Lesser(n, Height(top, bottom)) \in Nat
  BY DEF Lesser, Height, SatSub
<1>3. /\ Start(g, top) \in Nat /\ End(g, bottom) \in Nat
      /\ Moved(g, top, bottom, n) \in Nat
  BY <1>1, <1>2 DEF Start, End, Moved
<1>. QED  BY <1>1, <1>3 DEF UpTo, DownFrom, DownTo, Lesser, SatSub

\* A scroll that stays within the vector loses no cell: it drains at most as many
\* as come in.
LEMMA ScrolledUpShape ==
    ASSUME NEW g \in GridType, NEW top \in Nat, NEW bottom \in Nat, NEW n \in Nat,
           UpFits(g, top, bottom, n)
    PROVE  ScrolledUp(g, top, bottom, n) \in NoSmaller(g)
<1>. DEFINE a    == Start(g, top)
            b    == UpTo(g, top, bottom, n)
            m    == Moved(g, top, bottom, n)
            left == Drained(g.cells, a, b)
            at   == Lesser(SatSub(End(g, bottom), m), Len(left))
            s    == BlanksAt(left, at, m)
<1>1. /\ a \in Nat /\ b \in Nat /\ m \in Nat /\ End(g, bottom) \in Nat
      /\ g.cells \in Seq(Cell) /\ Len(g.cells) \in Nat
  BY PlacesType
<1>2. a <= b /\ b <= Len(g.cells) /\ b <= a + m
  <2>1. a <= b /\ b <= Len(g.cells)
    BY DEF UpFits
  <2>2. b = Lesser(a + m, End(g, bottom))
    BY DEF UpTo
  <2>. HIDE DEF a, b, m
  <2>. QED  BY <1>1, <2>1, <2>2 DEF Lesser
<1>3. left \in Seq(Cell) /\ Len(left) = Len(g.cells) - (b - a)
  <2>. HIDE DEF a, b
  <2>. QED  BY <1>1, <1>2, DrainedFacts
<1>4. at \in Nat /\ at <= Len(left)
  <2>. HIDE DEF left, m
  <2>1. Len(left) \in Nat
    BY <1>3
  <2>. QED  BY <1>1, <2>1 DEF Lesser, SatSub
<1>5. s \in Seq(Cell) /\ Len(s) = Len(left) + m
  <2>. HIDE DEF left, at, m
  <2>. QED  BY <1>1, <1>3, <1>4, BlanksAtFacts
<1>6. ScrolledUp(g, top, bottom, n) = [g EXCEPT !.cells = s]
  BY DEF ScrolledUp
<1>7. [g EXCEPT !.cells = s] = [cells |-> s, columns |-> g.columns, rows |-> g.rows]
  BY DEF GridType
<1>8. Len(s) >= Len(g.cells)
  <2>. HIDE DEF a, b, m, left, s
  <2>. QED  BY <1>1, <1>2, <1>3, <1>5
<1>. HIDE DEF s
<1>. QED  BY <1>5, <1>6, <1>7, <1>8 DEF NoSmaller, GridType

LEMMA ScrolledDownShape ==
    ASSUME NEW g \in GridType, NEW top \in Nat, NEW bottom \in Nat, NEW n \in Nat,
           DownFits(g, top, bottom, n)
    PROVE  ScrolledDown(g, top, bottom, n) \in NoSmaller(g)
<1>. DEFINE a    == DownFrom(g, top, bottom, n)
            b    == DownTo(g, bottom)
            m    == Moved(g, top, bottom, n)
            at   == Start(g, top)
            left == Drained(g.cells, a, b)
            s    == BlanksAt(left, at, m)
<1>1. /\ a \in Nat /\ b \in Nat /\ m \in Nat /\ at \in Nat /\ End(g, bottom) \in Nat
      /\ g.cells \in Seq(Cell) /\ Len(g.cells) \in Nat
  BY PlacesType
<1>2. a <= b /\ b <= Len(g.cells) /\ b - a <= m /\ at <= Len(g.cells) - (b - a)
  <2>1. a <= b /\ at <= Len(g.cells) - (b - a)
    BY DEF DownFits
  <2>2. a = SatSub(End(g, bottom), m) /\ b = Lesser(End(g, bottom), Len(g.cells))
    BY DEF DownFrom, DownTo
  <2>. HIDE DEF a, b, m, at
  <2>. QED  BY <1>1, <2>1, <2>2, SMTT(20) DEF Lesser, SatSub
<1>3. left \in Seq(Cell) /\ Len(left) = Len(g.cells) - (b - a)
  <2>. HIDE DEF a, b
  <2>. QED  BY <1>1, <1>2, DrainedFacts
<1>4. s \in Seq(Cell) /\ Len(s) = Len(left) + m
  <2>1. at <= Len(left)
    BY <1>2, <1>3
  <2>. HIDE DEF left, at, m
  <2>. QED  BY <1>1, <1>3, <2>1, BlanksAtFacts
<1>5. ScrolledDown(g, top, bottom, n) = [g EXCEPT !.cells = s]
  BY DEF ScrolledDown
<1>6. [g EXCEPT !.cells = s] = [cells |-> s, columns |-> g.columns, rows |-> g.rows]
  BY DEF GridType
<1>7. Len(s) >= Len(g.cells)
  <2>. HIDE DEF a, b, m, left, s
  <2>. QED  BY <1>1, <1>2, <1>3, <1>4
<1>. HIDE DEF s
<1>. QED  BY <1>4, <1>5, <1>6, <1>7 DEF NoSmaller, GridType

\* A new grid has just the cells its dimensions ask for.
LEMMA NewGridShape ==
    ASSUME NEW d \in Dimensions
    PROVE  /\ NewGrid(d) \in GridType
           /\ NewGrid(d).columns = d.columns /\ NewGrid(d).rows = d.rows
           /\ Len(NewGrid(d).cells) = d.columns * d.rows
<1>. DEFINE n == d.columns * d.rows
            s == [p \in 1 .. n |-> Blank]
<1>1. d.columns \in Nat \ {0} /\ d.rows \in Nat \ {0}
  BY DEF Dimensions
<1>2. n \in Nat
  BY <1>1
<1>3. s \in Seq(Cell) /\ Len(s) = n
  <2>. HIDE DEF n
  <2>. QED  BY <1>2, BlankIsCell
<1>4. NewGrid(d) = [cells |-> s, columns |-> d.columns, rows |-> d.rows]
  BY DEF NewGrid
<1>. HIDE DEF s
<1>. QED  BY <1>1, <1>3, <1>4 DEF GridType

-----------------------------------------------------------------------------
(* A grid as it is made, and a region inside it. *)

LEMMA Monotonic ==
    ASSUME NEW a \in Nat, NEW b \in Nat, NEW c \in Nat, a <= b
    PROVE  a * c \in Nat /\ b * c \in Nat /\ a * c <= b * c
<1>1. PICK d \in Nat : b = a + d
  <2>1. b - a \in Nat /\ b = a + (b - a)
    OBVIOUS
  <2>. QED  BY <2>1
<1>2. (a + d) * c = a * c + d * c
  OBVIOUS
<1>3. a * c \in Nat /\ d * c \in Nat
  OBVIOUS
<1>. QED  BY <1>1, <1>2, <1>3

\* The rows that move stay between the ends of the region.
LEMMA RegionPlaces ==
    ASSUME NEW g \in GridType, NEW top \in Nat, NEW bottom \in Nat, NEW n \in Nat,
           top <= bottom, bottom < g.rows, Len(g.cells) = g.columns * g.rows
    PROVE  /\ Start(g, top) + Moved(g, top, bottom, n) <= End(g, bottom)
           /\ End(g, bottom) <= Len(g.cells)
<1>. DEFINE k == Lesser(n, Height(top, bottom))
<1>1. g.columns \in Nat /\ g.rows \in Nat
  BY DEF GridType
<1>2. k \in Nat /\ top + k <= bottom + 1 /\ top + k \in Nat /\ bottom + 1 \in Nat
  BY DEF Lesser, Height, SatSub
<1>. HIDE DEF k
<1>3. (top + k) * g.columns <= (bottom + 1) * g.columns
  BY <1>1, <1>2, Monotonic
<1>4. (top + k) * g.columns = top * g.columns + k * g.columns
  BY <1>1, <1>2
<1>5. bottom + 1 <= g.rows
  BY <1>1
<1>6. (bottom + 1) * g.columns <= g.rows * g.columns
  BY <1>1, <1>2, <1>5, Monotonic
<1>7. g.rows * g.columns = g.columns * g.rows
  BY <1>1
<1>. QED  BY <1>3, <1>4, <1>6, <1>7 DEF Start, Moved, End, k

\* The cells of h are those of g, but that of those behind a, up to e, the first or
\* the last m are lost, the others have moved, and blank ones stand in their place.
MovedUp(g, h, a, e, m) ==
    \A p \in 1 .. Len(g.cells) :
        h.cells[p] = IF p <= a \/ e < p THEN g.cells[p]
                     ELSE IF p <= e - m THEN g.cells[p + m] ELSE Blank

MovedDown(g, h, a, e, m) ==
    \A p \in 1 .. Len(g.cells) :
        h.cells[p] = IF p <= a \/ e < p THEN g.cells[p]
                     ELSE IF p <= a + m THEN Blank ELSE g.cells[p - m]

\* There a scroll stays within the vector, and leaves as many cells as it found:
\* those of the region move by as many as come in, and the others stay.
LEMMA RegionScrolls ==
    ASSUME NEW g \in GridType, NEW top \in Nat, NEW bottom \in Nat, NEW n \in Nat,
           top <= bottom, bottom < g.rows, Len(g.cells) = g.columns * g.rows
    PROVE  LET a    == Start(g, top)
               e    == End(g, bottom)
               m    == Moved(g, top, bottom, n)
               up   == ScrolledUp(g, top, bottom, n)
               down == ScrolledDown(g, top, bottom, n)
           IN  /\ UpFits(g, top, bottom, n) /\ DownFits(g, top, bottom, n)
               /\ up \in SameShape(g) /\ MovedUp(g, up, a, e, m)
               /\ down \in SameShape(g) /\ MovedDown(g, down, a, e, m)
<1>. DEFINE a     == Start(g, top)
            e     == End(g, bottom)
            m     == Moved(g, top, bottom, n)
            below == Drained(g.cells, a, a + m)
            above == Drained(g.cells, e - m, e)
            s     == BlanksAt(below, e - m, m)
            t     == BlanksAt(above, a, m)
<1>1. /\ a \in Nat /\ m \in Nat /\ e \in Nat
      /\ g.cells \in Seq(Cell) /\ Len(g.cells) \in Nat
  BY PlacesType
<1>2. a + m <= e /\ e <= Len(g.cells)
  BY RegionPlaces
<1>3. UpTo(g, top, bottom, n) = a + m
  <2>1. UpTo(g, top, bottom, n) = Lesser(a + m, e)
    BY DEF UpTo
  <2>. HIDE DEF a, m, e
  <2>. QED  BY <1>1, <1>2, <2>1 DEF Lesser
<1>4. DownFrom(g, top, bottom, n) = e - m /\ DownTo(g, bottom) = e /\ SatSub(e, m) = e - m
  <2>1. DownFrom(g, top, bottom, n) = SatSub(e, m) /\ DownTo(g, bottom) = Lesser(e, Len(g.cells))
    BY DEF DownFrom, DownTo
  <2>. HIDE DEF a, m, e
  <2>. QED  BY <1>1, <1>2, <2>1 DEF Lesser, SatSub
<1>5. UpFits(g, top, bottom, n)
  <2>1. a <= a + m /\ a + m <= Len(g.cells)
    <3>. HIDE DEF a, m, e
    <3>. QED  BY <1>1, <1>2
  <2>. QED  BY <1>3, <2>1 DEF UpFits
<1>6. DownFits(g, top, bottom, n)
  <2>1. e - m <= e /\ a <= Len(g.cells) - (e - (e - m))
    <3>. HIDE DEF a, m, e
    <3>. QED  BY <1>1, <1>2
  <2>. QED  BY <1>4, <2>1 DEF DownFits
<1>7. ScrolledDown(g, top, bottom, n) = [g EXCEPT !.cells = t]
  BY <1>4 DEF ScrolledDown
<1>8. Lesser(SatSub(e, m), Len(below)) = e - m => ScrolledUp(g, top, bottom, n) = [g EXCEPT !.cells = s]
  BY <1>3 DEF ScrolledUp
<1>. HIDE DEF a, m, e
<1>9. /\ a + m \in Nat /\ a <= a + m /\ a + m <= Len(g.cells) /\ (a + m) - a = m
      /\ e - m \in Nat /\ e - m <= e /\ e <= Len(g.cells) /\ e - (e - m) = m /\ (e - m) + m = e
  BY <1>1, <1>2
<1>10. /\ below \in Seq(Cell) /\ Len(below) = Len(g.cells) - m
       /\ \A k \in 1 .. Len(g.cells) - m : below[k] = g.cells[IF k <= a THEN k ELSE k + m]
  <2>1. below \in Seq(Cell) /\ Len(below) = Len(g.cells) - ((a + m) - a)
    BY <1>1, <1>9, DrainedFacts
  <2>2. ASSUME NEW k \in 1 .. Len(g.cells) - ((a + m) - a)
        PROVE  below[k] = g.cells[IF k <= a THEN k ELSE k + ((a + m) - a)]
    <3>1. g.cells \in Seq(Cell) /\ a \in Nat /\ a + m \in Nat /\ a <= a + m /\ a + m <= Len(g.cells)
      BY <1>1, <1>9
    <3>2. Drained(g.cells, a, a + m)[k] = g.cells[IF k <= a THEN k ELSE k + ((a + m) - a)]
      <4>. HIDE DEF below
      <4>. QED  BY <3>1, DrainedCell, ZenonT(40)
    <3>. QED  BY <3>2, Zenon
  <2>. HIDE DEF below
  <2>. QED  BY <1>9, <2>1, <2>2
<1>11. /\ above \in Seq(Cell) /\ Len(above) = Len(g.cells) - m
       /\ \A k \in 1 .. Len(g.cells) - m : above[k] = g.cells[IF k <= e - m THEN k ELSE k + m]
  <2>1. above \in Seq(Cell) /\ Len(above) = Len(g.cells) - (e - (e - m))
    BY <1>1, <1>9, DrainedFacts
  <2>2. ASSUME NEW k \in 1 .. Len(g.cells) - (e - (e - m))
        PROVE  above[k] = g.cells[IF k <= e - m THEN k ELSE k + (e - (e - m))]
    <3>1. g.cells \in Seq(Cell) /\ e \in Nat /\ e - m \in Nat /\ e - m <= e /\ e <= Len(g.cells)
      BY <1>1, <1>9
    <3>2. Drained(g.cells, e - m, e)[k] = g.cells[IF k <= e - m THEN k ELSE k + (e - (e - m))]
      <4>. HIDE DEF above
      <4>. QED  BY <3>1, DrainedCell, ZenonT(40)
    <3>. QED  BY <3>2, Zenon
  <2>. HIDE DEF above
  <2>. QED  BY <1>9, <2>1, <2>2
<1>. HIDE DEF below, above
<1>12. /\ e - m <= Len(below) /\ Len(below) + m = Len(g.cells)
       /\ a <= Len(above) /\ Len(above) + m = Len(g.cells)
       /\ Lesser(SatSub(e, m), Len(below)) = e - m
  <2>1. Len(below) = Len(g.cells) - m /\ Len(above) = Len(g.cells) - m /\ SatSub(e, m) = e - m
    BY <1>4, <1>10, <1>11 DEF a, e, m
  <2>. QED  BY <1>1, <1>2, <2>1 DEF Lesser
<1>13. /\ s \in Seq(Cell) /\ Len(s) = Len(g.cells)
       /\ \A p \in 1 .. Len(g.cells) :
             s[p] = IF p <= e - m THEN below[p] ELSE IF p <= e THEN Blank ELSE below[p - m]
  <2>1. s \in Seq(Cell) /\ Len(s) = Len(below) + m
    BY <1>1, <1>9, <1>10, <1>12, BlanksAtFacts
  <2>2. ASSUME NEW k \in 1 .. Len(below) + m
        PROVE  s[k] = IF k <= e - m THEN below[k] ELSE IF k <= (e - m) + m THEN Blank ELSE below[k - m]
    <3>1. below \in Seq(Cell) /\ e - m \in Nat /\ m \in Nat /\ e - m <= Len(below)
      BY <1>1, <1>9, <1>10, <1>12
    <3>. QED  BY <3>1, BlanksAtCell
  <2>. HIDE DEF s
  <2>. QED  BY <1>9, <1>12, <2>1, <2>2
<1>14. /\ t \in Seq(Cell) /\ Len(t) = Len(g.cells)
       /\ \A p \in 1 .. Len(g.cells) :
             t[p] = IF p <= a THEN above[p] ELSE IF p <= a + m THEN Blank ELSE above[p - m]
  <2>1. t \in Seq(Cell) /\ Len(t) = Len(above) + m
    BY <1>1, <1>11, <1>12, BlanksAtFacts
  <2>2. ASSUME NEW k \in 1 .. Len(above) + m
        PROVE  t[k] = IF k <= a THEN above[k] ELSE IF k <= a + m THEN Blank ELSE above[k - m]
    <3>1. above \in Seq(Cell) /\ a \in Nat /\ m \in Nat /\ a <= Len(above)
      BY <1>1, <1>11, <1>12
    <3>. QED  BY <3>1, BlanksAtCell
  <2>. HIDE DEF t
  <2>. QED  BY <1>12, <2>1, <2>2
<1>. HIDE DEF s, t
<1>15. ASSUME NEW p \in 1 .. Len(g.cells)
       PROVE  s[p] = IF p <= a \/ e < p THEN g.cells[p]
                     ELSE IF p <= e - m THEN g.cells[p + m] ELSE Blank
  <2>1. CASE p <= e - m
    <3>1. p \in 1 .. Len(g.cells) - m /\ ~(e < p)
      BY <1>1, <1>2, <2>1
    <3>. QED  BY <1>10, <1>13, <2>1, <3>1
  <2>2. CASE ~(p <= e - m) /\ p <= e
    <3>1. ~(p <= a) /\ ~(e < p)
      BY <1>1, <1>2, <2>2
    <3>. QED  BY <1>13, <2>2, <3>1
  <2>3. CASE e < p
    <3>1. p - m \in 1 .. Len(g.cells) - m /\ (p - m <= a => m = 0) /\ (p - m) + m = p /\ ~(p <= e - m) /\ ~(p <= e)
      BY <1>1, <1>2, <2>3
    <3>2. below[p - m] = g.cells[p]
      BY <1>1, <1>10, <3>1
    <3>. QED  BY <1>13, <2>3, <3>1, <3>2
  <2>. QED  BY <1>1, <2>1, <2>2, <2>3
<1>16. ASSUME NEW p \in 1 .. Len(g.cells)
       PROVE  t[p] = IF p <= a \/ e < p THEN g.cells[p]
                     ELSE IF p <= a + m THEN Blank ELSE g.cells[p - m]
  <2>1. CASE p <= a
    <3>1. p \in 1 .. Len(g.cells) - m /\ p <= e - m
      BY <1>1, <1>2, <2>1
    <3>. QED  BY <1>11, <1>14, <2>1, <3>1
  <2>2. CASE ~(p <= a) /\ p <= a + m
    <3>1. ~(e < p)
      BY <1>1, <1>2, <2>2
    <3>. QED  BY <1>14, <2>2, <3>1
  <2>3. CASE ~(p <= a + m)
    <3>1. p - m \in 1 .. Len(g.cells) - m /\ (p - m) + m = p /\ ~(p <= a) /\ (p - m <= e - m <=> ~(e < p))
      BY <1>1, <1>2, <2>3
    <3>. QED  BY <1>11, <1>14, <2>3, <3>1
  <2>. QED  BY <2>1, <2>2, <2>3
<1>17. \A u \in Seq(Cell) : Len(u) = Len(g.cells) =>
          [g EXCEPT !.cells = u] \in SameShape(g) /\ [g EXCEPT !.cells = u].cells = u
  BY DEF SameShape, GridType
<1>18. [g EXCEPT !.cells = s] \in SameShape(g) /\ MovedUp(g, [g EXCEPT !.cells = s], a, e, m)
  BY <1>13, <1>15, <1>17 DEF MovedUp
<1>19. [g EXCEPT !.cells = t] \in SameShape(g) /\ MovedDown(g, [g EXCEPT !.cells = t], a, e, m)
  BY <1>14, <1>16, <1>17 DEF MovedDown
<1>. QED  BY <1>5, <1>6, <1>7, <1>8, <1>12, <1>18, <1>19 DEF a, m, e

-----------------------------------------------------------------------------
(* The invariant.                                                          *)

Grids     == {g \in GridType : g.columns * g.rows <= Len(g.cells)}
Lines     == [1 .. dims.columns -> Cell]
Histories == {h \in Seq(Lines) : Len(h) <= limit}

Effects == [grid : Grids, row : 0 .. dims.rows - 1, back : Histories, fine : BOOLEAN]

PlaceInv ==
    /\ dims \in Dimensions
    /\ cursor \in [column : 0 .. dims.columns - 1, row : 0 .. dims.rows - 1]
    /\ saved \in Cursor
    /\ margins \in [top : Nat, bottom : Nat]
    /\ MarginsInside
    /\ modes \in Modes

GridInv == primary \in Grids /\ (alternate = {} \/ \E g \in Grids : alternate = {g})

HistoryInv == limit \in Nat /\ scrollback \in Histories

IInv ==
    /\ PlaceInv
    /\ GridInv
    /\ HistoryInv
    /\ compact \in BOOLEAN
    /\ panicked \in BOOLEAN

-----------------------------------------------------------------------------
(* Grids. *)

LEMMA SizeFacts ==
    ASSUME dims \in Dimensions
    PROVE  /\ dims.columns \in Nat /\ dims.rows \in Nat
           /\ dims.columns > 0 /\ dims.rows > 0
BY DEF Dimensions

LEMMA ScreenType ==
    ASSUME GridInv
    PROVE  Screen \in Grids /\ alternate \in {{}, {Screen}}
BY DEF GridInv, Screen

LEMMA SameShapeStays ==
    ASSUME NEW g \in Grids, NEW h \in SameShape(g)
    PROVE  h \in Grids
BY DEF Grids, SameShape

LEMMA NoSmallerStays ==
    ASSUME NEW g \in Grids, NEW h \in NoSmaller(g)
    PROVE  h \in Grids
<1>1. /\ g \in GridType /\ h \in GridType
      /\ h.columns = g.columns /\ h.rows = g.rows
      /\ g.columns * g.rows <= Len(g.cells) /\ Len(g.cells) <= Len(h.cells)
  BY DEF Grids, NoSmaller
<1>2. Len(g.cells) \in Nat /\ Len(h.cells) \in Nat /\ g.columns * g.rows \in Nat
  BY <1>1 DEF GridType
<1>. QED  BY <1>1, <1>2 DEF Grids

LEMMA NewGridStays ==
    ASSUME dims \in Dimensions
    PROVE  NewGrid(dims) \in Grids
<1>1. dims.columns * dims.rows \in Nat
  BY SizeFacts
<1>. QED  BY <1>1, NewGridShape DEF Grids

\* A character, wide or not, is written without losing a cell.
LEMMA FillStays ==
    ASSUME PlaceInv, NEW g \in Grids, NEW cell \in Cell, NEW w \in 1 .. 2
    PROVE  Fill(g, cell, w) \in Grids
<1>. DEFINE at == Position(g, cursor.column, cursor.row)
            g1 == IF modes.insert THEN WithInserted(g, cursor.column, cursor.row, w) ELSE g
            g2 == WithCell(g1, at, cell)
<1>1. cursor.column \in Nat /\ cursor.row \in Nat /\ g \in GridType
  BY SizeFacts DEF PlaceInv, Grids
<1>2. at \in Nat
  BY <1>1 DEF Position, GridType
<1>3. g1 \in Grids
  <2>1. WithInserted(g, cursor.column, cursor.row, w) \in Grids
    BY <1>1, InsertedShape, SameShapeStays
  <2>. QED  BY <2>1
<1>4. g2 \in Grids
  <2>. HIDE DEF g1, at
  <2>1. g1 \in GridType
    BY <1>3 DEF Grids
  <2>. QED  BY <1>2, <1>3, <2>1, WithCellShape, SameShapeStays
<1>5. WithCell(g2, at + 1, Continuation) \in Grids
  <2>. HIDE DEF g2, at
  <2>1. g2 \in GridType /\ at + 1 \in Nat
    BY <1>2, <1>4 DEF Grids
  <2>. QED  BY <1>4, <2>1, BlankIsCell, WithCellShape, SameShapeStays
<1>. QED  BY <1>4, <1>5 DEF Fill

-----------------------------------------------------------------------------
(* The scrollback. *)

LEMMA LineType ==
    ASSUME dims \in Dimensions, NEW g \in GridType, NEW r \in Nat
    PROVE  Line(g, r) \in Lines
<1>1. ASSUME NEW c \in 1 .. dims.columns PROVE CellAt(g, c - 1, r) \in Cell
  <2>1. c - 1 \in Nat
    BY SizeFacts
  <2>. QED  BY <2>1, CellAtType
<1>. QED  BY <1>1 DEF Line, Lines

LEMMA KeptType ==
    ASSUME NEW back \in Seq(Lines), NEW lines \in Seq(Lines)
    PROVE  Kept(back, lines) \in Seq(Lines)
<1>. DEFINE all  == back \o lines
            keep == {k \in DOMAIN lines :
                        compact /\ Len(back) + k > 1 /\ Empty(lines[k])
                        => ~Empty(all[Len(back) + k - 1])}
            f    == CHOOSE f \in Orders(keep) : TRUE
<1>1. keep \in SUBSET DOMAIN lines
  OBVIOUS
<1>2. f \in Orders(keep)
  <2>. HIDE DEF keep
  <2>1. Len(lines) \in Nat /\ DOMAIN lines = 1 .. Len(lines)
    OBVIOUS
  <2>2. Orders(keep) # {}
    <3>1. keep \in SUBSET (0 .. Len(lines))
      BY <1>1, <2>1
    <3>. QED  BY <2>1, <3>1, OrdersExist
  <2>. QED  BY <2>2
<1>3. PICK n \in 0 .. Len(lines) : DOMAIN f = 1 .. n /\ \A k \in DOMAIN f : f[k] \in keep
  <2>. HIDE DEF keep, f
  <2>. QED  BY <1>1, <1>2, OrdersFacts
<1>4. Kept(back, lines) = [k \in DOMAIN f |-> lines[f[k]]]
  BY DEF Kept
<1>. HIDE DEF f, keep
<1>5. \A k \in 1 .. n : lines[f[k]] \in Lines
  BY <1>1, <1>3
<1>6. [k \in 1 .. n |-> lines[f[k]]] \in Seq(Lines)
  BY <1>5
<1>. QED  BY <1>3, <1>4, <1>6

LEMMA PushedType ==
    ASSUME limit \in Nat, NEW back \in Histories, NEW lines \in Seq(Lines)
    PROVE  Pushed(back, lines) \in Histories
<1>. DEFINE s == back \o Kept(back, lines)
<1>1. s \in Seq(Lines)
  BY KeptType, ConcatProperties DEF Histories
<1>2. LastOnes(s, limit) \in Histories
  <2>. HIDE DEF s
  <2>1. LastOnes(s, limit) \in Seq(Lines) /\ Len(LastOnes(s, limit)) = Lesser(Len(s), limit)
    BY <1>1, LastOnesFacts
  <2>2. Len(s) \in Nat
    BY <1>1
  <2>. QED  BY <2>1, <2>2 DEF Histories, Lesser
<1>. QED  BY <1>2 DEF Pushed

LEMMA CapturedType ==
    ASSUME PlaceInv, limit \in Nat, NEW g \in GridType, NEW back \in Histories, NEW n \in Nat
    PROVE  Captured(g, back, n) \in Histories
<1>. DEFINE m     == SatSub(Lesser(margins.top + n, dims.rows), margins.top)
            lines == [k \in 1 .. m |-> Line(g, margins.top + k - 1)]
<1>1. margins.top \in Nat /\ dims \in Dimensions /\ dims.rows \in Nat
  BY SizeFacts DEF PlaceInv
<1>2. m \in Nat
  BY <1>1 DEF SatSub, Lesser
<1>3. \A k \in 1 .. m : Line(g, margins.top + k - 1) \in Lines
  <2>. HIDE DEF m
  <2>1. ASSUME NEW k \in 1 .. m PROVE margins.top + k - 1 \in Nat
    BY <1>1, <1>2
  <2>. QED  BY <1>1, <2>1, LineType
<1>4. lines \in Seq(Lines)
  <2>. HIDE DEF m
  <2>. QED  BY <1>2, <1>3
<1>5. Pushed(back, lines) \in Histories
  <2>. HIDE DEF lines
  <2>. QED  BY <1>4, PushedType
<1>. QED  BY <1>5 DEF Captured

\* rewrap_scrollback leaves every line as wide as the terminal has become.
LEMMA RewrappedType ==
    ASSUME dims \in Dimensions, NEW back \in Seq(Lines), NEW columns \in Nat
    PROVE  /\ Rewrapped(back, columns) \in Seq([1 .. columns -> Cell])
           /\ Len(Rewrapped(back, columns)) = Len(back)
<1>1. ASSUME NEW k \in DOMAIN back
      PROVE  [c \in 1 .. columns |-> IF c <= Len(back[k]) THEN back[k][c] ELSE Blank]
               \in [1 .. columns -> Cell]
  <2>1. back[k] \in Lines
    OBVIOUS
  <2>2. ASSUME NEW c \in 1 .. columns, c <= Len(back[k]) PROVE back[k][c] \in Cell
    <3>1. DOMAIN back[k] = 1 .. dims.columns
      BY <2>1 DEF Lines
    <3>2. back[k] \in Seq(Cell)
      BY <2>1, SizeFacts DEF Lines
    <3>3. c \in DOMAIN back[k]
      BY <2>2, <3>2
    <3>. QED  BY <2>1, <3>1, <3>3 DEF Lines
  <2>. QED  BY <2>2, BlankIsCell
<1>2. DOMAIN back = 1 .. Len(back) /\ Len(back) \in Nat
  OBVIOUS
<1>. QED  BY <1>1, <1>2 DEF Rewrapped

-----------------------------------------------------------------------------
(* Effects. *)

LEMMA NowIsEffect ==
    ASSUME PlaceInv, GridInv, HistoryInv
    PROVE  Now \in Effects
BY ScreenType DEF Now, Effects, PlaceInv, HistoryInv

LEMMA ScrollStays ==
    ASSUME PlaceInv, NEW s \in Effects, NEW top \in Nat, NEW n \in Nat
    PROVE  ScrollUp(s, top, n) \in Effects /\ ScrollDown(s, top, n) \in Effects
<1>1. margins.bottom \in Nat /\ s.grid \in GridType /\ s.grid \in Grids
  BY DEF PlaceInv, Effects, Grids
<1>2. UpFits(s.grid, top, margins.bottom, n) =>
        ScrolledUp(s.grid, top, margins.bottom, n) \in Grids
  BY <1>1, ScrolledUpShape, NoSmallerStays
<1>3. DownFits(s.grid, top, margins.bottom, n) =>
        ScrolledDown(s.grid, top, margins.bottom, n) \in Grids
  BY <1>1, ScrolledDownShape, NoSmallerStays
<1>4. [s EXCEPT !.fine = FALSE] \in Effects
  BY DEF Effects
<1>5. \A g \in Grids : [s EXCEPT !.grid = g] \in Effects
  BY DEF Effects
<1>. QED  BY <1>2, <1>3, <1>4, <1>5 DEF ScrollUp, ScrollDown

LEMMA CapturingStays ==
    ASSUME PlaceInv, HistoryInv, NEW s \in Effects, NEW n \in Nat
    PROVE  Capturing(s, n) \in Effects
<1>1. Captured(s.grid, s.back, n) \in Histories
  BY CapturedType DEF Effects, Grids, HistoryInv
<1>2. [s EXCEPT !.back = Captured(s.grid, s.back, n)] \in Effects
  BY <1>1 DEF Effects
<1>3. margins.top \in Nat
  BY DEF PlaceInv
<1>. QED  BY <1>2, <1>3, ScrollStays DEF Capturing

LEMMA FedStays ==
    ASSUME PlaceInv, HistoryInv, NEW s \in Effects
    PROVE  Fed(s) \in Effects
<1>1. CASE s.row < margins.bottom
  <2>1. s.row + 1 \in 0 .. dims.rows - 1
    BY <1>1, SizeFacts DEF PlaceInv, MarginsInside, Effects
  <2>2. [s EXCEPT !.row = s.row + 1] \in Effects
    BY <2>1 DEF Effects
  <2>. QED  BY <1>1, <2>2 DEF Fed
<1>2. CASE ~(s.row < margins.bottom)
  BY <1>2, CapturingStays DEF Fed
<1>. QED  BY <1>1, <1>2

\* Where a number of line feeds leads, when each leads on from one set to the next.
LEMMA FeedsLead ==
    ASSUME NEW V, NEW s \in V[0], \A k \in Nat : \A e \in V[k] : Fed(e) \in V[k + 1], NEW n \in Nat
    PROVE  Feeds(s, n) \in V[n]
<1>. DEFINE Run(f, m) == f = [k \in 0 .. m |-> IF k = 0 THEN s ELSE Fed(f[k - 1])]
            S == {m \in Nat : \E f : Run(f, m)}
<1>1. S \in SUBSET Nat
  OBVIOUS
<1>2. 0 \in S
  <2>. DEFINE f == [k \in 0 .. 0 |-> s]
  <2>1. f = [k \in 0 .. 0 |-> IF k = 0 THEN s ELSE Fed(f[k - 1])]
    <3>1. \A k \in 0 .. 0 : k = 0
      OBVIOUS
    <3>. QED  BY <3>1
  <2>2. Run(f, 0)
    BY <2>1
  <2>. QED  BY <2>2
<1>3. ASSUME NEW m \in S PROVE m + 1 \in S
  <2>1. PICK f : Run(f, m)
    OBVIOUS
  <2>2. m \in Nat /\ m + 1 \in Nat
    OBVIOUS
  <2>. DEFINE g == [k \in 0 .. m + 1 |-> IF k = m + 1 THEN Fed(f[m]) ELSE f[k]]
  <2>3. ASSUME NEW k \in 0 .. m + 1
        PROVE  g[k] = IF k = 0 THEN s ELSE Fed(g[k - 1])
    <3>1. CASE k = m + 1
      <4>1. g[m] = f[m] /\ k # 0 /\ k - 1 = m
        BY <2>2, <3>1
      <4>2. g[k] = Fed(f[m])
        BY <3>1
      <4>. QED  BY <4>1, <4>2
    <3>2. CASE k # m + 1
      <4>1. k \in 0 .. m /\ g[k] = f[k]
        BY <2>2, <3>2
      <4>2. f[k] = IF k = 0 THEN s ELSE Fed(f[k - 1])
        BY <2>1, <4>1
      <4>3. k # 0 => k - 1 \in 0 .. m + 1 /\ k - 1 # m + 1
        BY <2>2, <4>1
      <4>4. k # 0 => g[k - 1] = f[k - 1]
        BY <4>3
      <4>. HIDE DEF g
      <4>. QED  BY <4>1, <4>2, <4>4
    <3>. QED  BY <3>1, <3>2
  <2>4. g = [k \in 0 .. m + 1 |-> g[k]]
    OBVIOUS
  <2>5. Run(g, m + 1)
    <3>. HIDE DEF g
    <3>. QED  BY <2>3, <2>4
  <2>. QED  BY <2>2, <2>5
<1>4. n \in S
  <2>. HIDE DEF S
  <2>. QED  BY <1>1, <1>2, <1>3, InductiveSet
<1>. DEFINE h == CHOOSE f : Run(f, n)
<1>5. Run(h, n)
  BY <1>4
<1>6. h = [k \in 0 .. n |-> IF k = 0 THEN s ELSE Fed(h[k - 1])]
  BY <1>5
<1>7. Feeds(s, n) = h[n]
  BY DEF Feeds
<1>. HIDE DEF h
<1>8. h[0] = s
  BY <1>6
<1>. DEFINE T == {k \in Nat : k <= n => h[k] \in V[k]}
<1>9. T \in SUBSET Nat /\ 0 \in T
  BY <1>8
<1>10. ASSUME NEW k \in T PROVE k + 1 \in T
  <2>1. ASSUME k + 1 <= n PROVE h[k + 1] \in V[k + 1]
    <3>1. h[k] \in V[k] /\ k \in Nat
      BY <2>1
    <3>2. k + 1 \in 0 .. n /\ k + 1 # 0 /\ (k + 1) - 1 = k
      BY <2>1, <3>1
    <3>3. h[k + 1] = Fed(h[k])
      BY <1>6, <3>2
    <3>. QED  BY <3>1, <3>3
  <2>. QED  BY <2>1
<1>11. T = Nat
  <2>. HIDE DEF T
  <2>. QED  BY <1>9, <1>10, InductiveSet
<1>. QED  BY <1>7, <1>11

\* Any number of line feeds stays where each of them does.
LEMMA FeedsStay ==
    ASSUME NEW U, NEW s \in U, \A e \in U : Fed(e) \in U, NEW n \in Nat
    PROVE  Feeds(s, n) \in U
<1>. DEFINE V == [k \in Nat |-> U]
<1>1. /\ \A k \in Nat : V[k] = U
      /\ s \in V[0]
  OBVIOUS
<1>2. \A k \in Nat : \A e \in V[k] : Fed(e) \in V[k + 1]
  BY <1>1
<1>. HIDE DEF V
<1>3. Feeds(s, n) \in V[n]
  BY <1>1, <1>2, FeedsLead
<1>. QED  BY <1>1, <1>3

-----------------------------------------------------------------------------
(* Steps. *)

Columns == 0 .. dims.columns - 1
RowsOn  == 0 .. dims.rows - 1

\* A sequence that lands an effect keeps the invariant.
LEMMA LandStep ==
    ASSUME IInv, NEW s \in Effects, NEW c \in Columns, Land(s, c)
    PROVE  IInv'
<1>1. /\ s.grid \in Grids /\ s.row \in RowsOn /\ s.back \in Histories /\ s.fine \in BOOLEAN
  BY DEF Effects, RowsOn
<1>2. /\ cursor' = [column |-> c, row |-> s.row]
      /\ scrollback' = s.back
      /\ panicked' = ~s.fine
      /\ Show(s.grid)
      /\ UNCHANGED <<dims, saved, margins, modes, limit, compact>>
  BY DEF Land
<1>3. PlaceInv'
  BY <1>1, <1>2 DEF IInv, PlaceInv, MarginsInside, Columns, RowsOn
<1>4. GridInv'
  <2>1. \/ primary' = s.grid /\ alternate' = alternate
        \/ alternate' = {s.grid} /\ primary' = primary
    BY <1>2 DEF Show
  <2>. QED  BY <1>1, <2>1 DEF IInv, GridInv
<1>5. Histories' = Histories
  BY <1>2 DEF Histories, Lines
<1>6. HistoryInv'
  BY <1>1, <1>2, <1>5 DEF IInv, HistoryInv
<1>7. compact' \in BOOLEAN /\ panicked' \in BOOLEAN
  BY <1>1, <1>2 DEF IInv
<1>. QED  BY <1>3, <1>4, <1>6, <1>7 DEF IInv

\* What moves the cursor, and what else leaves the grids and the scrollback.
LEMMA StillStep ==
    ASSUME IInv, UNCHANGED <<dims, primary, alternate, scrollback, limit>>,
           compact' \in BOOLEAN, panicked' \in BOOLEAN, PlaceInv'
    PROVE  IInv'
<1>1. Histories' = Histories
  BY DEF Histories, Lines
<1>. QED  BY <1>1 DEF IInv, GridInv, HistoryInv

LEMMA MoveStep ==
    ASSUME IInv, NEW c \in Columns, NEW r \in RowsOn, MoveTo(c, r)
    PROVE  IInv'
<1>1. PlaceInv'
  BY DEF IInv, PlaceInv, MarginsInside, Columns, RowsOn, MoveTo
<1>. QED  BY <1>1, StillStep DEF MoveTo, IInv

\* The places that steps compute are on the screen.
LEMMA OnScreen ==
    ASSUME PlaceInv
    PROVE  /\ cursor.column \in Columns /\ cursor.row \in RowsOn
           /\ 0 \in Columns /\ 0 \in RowsOn
           /\ dims.columns - 1 \in Columns /\ dims.rows - 1 \in RowsOn
           /\ margins.top \in RowsOn /\ margins.bottom \in RowsOn
BY SizeFacts DEF PlaceInv, MarginsInside, Columns, RowsOn

LEMMA ClampedOn ==
    ASSUME dims \in Dimensions, NEW p \in [column : Nat, row : Nat]
    PROVE  Clamped(p, dims).column \in Columns /\ Clamped(p, dims).row \in RowsOn
BY SizeFacts DEF Clamped, Lesser, Columns, RowsOn

\* Landing a line feed, or several, or a scroll.
LEMMA ScrollingSteps ==
    ASSUME IInv
    PROVE  /\ \A s \in Effects : Fed(s) \in Effects
           /\ \A n \in Nat : /\ ScrollUp(Now, cursor.row, n) \in Effects
                             /\ ScrollDown(Now, cursor.row, n) \in Effects
                             /\ ScrollDown(Now, margins.top, n) \in Effects
                             /\ Capturing(Now, n) \in Effects
                             /\ Feeds(Now, n) \in Effects
<1>1. Now \in Effects
  BY NowIsEffect DEF IInv
<1>2. cursor.row \in Nat /\ margins.top \in Nat
  BY SizeFacts DEF IInv, PlaceInv
<1>3. \A s \in Effects : Fed(s) \in Effects
  BY FedStays DEF IInv
<1>4. ASSUME NEW n \in Nat PROVE Feeds(Now, n) \in Effects
  BY <1>1, <1>3, FeedsStay
<1>. QED  BY <1>1, <1>2, <1>3, <1>4, ScrollStays, CapturingStays DEF IInv

LEMMA WrittenIsCell ==
    ASSUME NEW glyph \in Glyphs, NEW w \in 1 .. 2
    PROVE  [glyph |-> glyph, width |-> w] \in Cell
<1>1. w \in 0 .. 2
  OBVIOUS
<1>2. glyph \in Glyphs \cup {""}
  OBVIOUS
<1>. QED  BY <1>1, <1>2 DEF Cell

LEMMA PutStep ==
    ASSUME IInv, NEW glyph \in Glyphs, NEW w \in 1 .. 2, Put(glyph, w)
    PROVE  IInv'
<1>. DEFINE g == Fill(Screen, [glyph |-> glyph, width |-> w], w)
            s == [Now EXCEPT !.grid = g]
<1>1. [glyph |-> glyph, width |-> w] \in Cell
  BY WrittenIsCell
<1>2. g \in Grids
  BY <1>1, ScreenType, FillStays DEF IInv
<1>3. s \in Effects
  <2>. HIDE DEF g
  <2>1. Now \in Effects
    BY NowIsEffect DEF IInv
  <2>. QED  BY <1>2, <2>1 DEF Effects
<1>4. Fed(s) \in Effects
  <2>. HIDE DEF s
  <2>. QED  BY <1>3, ScrollingSteps
<1>5. \/ cursor.column + w < dims.columns /\ Land(s, cursor.column + w)
      \/ Land(Fed(s), 0)
      \/ Land(s, cursor.column)
  BY DEF Put
<1>. HIDE DEF s
<1>6. cursor.column + w < dims.columns => cursor.column + w \in Columns
  BY SizeFacts DEF IInv, PlaceInv, Columns
<1>7. 0 \in Columns /\ cursor.column \in Columns
  BY OnScreen DEF IInv
<1>. QED  BY <1>3, <1>4, <1>5, <1>6, <1>7, LandStep

\* A build that checks for overflows panics, and leaves the rest.
LEMMA OverflowsStep ==
    ASSUME IInv, Overflows
    PROVE  IInv'
<1>1. PlaceInv'
  BY DEF IInv, PlaceInv, MarginsInside, Overflows
<1>. QED  BY <1>1, StillStep DEF Overflows, IInv

LEMMA TextStep ==
    ASSUME IInv, Text
    PROVE  IInv'
<1>1. ASSUME NEW glyph \in Glyphs, NEW w \in 1 .. 2, Put(glyph, w) PROVE IInv'
  BY <1>1, PutStep
<1>2. CASE Overflows
  BY <1>2, OverflowsStep
<1>3. CASE LineFeed \/ NewLine
  <2>1. Now \in Effects
    BY NowIsEffect DEF IInv
  <2>2. Fed(Now) \in Effects
    BY <2>1, ScrollingSteps
  <2>. QED  BY <1>3, <2>2, OnScreen, LandStep DEF IInv, LineFeed, NewLine
<1>4. CASE ReverseIndex
  <2>1. CASE cursor.row > margins.top
    <3>1. cursor.row - 1 \in RowsOn
      BY <2>1, SizeFacts DEF IInv, PlaceInv, RowsOn
    <3>. QED  BY <1>4, <2>1, <3>1, OnScreen, MoveStep DEF IInv, ReverseIndex
  <2>2. CASE ~(cursor.row > margins.top)
    BY <1>4, <2>2, ScrollingSteps, OnScreen, LandStep DEF IInv, ReverseIndex
  <2>. QED  BY <2>1, <2>2
<1>5. CASE CarriageReturn \/ Backspace \/ Tab
  <2>1. SatSub(cursor.column, 1) \in Columns
    BY SizeFacts DEF IInv, PlaceInv, Columns, SatSub
  <2>2. Lesser((cursor.column \div 8 + 1) * 8, dims.columns - 1) \in Columns
    <3>1. cursor.column \in Nat
      BY SizeFacts DEF IInv, PlaceInv
    <3>2. (cursor.column \div 8 + 1) * 8 \in Nat
      BY <3>1
    <3>. QED  BY <3>2, SizeFacts DEF IInv, PlaceInv, Columns, Lesser
  <2>. QED  BY <1>5, <2>1, <2>2, OnScreen, MoveStep DEF IInv, CarriageReturn, Backspace, Tab
<1>6. CASE SaveCursor
  <2>1. PlaceInv'
    BY <1>6, SizeFacts DEF IInv, PlaceInv, MarginsInside, SaveCursor, Cursor
  <2>. QED  BY <1>6, <2>1, StillStep DEF SaveCursor, IInv
<1>7. CASE RestoreCursor
  <2>1. saved \in [column : Nat, row : Nat] /\ dims \in Dimensions
    BY DEF IInv, PlaceInv, Cursor
  <2>. QED  BY <1>7, <2>1, ClampedOn, MoveStep DEF RestoreCursor
<1>8. CASE Reset
  <2>1. PlaceInv'
    BY <1>8, SizeFacts DEF IInv, PlaceInv, MarginsInside, Reset, Home, FullMargins, Cursor, Modes
  <2>2. GridInv'
    BY <1>8, NewGridStays DEF IInv, PlaceInv, GridInv, Reset
  <2>3. HistoryInv'
    <3>1. scrollback' = <<>> /\ limit' = Default /\ Default \in Nat
      BY <1>8, TerminalAssumption DEF Reset
    <3>2. <<>> \in Histories'
      BY <3>1 DEF Histories, Lines
    <3>. QED  BY <3>1, <3>2 DEF HistoryInv
  <2>. QED  BY <1>8, <2>1, <2>2, <2>3 DEF IInv, Reset
<1>. QED  BY <1>1, <1>2, <1>3, <1>4, <1>5, <1>6, <1>7, <1>8 DEF Text

\* Where the sequences that move the cursor put it.
LEMMA PlacesOn ==
    ASSUME IInv, NEW n \in Nat
    PROVE  /\ RowAbove(n) \in RowsOn
           /\ Lesser(cursor.row + n, LowerBound) \in RowsOn
           /\ Lesser(cursor.column + n, dims.columns - 1) \in Columns
           /\ SatSub(cursor.column, n) \in Columns
           /\ FromZero(n) \in Nat
           /\ Lesser(FromZero(n), dims.columns - 1) \in Columns
           /\ Lesser(FromZero(n), dims.rows - 1) \in RowsOn
           /\ Lesser(margins.top + FromZero(n), margins.bottom) \in RowsOn
<1>1. /\ dims.columns \in Nat /\ dims.columns > 0 /\ dims.rows \in Nat /\ dims.rows > 0
      /\ cursor.column \in Columns /\ cursor.row \in RowsOn
      /\ margins.top \in RowsOn /\ margins.bottom \in RowsOn
  BY SizeFacts, OnScreen DEF IInv, PlaceInv
<1>2. UpperBound \in RowsOn /\ LowerBound \in RowsOn
  BY <1>1 DEF UpperBound, LowerBound, RowsOn
<1>3. RowAbove(n) \in RowsOn
  BY <1>1, <1>2 DEF RowAbove, Lesser, Greater, SatSub, RowsOn
<1>4. Lesser(cursor.row + n, LowerBound) \in RowsOn
  BY <1>1, <1>2 DEF Lesser, RowsOn
<1>5. FromZero(n) \in Nat
  BY DEF FromZero, SatSub
<1>. QED  BY <1>1, <1>3, <1>4, <1>5 DEF Lesser, SatSub, Columns, RowsOn

LEMMA MotionStep ==
    ASSUME IInv, Motion
    PROVE  IInv'
<1>1. Counts \subseteq Nat /\ Places \subseteq Nat
  BY TerminalAssumption
<1>2. cursor.column \in Columns /\ cursor.row \in RowsOn /\ 0 \in Columns
  BY OnScreen DEF IInv
<1>3. ASSUME NEW n \in Counts, Up(n) \/ PrevLine(n) \/ Down(n) PROVE IInv'
  <2>1. RowAbove(n) \in RowsOn /\ Lesser(cursor.row + n, LowerBound) \in RowsOn
    BY <1>1, PlacesOn
  <2>. QED  BY <1>2, <1>3, <2>1, MoveStep DEF Up, PrevLine, Down
<1>4. ASSUME NEW n \in Counts, Right(n) \/ Left(n) PROVE IInv'
  <2>1. Lesser(cursor.column + n, dims.columns - 1) \in Columns /\ SatSub(cursor.column, n) \in Columns
    BY <1>1, PlacesOn
  <2>. QED  BY <1>2, <1>4, <2>1, MoveStep DEF Right, Left
<1>5. ASSUME NEW n \in Counts, NextLine(n) PROVE IInv'
  <2>1. Feeds(Now, n) \in Effects
    BY <1>1, ScrollingSteps
  <2>. QED  BY <1>2, <1>5, <2>1, LandStep DEF NextLine
<1>6. ASSUME NEW p \in Places, Column(p) \/ Row(p) PROVE IInv'
  <2>1. /\ Lesser(FromZero(p), dims.columns - 1) \in Columns
        /\ Lesser(FromZero(p), dims.rows - 1) \in RowsOn
        /\ Lesser(margins.top + FromZero(p), margins.bottom) \in RowsOn
    BY <1>1, PlacesOn
  <2>. QED  BY <1>2, <1>6, <2>1, MoveStep DEF Column, Row
<1>7. ASSUME NEW p \in Places, NEW q \in Places, GoTo(p, q) PROVE IInv'
  <2>. DEFINE place == [column |-> FromZero(q),
                        row    |-> FromZero(p) + (IF modes.origin THEN margins.top ELSE 0)]
  <2>1. FromZero(p) \in Nat /\ FromZero(q) \in Nat /\ margins.top \in Nat /\ dims \in Dimensions
    BY <1>1, PlacesOn DEF IInv, PlaceInv
  <2>2. place \in [column : Nat, row : Nat]
    BY <2>1
  <2>3. MoveTo(Clamped(place, dims).column, Clamped(place, dims).row)
    BY <1>7 DEF GoTo
  <2>. HIDE DEF place
  <2>. QED  BY <2>1, <2>2, <2>3, ClampedOn, MoveStep
<1>8. ASSUME NEW p \in Places, NEW q \in Places, SetMargins(p, q) PROVE IInv'
  <2>. DEFINE top    == FromZero(p)
              bottom == IF q = 0 THEN dims.rows - 1 ELSE q - 1
  <2>1. top \in Nat /\ bottom \in Nat /\ dims.rows \in Nat /\ dims.columns > 0 /\ dims.columns \in Nat
    BY <1>1, PlacesOn, SizeFacts DEF IInv, PlaceInv
  <2>2. /\ top < bottom /\ bottom < dims.rows
        /\ margins' = [top |-> top, bottom |-> bottom]
        /\ cursor' = [column |-> 0, row |-> IF modes.origin THEN top ELSE 0]
        /\ UNCHANGED <<dims, saved, modes, primary, alternate, scrollback, limit, compact, panicked>>
    BY <1>8 DEF SetMargins
  <2>. HIDE DEF top, bottom
  <2>3. PlaceInv'
    BY <2>1, <2>2 DEF IInv, PlaceInv, MarginsInside
  <2>. QED  BY <2>2, <2>3, StillStep DEF IInv
<1>. QED  BY <1>3, <1>4, <1>5, <1>6, <1>7, <1>8 DEF Motion

\* A sequence that changes cells of the screen in place.
LEMMA ShownStep ==
    ASSUME IInv, NEW g \in Grids, Shown(g)
    PROVE  IInv'
<1>1. Now \in Effects
  BY NowIsEffect DEF IInv
<1>2. [Now EXCEPT !.grid = g] \in Effects
  BY <1>1 DEF Effects
<1>. QED  BY <1>2, OnScreen, LandStep DEF IInv, Shown

LEMMA EditStep ==
    ASSUME IInv, Edit
    PROVE  IInv'
<1>1. Screen \in Grids /\ Screen \in GridType
  BY ScreenType DEF IInv, Grids
<1>2. /\ cursor.column \in Nat /\ cursor.row \in Nat
      /\ dims.columns \in Nat /\ Screen.columns \in Nat /\ Len(Screen.cells) \in Nat
  BY <1>1, SizeFacts DEF IInv, PlaceInv, GridType
<1>3. \A n \in Counts : AtLeast1(n) \in Nat
  BY TerminalAssumption DEF AtLeast1, Greater
<1>4. ASSUME NEW a \in Int, NEW b \in Int, Shown(Cleared(Screen, a, b)) PROVE IInv'
  BY <1>1, <1>4, ClearedShape, SameShapeStays, ShownStep
<1>5. ASSUME NEW n \in Counts, InsertCells(n) PROVE IInv'
  <2>1. WithInserted(Screen, cursor.column, cursor.row, AtLeast1(n)) \in Grids
    BY <1>1, <1>2, <1>3, InsertedShape, SameShapeStays
  <2>. QED  BY <1>5, <2>1, ShownStep DEF InsertCells
<1>6. ASSUME NEW n \in Counts, DeleteCells(n) PROVE IInv'
  <2>1. WithDeleted(Screen, cursor.column, cursor.row, AtLeast1(n)) \in Grids
    BY <1>1, <1>2, <1>3, DeletedShape, SameShapeStays
  <2>. QED  BY <1>6, <2>1, ShownStep DEF DeleteCells
<1>7. ASSUME NEW c \in Nat PROVE Position(Screen, c, cursor.row) \in Int
  BY <1>2 DEF Position
<1>8. ASSUME NEW n \in Counts, EraseCells(n) PROVE IInv'
  <2>1. Lesser(cursor.column + AtLeast1(n), dims.columns) \in Nat
    BY <1>2, <1>3 DEF Lesser
  <2>. QED  BY <1>2, <1>4, <1>7, <1>8, <2>1 DEF EraseCells
<1>9. CASE EraseDisplay
  <2>1. Here \in Int
    BY <1>2, <1>7 DEF Here
  <2>2. PICK range \in {<<Here, Len(Screen.cells)>>, <<0, Here + 1>>, <<0, Len(Screen.cells)>>} :
            Shown(Cleared(Screen, range[1], range[2]))
    BY <1>9 DEF EraseDisplay
  <2>3. range[1] \in Int /\ range[2] \in Int
    BY <1>2, <2>1
  <2>. QED  BY <1>4, <2>2, <2>3
<1>10. CASE EraseLine
  <2>. DEFINE start == Position(Screen, 0, cursor.row)
              end   == start + dims.columns
  <2>1. Here \in Int /\ start \in Int /\ end \in Int
    BY <1>2, <1>7 DEF Here
  <2>2. PICK range \in {<<Here, end>>, <<start, Here + 1>>, <<start, end>>} :
            Shown(Cleared(Screen, range[1], range[2]))
    BY <1>10 DEF EraseLine
  <2>. HIDE DEF start, end
  <2>3. range[1] \in Int /\ range[2] \in Int
    BY <2>1
  <2>. QED  BY <1>4, <2>2, <2>3
<1>11. ASSUME NEW n \in Counts,
              InsertLines(n) \/ DeleteLines(n) \/ ScrollLinesUp(n) \/ ScrollLinesDown(n)
       PROVE  IInv'
  <2>1. AtLeast1(n) \in Nat
    BY <1>3
  <2>. QED  BY <1>11, <2>1, ScrollingSteps, OnScreen, LandStep
            DEF IInv, InsertLines, DeleteLines, ScrollLinesUp, ScrollLinesDown
<1>12. CASE Overflows
  BY <1>12, OverflowsStep
<1>. QED  BY <1>5, <1>6, <1>8, <1>9, <1>10, <1>11, <1>12 DEF Edit

LEMMA NormalizedType ==
    ASSUME NEW d \in Sizes
    PROVE  Normalized(d) \in Dimensions
<1>1. d.columns \in Nat /\ d.rows \in Nat
  BY TerminalAssumption
<1>. QED  BY <1>1 DEF Normalized, Greater, Dimensions

\* A resize rewraps the scrollback and trims it to its limit.
LEMMA ResizeStep ==
    ASSUME IInv, NEW d \in Sizes, Resize(d)
    PROVE  IInv'
<1>1. dims' \in Dimensions
  BY NormalizedType DEF Resize
<1>2. dims'.columns \in Nat /\ dims'.rows \in Nat /\ dims'.columns > 0 /\ dims'.rows > 0
  BY <1>1 DEF Dimensions
<1>3. cursor.column \in Nat /\ cursor.row \in Nat
  BY SizeFacts DEF IInv, PlaceInv
<1>4. /\ margins' = FullMargins(dims') /\ cursor' = Clamped(cursor, dims')
      /\ scrollback' = LastOnes(Rewrapped(scrollback, dims'.columns), limit)
      /\ UNCHANGED <<saved, modes, primary, alternate, limit, compact, panicked>>
  BY DEF Resize
<1>5. PlaceInv'
  <2>1. cursor' \in [column : 0 .. dims'.columns - 1, row : 0 .. dims'.rows - 1]
    BY <1>2, <1>3, <1>4 DEF Clamped, Lesser
  <2>2. margins' = [top |-> 0, bottom |-> dims'.rows - 1]
    BY <1>4 DEF FullMargins
  <2>. QED  BY <1>1, <1>2, <1>4, <2>1, <2>2 DEF IInv, PlaceInv, MarginsInside
<1>6. GridInv'
  BY <1>4 DEF IInv, GridInv
<1>7. HistoryInv'
  <2>. DEFINE r == Rewrapped(scrollback, dims'.columns)
              L == [1 .. dims'.columns -> Cell]
  <2>1. scrollback \in Seq(Lines) /\ limit \in Nat /\ dims \in Dimensions
    BY DEF IInv, HistoryInv, Histories, PlaceInv
  <2>2. r \in Seq(L)
    BY <1>2, <2>1, RewrappedType
  <2>. HIDE DEF r, L
  <2>3. LastOnes(r, limit) \in Seq(L) /\ Len(LastOnes(r, limit)) = Lesser(Len(r), limit)
    BY <2>1, <2>2, LastOnesFacts
  <2>4. Len(LastOnes(r, limit)) <= limit
    <3>1. Len(r) \in Nat
      BY <2>2
    <3>. QED  BY <2>1, <2>3, <3>1 DEF Lesser
  <2>5. scrollback' = LastOnes(r, limit) /\ limit' = limit
    BY <1>4 DEF r
  <2>6. Lines' = L
    BY DEF Lines, L
  <2>. QED  BY <2>1, <2>3, <2>4, <2>5, <2>6 DEF HistoryInv, Histories
<1>. QED  BY <1>4, <1>5, <1>6, <1>7 DEF IInv

LEMMA SettingStep ==
    ASSUME IInv, Setting
    PROVE  IInv'
<1>1. CASE SetModes
  <2>1. modes' \in Modes
    BY <1>1 DEF IInv, PlaceInv, SetModes, Modes
  <2>2. PlaceInv'
    BY <1>1, <2>1 DEF IInv, PlaceInv, MarginsInside, SetModes
  <2>. QED  BY <1>1, <2>2, StillStep DEF SetModes, IInv
<1>2. ASSUME NEW saving \in BOOLEAN, EnterAlternate(saving) PROVE IInv'
  <2>1. PlaceInv'
    BY <1>2, SizeFacts DEF IInv, PlaceInv, MarginsInside, EnterAlternate, Home, Cursor
  <2>2. GridInv'
    BY <1>2, NewGridStays DEF IInv, PlaceInv, GridInv, EnterAlternate
  <2>3. HistoryInv'
    BY <1>2 DEF IInv, HistoryInv, Histories, Lines, EnterAlternate
  <2>. QED  BY <1>2, <2>1, <2>2, <2>3 DEF IInv, EnterAlternate
<1>3. CASE LeaveAlternate
  <2>1. PlaceInv'
    BY <1>3 DEF IInv, PlaceInv, MarginsInside, LeaveAlternate
  <2>2. GridInv'
    BY <1>3 DEF IInv, GridInv, LeaveAlternate
  <2>3. HistoryInv'
    BY <1>3 DEF IInv, HistoryInv, Histories, Lines, LeaveAlternate
  <2>. QED  BY <1>3, <2>1, <2>2, <2>3 DEF IInv, LeaveAlternate
<1>4. ASSUME NEW d \in Sizes, Resize(d) PROVE IInv'
  BY <1>4, ResizeStep
<1>5. CASE SetCompact
  <2>1. PlaceInv'
    BY <1>5 DEF IInv, PlaceInv, MarginsInside, SetCompact
  <2>. QED  BY <1>5, <2>1, StillStep DEF SetCompact, IInv
<1>6. ASSUME NEW n \in Limits, SetLimit(n) PROVE IInv'
  <2>1. n \in Nat /\ scrollback \in Seq(Lines)
    BY TerminalAssumption DEF IInv, HistoryInv, Histories
  <2>2. LastOnes(scrollback, n) \in Seq(Lines) /\ Len(LastOnes(scrollback, n)) <= n
    <3>1. Len(scrollback) \in Nat
      BY <2>1
    <3>. QED  BY <2>1, <3>1, LastOnesFacts DEF Lesser
  <2>3. HistoryInv'
    <3>1. limit' = n /\ scrollback' = LastOnes(scrollback, n) /\ Lines' = Lines
      BY <1>6 DEF SetLimit, Lines
    <3>. QED  BY <2>1, <2>2, <3>1 DEF HistoryInv, Histories
  <2>4. PlaceInv' /\ GridInv'
    BY <1>6 DEF IInv, PlaceInv, MarginsInside, GridInv, SetLimit
  <2>. QED  BY <1>6, <2>3, <2>4 DEF IInv, SetLimit
<1>. QED  BY <1>1, <1>2, <1>3, <1>4, <1>5, <1>6 DEF Setting

-----------------------------------------------------------------------------
(* Theorems. *)

LEMMA InitIInv ==
    ASSUME Init
    PROVE  IInv
<1>1. dims \in Dimensions
  BY NormalizedType DEF Init
<1>2. PlaceInv
  BY <1>1, SizeFacts DEF Init, PlaceInv, MarginsInside, Home, FullMargins, Cursor, Modes
<1>3. GridInv
  BY <1>1, NewGridStays DEF Init, GridInv
<1>4. HistoryInv
  <2>1. scrollback = <<>> /\ limit = Default /\ Default \in Nat
    BY TerminalAssumption DEF Init
  <2>. QED  BY <2>1 DEF HistoryInv, Histories, Lines
<1>. QED  BY <1>2, <1>3, <1>4 DEF Init, IInv

LEMMA NextIInv ==
    ASSUME IInv, [Next]_vars
    PROVE  IInv'
<1>1. CASE Next
  BY <1>1, TextStep, MotionStep, EditStep, SettingStep DEF Next
<1>2. CASE UNCHANGED vars
  BY <1>2 DEF vars, IInv, PlaceInv, MarginsInside, GridInv, HistoryInv, Histories, Lines
<1>. QED  BY <1>1, <1>2

\* The strengthened invariant holds of every reachable state, for any sizes,
\* parameters and limits.
THEOREM AlwaysIInv == Spec => []IInv
<1>1. Init => IInv
  BY InitIInv
<1>2. IInv /\ [Next]_vars => IInv'
  BY NextIInv
<1>. QED  BY <1>1, <1>2, PTL DEF Spec

\* The cursor is always on the screen, whatever is sent to the terminal.
THEOREM CursorStaysOnScreen == Spec => []CursorOnScreen
<1>1. IInv => CursorOnScreen
  BY SizeFacts DEF IInv, PlaceInv, CursorOnScreen
<1>. QED  BY <1>1, AlwaysIInv, PTL

\* The scrolling region is never empty and never leaves the screen.
THEOREM MarginsStayInside == Spec => []MarginsInside
<1>1. IInv => MarginsInside
  BY DEF IInv, PlaceInv
<1>. QED  BY <1>1, AlwaysIInv, PTL

\* The scrollback keeps its limit, and its lines the width of the terminal.
THEOREM HistoryStays == Spec => []HistoryHolds
<1>1. ASSUME IInv PROVE HistoryHolds
  <2>1. scrollback \in Seq(Lines) /\ Len(scrollback) <= limit /\ dims.columns \in Nat
    BY <1>1, SizeFacts DEF IInv, PlaceInv, HistoryInv, Histories
  <2>2. ASSUME NEW k \in DOMAIN scrollback PROVE Len(scrollback[k]) = dims.columns
    <3>1. scrollback[k] \in [1 .. dims.columns -> Cell]
      BY <2>1 DEF Lines
    <3>. QED  BY <2>1, <3>1
  <2>. QED  BY <2>1, <2>2 DEF HistoryHolds
<1>. QED  BY <1>1, AlwaysIInv, PTL

\* No grid ever has fewer cells than its columns and rows ask for, so what reads
\* them unchecked stays within them.
THEOREM GridStaysCovered == Spec => []GridCovered
<1>1. IInv => GridCovered
  BY DEF IInv, GridInv, Grids, GridCovered
<1>. QED  BY <1>1, AlwaysIInv, PTL

\* Every variable keeps its type.
THEOREM TypeCorrect == Spec => []TypeOK
<1>1. ASSUME IInv PROVE TypeOK
  <2>1. cursor \in Cursor
    BY <1>1, SizeFacts DEF IInv, PlaceInv, Cursor
  <2>2. primary \in GridType /\ Screen \in GridType /\ alternate \in {{}, {Screen}}
    BY <1>1, ScreenType DEF IInv, GridInv, Grids
  <2>3. scrollback \in Seq(Seq(Cell))
    <3>1. Lines \subseteq Seq(Cell)
      BY <1>1, SizeFacts DEF IInv, PlaceInv, Lines
    <3>2. scrollback \in Seq(Lines)
      BY <1>1 DEF IInv, HistoryInv, Histories
    <3>. QED  BY <3>1, <3>2
  <2>. QED  BY <1>1, <2>1, <2>2, <2>3 DEF IInv, PlaceInv, HistoryInv, TypeOK
<1>. QED  BY <1>1, AlwaysIInv, PTL

-----------------------------------------------------------------------------
(* Panics. *)

\* The effects that have not gone astray: the grid is as it was made, the cursor
\* not below the scrolling region.
Sound ==
    {e \in Effects : e.fine /\ Shaped(e.grid) /\ e.row <= margins.bottom}

LEMMA SoundScrolls ==
    ASSUME PlaceInv, NEW s \in Sound, NEW top \in Nat, NEW n \in Nat, top <= margins.bottom
    PROVE  /\ ScrollUp(s, top, n) \in Sound
           /\ ScrollDown(s, top, n).fine
<1>. DEFINE g == s.grid
            h == ScrolledUp(g, top, margins.bottom, n)
<1>1. s \in Effects /\ s.fine /\ Shaped(g) /\ s.row <= margins.bottom /\ g \in GridType
  BY DEF Sound, Effects, Grids
<1>2. /\ g.columns = dims.columns /\ g.rows = dims.rows
      /\ Len(g.cells) = g.columns * g.rows
      /\ margins.bottom \in Nat /\ margins.bottom < g.rows
  BY <1>1 DEF Shaped, PlaceInv, MarginsInside
<1>3. /\ UpFits(g, top, margins.bottom, n) /\ DownFits(g, top, margins.bottom, n)
      /\ h \in SameShape(g)
  BY <1>1, <1>2, RegionScrolls
<1>5. ScrollUp(s, top, n) = [s EXCEPT !.grid = h] /\ ScrollDown(s, top, n).fine
  BY <1>1, <1>3 DEF ScrollUp, ScrollDown, Effects
<1>6. ScrollUp(s, top, n) \in Effects
  BY <1>1, ScrollStays
<1>. HIDE DEF h
<1>7. Shaped(h)
  BY <1>1, <1>2, <1>3 DEF Shaped, SameShape
<1>8. /\ ScrollUp(s, top, n).grid = h /\ ScrollUp(s, top, n).fine
      /\ ScrollUp(s, top, n).row = s.row
  BY <1>1, <1>5 DEF Effects
<1>9. ScrollUp(s, top, n) \in Sound
  BY <1>1, <1>6, <1>7, <1>8 DEF Sound
<1>. QED  BY <1>5, <1>9

LEMMA SoundCapturing ==
    ASSUME PlaceInv, HistoryInv, NEW s \in Sound, NEW n \in Nat
    PROVE  Capturing(s, n) \in Sound
<1>. DEFINE t == [s EXCEPT !.back = Captured(s.grid, s.back, n)]
<1>1. s \in Effects /\ s.fine /\ Shaped(s.grid) /\ s.row <= margins.bottom
  BY DEF Sound
<1>2. Captured(s.grid, s.back, n) \in Histories
  BY <1>1, CapturedType DEF Effects, Grids, HistoryInv
<1>3. t \in Effects /\ t.fine = s.fine /\ t.grid = s.grid /\ t.row = s.row
  BY <1>1, <1>2 DEF Effects
<1>4. t \in Sound
  BY <1>1, <1>3 DEF Sound
<1>5. margins.top \in Nat /\ margins.top <= margins.bottom
  BY DEF PlaceInv, MarginsInside
<1>. HIDE DEF t
<1>6. ScrollUp(t, margins.top, n) \in Sound
  BY <1>4, <1>5, SoundScrolls
<1>. QED  BY <1>6 DEF Capturing, t

LEMMA SoundFed ==
    ASSUME PlaceInv, HistoryInv, NEW s \in Sound
    PROVE  Fed(s) \in Sound
<1>1. CASE s.row < margins.bottom
  <2>1. Fed(s) \in Effects
    BY FedStays DEF Sound
  <2>2. Fed(s) = [s EXCEPT !.row = s.row + 1]
    BY <1>1 DEF Fed
  <2>3. s \in Effects /\ s.fine /\ Shaped(s.grid) /\ s.row \in Nat /\ margins.bottom \in Nat
    BY SizeFacts DEF Sound, Effects, PlaceInv
  <2>4. Fed(s).fine /\ Fed(s).grid = s.grid /\ Fed(s).row = s.row + 1
    BY <2>2, <2>3 DEF Effects
  <2>. QED  BY <1>1, <2>1, <2>3, <2>4 DEF Sound
<1>2. CASE ~(s.row < margins.bottom)
  BY <1>2, SoundCapturing DEF Fed
<1>. QED  BY <1>1, <1>2

\* In a sound state, whatever lands is fine.
LEMMA SoundSteps ==
    ASSUME IInv, Shaped(Screen), cursor.row <= margins.bottom
    PROVE  /\ Now \in Sound /\ Fed(Now) \in Sound
           /\ \A n \in Nat : /\ ScrollUp(Now, cursor.row, n) \in Sound
                             /\ ScrollDown(Now, cursor.row, n).fine
                             /\ ScrollDown(Now, margins.top, n).fine
                             /\ Capturing(Now, n) \in Sound
                             /\ Feeds(Now, n) \in Sound
<1>1. Now \in Sound
  BY NowIsEffect DEF IInv, Sound, Now
<1>2. /\ cursor.row \in Nat /\ margins.top \in Nat /\ margins.top <= margins.bottom
      /\ PlaceInv /\ HistoryInv
  BY SizeFacts DEF IInv, PlaceInv, MarginsInside
<1>3. ASSUME NEW n \in Nat PROVE Feeds(Now, n) \in Sound
  BY <1>1, <1>2, SoundFed, FeedsStay
<1>. QED  BY <1>1, <1>2, <1>3, SoundScrolls, SoundCapturing, SoundFed

\* Writing keeps the shape of the grid.
LEMMA FillShape ==
    ASSUME PlaceInv, NEW g \in Grids, NEW cell \in Cell, NEW w \in 1 .. 2
    PROVE  Fill(g, cell, w) \in SameShape(g)
<1>. DEFINE at == Position(g, cursor.column, cursor.row)
            g1 == IF modes.insert THEN WithInserted(g, cursor.column, cursor.row, w) ELSE g
            g2 == WithCell(g1, at, cell)
            g3 == WithCell(g2, at + 1, Continuation)
<1>1. cursor.column \in Nat /\ cursor.row \in Nat /\ g \in GridType
  BY SizeFacts DEF PlaceInv, Grids
<1>2. at \in Nat
  BY <1>1 DEF Position, GridType
<1>3. g1 \in SameShape(g)
  <2>1. g \in SameShape(g)
    BY <1>1 DEF SameShape
  <2>. QED  BY <1>1, <2>1, InsertedShape
<1>4. g2 \in SameShape(g1)
  <2>. HIDE DEF g1, at
  <2>. QED  BY <1>2, <1>3, WithCellShape DEF SameShape
<1>5. g3 \in SameShape(g2)
  <2>. HIDE DEF g2, at
  <2>1. at + 1 \in Nat /\ g2 \in GridType
    BY <1>2, <1>4 DEF SameShape
  <2>. QED  BY <2>1, BlankIsCell, WithCellShape
<1>6. Fill(g, cell, w) = g3 \/ Fill(g, cell, w) = g2
  BY DEF Fill
<1>. HIDE DEF g1, g2, g3
<1>. QED  BY <1>3, <1>4, <1>5, <1>6 DEF SameShape

\* What a character writes is sound as well.
LEMMA SoundPut ==
    ASSUME IInv, Shaped(Screen), cursor.row <= margins.bottom,
           NEW glyph \in Glyphs, NEW w \in 1 .. 2
    PROVE  [Now EXCEPT !.grid = Fill(Screen, [glyph |-> glyph, width |-> w], w)] \in Sound
<1>. DEFINE g == Fill(Screen, [glyph |-> glyph, width |-> w], w)
            s == [Now EXCEPT !.grid = g]
<1>1. [glyph |-> glyph, width |-> w] \in Cell
  BY WrittenIsCell
<1>2. g \in SameShape(Screen) /\ g \in Grids
  BY <1>1, ScreenType, FillShape, FillStays DEF IInv
<1>. HIDE DEF g
<1>3. Now \in Effects /\ Now.fine /\ Now.row = cursor.row
  BY NowIsEffect DEF IInv, Now
<1>4. s \in Effects /\ s.fine /\ s.row = cursor.row /\ s.grid = g
  BY <1>2, <1>3 DEF Effects
<1>5. Shaped(g)
  BY <1>2 DEF SameShape, Shaped
<1>. HIDE DEF s
<1>6. s \in Sound
  BY <1>4, <1>5 DEF Sound
<1>. QED  BY <1>6 DEF s, g

LEMMA NoPanic ==
    ASSUME IInv, Next, Shaped(Screen), cursor.row <= margins.bottom, ~panicked
    PROVE  ~panicked'
<1>1. \A s \in Sound : s.fine
  BY DEF Sound
<1>2. \A s, c : s.fine /\ Land(s, c) => ~panicked'
  BY DEF Land
<1>3. \A c, r : MoveTo(c, r) => ~panicked'
  BY DEF MoveTo
<1>4. /\ Fed(Now).fine /\ Now.fine
      /\ \A n \in Nat : /\ ScrollUp(Now, cursor.row, n).fine
                        /\ ScrollDown(Now, cursor.row, n).fine
                        /\ ScrollDown(Now, margins.top, n).fine
                        /\ Capturing(Now, n).fine
                        /\ Feeds(Now, n).fine
  BY <1>1, SoundSteps
<1>5. \A g : [Now EXCEPT !.grid = g].fine
  BY DEF Now
<1>6. ASSUME Overflows PROVE FALSE
  <2>1. cursor.column < Screen.columns
    BY SizeFacts DEF IInv, PlaceInv, Shaped
  <2>. QED  BY <1>6, <2>1, SizeFacts DEF Overflows, Within, IInv, PlaceInv, Shaped
<1>7. \A n \in Nat : AtLeast1(n) \in Nat
  BY DEF AtLeast1, Greater
<1>8. \A g : Shown(g) => ~panicked'
  BY <1>2, <1>5 DEF Shown
<1>9. CASE Text
  <2>1. ASSUME NEW glyph \in Glyphs, NEW w \in 1 .. 2, Put(glyph, w) PROVE ~panicked'
    <3>. DEFINE s == [Now EXCEPT !.grid = Fill(Screen, [glyph |-> glyph, width |-> w], w)]
    <3>1. s \in Sound /\ s.fine
      BY <1>1, SoundPut
    <3>2. Fed(s).fine
      BY <1>1, <3>1, SoundFed DEF IInv
    <3>3. \E c : Land(s, c) \/ Land(Fed(s), c)
      BY <2>1 DEF Put
    <3>. HIDE DEF s
    <3>. QED  BY <1>2, <3>1, <3>2, <3>3
  <2>2. LineFeed \/ NewLine \/ ReverseIndex => ~panicked'
    BY <1>2, <1>3, <1>4 DEF LineFeed, NewLine, ReverseIndex
  <2>3. CarriageReturn \/ Backspace \/ Tab \/ RestoreCursor => ~panicked'
    BY <1>3 DEF CarriageReturn, Backspace, Tab, RestoreCursor
  <2>4. SaveCursor \/ Reset => ~panicked'
    BY DEF SaveCursor, Reset
  <2>. QED  BY <1>6, <1>9, <2>1, <2>2, <2>3, <2>4 DEF Text
<1>10. CASE Motion
  <2>1. ASSUME NEW n \in Counts,
               Up(n) \/ PrevLine(n) \/ Down(n) \/ Right(n) \/ Left(n) \/ NextLine(n)
        PROVE  ~panicked'
    <3>1. n \in Nat
      BY TerminalAssumption
    <3>2. NextLine(n) => ~panicked'
      BY <1>2, <1>4, <3>1 DEF NextLine
    <3>. QED  BY <1>3, <2>1, <3>2 DEF Up, PrevLine, Down, Right, Left
  <2>2. \A p : Column(p) \/ Row(p) => ~panicked'
    BY <1>3 DEF Column, Row
  <2>3. \A p, q : GoTo(p, q) \/ SetMargins(p, q) => ~panicked'
    BY <1>3 DEF GoTo, SetMargins
  <2>. QED  BY <1>10, <2>1, <2>2, <2>3 DEF Motion
<1>11. CASE Edit
  <2>1. \A n : InsertCells(n) \/ DeleteCells(n) \/ EraseCells(n) => ~panicked'
    BY <1>8 DEF InsertCells, DeleteCells, EraseCells
  <2>2. EraseDisplay \/ EraseLine => ~panicked'
    BY <1>8 DEF EraseDisplay, EraseLine
  <2>3. ASSUME NEW n \in Counts,
               InsertLines(n) \/ DeleteLines(n) \/ ScrollLinesUp(n) \/ ScrollLinesDown(n)
        PROVE  ~panicked'
    <3>1. AtLeast1(n) \in Nat
      BY <1>7, TerminalAssumption
    <3>. QED  BY <1>2, <1>4, <2>3, <3>1 DEF InsertLines, DeleteLines, ScrollLinesUp, ScrollLinesDown
  <2>. QED  BY <1>6, <1>11, <2>1, <2>2, <2>3 DEF Edit
<1>12. CASE Setting
  BY <1>12 DEF Setting, SetModes, EnterAlternate, LeaveAlternate, Resize, SetCompact, SetLimit
<1>. QED  BY <1>9, <1>10, <1>11, <1>12 DEF Next

\* A terminal whose grid has the shape of the terminal and whose cursor is not
\* below the scrolling region survives whatever is sent to it: it takes a resize,
\* or a cursor moved below the region, for an index to leave its range.
THEOREM PanicsAreAstray == Spec => PanicsOnlyAstray
<1>1. ASSUME IInv, [Next]_vars, panicked' /\ ~panicked
      PROVE  ~Shaped(Screen) \/ cursor.row > margins.bottom
  <2>1. Next
    BY <1>1 DEF vars
  <2>2. cursor.row \in Nat /\ margins.bottom \in Nat
    BY <1>1, SizeFacts DEF IInv, PlaceInv
  <2>. QED  BY <1>1, <2>1, <2>2, NoPanic
<1>. QED  BY <1>1, AlwaysIInv, PTL DEF Spec, PanicsOnlyAstray

-----------------------------------------------------------------------------
(* The primary screen. *)

\* The effects that leave the scrollback as it is.
Quiet == {e \in Effects : e.back = scrollback}

LEMMA QuietScrolls ==
    ASSUME PlaceInv, NEW s \in Quiet, NEW top \in Nat, NEW n \in Nat
    PROVE  ScrollUp(s, top, n) \in Quiet /\ ScrollDown(s, top, n) \in Quiet
<1>1. s \in Effects /\ s.back = scrollback
  BY DEF Quiet
<1>2. ScrollUp(s, top, n) \in Effects /\ ScrollDown(s, top, n) \in Effects
  BY <1>1, ScrollStays
<1>3. \A g : [s EXCEPT !.grid = g].back = s.back
  BY <1>1 DEF Effects
<1>4. [s EXCEPT !.fine = FALSE].back = s.back
  BY <1>1 DEF Effects
<1>5. ScrollUp(s, top, n).back = scrollback /\ ScrollDown(s, top, n).back = scrollback
  BY <1>1, <1>3, <1>4 DEF ScrollUp, ScrollDown
<1>. QED  BY <1>2, <1>5 DEF Quiet

\* With the alternate screen up, nothing is captured.
LEMMA QuietFed ==
    ASSUME PlaceInv, HistoryInv, alternate # {}, NEW s \in Quiet
    PROVE  Fed(s) \in Quiet /\ \A n \in Nat : Capturing(s, n) \in Quiet
<1>1. s \in Effects /\ s.back = scrollback
  BY DEF Quiet
<1>2. ASSUME NEW n \in Nat PROVE Capturing(s, n) \in Quiet
  <2>1. Captured(s.grid, s.back, n) = s.back
    BY DEF Captured
  <2>2. [s EXCEPT !.back = s.back] = s
    BY <1>1 DEF Effects
  <2>3. margins.top \in Nat
    BY DEF PlaceInv
  <2>. QED  BY <2>1, <2>2, <2>3, QuietScrolls DEF Capturing
<1>3. CASE s.row < margins.bottom
  <2>1. Fed(s) = [s EXCEPT !.row = s.row + 1]
    BY <1>3 DEF Fed
  <2>2. Fed(s) \in Effects
    BY <1>1, FedStays
  <2>3. Fed(s).back = scrollback
    BY <1>1, <2>1 DEF Effects
  <2>. QED  BY <1>2, <2>2, <2>3 DEF Quiet
<1>4. CASE ~(s.row < margins.bottom)
  BY <1>2, <1>4 DEF Fed
<1>. QED  BY <1>3, <1>4, <1>2

PrimaryKeptNow == primary' = primary /\ Len(scrollback') <= Len(scrollback)

LEMMA KeptStep ==
    ASSUME IInv, Next, alternate # {}, ~Reset
    PROVE  PrimaryKeptNow
<1>1. Len(scrollback) \in Nat /\ scrollback \in Seq(Lines) /\ limit \in Nat
  BY DEF IInv, HistoryInv, Histories
<1>2. primary' = primary /\ scrollback' = scrollback => PrimaryKeptNow
  BY <1>1 DEF PrimaryKeptNow
<1>3. \A s \in Quiet : \A c : Land(s, c) => PrimaryKeptNow
  BY <1>2 DEF Land, Show, Quiet
<1>4. \A c, r : MoveTo(c, r) => PrimaryKeptNow
  BY <1>2 DEF MoveTo
<1>5. /\ Now \in Quiet
      /\ \A s \in Quiet : Fed(s) \in Quiet /\ \A n \in Nat : Capturing(s, n) \in Quiet
  <2>1. Now \in Quiet
    BY NowIsEffect DEF IInv, Quiet, Now
  <2>. QED  BY <2>1, QuietFed DEF IInv
<1>6. \A n \in Nat : /\ ScrollUp(Now, cursor.row, n) \in Quiet
                     /\ ScrollDown(Now, cursor.row, n) \in Quiet
                     /\ ScrollDown(Now, margins.top, n) \in Quiet
                     /\ Feeds(Now, n) \in Quiet
  <2>1. cursor.row \in Nat /\ margins.top \in Nat
    BY SizeFacts DEF IInv, PlaceInv
  <2>2. \A n \in Nat : Feeds(Now, n) \in Quiet
    BY <1>5, FeedsStay
  <2>. QED  BY <1>5, <2>1, <2>2, QuietScrolls DEF IInv
<1>7. \A g \in Grids : [Now EXCEPT !.grid = g] \in Quiet
  BY <1>5 DEF Quiet, Effects
<1>8. CASE Text
  <2>1. ASSUME NEW glyph \in Glyphs, NEW w \in 1 .. 2, Put(glyph, w) PROVE PrimaryKeptNow
    <3>. DEFINE g == Fill(Screen, [glyph |-> glyph, width |-> w], w)
                s == [Now EXCEPT !.grid = g]
    <3>1. g \in Grids
      BY WrittenIsCell, ScreenType, FillStays DEF IInv
    <3>2. \E c : Land(s, c) \/ Land(Fed(s), c)
      BY <2>1 DEF Put
    <3>. HIDE DEF g
    <3>3. s \in Quiet
      BY <1>7, <3>1
    <3>. HIDE DEF s
    <3>. QED  BY <1>3, <1>5, <3>2, <3>3
  <2>2. LineFeed \/ NewLine \/ ReverseIndex => PrimaryKeptNow
    BY <1>3, <1>4, <1>5, <1>6 DEF LineFeed, NewLine, ReverseIndex
  <2>3. CarriageReturn \/ Backspace \/ Tab \/ RestoreCursor => PrimaryKeptNow
    BY <1>4 DEF CarriageReturn, Backspace, Tab, RestoreCursor
  <2>4. SaveCursor \/ Overflows => PrimaryKeptNow
    BY <1>2 DEF SaveCursor, Overflows
  <2>. QED  BY <1>8, <2>1, <2>2, <2>3, <2>4 DEF Text
<1>9. CASE Motion
  <2>1. ASSUME NEW n \in Counts,
               Up(n) \/ PrevLine(n) \/ Down(n) \/ Right(n) \/ Left(n) \/ NextLine(n)
        PROVE  PrimaryKeptNow
    <3>1. n \in Nat
      BY TerminalAssumption
    <3>2. NextLine(n) => PrimaryKeptNow
      BY <1>3, <1>6, <3>1 DEF NextLine
    <3>. QED  BY <1>4, <2>1, <3>2 DEF Up, PrevLine, Down, Right, Left
  <2>2. \A p : Column(p) \/ Row(p) => PrimaryKeptNow
    BY <1>4 DEF Column, Row
  <2>3. \A p, q : GoTo(p, q) \/ SetMargins(p, q) => PrimaryKeptNow
    BY <1>2, <1>4 DEF GoTo, SetMargins
  <2>. QED  BY <1>9, <2>1, <2>2, <2>3 DEF Motion
<1>10. CASE Edit
  <2>1. \A g : Shown(g) => PrimaryKeptNow
    <3>1. \A g : [Now EXCEPT !.grid = g].back = scrollback
      BY DEF Now
    <3>. QED  BY <1>2, <3>1 DEF Shown, Land, Show
  <2>2. \A n : InsertCells(n) \/ DeleteCells(n) \/ EraseCells(n) => PrimaryKeptNow
    BY <2>1 DEF InsertCells, DeleteCells, EraseCells
  <2>3. EraseDisplay \/ EraseLine => PrimaryKeptNow
    BY <2>1 DEF EraseDisplay, EraseLine
  <2>4. ASSUME NEW n \in Counts,
               InsertLines(n) \/ DeleteLines(n) \/ ScrollLinesUp(n) \/ ScrollLinesDown(n)
        PROVE  PrimaryKeptNow
    <3>1. AtLeast1(n) \in Nat
      BY TerminalAssumption DEF AtLeast1, Greater
    <3>. QED  BY <1>3, <1>5, <1>6, <2>4, <3>1
              DEF InsertLines, DeleteLines, ScrollLinesUp, ScrollLinesDown
  <2>5. Overflows => PrimaryKeptNow
    BY <1>2 DEF Overflows
  <2>. QED  BY <1>10, <2>2, <2>3, <2>4, <2>5 DEF Edit
<1>11. CASE Setting
  <2>1. ASSUME NEW d \in Sizes, Resize(d) PROVE PrimaryKeptNow
    <3>1. Normalized(d) \in Dimensions
      BY NormalizedType
    <3>. DEFINE back == Rewrapped(scrollback, Normalized(d).columns)
    <3>2. back \in Seq([1 .. Normalized(d).columns -> Cell]) /\ Len(back) = Len(scrollback)
      BY <1>1, <3>1, RewrappedType DEF Dimensions, IInv, PlaceInv
    <3>3. scrollback' = LastOnes(back, limit) /\ primary' = primary
      BY <2>1 DEF Resize
    <3>. HIDE DEF back
    <3>4. Len(LastOnes(back, limit)) = Lesser(Len(back), limit)
      BY <1>1, <3>2, LastOnesFacts
    <3>. QED  BY <1>1, <3>2, <3>3, <3>4 DEF PrimaryKeptNow, Lesser
  <2>2. ASSUME NEW n \in Limits, SetLimit(n) PROVE PrimaryKeptNow
    <3>1. n \in Nat
      BY TerminalAssumption
    <3>2. Len(LastOnes(scrollback, n)) = Lesser(Len(scrollback), n)
      BY <1>1, <3>1, LastOnesFacts
    <3>. QED  BY <1>1, <2>2, <3>1, <3>2 DEF PrimaryKeptNow, Lesser, SetLimit
  <2>3. SetModes \/ SetCompact \/ LeaveAlternate => PrimaryKeptNow
    BY <1>2 DEF SetModes, SetCompact, LeaveAlternate
  <2>4. \A saving : EnterAlternate(saving) => PrimaryKeptNow
    BY <1>2 DEF EnterAlternate
  <2>. QED  BY <1>11, <2>1, <2>2, <2>3, <2>4 DEF Setting
<1>. QED  BY <1>8, <1>9, <1>10, <1>11 DEF Next

\* While the alternate screen is up, the primary one and the scrollback wait,
\* but for a reset.
THEOREM PrimaryStays == Spec => PrimaryKept
<1>1. ASSUME IInv, [Next]_vars, alternate # {}, ~Reset
      PROVE  primary' = primary /\ Len(scrollback') <= Len(scrollback)
  <2>1. CASE Next
    BY <1>1, <2>1, KeptStep DEF PrimaryKeptNow
  <2>2. CASE UNCHANGED vars
    <3>1. Len(scrollback) \in Nat
      BY <1>1 DEF IInv, HistoryInv, Histories
    <3>. QED  BY <2>2, <3>1 DEF vars
  <2>. QED  BY <1>1, <2>1, <2>2
<1>. QED  BY <1>1, AlwaysIInv, PTL DEF Spec, PrimaryKept

-----------------------------------------------------------------------------
(* Rows.  The grid is one vector; in a grid of the terminal's shape, row r is *)
(* its cells from r * columns + 1 to (r + 1) * columns.                       *)

\* Places of rows are in the order of the rows.
LEMMA RowPlaces ==
    ASSUME NEW w \in Nat, NEW r \in Nat, NEW q \in Nat, NEW c \in 1 .. w
    PROVE  /\ r * w \in Nat /\ q * w \in Nat /\ r * w + c \in Nat
           /\ r < q => r * w + c <= q * w
           /\ q <= r => q * w < r * w + c
<1>1. r * w \in Nat /\ q * w \in Nat /\ (r + 1) * w = r * w + w
  OBVIOUS
<1>2. r < q => (r + 1) * w <= q * w
  BY Monotonic
<1>3. q <= r => q * w <= r * w
  BY Monotonic
<1>. QED  BY <1>1, <1>2, <1>3

LEMMA RowCells ==
    ASSUME NEW g \in GridType, Shaped(g), NEW r \in Nat, r < dims.rows
    PROVE  /\ RowOf(g, r) \in Seq(Cell) /\ Len(RowOf(g, r)) = dims.columns
           /\ \A c \in 1 .. dims.columns :
                 /\ r * dims.columns + c \in 1 .. Len(g.cells)
                 /\ RowOf(g, r)[c] = g.cells[r * dims.columns + c]
<1>. DEFINE w == dims.columns
            a == r * w
<1>1. /\ w \in Nat /\ dims.rows \in Nat /\ g.cells \in Seq(Cell) /\ Len(g.cells) \in Nat
      /\ g.columns = w /\ Len(g.cells) = w * dims.rows
  BY DEF GridType, Shaped
<1>2. a \in Nat /\ (r + 1) * w = a + w /\ a + w \in Nat
  BY <1>1
<1>3. a + w <= Len(g.cells)
  <2>1. r + 1 \in Nat /\ r + 1 <= dims.rows
    BY <1>1
  <2>2. (r + 1) * w <= dims.rows * w
    BY <1>1, <2>1, Monotonic
  <2>3. dims.rows * w = w * dims.rows
    BY <1>1
  <2>. QED  BY <1>1, <1>2, <2>2, <2>3
<1>4. RowOf(g, r) = SubSeq(g.cells, a + 1, a + w)
  <2>1. a + 0 = a /\ (r + 1) * w + 0 = a + w
    BY <1>1, <1>2
  <2>. QED  BY <1>1, <2>1 DEF RowOf, Position
<1>. HIDE DEF w, a
<1>5. /\ SubSeq(g.cells, a + 1, a + w) \in Seq(Cell)
      /\ Len(SubSeq(g.cells, a + 1, a + w)) = IF a + 1 <= a + w THEN a + w - (a + 1) + 1 ELSE 0
      /\ \A i \in 1 .. a + w - (a + 1) + 1 : SubSeq(g.cells, a + 1, a + w)[i] = g.cells[a + 1 + i - 1]
  BY <1>1, <1>2, <1>3, SubSeqProperties
<1>6. a + w - (a + 1) + 1 = w /\ (~(a + 1 <= a + w) => w = 0) /\ \A i \in 1 .. w : a + 1 + i - 1 = a + i
  BY <1>1, <1>2
<1>7. \A i \in 1 .. w : a + i \in 1 .. Len(g.cells)
  BY <1>1, <1>2, <1>3
<1>. QED  BY <1>4, <1>5, <1>6, <1>7 DEF w, a

\* A row is the same as another, or blank, when all its cells are.
LEMMA RowsAgree ==
    ASSUME NEW g \in GridType, Shaped(g), NEW h \in GridType, Shaped(h),
           NEW r \in Nat, r < dims.rows, NEW q \in Nat, q < dims.rows,
           \A c \in 1 .. dims.columns :
              h.cells[r * dims.columns + c] = g.cells[q * dims.columns + c]
    PROVE  RowOf(h, r) = RowOf(g, q)
<1>. DEFINE s == RowOf(h, r)
            t == RowOf(g, q)
<1>1. /\ s \in Seq(Cell) /\ Len(s) = dims.columns
      /\ \A c \in 1 .. dims.columns : s[c] = h.cells[r * dims.columns + c]
  BY RowCells
<1>2. /\ t \in Seq(Cell) /\ Len(t) = dims.columns
      /\ \A c \in 1 .. dims.columns : t[c] = g.cells[q * dims.columns + c]
  BY RowCells
<1>. HIDE DEF s, t
<1>3. \A c \in 1 .. dims.columns : s[c] = t[c]
  BY <1>1, <1>2
<1>4. s = t
  BY <1>1, <1>2, <1>3, SeqEqual
<1>. QED  BY <1>4 DEF s, t

LEMMA RowBlank ==
    ASSUME NEW h \in GridType, Shaped(h), NEW r \in Nat, r < dims.rows,
           \A c \in 1 .. dims.columns : h.cells[r * dims.columns + c] = Blank
    PROVE  RowOf(h, r) = BlankRow
<1>. DEFINE s == RowOf(h, r)
<1>1. /\ s \in Seq(Cell) /\ Len(s) = dims.columns
      /\ \A c \in 1 .. dims.columns : s[c] = h.cells[r * dims.columns + c]
  BY RowCells
<1>2. dims.columns \in Nat
  BY DEF GridType, Shaped
<1>3. BlankRow \in Seq(Cell) /\ Len(BlankRow) = dims.columns /\ \A c \in 1 .. dims.columns : BlankRow[c] = Blank
  BY <1>2, BlankIsCell DEF BlankRow
<1>. HIDE DEF s
<1>4. \A c \in 1 .. dims.columns : s[c] = BlankRow[c]
  BY <1>1, <1>3
<1>5. s = BlankRow
  BY <1>1, <1>3, <1>4, SeqEqual
<1>. QED  BY <1>5 DEF s

\* Where a row of the region comes from when n rows leave at its top.
UpRow(g, top, bottom, n, r) ==
    IF r \notin top .. bottom THEN RowOf(g, r)
    ELSE IF r + n <= bottom THEN RowOf(g, r + n) ELSE BlankRow

\* The same when they leave at its bottom.
DownRow(g, top, bottom, n, r) ==
    IF r \notin top .. bottom THEN RowOf(g, r)
    ELSE IF r - n >= top THEN RowOf(g, r - n) ELSE BlankRow

\* Draining and inserting cells of the vector scrolls the rows of the region.
LEMMA ScrolledRows ==
    ASSUME dims \in Dimensions, NEW g \in GridType, Shaped(g),
           NEW top \in Nat, NEW bottom \in Nat, top <= bottom, bottom < dims.rows,
           NEW n \in Nat
    PROVE  /\ UpFits(g, top, bottom, n) /\ DownFits(g, top, bottom, n)
           /\ Shaped(ScrolledUp(g, top, bottom, n)) /\ Shaped(ScrolledDown(g, top, bottom, n))
           /\ \A r \in 0 .. dims.rows - 1 :
                 /\ RowOf(ScrolledUp(g, top, bottom, n), r) = UpRow(g, top, bottom, n, r)
                 /\ RowOf(ScrolledDown(g, top, bottom, n), r) = DownRow(g, top, bottom, n, r)
<1>. DEFINE w    == dims.columns
            k    == Lesser(n, Height(top, bottom))
            a    == Start(g, top)
            e    == End(g, bottom)
            m    == Moved(g, top, bottom, n)
            up   == ScrolledUp(g, top, bottom, n)
            down == ScrolledDown(g, top, bottom, n)
<1>1. w \in Nat /\ dims.rows \in Nat /\ g.columns = w /\ g.rows = dims.rows
      /\ Len(g.cells) = g.columns * g.rows
  BY SizeFacts DEF Shaped
<1>2. a = top * w /\ e = (bottom + 1) * w /\ m = k * w
  BY <1>1 DEF Start, End, Moved
<1>3. /\ k \in Nat /\ k <= n /\ top + k <= bottom + 1
      /\ k # n => top + k = bottom + 1
  BY DEF Lesser, Height, SatSub
<1>4. bottom < g.rows
  BY <1>1
<1>5. /\ UpFits(g, top, bottom, n) /\ DownFits(g, top, bottom, n)
      /\ up \in SameShape(g) /\ MovedUp(g, up, a, e, m)
      /\ down \in SameShape(g) /\ MovedDown(g, down, a, e, m)
  BY <1>1, <1>4, RegionScrolls
<1>. HIDE DEF w, k, up, down, a, e, m
<1>6. Shaped(up) /\ Shaped(down) /\ up \in GridType /\ down \in GridType
  BY <1>5 DEF SameShape, Shaped
<1>7. ASSUME NEW r \in 0 .. dims.rows - 1
      PROVE  RowOf(up, r) = UpRow(g, top, bottom, n, r) /\ RowOf(down, r) = DownRow(g, top, bottom, n, r)
  <2>1. r \in Nat /\ r < dims.rows
    BY <1>1
  <2>2. ASSUME NEW c \in 1 .. w
        PROVE  /\ up.cells[r * w + c] =
                     IF r < top \/ bottom < r THEN g.cells[r * w + c]
                     ELSE IF r + k <= bottom THEN g.cells[(r + k) * w + c] ELSE Blank
               /\ down.cells[r * w + c] =
                     IF r < top \/ bottom < r THEN g.cells[r * w + c]
                     ELSE IF r < top + k THEN Blank ELSE g.cells[(r - k) * w + c]
    <3>. DEFINE p == r * w + c
    <3>1. p \in 1 .. Len(g.cells)
      BY <2>1, RowCells DEF w
    <3>2. /\ a \in Nat /\ p \in Nat
          /\ r < top => p <= a
          /\ top <= r => a < p
      BY <1>1, <1>2, <2>1, RowPlaces
    <3>3. /\ e \in Nat
          /\ r < bottom + 1 => p <= e
          /\ bottom + 1 <= r => e < p
      <4>1. bottom + 1 \in Nat
        OBVIOUS
      <4>. QED  BY <1>1, <1>2, <2>1, <4>1, RowPlaces
    <3>4. m \in Nat /\ p + m = (r + k) * w + c /\ a + m = (top + k) * w
      <4>1. k * w \in Nat /\ (r + k) * w = r * w + k * w /\ (top + k) * w = top * w + k * w /\ r * w \in Nat
        BY <1>1, <1>3, <2>1
      <4>. QED  BY <1>2, <4>1
    <3>5. /\ r + k < bottom + 1 => p + m <= e
          /\ bottom + 1 <= r + k => e < p + m
      <4>1. bottom + 1 \in Nat /\ r + k \in Nat
        BY <1>3, <2>1
      <4>2. /\ r + k < bottom + 1 => (r + k) * w + c <= (bottom + 1) * w
            /\ bottom + 1 <= r + k => (bottom + 1) * w < (r + k) * w + c
        BY <1>1, <4>1, RowPlaces
      <4>. QED  BY <1>2, <3>4, <4>2
    <3>6. /\ r < top + k => p <= a + m
          /\ top + k <= r => a + m < p
      <4>1. top + k \in Nat
        BY <1>3
      <4>2. /\ r < top + k => r * w + c <= (top + k) * w
            /\ top + k <= r => (top + k) * w < r * w + c
        BY <1>1, <2>1, <4>1, RowPlaces
      <4>. QED  BY <3>4, <4>2
    <3>7. k <= r => p - m = (r - k) * w + c
      <4>1. k <= r => (r - k) * w = r * w - k * w /\ r * w \in Nat /\ k * w \in Nat
        BY <1>1, <1>3, <2>1
      <4>. QED  BY <1>2, <4>1
    <3>. HIDE DEF p
    <3>8. /\ p <= a <=> r < top
          /\ e < p <=> bottom < r
          /\ p <= e - m <=> r + k <= bottom
          /\ p <= a + m <=> r < top + k
          /\ ~(r < top + k) => k <= r
      BY <1>3, <2>1, <3>2, <3>3, <3>4, <3>5, <3>6
    <3>9. up.cells[p] = IF r < top \/ bottom < r THEN g.cells[p]
                        ELSE IF r + k <= bottom THEN g.cells[p + m] ELSE Blank
      BY <1>5, <3>1, <3>8 DEF MovedUp
    <3>10. down.cells[p] = IF r < top \/ bottom < r THEN g.cells[p]
                           ELSE IF r < top + k THEN Blank ELSE g.cells[p - m]
      BY <1>5, <3>1, <3>8 DEF MovedDown
    <3>. QED  BY <3>4, <3>7, <3>8, <3>9, <3>10 DEF p
  <2>3. ASSUME r \notin top .. bottom
        PROVE  RowOf(up, r) = RowOf(g, r) /\ RowOf(down, r) = RowOf(g, r)
    <3>1. r < top \/ bottom < r
      BY <2>1, <2>3
    <3>2. ASSUME NEW c \in 1 .. w
          PROVE  up.cells[r * w + c] = g.cells[r * w + c] /\ down.cells[r * w + c] = g.cells[r * w + c]
      BY <2>2, <3>1
    <3>. QED  BY <1>6, <2>1, <3>2, RowsAgree DEF w
  <2>4. ASSUME r \in top .. bottom, r + n <= bottom
        PROVE  RowOf(up, r) = RowOf(g, r + n)
    <3>1. k = n /\ r + n \in Nat /\ r + n < dims.rows
      BY <1>1, <1>3, <2>1, <2>4
    <3>2. ASSUME NEW c \in 1 .. w PROVE up.cells[r * w + c] = g.cells[(r + n) * w + c]
      BY <2>1, <2>2, <2>4, <3>1
    <3>. QED  BY <1>6, <2>1, <3>1, <3>2, RowsAgree DEF w
  <2>5. ASSUME r \in top .. bottom, ~(r + n <= bottom)
        PROVE  RowOf(up, r) = BlankRow
    <3>1. ~(r + k <= bottom)
      BY <1>3, <2>1, <2>5
    <3>2. ASSUME NEW c \in 1 .. w PROVE up.cells[r * w + c] = Blank
      BY <2>1, <2>2, <2>5, <3>1
    <3>. QED  BY <1>6, <2>1, <3>2, RowBlank DEF w
  <2>6. ASSUME r \in top .. bottom, r - n >= top
        PROVE  RowOf(down, r) = RowOf(g, r - n)
    <3>1. k = n /\ r - n \in Nat /\ r - n < dims.rows /\ ~(r < top + k) /\ k <= r
      BY <1>1, <1>3, <2>1, <2>6
    <3>2. ASSUME NEW c \in 1 .. w PROVE down.cells[r * w + c] = g.cells[(r - n) * w + c]
      BY <2>1, <2>2, <2>6, <3>1
    <3>. QED  BY <1>6, <2>1, <3>1, <3>2, RowsAgree DEF w
  <2>7. ASSUME r \in top .. bottom, ~(r - n >= top)
        PROVE  RowOf(down, r) = BlankRow
    <3>1. r < top + k
      BY <1>3, <2>1, <2>7
    <3>2. ASSUME NEW c \in 1 .. w PROVE down.cells[r * w + c] = Blank
      BY <2>1, <2>2, <2>7, <3>1
    <3>. QED  BY <1>6, <2>1, <3>2, RowBlank DEF w
  <2>. QED  BY <2>3, <2>4, <2>5, <2>6, <2>7 DEF UpRow, DownRow
<1>. QED  BY <1>5, <1>6, <1>7 DEF up, down

\* What the invariant says of the scrolling region is enough for every scroll of
\* a grid in shape, from the top margin or from the cursor, to be one of rows.
THEOREM RowsScroll == Spec => []ScrollsByRows
<1>1. ASSUME IInv PROVE ScrollsByRows
  <2>1. SUFFICES ASSUME Shaped(Screen),
                        NEW top \in {margins.top, cursor.row} \cap (0 .. margins.bottom),
                        NEW n \in 1 .. dims.rows
                 PROVE  /\ UpFits(Screen, top, margins.bottom, n) /\ DownFits(Screen, top, margins.bottom, n)
                        /\ \A r \in 0 .. dims.rows - 1 :
                              /\ RowOf(ScrolledUp(Screen, top, margins.bottom, n), r) =
                                     UpRow(Screen, top, margins.bottom, n, r)
                              /\ RowOf(ScrolledDown(Screen, top, margins.bottom, n), r) =
                                     DownRow(Screen, top, margins.bottom, n, r)
    BY DEF ScrollsByRows, UpRow, DownRow
  <2>2. Screen \in GridType
    BY <1>1, ScreenType DEF IInv, Grids
  <2>3. dims \in Dimensions /\ margins.bottom \in Nat /\ margins.bottom < dims.rows
    BY <1>1 DEF IInv, PlaceInv, MarginsInside
  <2>4. top \in Nat /\ top <= margins.bottom /\ n \in Nat
    BY <2>3, SizeFacts
  <2>. QED  BY <2>1, <2>2, <2>3, <2>4, ScrolledRows
<1>. QED  BY <1>1, AlwaysIInv, PTL DEF Spec

-----------------------------------------------------------------------------
(* What scrolls, and what edits a line. *)

\* The grid that a sequence lands is the one shown.
LEMMA LandShows ==
    ASSUME NEW s, NEW c, Land(s, c)
    PROVE  Screen' = s.grid
<1>1. Show(s.grid)
  BY DEF Land
<1>2. CASE alternate = {}
  BY <1>1, <1>2 DEF Show, Screen
<1>3. CASE alternate # {}
  <2>1. alternate' = {s.grid}
    BY <1>1, <1>3 DEF Show
  <2>. QED  BY <2>1 DEF Screen
<1>. QED  BY <1>2, <1>3

LEMMA MoveShows ==
    ASSUME NEW c, NEW r, MoveTo(c, r)
    PROVE  Screen' = Screen
BY DEF MoveTo, Screen

\* The grids whose rows outside the region are those of the screen.
OutsideAsIs(g) ==
    \A r \in 0 .. dims.rows - 1 : r \notin margins.top .. margins.bottom => RowOf(g, r) = RowOf(Screen, r)

LEMMA ScrollsOutside ==
    ASSUME IInv, Shaped(Screen), cursor.row \in margins.top .. margins.bottom,
           NEW s, s.grid = Screen, s \in Effects,
           NEW top \in {margins.top, cursor.row}, NEW n \in Nat
    PROVE  OutsideAsIs(ScrollUp(s, top, n).grid) /\ OutsideAsIs(ScrollDown(s, top, n).grid)
<1>. DEFINE b == margins.bottom
<1>1. /\ dims \in Dimensions /\ top \in Nat /\ b \in Nat /\ top <= b /\ b < dims.rows
      /\ margins.top \in Nat /\ margins.top <= top
  BY SizeFacts DEF IInv, PlaceInv, MarginsInside
<1>2. Screen \in GridType
  BY ScreenType DEF IInv, Grids
<1>3. /\ UpFits(Screen, top, b, n) /\ DownFits(Screen, top, b, n)
      /\ \A r \in 0 .. dims.rows - 1 :
            /\ RowOf(ScrolledUp(Screen, top, b, n), r) = UpRow(Screen, top, b, n, r)
            /\ RowOf(ScrolledDown(Screen, top, b, n), r) = DownRow(Screen, top, b, n, r)
  BY <1>1, <1>2, ScrolledRows
<1>4. \A r \in 0 .. dims.rows - 1 : r \notin margins.top .. b => r \notin top .. b
  BY <1>1, SizeFacts
<1>5. /\ OutsideAsIs(ScrolledUp(Screen, top, b, n)) /\ OutsideAsIs(ScrolledDown(Screen, top, b, n))
  BY <1>3, <1>4 DEF OutsideAsIs, UpRow, DownRow
<1>6. /\ ScrollUp(s, top, n) = [s EXCEPT !.grid = ScrolledUp(Screen, top, b, n)]
      /\ ScrollDown(s, top, n) = [s EXCEPT !.grid = ScrolledDown(Screen, top, b, n)]
  BY <1>3 DEF ScrollUp, ScrollDown
<1>7. /\ ScrollUp(s, top, n).grid = ScrolledUp(Screen, top, b, n)
      /\ ScrollDown(s, top, n).grid = ScrolledDown(Screen, top, b, n)
  <2>. HIDE DEF b
  <2>. QED  BY <1>6 DEF Effects
<1>. QED  BY <1>5, <1>7

LEMMA FeedsOutside ==
    ASSUME IInv, Shaped(Screen), cursor.row \in margins.top .. margins.bottom
    PROVE  /\ OutsideAsIs(Fed(Now).grid)
           /\ \A n \in Nat : OutsideAsIs(Capturing(Now, n).grid)
<1>1. Now \in Effects /\ Now.grid = Screen
  BY NowIsEffect DEF IInv, Now
<1>2. ASSUME NEW n \in Nat PROVE OutsideAsIs(Capturing(Now, n).grid)
  <2>. DEFINE t == [Now EXCEPT !.back = Captured(Now.grid, Now.back, n)]
  <2>1. Captured(Now.grid, Now.back, n) \in Histories
    BY <1>1, CapturedType DEF Effects, Grids, IInv, HistoryInv
  <2>2. t \in Effects /\ t.grid = Screen
    BY <1>1, <2>1 DEF Effects
  <2>. HIDE DEF t
  <2>3. OutsideAsIs(ScrollUp(t, margins.top, n).grid)
    BY <2>2, ScrollsOutside
  <2>. QED  BY <2>3 DEF Capturing, t
<1>3. OutsideAsIs(Screen)
  BY DEF OutsideAsIs
<1>4. CASE Now.row < margins.bottom
  <2>1. Fed(Now).grid = Screen
    BY <1>1, <1>4 DEF Fed, Effects
  <2>. QED  BY <1>2, <1>3, <2>1
<1>5. CASE ~(Now.row < margins.bottom)
  BY <1>2, <1>5 DEF Fed
<1>. QED  BY <1>2, <1>4, <1>5

\* With the cursor in the scrolling region, nothing that scrolls touches a row
\* above or below it, whatever the count.
THEOREM RegionsAreKept == Spec => RegionKept
<1>1. ASSUME IInv, Scrolls, Shaped(Screen), cursor.row \in margins.top .. margins.bottom
      PROVE  \A r \in 0 .. dims.rows - 1 :
                 r \notin margins.top .. margins.bottom => RowOf(Screen', r) = RowOf(Screen, r)
  <2>1. SUFFICES OutsideAsIs(Screen')
    BY DEF OutsideAsIs
  <2>2. OutsideAsIs(Screen)
    BY DEF OutsideAsIs
  <2>3. Now \in Effects /\ Now.grid = Screen
    BY <1>1, NowIsEffect DEF IInv, Now
  <2>4. LineFeed \/ NewLine => OutsideAsIs(Screen')
    BY <1>1, FeedsOutside, LandShows DEF LineFeed, NewLine
  <2>5. ReverseIndex => OutsideAsIs(Screen')
    <3>1. OutsideAsIs(ScrollDown(Now, margins.top, 1).grid)
      BY <1>1, <2>3, ScrollsOutside
    <3>. QED  BY <2>2, <3>1, LandShows, MoveShows DEF ReverseIndex
  <2>6. ASSUME NEW n \in Counts,
               InsertLines(n) \/ DeleteLines(n) \/ ScrollLinesUp(n) \/ ScrollLinesDown(n)
        PROVE  OutsideAsIs(Screen')
    <3>1. AtLeast1(n) \in Nat
      BY TerminalAssumption DEF AtLeast1, Greater
    <3>2. /\ OutsideAsIs(ScrollDown(Now, cursor.row, AtLeast1(n)).grid)
          /\ OutsideAsIs(ScrollUp(Now, cursor.row, AtLeast1(n)).grid)
          /\ OutsideAsIs(ScrollDown(Now, margins.top, AtLeast1(n)).grid)
      BY <1>1, <2>3, <3>1, ScrollsOutside
    <3>3. OutsideAsIs(Capturing(Now, AtLeast1(n)).grid)
      BY <1>1, <3>1, FeedsOutside
    <3>. QED  BY <2>6, <3>2, <3>3, LandShows
              DEF InsertLines, DeleteLines, ScrollLinesUp, ScrollLinesDown
  <2>. QED  BY <1>1, <2>4, <2>5, <2>6 DEF Scrolls
<1>. QED  BY <1>1, AlwaysIInv, PTL DEF Spec, RegionKept

\* A grid that may differ from g in the cells of row r only.
ButForRow(g, r) ==
    {h \in SameShape(g) :
        \A p \in 1 .. Len(g.cells) :
            p <= r * g.columns \/ (r + 1) * g.columns < p => h.cells[p] = g.cells[p]}

LEMMA ButForRowAgain ==
    ASSUME NEW g, NEW r, NEW h \in ButForRow(g, r), NEW i \in ButForRow(h, r)
    PROVE  i \in ButForRow(g, r)
BY DEF ButForRow, SameShape

\* In shape, such a grid has the other rows of g.
LEMMA OtherRows ==
    ASSUME dims \in Dimensions, NEW g \in GridType, Shaped(g), NEW r \in Nat, NEW h \in ButForRow(g, r)
    PROVE  \A q \in 0 .. dims.rows - 1 : q # r => RowOf(h, q) = RowOf(g, q)
<1>. DEFINE w == dims.columns
<1>1. w \in Nat /\ dims.rows \in Nat /\ g.columns = w
  BY SizeFacts DEF Shaped
<1>2. Shaped(h) /\ h \in GridType
  BY DEF ButForRow, SameShape, Shaped
<1>3. ASSUME NEW q \in 0 .. dims.rows - 1, q # r
      PROVE  RowOf(h, q) = RowOf(g, q)
  <2>1. q \in Nat /\ q < dims.rows
    BY <1>1
  <2>2. ASSUME NEW c \in 1 .. w PROVE h.cells[q * w + c] = g.cells[q * w + c]
    <3>1. q * w + c \in 1 .. Len(g.cells)
      BY <2>1, RowCells
    <3>2. q < r => q * w + c <= r * w
      BY <1>1, <2>1, RowPlaces
    <3>3. r + 1 <= q => (r + 1) * w < q * w + c
      <4>1. r + 1 \in Nat
        OBVIOUS
      <4>. QED  BY <1>1, <2>1, <4>1, RowPlaces
    <3>4. q < r \/ r + 1 <= q
      BY <1>3, <2>1
    <3>. HIDE DEF w
    <3>. QED  BY <1>1, <3>1, <3>2, <3>3, <3>4 DEF ButForRow
  <2>. QED  BY <1>2, <2>1, <2>2, RowsAgree
<1>. QED  BY <1>3

\* Rows of the grid, and where one ends.
LEMMA RowEnds ==
    ASSUME NEW g \in GridType, NEW r \in Nat, NEW c \in Nat, c <= g.columns
    PROVE  /\ g.columns \in Nat /\ r * g.columns \in Nat
           /\ (r + 1) * g.columns = r * g.columns + g.columns
           /\ Position(g, c, r) = r * g.columns + c
           /\ Position(g, c, r) <= (r + 1) * g.columns
BY DEF GridType, Position

LEMMA ClearedButForRow ==
    ASSUME NEW g \in GridType, NEW r \in Nat, NEW a \in Nat, NEW b \in Nat,
           r * g.columns <= a, b <= (r + 1) * g.columns
    PROVE  Cleared(g, a, b) \in ButForRow(g, r)
<1>1. Cleared(g, a, b) \in SameShape(g)
  BY ClearedShape
<1>2. r * g.columns \in Nat /\ (r + 1) * g.columns \in Nat
  BY DEF GridType
<1>3. ASSUME NEW p \in 1 .. Len(g.cells), p <= r * g.columns \/ (r + 1) * g.columns < p
      PROVE  Cleared(g, a, b).cells[p] = g.cells[p]
  <2>1. ~(a < p /\ p <= b)
    BY <1>2, <1>3
  <2>2. p \in DOMAIN g.cells
    BY DEF GridType
  <2>. QED  BY <2>1, <2>2 DEF Cleared, GridType
<1>. QED  BY <1>1, <1>3 DEF ButForRow

LEMMA WithCellButForRow ==
    ASSUME NEW g \in GridType, NEW r \in Nat, NEW c \in Nat, c < g.columns, NEW cell \in Cell
    PROVE  WithCell(g, Position(g, c, r), cell) \in ButForRow(g, r)
<1>. DEFINE at == Position(g, c, r)
<1>1. /\ g.columns \in Nat /\ r * g.columns \in Nat
      /\ (r + 1) * g.columns = r * g.columns + g.columns
      /\ at = r * g.columns + c
  BY RowEnds DEF GridType
<1>. HIDE DEF at
<1>2. at \in Nat
  BY <1>1
<1>3. WithCell(g, at, cell) \in SameShape(g)
  BY <1>2, WithCellShape
<1>4. ASSUME NEW p \in 1 .. Len(g.cells), p <= r * g.columns \/ (r + 1) * g.columns < p
      PROVE  WithCell(g, at, cell).cells[p] = g.cells[p]
  <2>1. p # at + 1
    BY <1>1, <1>4
  <2>. QED  BY <2>1 DEF WithCell, GridType
<1>. QED  BY <1>3, <1>4 DEF ButForRow, at

LEMMA RoomFacts ==
    ASSUME NEW g \in GridType, NEW c \in Nat, c < g.columns, NEW n \in Nat
    PROVE  Room(g, c, n) \in Nat /\ c + Room(g, c, n) <= g.columns
BY DEF Room, Within, Lesser, GridType

LEMMA InsertedButForRow ==
    ASSUME NEW g \in GridType, NEW r \in Nat, NEW c \in Nat, c < g.columns, NEW n \in Nat
    PROVE  WithInserted(g, c, r, n) \in ButForRow(g, r)
<1>. DEFINE k     == Room(g, c, n)
            from  == Position(g, c, r)
            end   == Position(g, g.columns, r)
            shift == {p \in DOMAIN g.cells : from + k < p /\ p <= end /\ r < g.rows}
            s     == [p \in DOMAIN g.cells |->
                         IF from < p /\ p <= from + k THEN Blank
                         ELSE IF p \in shift THEN g.cells[p - k] ELSE g.cells[p]]
<1>1. WithInserted(g, c, r, n) = [g EXCEPT !.cells = s] /\ DOMAIN g.cells = 1 .. Len(g.cells)
  BY DEF WithInserted, GridType
<1>2. k \in Nat /\ c + k <= g.columns
  BY RoomFacts
<1>3. /\ g.columns \in Nat /\ r * g.columns \in Nat
      /\ (r + 1) * g.columns = r * g.columns + g.columns
      /\ from = r * g.columns + c /\ end = r * g.columns + g.columns
  <2>1. c <= g.columns
    BY DEF GridType
  <2>2. end = r * g.columns + g.columns
    BY DEF Position
  <2>. QED  BY <2>1, <2>2, RowEnds
<1>4. ASSUME NEW p \in 1 .. Len(g.cells), p <= r * g.columns \/ (r + 1) * g.columns < p
      PROVE  s[p] = g.cells[p]
  <2>. HIDE DEF k, from, end
  <2>. DEFINE start == r * g.columns
  <2>1. p \in Int /\ start \in Nat /\ (p <= start \/ start + g.columns < p)
        /\ from = start + c /\ end = start + g.columns /\ g.columns \in Nat
    BY <1>3, <1>4
  <2>. HIDE DEF start
  <2>2. ~(from < p /\ p <= from + k) /\ ~(from + k < p /\ p <= end)
    BY <1>2, <2>1
  <2>. QED  BY <1>1, <2>2
<1>. HIDE DEF s
<1>5. WithInserted(g, c, r, n).cells = s
  BY <1>1 DEF GridType
<1>. QED  BY <1>4, <1>5, InsertedShape DEF ButForRow

LEMMA DeletedButForRow ==
    ASSUME NEW g \in GridType, NEW r \in Nat, NEW c \in Nat, c < g.columns, NEW n \in Nat
    PROVE  WithDeleted(g, c, r, n) \in ButForRow(g, r)
<1>. DEFINE k     == Room(g, c, n)
            from  == Position(g, c, r)
            end   == Position(g, g.columns, r)
            shift == {p \in DOMAIN g.cells : from < p /\ p <= end - k /\ r < g.rows}
            s     == [p \in DOMAIN g.cells |->
                         IF k <= g.columns /\ end - k < p /\ p <= end THEN Blank
                         ELSE IF p \in shift /\ p + k <= Len(g.cells) THEN g.cells[p + k]
                         ELSE g.cells[p]]
<1>1. WithDeleted(g, c, r, n) = [g EXCEPT !.cells = s] /\ DOMAIN g.cells = 1 .. Len(g.cells)
  BY DEF WithDeleted, GridType
<1>2. k \in Nat /\ c + k <= g.columns
  BY RoomFacts
<1>3. /\ g.columns \in Nat /\ r * g.columns \in Nat
      /\ (r + 1) * g.columns = r * g.columns + g.columns
      /\ from = r * g.columns + c /\ end = r * g.columns + g.columns
  <2>1. c <= g.columns
    BY DEF GridType
  <2>2. end = r * g.columns + g.columns
    BY DEF Position
  <2>. QED  BY <2>1, <2>2, RowEnds
<1>4. ASSUME NEW p \in 1 .. Len(g.cells), p <= r * g.columns \/ (r + 1) * g.columns < p
      PROVE  s[p] = g.cells[p]
  <2>. HIDE DEF k, from, end
  <2>. DEFINE start == r * g.columns
  <2>1. p \in Int /\ start \in Nat /\ (p <= start \/ start + g.columns < p)
        /\ from = start + c /\ end = start + g.columns /\ g.columns \in Nat
    BY <1>3, <1>4
  <2>. HIDE DEF start
  <2>2. ~(end - k < p /\ p <= end) /\ ~(from < p /\ p <= end - k)
    BY <1>2, <2>1
  <2>. QED  BY <1>1, <2>2
<1>. HIDE DEF s
<1>5. WithDeleted(g, c, r, n).cells = s
  BY <1>1 DEF GridType
<1>. QED  BY <1>4, <1>5, DeletedShape DEF ButForRow

\* A character, wide or not, inserted or not, stays in the row of the cursor.
LEMMA FillButForRow ==
    ASSUME PlaceInv, NEW g \in GridType, Shaped(g), NEW cell \in Cell, NEW w \in 1 .. 2
    PROVE  Fill(g, cell, w) \in ButForRow(g, cursor.row)
<1>. DEFINE r  == cursor.row
            c  == cursor.column
            at == Position(g, c, r)
            g1 == IF modes.insert THEN WithInserted(g, c, r, w) ELSE g
            g2 == WithCell(g1, at, cell)
            g3 == WithCell(g2, at + 1, Continuation)
<1>1. r \in Nat /\ c \in Nat /\ c < g.columns /\ g.columns = dims.columns /\ w \in Nat
  BY SizeFacts DEF PlaceInv, Shaped
<1>2. Fill(g, cell, w) = IF w = 2 /\ c + 1 < dims.columns THEN g3 ELSE g2
  BY DEF Fill
<1>3. \A h, i \in Nat : \A x : x.columns = g.columns => Position(x, h, i) = Position(g, h, i)
  BY DEF Position
<1>4. g1 \in ButForRow(g, r) /\ g1 \in GridType /\ g1.columns = g.columns
  <2>1. g \in ButForRow(g, r)
    BY DEF ButForRow, SameShape
  <2>2. g1 \in ButForRow(g, r)
    <3>. HIDE DEF r, c
    <3>. QED  BY <1>1, <2>1, InsertedButForRow
  <2>. HIDE DEF g1
  <2>. QED  BY <2>2 DEF ButForRow, SameShape
<1>. HIDE DEF g1
<1>5. g2 \in ButForRow(g1, r) /\ g2 \in GridType /\ g2.columns = g.columns
  <2>1. at = Position(g1, c, r)
    BY <1>1, <1>3, <1>4
  <2>2. g2 \in ButForRow(g1, r)
    <3>. HIDE DEF r, c, at
    <3>. QED  BY <1>1, <1>4, <2>1, WithCellButForRow
  <2>. HIDE DEF g2
  <2>. QED  BY <1>4, <2>2 DEF ButForRow, SameShape
<1>. HIDE DEF g2
<1>6. ASSUME c + 1 < dims.columns PROVE g3 \in ButForRow(g2, r)
  <2>1. at + 1 = Position(g2, c + 1, r) /\ c + 1 \in Nat /\ c + 1 < g2.columns
    <3>1. g.columns \in Nat
      BY DEF GridType
    <3>. QED  BY <1>1, <1>5, <1>6, <3>1 DEF Position
  <2>. HIDE DEF r, c, at
  <2>. QED  BY <1>1, <1>5, <2>1, BlankIsCell, WithCellButForRow
<1>. HIDE DEF g3, r, c
<1>7. g2 \in ButForRow(g, r)
  BY <1>4, <1>5, ButForRowAgain
<1>8. c + 1 < dims.columns => g3 \in ButForRow(g, r)
  BY <1>6, <1>7, ButForRowAgain
<1>. QED  BY <1>2, <1>7, <1>8 DEF r

\* Erasing, inserting, deleting and writing cells stay on the line of the cursor,
\* unless writing past the last column scrolls the region.
THEOREM EditsStayOnTheLine == Spec => RowEditsStay
<1>1. ASSUME IInv, EditsRow, Shaped(Screen)
      PROVE  \A r \in 0 .. dims.rows - 1 : r # cursor.row => RowOf(Screen', r) = RowOf(Screen, r)
  <2>. DEFINE R == cursor.row
              C == cursor.column
              W == dims.columns
  <2>1. /\ PlaceInv /\ dims \in Dimensions /\ Screen \in GridType
        /\ Screen.columns = W /\ W \in Nat /\ W > 0
        /\ R \in Nat /\ C \in Nat /\ C < W
    BY <1>1, ScreenType, SizeFacts DEF IInv, PlaceInv, Grids, Shaped
  <2>2. SUFFICES Screen' \in ButForRow(Screen, R)
    BY <1>1, <2>1, OtherRows
  <2>3. \A g : Shown(g) => Screen' = g
    <3>1. \A g : [Now EXCEPT !.grid = g].grid = g
      BY DEF Now
    <3>. QED  BY <3>1, LandShows DEF Shown
  <2>4. /\ Position(Screen, 0, R) = R * W /\ Position(Screen, C, R) = R * W + C
        /\ R * W \in Nat /\ (R + 1) * W = R * W + W
    <3>1. 0 <= Screen.columns /\ C <= Screen.columns
      BY <2>1
    <3>2. /\ Screen.columns \in Nat /\ R * Screen.columns \in Nat
          /\ (R + 1) * Screen.columns = R * Screen.columns + Screen.columns
          /\ Position(Screen, 0, R) = R * Screen.columns + 0
          /\ Position(Screen, C, R) = R * Screen.columns + C
      <4>1. Screen \in GridType /\ R \in Nat /\ C \in Nat /\ 0 \in Nat
        BY <2>1
      <4>. HIDE DEF R, C, W
      <4>2. \A c \in Nat : c <= Screen.columns =>
               /\ Screen.columns \in Nat /\ R * Screen.columns \in Nat
               /\ (R + 1) * Screen.columns = R * Screen.columns + Screen.columns
               /\ Position(Screen, c, R) = R * Screen.columns + c
        BY <4>1, RowEnds, Zenon
      <4>. QED  BY <3>1, <4>1, <4>2, Zenon
    <3>3. Screen.columns = W
      BY <2>1
    <3>. HIDE DEF R, C, W
    <3>4. /\ W \in Nat /\ R * W \in Nat /\ (R + 1) * W = R * W + W
          /\ Position(Screen, 0, R) = R * W + 0
          /\ Position(Screen, C, R) = R * W + C
      BY <3>2, <3>3, Zenon
    <3>. QED  BY <3>4
  <2>5. \A a, b \in Nat : R * W <= a /\ b <= (R + 1) * W => Cleared(Screen, a, b) \in ButForRow(Screen, R)
    <3>. HIDE DEF R
    <3>. QED  BY <2>1, ClearedButForRow
  <2>6. ASSUME EraseLine PROVE Screen' \in ButForRow(Screen, R)
    <3>. DEFINE S == Position(Screen, 0, R)
                H == Position(Screen, C, R)
    <3>1. \E range \in {<<H, S + W>>, <<S, H + 1>>, <<S, S + W>>} :
              Screen' = Cleared(Screen, range[1], range[2])
      BY <2>3, <2>6 DEF EraseLine, Here
    <3>2. /\ R * W <= H /\ R * W <= S /\ S \in Nat /\ H \in Nat
          /\ S + W \in Nat /\ H + 1 \in Nat /\ S + W <= (R + 1) * W /\ H + 1 <= (R + 1) * W
      <4>. HIDE DEF R, C, W, S, H
      <4>. QED  BY <2>1, <2>4 DEF S, H
    <3>. HIDE DEF R, W, S, H
    <3>. QED  BY <2>5, <3>1, <3>2
  <2>7. ASSUME NEW n \in Counts, InsertCells(n) \/ DeleteCells(n) \/ EraseCells(n)
        PROVE  Screen' \in ButForRow(Screen, R)
    <3>. DEFINE k == AtLeast1(n)
                e == Lesser(C + k, W)
    <3>1. k \in Nat
      BY TerminalAssumption DEF AtLeast1, Greater
    <3>2. \/ Screen' = WithInserted(Screen, C, R, k)
          \/ Screen' = WithDeleted(Screen, C, R, k)
          \/ Screen' = Cleared(Screen, Position(Screen, C, R), Position(Screen, e, R))
      BY <2>3, <2>7 DEF InsertCells, DeleteCells, EraseCells
    <3>3. e \in Nat /\ e <= W
      <4>. HIDE DEF k, C, W
      <4>. QED  BY <2>1, <3>1 DEF Lesser
    <3>. HIDE DEF k, e, R, C, W
    <3>4. Position(Screen, e, R) = R * W + e
      BY <2>1, <3>3, RowEnds
    <3>5. Cleared(Screen, Position(Screen, C, R), Position(Screen, e, R)) \in ButForRow(Screen, R)
      <4>1. R * W + C \in Nat /\ R * W + e \in Nat /\ R * W <= R * W + C /\ R * W + e <= (R + 1) * W
        BY <2>1, <2>4, <3>3
      <4>. QED  BY <2>4, <2>5, <3>4, <4>1
    <3>6. /\ WithInserted(Screen, C, R, k) \in ButForRow(Screen, R)
          /\ WithDeleted(Screen, C, R, k) \in ButForRow(Screen, R)
      BY <2>1, <3>1, InsertedButForRow, DeletedButForRow
    <3>. QED  BY <3>2, <3>5, <3>6
  <2>8. ASSUME cursor'.column > 0 \/ R < margins.bottom,
               NEW glyph \in Glyphs, NEW w \in 1 .. 2, Put(glyph, w)
        PROVE  Screen' \in ButForRow(Screen, R)
    <3>. DEFINE g == Fill(Screen, [glyph |-> glyph, width |-> w], w)
                s == [Now EXCEPT !.grid = g]
    <3>1. \E c : Land(s, c) \/ Land(Fed(s), 0)
      BY <2>8 DEF Put
    <3>2. Land(Fed(s), 0) => cursor'.column = 0
      BY DEF Land
    <3>3. s.grid = g /\ s.row = R
      BY DEF Now
    <3>4. R < margins.bottom => Fed(s).grid = g
      <4>1. [s EXCEPT !.row = s.row + 1].grid = s.grid
        BY DEF Now
      <4>. HIDE DEF s, g, R
      <4>. QED  BY <3>3, <4>1 DEF Fed
    <3>. HIDE DEF s
    <3>5. Screen' = g
      BY <2>8, <3>1, <3>2, <3>3, <3>4, LandShows
    <3>. QED  BY <1>1, <2>1, <3>5, WrittenIsCell, FillButForRow
  <2>. QED  BY <1>1, <2>6, <2>7, <2>8 DEF EditsRow
<1>. QED  BY <1>1, AlwaysIInv, PTL DEF Spec, RowEditsStay

-----------------------------------------------------------------------------
(* The tape: the scrollback, and the screen below it. *)

TapeOf(e)  == e.back \o Rows(e.grid)
Length     == limit + dims.rows
Blanks(j)  == [k \in 1 .. j |-> BlankRow]

LEMMA JoinedLines ==
    ASSUME NEW s \in Seq(Lines), NEW t \in Seq(Lines), NEW u \in Seq(Lines)
    PROVE  /\ s \o t \in Seq(Lines)
           /\ (s \o t) \o u = s \o (t \o u)
<1>1. (s \o t) \o u = s \o (t \o u)
  BY ConcatAssociative
<1>. QED  BY <1>1, ConcatProperties

LEMMA RowsType ==
    ASSUME dims \in Dimensions, NEW g \in GridType, Shaped(g)
    PROVE  /\ BlankRow \in Lines
           /\ Rows(g) \in Seq(Lines) /\ Len(Rows(g)) = dims.rows
           /\ \A k \in 1 .. dims.rows : Rows(g)[k] = RowOf(g, k - 1) /\ RowOf(g, k - 1) \in Lines
<1>1. dims.columns \in Nat /\ dims.rows \in Nat
  BY SizeFacts
<1>2. ASSUME NEW k \in 1 .. dims.rows PROVE RowOf(g, k - 1) \in Lines
  <2>1. k - 1 \in Nat /\ k - 1 < dims.rows
    BY <1>1
  <2>2. RowOf(g, k - 1) \in Seq(Cell) /\ Len(RowOf(g, k - 1)) = dims.columns
    BY <2>1, RowCells
  <2>3. RowOf(g, k - 1) \in [1 .. Len(RowOf(g, k - 1)) -> Cell]
    BY <2>2, LenProperties
  <2>. QED  BY <2>2, <2>3 DEF Lines
<1>3. BlankRow \in Lines
  BY BlankIsCell DEF BlankRow, Lines
<1>4. [k \in 1 .. dims.rows |-> RowOf(g, k - 1)] \in Seq(Lines)
  BY <1>1, <1>2
<1>. QED  BY <1>1, <1>2, <1>3, <1>4 DEF Rows

\* A line is copied to the scrollback as the grid has it.
LEMMA LineIsRow ==
    ASSUME dims \in Dimensions, NEW g \in GridType, Shaped(g), NEW r \in Nat, r < dims.rows
    PROVE  Line(g, r) = RowOf(g, r)
<1>. DEFINE w == dims.columns
<1>1. w \in Nat /\ g.columns = w /\ g.rows = dims.rows /\ dims.rows \in Nat
  BY SizeFacts DEF Shaped
<1>2. /\ RowOf(g, r) \in Seq(Cell) /\ Len(RowOf(g, r)) = w
      /\ \A c \in 1 .. w : r * w + c \in 1 .. Len(g.cells) /\ RowOf(g, r)[c] = g.cells[r * w + c]
  BY RowCells
<1>3. Line(g, r) \in Seq(Cell) /\ Len(Line(g, r)) = w
  <2>1. Line(g, r) \in [1 .. w -> Cell]
    BY LineType DEF Lines
  <2>. HIDE DEF w
  <2>. QED  BY <1>1, <2>1
<1>4. ASSUME NEW c \in 1 .. w PROVE Line(g, r)[c] = RowOf(g, r)[c]
  <2>1. Line(g, r)[c] = CellAt(g, c - 1, r)
    BY DEF Line
  <2>2. r * w \in Nat /\ Len(g.cells) \in Nat
    <3>. HIDE DEF w
    <3>. QED  BY <1>1 DEF GridType
  <2>. HIDE DEF w
  <2>3. c - 1 < w /\ r * w + (c - 1) < Len(g.cells) /\ r * w + (c - 1) + 1 = r * w + c
    <3>1. r * w + c \in 1 .. Len(g.cells)
      BY <1>2
    <3>. QED  BY <1>1, <2>2, <3>1
  <2>4. InGrid(g, c - 1, r) /\ Position(g, c - 1, r) + 1 = r * w + c
    BY <1>1, <2>3 DEF InGrid, Position
  <2>5. CellAt(g, c - 1, r) = g.cells[r * w + c]
    BY <2>4 DEF CellAt
  <2>. QED  BY <1>2, <2>1, <2>5
<1>. HIDE DEF w
<1>. QED  BY <1>2, <1>3, <1>4, SeqEqual

\* Without compacting, a line that scrolls out is pushed whatever it is.
LEMMA PushedOne ==
    ASSUME HistoryInv, ~compact, NEW back \in Histories, NEW line \in Lines
    PROVE  Pushed(back, [k \in 1 .. 1 |-> line]) = LastOnes(back \o <<line>>, limit)
<1>. DEFINE lines == [k \in 1 .. 1 |-> line]
            all   == back \o lines
            keep  == {k \in DOMAIN lines :
                         compact /\ Len(back) + k > 1 /\ Empty(lines[k])
                         => ~Empty(all[Len(back) + k - 1])}
            f     == CHOOSE f \in Orders(keep) : TRUE
<1>1. keep = {1}
  <2>1. DOMAIN lines = {1}
    OBVIOUS
  <2>. QED  BY <2>1
<1>2. Kept(back, lines) = [k \in DOMAIN f |-> lines[f[k]]]
  BY DEF Kept
<1>. HIDE DEF keep, f
<1>3. f \in Orders({1})
  <2>1. {1} \in SUBSET (0 .. 1)
    OBVIOUS
  <2>2. Orders({1}) # {}
    BY <2>1, OrdersExist
  <2>. QED  BY <1>1, <2>2 DEF f
<1>4. Cardinality({1}) = 1
  BY FS_Singleton
<1>5. DOMAIN f = {1} /\ f[1] = 1
  <2>1. f \in [1 .. 1 -> {1}]
    BY <1>3, <1>4 DEF Orders
  <2>. QED  BY <2>1
<1>6. Kept(back, lines) = <<line>>
  <2>1. lines[1] = line
    OBVIOUS
  <2>. HIDE DEF lines
  <2>2. Kept(back, lines) = [k \in {1} |-> line]
    BY <1>2, <1>5, <2>1
  <2>3. {1} = 1 .. 1
    OBVIOUS
  <2>. QED  BY <2>2, <2>3
<1>7. Pushed(back, lines) = IF limit = 0 THEN back ELSE LastOnes(back \o <<line>>, limit)
  BY <1>6 DEF Pushed
<1>8. ASSUME limit = 0 PROVE back = LastOnes(back \o <<line>>, limit)
  <2>1. back \in Seq(Lines) /\ Len(back) = 0 /\ <<line>> \in Seq(Lines)
    BY <1>8 DEF Histories
  <2>2. back \o <<line>> \in Seq(Lines) /\ Len(back \o <<line>>) \in Nat
    BY <2>1, ConcatProperties
  <2>3. LastOnes(back \o <<line>>, 0) \in Seq(Lines) /\ Len(LastOnes(back \o <<line>>, 0)) = 0
    <3>. DEFINE s == back \o <<line>>
    <3>. HIDE DEF s
    <3>1. LastOnes(s, 0) \in Seq(Lines) /\ Len(LastOnes(s, 0)) = Lesser(Len(s), 0)
      BY <2>2, LastOnesFacts DEF s
    <3>2. Lesser(Len(s), 0) = 0
      BY <2>2 DEF Lesser, s
    <3>. QED  BY <3>1, <3>2 DEF s
  <2>. QED  BY <1>8, <2>1, <2>3, EmptySeq
<1>. QED  BY <1>7, <1>8

\* The effects of line feeds without margins, on the primary screen.
LEMMA FeedAtTheBottom ==
    ASSUME IInv, ~compact, alternate = {}, margins = FullMargins(dims), NEW e \in Sound
    PROVE  /\ Capturing(e, 1).row = e.row
           /\ TapeOf(Capturing(e, 1)) = LastOnes(TapeOf(e) \o <<BlankRow>>, Length)
<1>. DEFINE n    == dims.rows
            g    == e.grid
            row  == RowOf(g, 0)
            back == LastOnes(e.back \o <<row>>, limit)
            up   == ScrolledUp(g, 0, n - 1, 1)
<1>1. /\ dims \in Dimensions /\ n \in Nat /\ n > 0 /\ n - 1 \in Nat /\ limit \in Nat
      /\ margins.top = 0 /\ margins.bottom = n - 1
  BY SizeFacts DEF IInv, PlaceInv, HistoryInv, FullMargins
<1>2. /\ e \in Effects /\ e.fine /\ g \in GridType /\ Shaped(g) /\ e.back \in Histories
      /\ e.back \in Seq(Lines)
  BY DEF Sound, Effects, Grids, Histories
<1>3. row \in Lines /\ Line(g, 0) = row
  <2>1. 1 \in 1 .. dims.rows /\ 1 - 1 = 0
    BY <1>1
  <2>. QED  BY <1>1, <1>2, <2>1, RowsType, LineIsRow
<1>4. Captured(g, e.back, 1) = back
  <2>1. SatSub(Lesser(margins.top + 1, dims.rows), margins.top) = 1
    BY <1>1 DEF SatSub, Lesser
  <2>2. Captured(g, e.back, 1) = Pushed(e.back, [k \in 1 .. 1 |-> Line(g, margins.top + k - 1)])
    BY <2>1 DEF Captured
  <2>3. \A k \in 1 .. 1 : Line(g, margins.top + k - 1) = row
    BY <1>1, <1>3
  <2>4. [k \in 1 .. 1 |-> Line(g, margins.top + k - 1)] = [k \in 1 .. 1 |-> row]
    BY <2>3
  <2>. HIDE DEF row
  <2>5. Pushed(e.back, [k \in 1 .. 1 |-> row]) = LastOnes(e.back \o <<row>>, limit)
    BY <1>2, <1>3, PushedOne DEF IInv
  <2>. QED  BY <2>2, <2>4, <2>5
<1>5. /\ UpFits(g, 0, n - 1, 1) /\ Shaped(up) /\ up \in GridType
      /\ \A r \in 0 .. n - 1 : RowOf(up, r) = UpRow(g, 0, n - 1, 1, r)
  <2>1. /\ 0 <= n - 1 /\ n - 1 < n
    BY <1>1
  <2>2. /\ UpFits(g, 0, n - 1, 1) /\ Shaped(up)
        /\ \A r \in 0 .. n - 1 : RowOf(up, r) = UpRow(g, 0, n - 1, 1, r)
    BY <1>1, <1>2, <2>1, ScrolledRows
  <2>3. up \in GridType
    BY <1>1, <1>2, <2>2, ScrolledUpShape DEF NoSmaller
  <2>. QED  BY <2>2, <2>3
<1>6. /\ Capturing(e, 1).row = e.row
      /\ Capturing(e, 1).back = back
      /\ Capturing(e, 1).grid = up
  <2>. DEFINE t == [e EXCEPT !.back = Captured(e.grid, e.back, 1)]
  <2>1. t.grid = g /\ t.row = e.row /\ t.back = back
    BY <1>2, <1>4 DEF Effects
  <2>2. ScrollUp(t, 0, 1) = [t EXCEPT !.grid = up]
    BY <1>1, <1>5, <2>1 DEF ScrollUp
  <2>3. Capturing(e, 1) = [t EXCEPT !.grid = up]
    BY <1>1, <2>2 DEF Capturing
  <2>. HIDE DEF up, back
  <2>4. [t EXCEPT !.grid = up].row = t.row /\ [t EXCEPT !.grid = up].back = t.back /\ [t EXCEPT !.grid = up].grid = up
    BY <1>2 DEF Effects
  <2>. QED  BY <2>1, <2>3, <2>4
<1>7. /\ Rows(g) \in Seq(Lines) /\ Len(Rows(g)) = n
      /\ \A k \in 1 .. n : Rows(g)[k] = RowOf(g, k - 1)
      /\ Rows(up) \in Seq(Lines) /\ Len(Rows(up)) = n
      /\ \A k \in 1 .. n : Rows(up)[k] = RowOf(up, k - 1)
      /\ BlankRow \in Lines
  BY <1>1, <1>2, <1>5, RowsType
<1>8. <<row>> \o Rows(up) = Rows(g) \o <<BlankRow>>
  <2>. DEFINE a == <<row>> \o Rows(up)
              b == Rows(g) \o <<BlankRow>>
              x == Rows(g)
              y == Rows(up)
  <2>1. <<row>> \in Seq(Lines) /\ Len(<<row>>) = 1 /\ <<row>>[1] = row
    BY <1>3
  <2>2. <<BlankRow>> \in Seq(Lines) /\ Len(<<BlankRow>>) = 1 /\ <<BlankRow>>[1] = BlankRow
    BY <1>7
  <2>3. \A r \in 0 .. n - 1 : RowOf(up, r) = IF r < n - 1 THEN RowOf(g, r + 1) ELSE BlankRow
    <3>1. ASSUME NEW r \in 0 .. n - 1 PROVE RowOf(up, r) = IF r < n - 1 THEN RowOf(g, r + 1) ELSE BlankRow
      <4>1. r \in 0 .. n - 1 /\ (r + 1 <= n - 1 <=> r < n - 1)
        BY <1>1
      <4>. QED  BY <1>5, <4>1 DEF UpRow
    <3>. QED  BY <3>1
  <2>. HIDE DEF n, row, up, g
  <2>4. /\ a \in Seq(Lines) /\ Len(a) = 1 + n
        /\ \A k \in 1 .. 1 + n : a[k] = IF k <= 1 THEN <<row>>[k] ELSE y[k - 1]
    <3>. HIDE DEF y
    <3>. QED  BY <1>7, <2>1, ConcatProperties DEF y
  <2>5. /\ b \in Seq(Lines) /\ Len(b) = n + 1
        /\ \A k \in 1 .. n + 1 : b[k] = IF k <= n THEN x[k] ELSE <<BlankRow>>[k - n]
    BY <1>7, <2>2, ConcatProperties
  <2>6. ASSUME NEW k \in 1 .. n + 1 PROVE a[k] = b[k]
    <3>1. /\ a[k] = IF k <= 1 THEN <<row>>[k] ELSE y[k - 1]
          /\ b[k] = IF k <= n THEN x[k] ELSE <<BlankRow>>[k - n]
      <4>1. n + 1 = 1 + n
        BY <1>1
      <4>. HIDE DEF a, b
      <4>. QED  BY <2>4, <2>5, <4>1
    <3>. HIDE DEF a, b
    <3>2. CASE k = 1
      <4>1. b[k] = RowOf(g, 0)
        BY <1>1, <1>7, <3>1, <3>2
      <4>. QED  BY <2>1, <3>1, <3>2, <4>1 DEF row
    <3>3. CASE 1 < k /\ k <= n
      <4>1. k - 1 \in 1 .. n /\ k - 1 - 1 \in 0 .. n - 1 /\ k - 1 - 1 < n - 1 /\ (k - 1 - 1) + 1 = k - 1 /\ k \in 1 .. n
        BY <1>1, <3>3
      <4>2. y[k - 1] = RowOf(up, k - 1 - 1) /\ RowOf(up, k - 1 - 1) = RowOf(g, k - 1)
        BY <1>7, <2>3, <4>1
      <4>3. x[k] = RowOf(g, k - 1)
        BY <1>7, <4>1
      <4>4. ~(k <= 1)
        BY <3>3
      <4>. HIDE DEF x, y
      <4>. QED  BY <3>1, <3>3, <4>2, <4>3, <4>4
    <3>4. CASE k = n + 1
      <4>1. n \in 1 .. n /\ n - 1 \in 0 .. n - 1 /\ k - 1 = n /\ k - n = 1 /\ ~(k <= n) /\ ~(k <= 1)
        BY <1>1, <3>4
      <4>2. y[n] = RowOf(up, n - 1) /\ RowOf(up, n - 1) = BlankRow
        BY <1>7, <2>3, <4>1
      <4>. HIDE DEF x, y
      <4>. QED  BY <2>2, <3>1, <4>1, <4>2
    <3>. QED  BY <1>1, <3>2, <3>3, <3>4
  <2>7. Len(a) = Len(b) /\ Len(a) = n + 1
    BY <1>1, <2>4, <2>5
  <2>. HIDE DEF a, b
  <2>8. a = b
    BY <2>4, <2>5, <2>6, <2>7, SeqEqual
  <2>. QED  BY <2>8 DEF a, b
<1>. HIDE DEF up, back, g, row
<1>9. TapeOf(Capturing(e, 1)) = LastOnes((e.back \o <<row>>) \o Rows(up), Length)
  <2>1. e.back \o <<row>> \in Seq(Lines)
    BY <1>2, <1>3, ConcatProperties
  <2>2. back \o Rows(up) = LastOnes((e.back \o <<row>>) \o Rows(up), limit + Len(Rows(up)))
    <3>1. Rows(up) \in Seq(Lines) /\ limit \in Nat
      BY <1>1, <1>7
    <3>. QED  BY <2>1, <3>1, LastOnesJoin, Zenon DEF back
  <2>. QED  BY <1>6, <1>7, <2>2 DEF TapeOf, Length
<1>10. (e.back \o <<row>>) \o Rows(up) = (e.back \o Rows(g)) \o <<BlankRow>>
  <2>1. <<row>> \in Seq(Lines) /\ <<BlankRow>> \in Seq(Lines)
    BY <1>3, <1>7
  <2>2. (e.back \o <<row>>) \o Rows(up) = e.back \o (<<row>> \o Rows(up))
    BY <1>2, <1>7, <2>1, JoinedLines
  <2>3. (e.back \o Rows(g)) \o <<BlankRow>> = e.back \o (Rows(g) \o <<BlankRow>>)
    BY <1>2, <1>7, <2>1, JoinedLines
  <2>. QED  BY <1>8, <2>2, <2>3
<1>. QED  BY <1>6, <1>9, <1>10 DEF TapeOf, g

\* What k line feeds may have done: the tape has gone on by as many empty lines as
\* the cursor has not moved.
FedBy(k) ==
    {e \in Sound :
        /\ k - (e.row - cursor.row) \in Nat
        /\ TapeOf(e) = LastOnes(Tape \o Blanks(k - (e.row - cursor.row)), Length)}

LEMMA FedOnce ==
    ASSUME IInv, ~compact, alternate = {}, margins = FullMargins(dims), Shaped(Screen),
           NEW k \in Nat, NEW e \in FedBy(k)
    PROVE  Fed(e) \in FedBy(k + 1)
<1>. DEFINE j == k - (e.row - cursor.row)
            t == LastOnes(Tape \o Blanks(j), Length)
<1>1. e \in Sound /\ e \in Effects /\ j \in Nat /\ TapeOf(e) = t
  BY DEF FedBy, Sound
<1>2. Fed(e) \in Sound
  BY <1>1, SoundFed DEF IInv
<1>3. e.row \in Int /\ cursor.row \in Int /\ limit \in Nat /\ Length \in Nat
  BY <1>1, SizeFacts DEF IInv, PlaceInv, HistoryInv, Effects, Length
<1>4. CASE e.row < margins.bottom
  <2>1. Fed(e) = [e EXCEPT !.row = e.row + 1]
    BY <1>4 DEF Fed
  <2>2. Fed(e).row = e.row + 1 /\ Fed(e).grid = e.grid /\ Fed(e).back = e.back
    BY <1>1, <2>1 DEF Effects
  <2>3. (k + 1) - (Fed(e).row - cursor.row) = j
    BY <1>3, <2>2
  <2>4. TapeOf(Fed(e)) = TapeOf(e)
    BY <2>2 DEF TapeOf
  <2>. HIDE DEF j
  <2>. QED  BY <1>1, <1>2, <2>3, <2>4 DEF FedBy
<1>5. CASE ~(e.row < margins.bottom)
  <2>1. Fed(e) = Capturing(e, 1)
    BY <1>5 DEF Fed
  <2>2. Fed(e).row = e.row /\ TapeOf(Fed(e)) = LastOnes(TapeOf(e) \o <<BlankRow>>, Length)
    BY <1>1, <2>1, FeedAtTheBottom
  <2>3. (k + 1) - (Fed(e).row - cursor.row) = j + 1
    BY <1>3, <2>2
  <2>. HIDE DEF j
  <2>4. BlankRow \in Lines /\ Tape \in Seq(Lines)
    <3>1. Screen \in GridType /\ dims \in Dimensions /\ scrollback \in Seq(Lines)
      BY ScreenType DEF IInv, PlaceInv, HistoryInv, Histories, Grids
    <3>. QED  BY <3>1, RowsType, ConcatProperties DEF Tape
  <2>5. Blanks(j) \in Seq(Lines) /\ <<BlankRow>> \in Seq(Lines) /\ Blanks(j + 1) = Blanks(j) \o <<BlankRow>>
    <3>1. Blanks(j) \in Seq(Lines) /\ Len(Blanks(j)) = j /\ \A i \in 1 .. j : Blanks(j)[i] = BlankRow
      BY <1>1, <2>4 DEF Blanks
    <3>2. Blanks(j + 1) \in Seq(Lines) /\ Len(Blanks(j + 1)) = j + 1 /\ \A i \in 1 .. j + 1 : Blanks(j + 1)[i] = BlankRow
      BY <1>1, <2>4 DEF Blanks
    <3>3. <<BlankRow>> \in Seq(Lines) /\ Len(<<BlankRow>>) = 1 /\ <<BlankRow>>[1] = BlankRow
      BY <2>4
    <3>. DEFINE s == Blanks(j) \o <<BlankRow>>
    <3>4. /\ s \in Seq(Lines) /\ Len(s) = j + 1
          /\ \A i \in 1 .. j + 1 : s[i] = IF i <= j THEN Blanks(j)[i] ELSE <<BlankRow>>[i - j]
      BY <3>1, <3>3, ConcatProperties
    <3>. HIDE DEF s
    <3>5. \A i \in 1 .. j + 1 : s[i] = BlankRow
      <4>1. ASSUME NEW i \in 1 .. j + 1 PROVE s[i] = BlankRow
        <5>1. CASE i <= j
          BY <1>1, <3>1, <3>4, <5>1
        <5>2. CASE ~(i <= j)
          <6>1. i - j = 1
            BY <1>1, <5>2
          <6>. QED  BY <3>3, <3>4, <5>2, <6>1
        <5>. QED  BY <5>1, <5>2
      <4>. QED  BY <4>1
    <3>6. Blanks(j + 1) = s
      BY <3>2, <3>4, <3>5, SeqEqual
    <3>. QED  BY <3>1, <3>3, <3>6 DEF s
  <2>. DEFINE x == Tape \o Blanks(j)
  <2>6. x \in Seq(Lines) /\ x \o <<BlankRow>> = Tape \o Blanks(j + 1)
    <3>. DEFINE a == Tape
                b == Blanks(j)
                c == <<BlankRow>>
    <3>. HIDE DEF a, b, c
    <3>1. a \in Seq(Lines) /\ b \in Seq(Lines) /\ c \in Seq(Lines) /\ Blanks(j + 1) = b \o c
      BY <2>4, <2>5 DEF a, b, c
    <3>2. a \o b \in Seq(Lines) /\ (a \o b) \o c = a \o (b \o c)
      BY <3>1, JoinedLines
    <3>. QED  BY <3>1, <3>2 DEF a, b, c
  <2>7. LastOnes(LastOnes(x, Length) \o <<BlankRow>>, Length) = LastOnes(x \o <<BlankRow>>, Length)
    <3>. HIDE DEF x
    <3>. QED  BY <1>3, <2>4, <2>6, LastOnesAppend
  <2>8. TapeOf(Fed(e)) = LastOnes(Tape \o Blanks(j + 1), Length)
    BY <1>1, <2>2, <2>6, <2>7
  <2>9. j + 1 \in Nat
    BY <1>1
  <2>. QED  BY <1>2, <2>3, <2>8, <2>9 DEF FedBy
<1>. QED  BY <1>4, <1>5

LEMMA FedFromNow ==
    ASSUME IInv, ~compact, alternate = {}, margins = FullMargins(dims), Shaped(Screen)
    PROVE  Now \in FedBy(0) /\ \A n \in Nat : Feeds(Now, n) \in FedBy(n)
<1>1. Screen \in GridType /\ dims \in Dimensions /\ scrollback \in Seq(Lines) /\ Len(scrollback) <= limit
      /\ Len(scrollback) \in Nat /\ limit \in Nat /\ dims.rows \in Nat /\ dims.rows > 0 /\ cursor.row \in Int
      /\ cursor.row <= dims.rows - 1
  BY ScreenType, SizeFacts DEF IInv, PlaceInv, HistoryInv, Histories, Grids
<1>2. Tape \in Seq(Lines) /\ Len(Tape) <= Length /\ Length \in Nat
  <2>1. Rows(Screen) \in Seq(Lines) /\ Len(Rows(Screen)) = dims.rows
    BY <1>1, RowsType
  <2>2. Tape \in Seq(Lines) /\ Len(Tape) = Len(scrollback) + dims.rows
    BY <1>1, <2>1, ConcatProperties DEF Tape
  <2>. QED  BY <1>1, <2>2 DEF Length
<1>3. Now \in Sound
  <2>1. cursor.row <= margins.bottom
    BY <1>1 DEF FullMargins
  <2>. QED  BY <2>1, SoundSteps
<1>4. Now \in FedBy(0)
  <2>1. Now.row = cursor.row /\ TapeOf(Now) = Tape
    BY DEF Now, TapeOf, Tape
  <2>2. 0 - (Now.row - cursor.row) = 0
    BY <1>1, <2>1
  <2>3. Blanks(0) = <<>>
    <3>1. 1 .. 0 = {}
      OBVIOUS
    <3>. QED  BY <3>1 DEF Blanks
  <2>4. Tape \o Blanks(0) = Tape
    BY <1>2, <2>3, ConcatEmptySeq
  <2>5. LastOnes(Tape, Length) = Tape
    BY <1>2, LastOnesAll
  <2>6. 0 - (Now.row - cursor.row) \in Nat
    BY <2>2
  <2>. QED  BY <1>3, <2>1, <2>2, <2>4, <2>5, <2>6 DEF FedBy
<1>5. ASSUME NEW n \in Nat PROVE Feeds(Now, n) \in FedBy(n)
  <2>. DEFINE V == [k \in Nat |-> FedBy(k)]
  <2>1. \A k \in Nat : V[k] = FedBy(k)
    OBVIOUS
  <2>2. \A k \in Nat : \A e \in V[k] : Fed(e) \in V[k + 1]
    <3>1. \A k \in Nat : \A e \in FedBy(k) : Fed(e) \in FedBy(k + 1)
      BY FedOnce
    <3>. QED  BY <2>1, <3>1
  <2>3. Now \in V[0]
    BY <1>4, <2>1
  <2>. HIDE DEF V
  <2>4. Feeds(Now, n) \in V[n]
    BY <2>2, <2>3, FeedsLead
  <2>. QED  BY <2>1, <2>4
<1>. QED  BY <1>4, <1>5

\* On the primary screen, without margins, any number of line feeds loses, repeats
\* and reorders no line, on the screen or above it, but the oldest.
THEOREM TapeGoesOn == Spec => TapeContinues
<1>1. ASSUME IInv
      PROVE  \A n \in Counts \cup {1} :
                /\ NextLine(n) \/ (n = 1 /\ LineFeed)
                /\ Shaped(Screen) /\ margins = FullMargins(dims) /\ alternate = {} /\ ~compact
                => Tape' = LastOnes(Tape \o [k \in 1 .. n - (cursor'.row - cursor.row) |-> BlankRow],
                                    limit + dims.rows)
  <2>. SUFFICES ASSUME NEW n \in Counts \cup {1},
                       NextLine(n) \/ (n = 1 /\ LineFeed),
                       Shaped(Screen), margins = FullMargins(dims), alternate = {}, ~compact
                PROVE  Tape' = LastOnes(Tape \o [k \in 1 .. n - (cursor'.row - cursor.row) |-> BlankRow],
                                        limit + dims.rows)
    OBVIOUS
  <2>1. n \in Nat
    BY TerminalAssumption
  <2>2. \E e \in FedBy(n) : \E c : Land(e, c)
    <3>1. CASE NextLine(n)
      <4>1. Feeds(Now, n) \in FedBy(n)
        BY <1>1, <2>1, FedFromNow
      <4>. QED  BY <3>1, <4>1 DEF NextLine
    <3>2. CASE n = 1 /\ LineFeed
      <4>1. Fed(Now) \in FedBy(0 + 1)
        BY <1>1, FedFromNow, FedOnce
      <4>. QED  BY <3>2, <4>1 DEF LineFeed
    <3>. QED  BY <3>1, <3>2
  <2>3. PICK e \in FedBy(n) : \E c : Land(e, c)
    BY <2>2
  <2>4. Screen' = e.grid /\ scrollback' = e.back /\ cursor'.row = e.row /\ dims' = dims
    <3>1. PICK c : Land(e, c)
      BY <2>3
    <3>. QED  BY <3>1, LandShows DEF Land
  <2>5. Tape' = TapeOf(e)
    BY <2>4 DEF Tape, TapeOf, Rows, RowOf, Position
  <2>. QED  BY <2>3, <2>4, <2>5 DEF FedBy, Blanks, Length
<1>. QED  BY <1>1, AlwaysIInv, PTL DEF Spec, TapeContinues
=============================================================================
