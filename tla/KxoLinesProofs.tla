--------------------------- MODULE KxoLinesProofs ---------------------------
(***************************************************************************)
(* Proofs about the table of winning lines: for every size of the board    *)
(* and every goal it lists the straight runs of the board, all of them and *)
(* nothing else.                                                           *)
(***************************************************************************)
EXTENDS KxoLines, SequenceTheorems, TLAPS

-----------------------------------------------------------------------------
(* A line fits on the board.                                               *)
LEMMA BoardFacts ==
  /\ GOAL \in Nat \ {0} /\ BOARD_SIZE \in Nat \ {0} /\ BOARD_SIZE >= GOAL
  /\ Free \in Nat \ {0} /\ Free = BOARD_SIZE - GOAL + 1
BY LinesAssumption DEF Free

(* The cell of a row and a column is on the board.                         *)
LEMMA IndexOnBoard ==
  ASSUME NEW i \in Side, NEW j \in Side
  PROVE  GET_INDEX(i, j) \in Cells
<1>1. /\ BOARD_SIZE \in Nat /\ i \in Nat /\ j \in Nat /\ j < BOARD_SIZE
      /\ BOARD_SIZE - 1 - i \in Nat
  BY BoardFacts DEF Side
<1>2. PICK d \in Nat : BOARD_SIZE = i + 1 + d
  <2>1. BOARD_SIZE = i + 1 + (BOARD_SIZE - 1 - i)
    BY <1>1
  <2> QED
    BY <1>1, <2>1
<1>3. BOARD_SIZE * BOARD_SIZE = i * BOARD_SIZE + BOARD_SIZE + d * BOARD_SIZE
  <2>1. (i + 1 + d) * BOARD_SIZE = i * BOARD_SIZE + BOARD_SIZE + d * BOARD_SIZE
    BY <1>1
  <2> QED
    BY <1>2, <2>1
<1>4. i * BOARD_SIZE \in Nat /\ d * BOARD_SIZE \in Nat
  BY <1>1
<1> QED
  BY <1>1, <1>3, <1>4 DEF GET_INDEX, Cells, N_GRIDS

(* A run that starts and ends on the board lies on it.                     *)
LEMMA RunOnBoard ==
  ASSUME NEW r \in Starts
  PROVE  Run(r[1], r[2], r[3]) \in (SUBSET Cells) \ {{}}
<1>1. PICK i \in Side, j \in Side, d \in Directions :
        /\ r[1] = i /\ r[2] = j /\ r[3] = d
        /\ i + (GOAL - 1) * d[1] \in Side /\ j + (GOAL - 1) * d[2] \in Side
  BY DEF Starts
<1>2. d[1] \in {0, 1} /\ d[2] \in {-1, 0, 1}
  BY DEF Directions
<1>3. ASSUME NEW k \in 0 .. GOAL - 1
      PROVE  GET_INDEX(i + k * d[1], j + k * d[2]) \in Cells
  <2>0. i \in Int /\ j \in Int /\ k \in Int /\ GOAL \in Int /\ BOARD_SIZE \in Int
    BY BoardFacts DEF Side
  <2>1. i + k * d[1] \in Side
    <3>1. CASE d[1] = 0
      BY <2>0, <3>1
    <3>2. CASE d[1] = 1
      BY <1>1, <2>0, <3>2 DEF Side
    <3> QED
      BY <1>2, <3>1, <3>2
  <2>2. j + k * d[2] \in Side
    <3>1. CASE d[2] = 0
      BY <2>0, <3>1
    <3>2. CASE d[2] = 1
      BY <1>1, <2>0, <3>2 DEF Side
    <3>3. CASE d[2] = -1
      BY <1>1, <2>0, <3>3 DEF Side
    <3> QED
      BY <1>2, <3>1, <3>2, <3>3
  <2> QED
    BY <2>1, <2>2, IndexOnBoard
<1>4. 0 \in 0 .. GOAL - 1
  BY BoardFacts
<1>5. Run(i, j, d) \subseteq Cells /\ Run(i, j, d) # {}
  BY <1>3, <1>4 DEF Run
<1> QED
  BY <1>1, <1>5

(* Counting row by row: the position of a row and a column, and back.      *)
LEMMA RowByRow ==
  ASSUME NEW c \in Nat \ {0}, NEW q \in Nat, NEW s \in 0 .. c - 1
  PROVE  (q * c + s) \div c = q /\ (q * c + s) % c = s
<1>1. PICK x \in Nat : x = q * c + s
  OBVIOUS
<1>2. PICK p \in Int, m \in Int : p = x \div c /\ m = x % c
  OBVIOUS
<1>3. m \in 0 .. c - 1
  BY <1>2
<1>4. x = c * p + m
  BY <1>2
<1>5. p = q
  <2>1. c * (p - q) = s - m
    BY <1>1, <1>3, <1>4
  <2>2. ASSUME p > q PROVE FALSE
    <3>1. PICK d \in Nat : p - q = d + 1
      <4>1. p - q - 1 \in Nat /\ p - q = (p - q - 1) + 1
        BY <2>2
      <4> QED
        BY <4>1
    <3>2. c * (d + 1) = c * d + c /\ c * d \in Nat
      OBVIOUS
    <3> QED
      BY <1>3, <2>1, <3>1, <3>2
  <2>3. ASSUME p < q PROVE FALSE
    <3>1. PICK d \in Nat : p - q = -(d + 1)
      <4>1. q - p - 1 \in Nat /\ p - q = -((q - p - 1) + 1)
        BY <2>3
      <4> QED
        BY <4>1
    <3>2. c * (-(d + 1)) = -(c * d) - c /\ c * d \in Nat
      OBVIOUS
    <3> QED
      BY <1>3, <2>1, <3>1, <3>2
  <2> QED
    BY <1>2, <2>2, <2>3
<1>6. m = s
  <2>1. c * p = q * c
    BY <1>5
  <2> QED
    BY <1>1, <1>3, <1>4, <2>1
<1> QED
  BY <1>1, <1>2, <1>5, <1>6

(* The segments of a direction, by the cells they start at.                *)
From(l, i, j) == {GET_INDEX(i + k * l.i_shift, j + k * l.j_shift) : k \in 0 .. GOAL - 1}

Bounded(l) ==
  /\ l.i_lower_bound \in Nat /\ l.i_upper_bound \in Nat
  /\ l.j_lower_bound \in Nat /\ l.j_upper_bound \in Nat
  /\ l.i_lower_bound < l.i_upper_bound /\ l.j_lower_bound < l.j_upper_bound

(* Each segment of a direction starts at a cell of its bounds, and each    *)
(* such cell starts one: the loops of fill_win_patterns, counted from 1.   *)
LEMMA SegmentsFrom ==
  ASSUME NEW l, Bounded(l)
  PROVE  /\ \E n \in Nat :
               /\ DOMAIN SegmentsOf(l) = 1 .. n
               /\ SegmentsOf(l) \in [1 .. n -> Range(SegmentsOf(l))]
         /\ \A x : x \in Range(SegmentsOf(l)) <=>
              \E i \in l.i_lower_bound .. l.i_upper_bound - 1,
                 j \in l.j_lower_bound .. l.j_upper_bound - 1 : x = From(l, i, j)
<1>1. PICK c \in Nat \ {0}, r \in Nat \ {0} :
        c = l.j_upper_bound - l.j_lower_bound /\ r = l.i_upper_bound - l.i_lower_bound
  <2>1. /\ l.j_upper_bound - l.j_lower_bound \in Nat \ {0}
        /\ l.i_upper_bound - l.i_lower_bound \in Nat \ {0}
    BY DEF Bounded
  <2> QED
    BY <2>1
<1>2. PICK ilo \in Nat, jlo \in Nat : ilo = l.i_lower_bound /\ jlo = l.j_lower_bound
  BY DEF Bounded
<1>3. PICK n \in Nat : n = r * c
  OBVIOUS
<1>4. SegmentsOf(l) = [w \in 1 .. n |-> From(l, ilo + ((w - 1) \div c), jlo + ((w - 1) % c))]
  BY <1>1, <1>2, <1>3, Zenon DEF SegmentsOf, From
<1>5. PICK f : f = SegmentsOf(l)
  OBVIOUS
<1>6. /\ DOMAIN f = 1 .. n
      /\ \A w \in 1 .. n : f[w] = From(l, ilo + ((w - 1) \div c), jlo + ((w - 1) % c))
      /\ f \in [1 .. n -> Range(f)]
  BY <1>4, <1>5 DEF Range
<1>7. ASSUME NEW x \in Range(f)
      PROVE  \E i \in ilo .. ilo + r - 1, j \in jlo .. jlo + c - 1 : x = From(l, i, j)
  <2>1. PICK w \in 1 .. n : x = f[w]
    BY <1>6 DEF Range
  <2>2. PICK v \in Nat : v = w - 1 /\ v < r * c
    <3>1. w - 1 \in Nat /\ w - 1 < r * c
      BY <1>3
    <3> QED
      BY <3>1
  <2>3. PICK q \in Nat, s \in 0 .. c - 1 : q = v \div c /\ s = v % c /\ v = c * q + s
    <3>1. PICK q \in Int, s \in Int : q = v \div c /\ s = v % c
      OBVIOUS
    <3>2. s \in 0 .. c - 1
      BY <3>1
    <3>3. v = c * q + s
      BY <3>1
    <3>4. q \in Nat
      BY <3>1
    <3> QED
      BY <3>1, <3>2, <3>3, <3>4
  <2>4. q < r
    <3>1. SUFFICES ASSUME q >= r PROVE FALSE
      OBVIOUS
    <3>2. PICK d \in Nat : q = r + d
      <4>1. q - r \in Nat /\ q = r + (q - r)
        BY <3>1
      <4> QED
        BY <4>1
    <3>3. c * q = r * c + c * d /\ c * d \in Nat /\ r * c \in Nat
      BY <3>2
    <3> QED
      BY <2>2, <2>3, <3>3
  <2>5. ilo + q \in ilo .. ilo + r - 1 /\ jlo + s \in jlo .. jlo + c - 1
    BY <2>3, <2>4
  <2>6. x = From(l, ilo + q, jlo + s)
    BY <1>6, <2>1, <2>2, <2>3
  <2> QED
    BY <2>5, <2>6
<1>8. ASSUME NEW i \in ilo .. ilo + r - 1, NEW j \in jlo .. jlo + c - 1
      PROVE  From(l, i, j) \in Range(f)
  <2>1. PICK q \in Nat, s \in 0 .. c - 1 : i = ilo + q /\ j = jlo + s /\ q < r
    <3>1. /\ i - ilo \in Nat /\ j - jlo \in 0 .. c - 1
          /\ i = ilo + (i - ilo) /\ j = jlo + (j - jlo) /\ i - ilo < r
      OBVIOUS
    <3> QED
      BY <3>1
  <2>2. PICK v \in Nat : v = q * c + s
    OBVIOUS
  <2>3. v < r * c
    <3>1. PICK d \in Nat : r = q + 1 + d
      <4>1. r - q - 1 \in Nat /\ r = q + 1 + (r - q - 1)
        BY <2>1
      <4> QED
        BY <4>1
    <3>2. r * c = q * c + c + d * c /\ d * c \in Nat /\ q * c \in Nat
      BY <3>1
    <3> QED
      BY <2>2, <3>2
  <2>4. v \div c = q /\ v % c = s
    BY <2>2, RowByRow
  <2>5. PICK w \in 1 .. n : w - 1 = v
    <3>1. v + 1 \in 1 .. n /\ (v + 1) - 1 = v
      BY <1>3, <2>3
    <3> QED
      BY <3>1
  <2>6. f[w] = From(l, i, j)
    BY <1>6, <2>1, <2>4, <2>5
  <2> QED
    BY <1>6, <2>6 DEF Range
<1>9. /\ ilo + r = l.i_upper_bound /\ jlo + c = l.j_upper_bound
  BY <1>1, <1>2 DEF Bounded
<1>10. \A x : x \in Range(f) <=>
         \E i \in ilo .. ilo + r - 1, j \in jlo .. jlo + c - 1 : x = From(l, i, j)
  BY <1>7, <1>8
<1>11. \A x : x \in Range(f) <=>
         \E i \in l.i_lower_bound .. l.i_upper_bound - 1,
            j \in l.j_lower_bound .. l.j_upper_bound - 1 : x = From(l, i, j)
  <2>1. /\ ilo + r - 1 = l.i_upper_bound - 1 /\ jlo + c - 1 = l.j_upper_bound - 1
    <3>1. PICK iu \in Nat, ju \in Nat : iu = l.i_upper_bound /\ ju = l.j_upper_bound
      BY DEF Bounded
    <3>2. ilo + r = iu /\ jlo + c = ju
      BY <1>9, <3>1
    <3>3. ilo + r - 1 = iu - 1 /\ jlo + c - 1 = ju - 1
      BY <3>2
    <3> QED
      BY <3>1, <3>3, Zenon
  <2>2. /\ ilo .. ilo + r - 1 = l.i_lower_bound .. l.i_upper_bound - 1
        /\ jlo .. jlo + c - 1 = l.j_lower_bound .. l.j_upper_bound - 1
    BY <1>2, <2>1, Zenon
  <2> QED
    BY <1>10, <2>2, Zenon
<1> QED
  BY <1>5, <1>6, <1>11, Zenon

(* A direction whose bounds are the starts of d lists the runs along d.    *)
LEMMA SegmentsAlong ==
  ASSUME NEW l, Bounded(l), NEW d \in Directions,
         l.i_shift = d[1], l.j_shift = d[2],
         \A i \in Int, j \in Int :
           (/\ i \in l.i_lower_bound .. l.i_upper_bound - 1
            /\ j \in l.j_lower_bound .. l.j_upper_bound - 1) <=> <<i, j, d>> \in Starts
  PROVE  /\ SegmentsOf(l) \in Seq((SUBSET Cells) \ {{}})
         /\ \A x : x \in Range(SegmentsOf(l)) <=>
              \E i \in Side, j \in Side : <<i, j, d>> \in Starts /\ x = Run(i, j, d)
<1>1. \A i, j : From(l, i, j) = Run(i, j, d)
  BY DEF From, Run
<1>2. \A i, j : <<i, j, d>> \in Starts => i \in Side /\ j \in Side /\ i \in Int /\ j \in Int
  BY BoardFacts DEF Starts, Side
<1>3. ASSUME NEW i \in l.i_lower_bound .. l.i_upper_bound - 1,
             NEW j \in l.j_lower_bound .. l.j_upper_bound - 1
      PROVE  <<i, j, d>> \in Starts
  <2>1. i \in Int /\ j \in Int
    BY DEF Bounded
  <2> QED
    BY <2>1
<1>4. PICK n \in Nat : /\ DOMAIN SegmentsOf(l) = 1 .. n
                      /\ SegmentsOf(l) \in [1 .. n -> Range(SegmentsOf(l))]
  BY SegmentsFrom, Zenon
<1>5. \A x : x \in Range(SegmentsOf(l)) <=>
        \E i \in l.i_lower_bound .. l.i_upper_bound - 1,
           j \in l.j_lower_bound .. l.j_upper_bound - 1 : x = From(l, i, j)
  BY SegmentsFrom, Zenon
<1>6. \A x : x \in Range(SegmentsOf(l)) <=>
        \E i \in Side, j \in Side : <<i, j, d>> \in Starts /\ x = Run(i, j, d)
  <2>1. ASSUME NEW x \in Range(SegmentsOf(l))
        PROVE  \E i \in Side, j \in Side : <<i, j, d>> \in Starts /\ x = Run(i, j, d)
    <3>1. PICK i \in l.i_lower_bound .. l.i_upper_bound - 1,
               j \in l.j_lower_bound .. l.j_upper_bound - 1 : x = From(l, i, j)
      BY <1>5, <2>1, Zenon
    <3> QED
      BY <1>1, <1>2, <1>3, <3>1, Zenon
  <2>2. ASSUME NEW i \in Side, NEW j \in Side, <<i, j, d>> \in Starts
        PROVE  Run(i, j, d) \in Range(SegmentsOf(l))
    <3>1. /\ i \in l.i_lower_bound .. l.i_upper_bound - 1
          /\ j \in l.j_lower_bound .. l.j_upper_bound - 1
      BY <1>2, <2>2, Zenon
    <3> QED
      BY <1>1, <1>5, <3>1, Zenon
  <2> QED
    BY <2>1, <2>2, Zenon
<1>7. Range(SegmentsOf(l)) \subseteq (SUBSET Cells) \ {{}}
  <2>1. ASSUME NEW i, NEW j, <<i, j, d>> \in Starts
        PROVE  Run(i, j, d) \in (SUBSET Cells) \ {{}}
    <3>1. PICK r \in Starts : r = <<i, j, d>>
      BY <2>1
    <3>2. r[1] = i /\ r[2] = j /\ r[3] = d
      BY <3>1
    <3>3. Run(r[1], r[2], r[3]) \in (SUBSET Cells) \ {{}}
      BY RunOnBoard, Zenon
    <3> QED
      BY <3>2, <3>3, Zenon
  <2>2. ASSUME NEW x \in Range(SegmentsOf(l))
        PROVE  x \in (SUBSET Cells) \ {{}}
    <3>1. PICK i \in Side, j \in Side : <<i, j, d>> \in Starts /\ x = Run(i, j, d)
      BY <1>6, <2>2, Zenon
    <3>2. Run(i, j, d) \in (SUBSET Cells) \ {{}}
      BY <2>1, <3>1, Zenon
    <3> QED
      BY <3>1, <3>2, Zenon
  <2> QED
    BY <2>2
<1>8. SegmentsOf(l) \in Seq((SUBSET Cells) \ {{}})
  <2>1. PICK f, R : f = SegmentsOf(l) /\ R = Range(SegmentsOf(l))
    OBVIOUS
  <2>2. f \in [1 .. n -> R] /\ R \subseteq (SUBSET Cells) \ {{}}
    BY <1>4, <1>7, <2>1, Zenon
  <2>3. f \in Seq(R)
    BY <2>2
  <2>4. f \in Seq((SUBSET Cells) \ {{}})
    BY <2>2, <2>3
  <2> QED
    BY <2>1, <2>4, Zenon
<1> QED
  BY <1>6, <1>8, Zenon

(* The four directions are bounded so.                                     *)
LEMMA RowsAlong ==
  /\ Bounded(lines[1]) /\ lines[1].i_shift = 0 /\ lines[1].j_shift = 1
  /\ \A i \in Int, j \in Int :
       (/\ i \in lines[1].i_lower_bound .. lines[1].i_upper_bound - 1
        /\ j \in lines[1].j_lower_bound .. lines[1].j_upper_bound - 1)
       <=> <<i, j, <<0, 1>>>> \in Starts
BY BoardFacts DEF lines, line_t, Bounded, Starts, Side, Directions

(* Columns start where GOAL rows remain below.                             *)
LEMMA ColumnsAlong ==
  /\ Bounded(lines[2]) /\ lines[2].i_shift = 1 /\ lines[2].j_shift = 0
  /\ \A i \in Int, j \in Int :
       (/\ i \in lines[2].i_lower_bound .. lines[2].i_upper_bound - 1
        /\ j \in lines[2].j_lower_bound .. lines[2].j_upper_bound - 1)
       <=> <<i, j, <<1, 0>>>> \in Starts
BY BoardFacts DEF lines, line_t, Bounded, Starts, Side, Directions

(* The primary diagonal needs both.                                        *)
LEMMA PrimaryAlong ==
  /\ Bounded(lines[3]) /\ lines[3].i_shift = 1 /\ lines[3].j_shift = 1
  /\ \A i \in Int, j \in Int :
       (/\ i \in lines[3].i_lower_bound .. lines[3].i_upper_bound - 1
        /\ j \in lines[3].j_lower_bound .. lines[3].j_upper_bound - 1)
       <=> <<i, j, <<1, 1>>>> \in Starts
BY BoardFacts DEF lines, line_t, Bounded, Starts, Side, Directions

(* The secondary diagonal starts GOAL - 1 columns from the left at least.  *)
LEMMA SecondaryAlong ==
  /\ Bounded(lines[4]) /\ lines[4].i_shift = 1 /\ lines[4].j_shift = -1
  /\ \A i \in Int, j \in Int :
       (/\ i \in lines[4].i_lower_bound .. lines[4].i_upper_bound - 1
        /\ j \in lines[4].j_lower_bound .. lines[4].j_upper_bound - 1)
       <=> <<i, j, <<1, -1>>>> \in Starts
BY BoardFacts DEF lines, line_t, Bounded, Starts, Side, Directions

(* Four lists that cover four kinds cover what is of one of the kinds.     *)
Joined(u, s, t) == u = s \o t

(* Two lists in a row.                                                     *)
LEMMA RangeOfJoined ==
  ASSUME NEW S, NEW s \in Seq(S), NEW t \in Seq(S), NEW u, Joined(u, s, t)
  PROVE  u \in Seq(S) /\ Range(u) = Range(s) \cup Range(t)
BY RangeConcatenation DEF Joined

(* Four lists in a row.                                                    *)
LEMMA RangeOfFour ==
  ASSUME NEW S, NEW a \in Seq(S), NEW b \in Seq(S), NEW c \in Seq(S), NEW e \in Seq(S)
  PROVE  /\ a \o b \o c \o e \in Seq(S)
         /\ Range(a \o b \o c \o e) = Range(a) \cup Range(b) \cup Range(c) \cup Range(e)
<1>1. PICK ab, abc, abce : Joined(ab, a, b) /\ Joined(abc, ab, c) /\ Joined(abce, abc, e)
  BY DEF Joined
<1>2. ab \in Seq(S) /\ Range(ab) = Range(a) \cup Range(b)
  BY <1>1, RangeOfJoined
<1>3. abc \in Seq(S) /\ Range(abc) = Range(ab) \cup Range(c)
  BY <1>1, <1>2, RangeOfJoined
<1>4. abce \in Seq(S) /\ Range(abce) = Range(abc) \cup Range(e)
  BY <1>1, <1>3, RangeOfJoined
<1>5. abce = a \o b \o c \o e
  BY <1>1, Zenon DEF Joined
<1> QED
  BY <1>2, <1>3, <1>4, <1>5, Zenon

Listed(l, d) ==
  /\ SegmentsOf(l) \in Seq((SUBSET Cells) \ {{}})
  /\ \A x : x \in Range(SegmentsOf(l)) <=>
       \E i \in Side, j \in Side : <<i, j, d>> \in Starts /\ x = Run(i, j, d)

(* The four directions of the table `lines`.                               *)
LEMMA AllListed ==
  /\ Listed(lines[1], <<0, 1>>) /\ Listed(lines[2], <<1, 0>>)
  /\ Listed(lines[3], <<1, 1>>) /\ Listed(lines[4], <<1, -1>>)
<1>2. Listed(lines[1], <<0, 1>>)
  <2>1. PICK d \in Directions : d = <<0, 1>> /\ d[1] = 0 /\ d[2] = 1
    BY DEF Directions
  <2> QED
    BY <2>1, RowsAlong, SegmentsAlong, Zenon DEF Listed
<1>3. Listed(lines[2], <<1, 0>>)
  <2>1. PICK d \in Directions : d = <<1, 0>> /\ d[1] = 1 /\ d[2] = 0
    BY DEF Directions
  <2> QED
    BY <2>1, ColumnsAlong, SegmentsAlong, Zenon DEF Listed
<1>4. Listed(lines[3], <<1, 1>>)
  <2>1. PICK d \in Directions : d = <<1, 1>> /\ d[1] = 1 /\ d[2] = 1
    BY DEF Directions
  <2> QED
    BY <2>1, PrimaryAlong, SegmentsAlong, Zenon DEF Listed
<1>5. Listed(lines[4], <<1, -1>>)
  <2>1. PICK d \in Directions : d = <<1, -1>> /\ d[1] = 1 /\ d[2] = -1
    BY DEF Directions
  <2> QED
    BY <2>1, SecondaryAlong, SegmentsAlong, Zenon DEF Listed
<1> QED
  BY <1>2, <1>3, <1>4, <1>5

(* The table is the four directions one after the other.                   *)
LEMMA ListsOnBoard ==
  /\ xo_segment_lines \in Seq((SUBSET Cells) \ {{}})
  /\ Range(xo_segment_lines) =
       Range(SegmentsOf(lines[1])) \cup Range(SegmentsOf(lines[2]))
         \cup Range(SegmentsOf(lines[3])) \cup Range(SegmentsOf(lines[4]))
<1>1. PICK S, a, b, c, e :
        /\ S = (SUBSET Cells) \ {{}}
        /\ a = SegmentsOf(lines[1]) /\ b = SegmentsOf(lines[2])
        /\ c = SegmentsOf(lines[3]) /\ e = SegmentsOf(lines[4])
  OBVIOUS
<1>2. a \in Seq(S) /\ b \in Seq(S) /\ c \in Seq(S) /\ e \in Seq(S)
  BY <1>1, AllListed, Zenon DEF Listed
<1>3. /\ a \o b \o c \o e \in Seq(S)
      /\ Range(a \o b \o c \o e) = Range(a) \cup Range(b) \cup Range(c) \cup Range(e)
  BY <1>2, RangeOfFour
<1>4. xo_segment_lines = a \o b \o c \o e
  BY <1>1, Zenon DEF xo_segment_lines
<1> QED
  BY <1>1, <1>3, <1>4, Zenon

(* The table of winning lines (game.c, fill_win_patterns) holds sets of    *)
(* cells of the board and none is empty, for every size of the board and   *)
(* every goal that fits: what the engine's theorems assume of Lines.       *)
THEOREM LinesOnBoard == xo_segment_lines \in Seq((SUBSET Cells) \ {{}})
BY ListsOnBoard, Zenon

(* The table lists every straight run of GOAL cells on the board, in the   *)
(* four directions, and nothing else: no win goes unseen and none is made  *)
(* up.                                                                     *)
THEOREM LinesComplete == Range(xo_segment_lines) = Runs
<1>1. ASSUME NEW x \in Range(xo_segment_lines)
      PROVE  x \in Runs
  <2>0. x \in Range(SegmentsOf(lines[1])) \cup Range(SegmentsOf(lines[2]))
               \cup Range(SegmentsOf(lines[3])) \cup Range(SegmentsOf(lines[4]))
    BY <1>1, ListsOnBoard, Zenon
  <2>1. PICK i, j, d : <<i, j, d>> \in Starts /\ x = Run(i, j, d)
    <3>1. CASE x \in Range(SegmentsOf(lines[1]))
      <4>1. PICK i \in Side, j \in Side : <<i, j, <<0, 1>>>> \in Starts /\ x = Run(i, j, <<0, 1>>)
        BY <3>1, AllListed, Zenon DEF Listed
      <4> QED
        BY <4>1, Zenon
    <3>2. CASE x \in Range(SegmentsOf(lines[2]))
      <4>1. PICK i \in Side, j \in Side : <<i, j, <<1, 0>>>> \in Starts /\ x = Run(i, j, <<1, 0>>)
        BY <3>2, AllListed, Zenon DEF Listed
      <4> QED
        BY <4>1, Zenon
    <3>3. CASE x \in Range(SegmentsOf(lines[3]))
      <4>1. PICK i \in Side, j \in Side : <<i, j, <<1, 1>>>> \in Starts /\ x = Run(i, j, <<1, 1>>)
        BY <3>3, AllListed, Zenon DEF Listed
      <4> QED
        BY <4>1, Zenon
    <3>4. CASE x \in Range(SegmentsOf(lines[4]))
      <4>1. PICK i \in Side, j \in Side : <<i, j, <<1, -1>>>> \in Starts /\ x = Run(i, j, <<1, -1>>)
        BY <3>4, AllListed, Zenon DEF Listed
      <4> QED
        BY <4>1, Zenon
    <3> QED
      BY <2>0, <3>1, <3>2, <3>3, <3>4, Zenon
  <2>2. PICK r \in Starts : r = <<i, j, d>>
    BY <2>1
  <2>3. r[1] = i /\ r[2] = j /\ r[3] = d
    BY <2>2
  <2>4. x = Run(r[1], r[2], r[3])
    BY <2>1, <2>3, Zenon
  <2> QED
    BY <2>4, Zenon DEF Runs
<1>2. ASSUME NEW x \in Runs
      PROVE  x \in Range(xo_segment_lines)
  <2>1. PICK r \in Starts : x = Run(r[1], r[2], r[3])
    BY <1>2, Zenon DEF Runs
  <2>2. PICK i \in Side, j \in Side, d \in Directions :
         r = <<i, j, d>> /\ r[1] = i /\ r[2] = j /\ r[3] = d
    BY DEF Starts
  <2>3. <<i, j, d>> \in Starts /\ x = Run(i, j, d)
    BY <2>1, <2>2, Zenon
  <2>4. d = <<0, 1>> \/ d = <<1, 0>> \/ d = <<1, 1>> \/ d = <<1, -1>>
    BY DEF Directions
  <2>5. \/ x \in Range(SegmentsOf(lines[1])) \/ x \in Range(SegmentsOf(lines[2]))
        \/ x \in Range(SegmentsOf(lines[3])) \/ x \in Range(SegmentsOf(lines[4]))
    BY <2>3, <2>4, AllListed, Zenon DEF Listed
  <2> QED
    BY <2>5, ListsOnBoard, Zenon
<1> QED
  BY <1>1, <1>2, Zenon
=============================================================================
