------------------------------- MODULE Banana -------------------------------
(***************************************************************************)
(* A throw of Assembly/IAC_project.as: where the banana is at each tick of *)
(* the timer, computed by TRAJETORIA in the 8.8 fixed point of the 16-bit  *)
(* registers of the P3, and when it hits the gorilla or leaves the window. *)
(* How the angle and the speed are typed is module Gorillas.               *)
(***************************************************************************)
EXTENDS Integers

CONSTANTS
  Speeds, Angles,  \* as typed
  Lines, Columns   \* what the counters say when the gorillas are placed

BananaAssumption ==
  /\ Speeds \subseteq 0 .. 99 /\ Angles \subseteq 0 .. 99
  /\ Lines \subseteq Nat /\ Columns \subseteq Nat

-----------------------------------------------------------------------------
\* Arithmetic: a word is a number of 256ths.

MaxWord == 65535
Words   == 0 .. MaxWord
Word(n) == n % 65536
Byte(n) == n % 256
Negative(n) == Word(n) >= 32768  \* the flag N after a CMP
Positive(n) == ~Negative(n) /\ Word(n) # 0

CONVERT_SHIFT(n) == Word(n * 256)

\* The middle of the 32 bits that MUL gives.  The bytes of a are multiplied one
\* by one, that the products be in TLC's reach.
MULTIPLICA(a, b) == Word((a \div 256) * b + ((a % 256) * b) \div 256)

\* Pi/2 is 402 256ths, and 1/90 is taken to be 3.
CONVERT_ANG(degrees) == MULTIPLICA(3, MULTIPLICA(402, degrees))

cos(x) ==
  LET x2 == MULTIPLICA(x, x)
      x4 == MULTIPLICA(x, MULTIPLICA(x, x2))
  IN Word(256 - (MULTIPLICA(11, x4) + MULTIPLICA(x2, 128)))

sin(x) ==
  LET x3 == MULTIPLICA(x, MULTIPLICA(x, x))
      x5 == MULTIPLICA(x, MULTIPLICA(x, x3))
  IN Word(x - (MULTIPLICA(x5, 2) + MULTIPLICA(x3, 39)))

g == 2509
half == 128

\* TRAJETORIA: R5, how far the banana is, and R6, how high.
Far(vel, x, t) == MULTIPLICA(MULTIPLICA(vel, t), cos(x))
High(vel, x, t) ==
  Word(MULTIPLICA(MULTIPLICA(vel, t), sin(x))
         - MULTIPLICA(MULTIPLICA(g, MULTIPLICA(t, t)), half))

-----------------------------------------------------------------------------
VARIABLES
  state,         \* "fly", "hit", "out"
  G1, G2,        \* the gorillas: the upper left corner of each
  ANG, VEL,      \* in degrees and in columns a second
  R7, R3,        \* the angle in radians and the speed, as 8.8
  R4,            \* the time of the next move, or of the last one of all
  line, column   \* where the banana is

throw == <<G1, G2, ANG, VEL, R7, R3>>
vars  == <<state, throw, R4, line, column>>

Place(l, c, left) == [line |-> (l % 18) + 4, column |-> left + (c % 31)]

Limited(angle) == IF angle < 70 THEN angle ELSE 70

TypeOK ==
  /\ state \in {"fly", "hit", "out"}
  /\ \A gorilla \in {G1, G2} : gorilla.line \in 4 .. 21 /\ gorilla.column \in 0 .. 70
  /\ ANG \in 0 .. 70 /\ VEL \in 0 .. 99
  /\ {R3, R4, R7} \subseteq Words
  /\ line \in 0 .. 255 /\ column \in 4 .. 289

\* NOVA_JOGADA and JOGO.  The time is 0 for MUL leaves the upper word of VEL * 10
\* in R4; the first move is a tick after, or at once if FLAG_TRAJETORIA was left
\* at 1 by the throw before.
Quiet ==
  /\ \E l \in Lines, c \in Columns : G1 = Place(l, c, 0)
  /\ \E l \in Lines, c \in Columns : G2 = Place(l, c, 40)
  /\ ANG \in {Limited(angle) : angle \in Angles} /\ VEL \in Speeds
  /\ R7 = CONVERT_ANG(CONVERT_SHIFT(ANG)) /\ R3 = CONVERT_SHIFT(VEL)
  /\ R4 \in {0, 8}
  /\ line = G1.line /\ column = G1.column + 4

Init == Quiet /\ state = "fly"

\* Where the code has the banana at time t: the line is what is left of the
\* difference in a byte, whichever of the two branches makes it.
LineAt(t)   == Byte(G1.line - High(R3, R7, t) \div 256)
ColumnAt(t) == G1.column + 4 + Far(R3, R7, t) \div 256

\* Mutation: the last line and the last column of the gorilla are not its own.
InAreaNarrow(l, c) == /\ l - G2.line \in 0 .. 2
                      /\ c - G2.column \in 0 .. 3

\* Mutation: the columns are not compared.
InAreaTall(l, c) == ~Negative((l - G2.line) * 256) /\ ~Positive((l - G2.line - 3) * 256)

\* L1 <= line <= L2 and C1 <= column <= C2, by the sign of the differences.
InArea(l, c) ==
  /\ ~Negative((l - G2.line) * 256) /\ ~Positive((l - G2.line - 3) * 256)
  /\ ~Negative(c - G2.column)       /\ ~Positive(c - G2.column - 4)

OutOfWindow(l, c) == Positive((l - 24) * 256) \/ Positive(c - 80)

\* From LOOP_JOGO on: the banana is moved, and what it meets is found.
Arrive ==
  /\ line' = LineAt(R4) /\ column' = ColumnAt(R4)
  /\ UNCHANGED throw

Hit == InArea(line', column') /\ state' = "hit" /\ UNCHANGED R4

FliesOn(l, c) == ~InArea(l, c) /\ ~OutOfWindow(l, c)

Out ==
  /\ ~InArea(line', column') /\ OutOfWindow(line', column')
  /\ state' = "out" /\ UNCHANGED R4

\* Mutation: the interrupt leaves the time as it is.
PassNoTime == FliesOn(line', column') /\ UNCHANGED <<state, R4>>

\* PASSA; then TIMER adds 8 to the time.
Pass ==
  /\ FliesOn(line', column')
  /\ R4' = Word(R4 + 8) /\ UNCHANGED state

Next == state = "fly" /\ Arrive /\ (Hit \/ Out \/ Pass)

\* The timer goes on for as long as it is started again (BananaMoves of Gorillas).
Fairness == WF_vars(Next)

Spec == Init /\ [][Next]_vars /\ Fairness

-----------------------------------------------------------------------------
\* The same throw in integers of any size.

Times(a, b) == (a * b) \div 256

RealFar(t)  == Times(VEL * t, cos(R7))
RealHigh(t) == Times(VEL * t, sin(R7)) - Times(Times(g, Times(t, t)), half)

RealLine(t)   == G1.line - RealHigh(t) \div 256
RealColumn(t) == G1.column + 4 + RealFar(t) \div 256

RealHit(t) == /\ RealLine(t) - G2.line \in 0 .. 3
              /\ RealColumn(t) - G2.column \in 0 .. 4

\* What the registers hold: the way at full speed in a word, the square of the
\* time by g in a word, and the height in the lines of a signed byte.
WayFits(t)  == VEL * t < 65536
FallFits(t) == Times(g, Times(t, t)) < 65536
LineFits(t) == RealLine(t) \in -104 .. 127

-----------------------------------------------------------------------------
\* Properties.

\* No ghost hits: if the way fits a word, a hit is one in integers of any size,
\* though neither the fall nor the height need fit theirs.  And no lost ones:
\* while everything fits, a banana on the gorilla has hit it (one that flies on
\* was last moved a tick ago).  What is kept fits a word, and a line a byte.
HitIsReal == state = "hit" /\ WayFits(R4) => RealHit(R4)

HitCounts ==
  LET last == IF state = "fly" THEN R4 - 8 ELSE R4 IN
  /\ last >= 0 /\ WayFits(last) /\ FallFits(last) /\ LineFits(last)
  /\ RealHit(last)
  => state = "hit"

HitsAreTrue == TypeOK /\ HitIsReal /\ HitCounts

\* Every throw ends, be it of speed 0: the banana falls out of the window
\* before the time or the fall go round.  Until then, while the way fits, it
\* goes neither back nor farther than a tick takes it at the highest speed: the
\* angle is limited to where the cosine, as it is computed, is still positive.
Advances     == [][WayFits(R4) => column' - column \in 0 .. 4]_vars
Lands        == state = "fly" ~> state # "fly"
FliesToItsEnd == Advances /\ Lands
=============================================================================
