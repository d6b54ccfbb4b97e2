------------------------------- MODULE MCGame -------------------------------
(***************************************************************************)
(* For TLC: the game up to each throw (Gorillas) and the flight of a throw *)
(* (Banana).  They share no state; of the two one is run, and the other is *)
(* at its end.                                                             *)
(***************************************************************************)
EXTENDS Gorillas

CONSTANTS Speeds, Angles, Lines, Columns

VARIABLES state, G1, G2, angle, speed, R7, way, R4, line, column

Flight == INSTANCE Banana WITH ANG <- angle, VEL <- speed, R3 <- way

flightVars == <<state, G1, G2, angle, speed, R7, way, R4, line, column>>

ASSUME FlightAssumption == Flight!BananaAssumption

\* Where a flight that is over is left: it makes no difference.
Landed ==
  /\ Flight!Quiet /\ state = "out"
  /\ G1 = Flight!Place(0, 0, 0) /\ G2 = Flight!Place(0, 0, 40)
  /\ angle = 0 /\ speed = 0 /\ R4 = 0

MCInit ==
  \/ Init /\ Landed
  \/ Flight!Init /\ Quiet /\ pc = "over"

MCNext ==
  \/ Next /\ UNCHANGED flightVars
  \/ Flight!Next /\ UNCHANGED vars

MCSpec == MCInit /\ [][MCNext]_<<vars, flightVars>> /\ Fairness /\ Flight!Fairness

HitsAreTrue   == Flight!HitsAreTrue
FliesToItsEnd == Flight!FliesToItsEnd
=============================================================================
