------------------------------ MODULE Gorillas ------------------------------
(***************************************************************************)
(* The game of Assembly/IAC_project.as on the P3: the program and the      *)
(* routines of its interrupts, which share registers R1, R3 and R4 and a   *)
(* few flags and save none of them.  Where interrupts are enabled a step   *)
(* is an instruction, or some of which only one can tell when an interrupt *)
(* came; where they are not, all the instructions up to the next ENI.  The *)
(* screen and the places of the gorillas are left out; module Banana says  *)
(* where a throw goes, which is chosen here.                               *)
(***************************************************************************)
EXTENDS Integers, Sequences

CONSTANTS
  Digits,    \* the keys: a set of digits
  OldWord,   \* a word POP finds below the digits: what a round left, or a vector
  MaxKeys,   \* bound: digit keys pressed in a round
  MaxRounds  \* bound: rounds played

MaxWord == 65535
Words == 0 .. MaxWord

ASSUME GorillasAssumption ==
  /\ Digits \subseteq 0 .. 9
  /\ OldWord \in Words
  /\ MaxKeys \in Nat /\ MaxRounds \in Nat

Word(n) == n % (MaxWord + 1)
Char(digit) == digit + 48

VARIABLES
  pc,
  R1, R3,           \* while a digit is being read
  FLAG_A,           \* INTA has come
  FLAG_NUM, FLAG_E, \* a digit has come, and how many
  FLAG_TRAJETORIA,  \* INTF has come
  timer,            \* the INTF to come: of the timer if it runs, and of one that has ended
  stack,            \* the digits pushed in this round
  left,             \* words below them on the stack; under 0, SP is in the vectors
  ANG, VEL,
  PONTUACAO,
  rounds,
  typed,            \* history: the keys of this round since the flags were cleared,
  early,            \* how many came before that,
  hurried,          \* how many of typed came while the one before was being read,
  base              \* and what left was when the round began

flagVars  == <<FLAG_A, FLAG_NUM, FLAG_E, FLAG_TRAJETORIA, timer>>
throwVars == <<ANG, VEL, PONTUACAO>>
roundVars == <<left, rounds>>
histVars  == <<typed, early, hurried, base>>
vars == <<pc, R1, R3, flagVars, stack, throwVars, roundVars, histVars>>

Start    == {"first", "between", "second"}
Counting == {"clearNum", "clearE"}
Input    == {"poll", "push", "load", "sub", "store", "clear", "count"}

Chars == {Char(d) : d \in Digits} \cup {0}

TypeOK ==
  /\ pc \in Start \cup Counting \cup Input \cup {"wait", "fly", "over"}
  /\ R1 \in Words /\ R3 \in Chars
  /\ FLAG_A \in {0, 1} /\ FLAG_NUM \in {0, 1} /\ FLAG_TRAJETORIA \in {0, 1}
  /\ FLAG_E \in Nat
  /\ timer \in 0 .. 2
  /\ stack \in Seq(Words)
  /\ left \in Int
  /\ ANG \in Words /\ VEL \in Words
  /\ PONTUACAO \in 0 .. rounds
  /\ rounds \in 0 .. MaxRounds
  /\ typed \in Seq(Digits)
  /\ early \in Nat /\ hurried \in Nat
  /\ base \in Int

Quiet ==
  /\ R1 = 0 /\ R3 = 0
  /\ FLAG_A = 0 /\ FLAG_NUM = 0 /\ FLAG_E = 0 /\ FLAG_TRAJETORIA = 0
  /\ timer = 0
  /\ stack = <<>> /\ left = 0
  /\ ANG = 0 /\ VEL = 0 /\ PONTUACAO = 0
  /\ rounds = 0
  /\ typed = <<>> /\ early = 0 /\ hurried = 0 /\ base = 0

Init == Quiet /\ pc = "first"

-----------------------------------------------------------------------------
\* The interrupts.  Each runs with the others off, and ends where it came but
\* for INTB, which never returns.

INTA ==
  /\ pc \in Start
  /\ FLAG_A' = 1 /\ R1' = 1
  /\ UNCHANGED <<pc, R3, FLAG_NUM, FLAG_E, FLAG_TRAJETORIA, timer, stack, throwVars,
                 roundVars, histVars>>

Awaited == pc = "poll" /\ FLAG_NUM = 0

\* I0 to I9.
DigitKey(d) ==
  /\ pc \in Counting \cup Input
  /\ early + Len(typed) < MaxKeys
  /\ R1' = 1 /\ R3' = Char(d)
  /\ FLAG_NUM' = 1 /\ FLAG_E' = FLAG_E + 1
  /\ IF pc \in Counting
       THEN early' = early + 1 /\ UNCHANGED <<typed, hurried>>
       ELSE /\ typed' = Append(typed, d)
            /\ hurried' = IF Awaited THEN hurried ELSE hurried + 1
            /\ UNCHANGED early
  /\ UNCHANGED <<pc, FLAG_A, FLAG_TRAJETORIA, timer, stack, throwVars, roundVars, base>>

\* TIMER.  The timer stops when it has given an interrupt; one that comes while
\* they are off or masked is kept.
INTF ==
  /\ pc = "wait" /\ timer > 0
  /\ R1' = 1
  /\ FLAG_TRAJETORIA' = 1
  /\ timer' = timer - 1
  /\ UNCHANGED <<pc, R3, FLAG_A, FLAG_NUM, FLAG_E, stack, throwVars, roundVars, histVars>>

\* SAIR_JOGO: the score, and a loop for ever.  What is dead there is set to 0.
INTB ==
  /\ pc \in Start \cup Counting \cup Input \cup {"wait"}
  /\ pc' = "over"
  /\ R1' = 0 /\ R3' = 0 /\ stack' = <<>> /\ ANG' = 0 /\ VEL' = 0
  /\ typed' = <<>> /\ early' = 0 /\ hurried' = 0
  /\ FLAG_A' = 0 /\ FLAG_NUM' = 0 /\ FLAG_E' = 0 /\ FLAG_TRAJETORIA' = 0 /\ timer' = 0
  /\ UNCHANGED <<PONTUACAO, roundVars, base>>

-----------------------------------------------------------------------------
\* The start: INTA twice.

Goto(from, to) == pc = from /\ pc' = to

\* NOVA_JOGADA: a round, up to the ENI of JOG_1, with some words more on the
\* stack.  What is dead here, the last throw's angle and speed and the registers,
\* is set to 0.
NewRound(words) ==
  /\ rounds < MaxRounds /\ rounds' = rounds + 1
  /\ pc' = "clearNum"
  /\ ANG' = 0 /\ VEL' = 0
  /\ stack' = <<>>
  /\ typed' = <<>> /\ early' = 0 /\ hurried' = 0
  /\ left' = left + words /\ base' = left + words
  /\ R1' = 0 /\ R3' = 0

FirstPressed ==
  /\ FLAG_A = 1 /\ Goto("first", "between")
  /\ UNCHANGED <<R1, R3, flagVars, stack, throwVars, roundVars, histVars>>

ForgetFirst ==
  /\ Goto("between", "second") /\ FLAG_A' = 0
  /\ UNCHANGED <<R1, R3, FLAG_NUM, FLAG_E, FLAG_TRAJETORIA, timer, stack, throwVars,
                 roundVars, histVars>>

SecondPressed ==
  /\ pc = "second" /\ FLAG_A = 1
  /\ NewRound(0)
  /\ UNCHANGED <<flagVars, PONTUACAO>>

-----------------------------------------------------------------------------
\* Four digits are read, two of the speed and two of the angle.

ClearNum ==
  /\ Goto("clearNum", "clearE") /\ FLAG_NUM' = 0
  /\ UNCHANGED <<R1, R3, FLAG_A, FLAG_E, FLAG_TRAJETORIA, timer, stack, throwVars,
                 roundVars, histVars>>

\* Mutation: the second MOV is missing.
ClearNothing ==
  /\ Goto("clearE", "poll")
  /\ UNCHANGED <<R1, R3, flagVars, stack, throwVars, roundVars, histVars>>

ClearE ==
  /\ Goto("clearE", "poll") /\ FLAG_E' = 0
  /\ UNCHANGED <<R1, R3, FLAG_A, FLAG_NUM, FLAG_TRAJETORIA, timer, stack, throwVars,
                 roundVars, histVars>>

\* LOOP_VAL.  An interrupt after R1 is loaded has the effect of one before.
Poll ==
  /\ FLAG_NUM # 0 /\ Goto("poll", "push")
  /\ R1' = FLAG_NUM
  /\ UNCHANGED <<R3, flagVars, stack, throwVars, roundVars, histVars>>

Push ==
  /\ Goto("push", "load")
  /\ stack' = Append(stack, R3)
  /\ UNCHANGED <<R1, R3, flagVars, throwVars, roundVars, histVars>>

\* ESCREVER_NUM: the character on the stack is turned into a number in R1.
LoadChar ==
  /\ Goto("load", "sub")
  /\ R1' = stack[Len(stack)]
  /\ UNCHANGED <<R3, flagVars, stack, throwVars, roundVars, histVars>>

SubtractZero ==
  /\ Goto("sub", "store")
  /\ R1' = Word(R1 - Char(0))
  /\ UNCHANGED <<R3, flagVars, stack, throwVars, roundVars, histVars>>

\* Mutation: the number stays in R1 and the character on the stack.
StoreNothing ==
  /\ Goto("store", "clear")
  /\ UNCHANGED <<R1, R3, flagVars, stack, throwVars, roundVars, histVars>>

StoreDigit ==
  /\ Goto("store", "clear")
  /\ stack' = [stack EXCEPT ![Len(stack)] = R1]
  /\ UNCHANGED <<R1, R3, flagVars, throwVars, roundVars, histVars>>

ClearFlag ==
  /\ Goto("clear", "count") /\ FLAG_NUM' = 0
  /\ UNCHANGED <<R1, R3, FLAG_A, FLAG_E, FLAG_TRAJETORIA, timer, stack, throwVars,
                 roundVars, histVars>>

\* The i-th word POP gives: OldWord if there are not that many digits.
Popped(i) == IF i <= Len(stack) THEN stack[Len(stack) + 1 - i] ELSE OldWord

\* Of two words the first is the units.  CMP and BR.N look at the sign bit.
Number(i) == Word(Popped(i) + Popped(i + 1) * 10)

Negative(n) == Word(n) >= 32768

Angle == IF Negative(Number(1) - 70) THEN Number(1) ELSE 70

\* A timer that runs is started anew; one that has ended leaves its interrupt.
StartTimer == timer' \in {1, IF timer = 0 THEN 1 ELSE 2}

\* JOGO: the digits are popped, and the timer started (POS_TRAJ).
Throw ==
  /\ pc' = "wait"
  /\ ANG' = Angle /\ VEL' = Number(3)
  /\ left' = left + Len(stack) - 4
  /\ stack' = <<>>
  /\ StartTimer
  /\ R1' = 0 /\ R3' = 0

Count ==
  /\ pc = "count"
  /\ \/ FLAG_E = 4 /\ Throw
     \/ FLAG_E # 4 /\ pc' = "poll" /\ R1' = FLAG_NUM
        /\ UNCHANGED <<R3, ANG, VEL, left, stack, timer>>
  /\ UNCHANGED <<FLAG_A, FLAG_NUM, FLAG_E, FLAG_TRAJETORIA, PONTUACAO, rounds, histVars>>

-----------------------------------------------------------------------------
\* The throw.

\* LOOP_JOGO.
Wait ==
  /\ FLAG_TRAJETORIA # 0 /\ Goto("wait", "fly")
  /\ UNCHANGED <<R1, R3, flagVars, stack, throwVars, roundVars, histVars>>

\* Mutation: the timer is not started again.
MoveOnce ==
  /\ Goto("fly", "wait")
  /\ FLAG_TRAJETORIA' = 0
  /\ UNCHANGED <<R1, R3, FLAG_A, FLAG_NUM, FLAG_E, timer, stack, throwVars, roundVars,
                 histVars>>

\* PASSA: the banana is drawn, and the timer started.
Move ==
  /\ Goto("fly", "wait")
  /\ FLAG_TRAJETORIA' = 0 /\ StartTimer
  /\ UNCHANGED <<R1, R3, FLAG_A, FLAG_NUM, FLAG_E, stack, throwVars, roundVars,
                 histVars>>

\* Mutation: one more register is popped after a hit than was pushed.
HitPopsFour ==
  /\ pc = "fly" /\ NewRound(-1)
  /\ PONTUACAO' = PONTUACAO + 1
  /\ UNCHANGED flagVars

\* Of the three registers pushed for the drawing one is popped after a hit and
\* none when the banana is out of the screen.  FLAG_TRAJETORIA is left at 1.
Hit ==
  /\ pc = "fly" /\ NewRound(2)
  /\ PONTUACAO' = PONTUACAO + 1
  /\ UNCHANGED flagVars

Out ==
  /\ pc = "fly" /\ NewRound(3)
  /\ UNCHANGED <<flagVars, PONTUACAO>>

ReadDigit == \/ ClearNum \/ ClearE \/ Poll \/ Push \/ LoadChar \/ SubtractZero
             \/ StoreDigit \/ ClearFlag \/ Count

Main == \/ FirstPressed \/ ForgetFirst \/ SecondPressed
        \/ ReadDigit
        \/ Wait \/ Move \/ Hit \/ Out

Next == INTA \/ (\E d \in Digits : DigitKey(d)) \/ INTF \/ INTB \/ Main

\* The processor does not stop, and a timer that runs ends.
Fairness == WF_vars(Main) /\ WF_vars(INTF)

Spec == Init /\ [][Next]_vars /\ Fairness

-----------------------------------------------------------------------------
\* Properties.

Thrown == pc = "wait"

\* If no key of a round comes while the one before is being read, the throw is
\* of the speed and the angle of its four keys, the angle limited to 70: nothing
\* on the way through R3, the stack and R1 mixes digits up.  It is so though more
\* keys come between ENI and the two MOVs that clear the flags (as:244), which
\* are forgotten or lie below the four, and whatever the keys of the rounds
\* before left on the stack and in the flags.
ThrownAsTyped ==
  /\ TypeOK
  /\ Thrown /\ hurried = 0 =>
    /\ Len(typed) = 4
    /\ VEL = typed[1] * 10 + typed[2]
    /\ ANG = (LET angle == typed[3] * 10 + typed[4] IN IF angle < 70 THEN angle ELSE 70)

\* The stack pointer, from where a round finds it: it goes down by most words at
\* most, and one more for each key that came early, and down by least at least,
\* and one less for each key that came while another was being read.
Moved(least, most) == left' \in (base + least - hurried) .. (base + most + early)

\* The stack pointer stays out of the interrupt vectors, which are above the
\* place it starts at: a throw takes what its round put on the stack and a round
\* that ends leaves two or three words of registers.  A key lost to another
\* takes a word (as:860), and only more than two of them for every round before
\* can take SP where it must not be.
StackBelowVectors ==
  [][/\ pc = "count" /\ pc' = "wait" => Moved(0, 0)
     /\ rounds > 0 /\ rounds' # rounds => Moved(2, 3)]_vars

\* After four keys, none of them hurried, there is a throw: FLAG_E and
\* the digits pushed keep in step, in every round.  And a banana in the air moves
\* on: the timer that is to wake the program is running whenever it waits.
FourKeysThrow ==
  Len(typed) = 4 /\ hurried = 0 /\ pc \in Input ~> pc \in {"wait", "over"} \/ hurried > 0
BananaMoves   == pc = "wait" ~> pc \in {"fly", "over"}
ThrowsGoOn    == FourKeysThrow /\ BananaMoves
=============================================================================
