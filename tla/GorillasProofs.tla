--------------------------- MODULE GorillasProofs ---------------------------
(***************************************************************************)
(* Theorems about Gorillas, for any keys, any number of them and of        *)
(* rounds, and whatever the stack holds below the digits of a round; and,  *)
(* for any speeds, angles and places of the gorillas, about the flight of  *)
(* a throw (Banana, as MCGame puts it beside the game).                    *)
(***************************************************************************)
EXTENDS MCGame, WellFoundedInduction, TLAPS

-----------------------------------------------------------------------------
\* Arithmetic of the registers.

LEMMA SixteenBits == MaxWord = 65535
  BY SMT DEF MaxWord

LEMMA AtLeastAThousand == MaxWord \in Int /\ MaxWord >= 1000
  BY SMT DEF MaxWord

LEMMA WordIsWord == ASSUME NEW n \in Int PROVE Word(n) \in Words
<1>1. Word(n) \in Int /\ 0 <= Word(n) /\ Word(n) <= 65535
  BY SixteenBits, SMT DEF Word
<1> DEFINE w == Word(n)
           top == MaxWord
<1>2. w \in Int /\ 0 <= w /\ w <= top /\ top \in Int
  BY <1>1, SixteenBits, SMT
<1> HIDE DEF w, top
<1>3. w \in 0 .. top
  BY <1>2, SMT
<1>. QED
  BY <1>3 DEF Words, w, top

LEMMA WordOfSmall == ASSUME NEW n \in Int, n >= 0, n < 65536 PROVE Word(n) = n
  BY SixteenBits, SMT DEF Word

LEMMA WordOfNegative == ASSUME NEW n \in Int, n < 0, n >= -70 PROVE Word(n) = n + 65536
<1>1. Word(n) = n % 65536
  BY SixteenBits, SMT DEF Word
<1>2. n % 65536 = n + 65536
  BY SMT
<1>. QED
  BY <1>1, <1>2

LEMMA WordIsInt == ASSUME NEW n \in Words PROVE n \in Int
  BY AtLeastAThousand, SMT DEF Words

LEMMA SmallIsWord == ASSUME NEW n \in Int, n >= 0, n <= 1000 PROVE n \in Words
  BY AtLeastAThousand, SMT DEF Words

LEMMA DigitIsSmall == ASSUME NEW d \in Digits PROVE d \in Int /\ d >= 0 /\ d <= 9
  BY GorillasAssumption, SMT DEF GorillasAssumption

LEMMA CharIsWord == ASSUME NEW d \in Digits PROVE Char(d) \in Words /\ d \in Words
  BY DigitIsSmall, SmallIsWord, SMT DEF Char

\* What SUB makes of a character.
LEMMA DigitOfChar == ASSUME NEW d \in Digits PROVE Word(Char(d) - Char(0)) = d
  BY DigitIsSmall, WordOfSmall, SMT DEF Char

\* CMP and BR.N tell which of two small numbers is the lesser.
LEMMA SignOfDifference ==
  ASSUME NEW n \in Int, n >= 0, n <= 99 PROVE Negative(n - 70) <=> n < 70
<1>1. CASE n < 70
  BY <1>1, WordOfNegative, SMT DEF Negative
<1>2. CASE ~(n < 70)
  BY <1>2, WordOfSmall, SMT DEF Negative
<1>. QED
  BY <1>1, <1>2

LEMMA NumberIsWord == ASSUME TypeOK, NEW i \in Nat \ {0} PROVE Number(i) \in Words
<1>1. \A j \in Nat \ {0} : Popped(j) \in Words
  BY GorillasAssumption, SMT DEF TypeOK, Popped, GorillasAssumption
<1>2. Popped(i) \in Int /\ Popped(i + 1) \in Int
  BY <1>1, WordIsInt, SMT
<1>3. Popped(i) + Popped(i + 1) * 10 \in Int
  BY <1>2, SMT
<1>. QED
  BY <1>3, WordIsWord DEF Number

-----------------------------------------------------------------------------
\* The types.

LEMMA AppendIsSeq == ASSUME NEW S, NEW seq \in Seq(S), NEW x \in S PROVE Append(seq, x) \in Seq(S)
  OBVIOUS

LEMMA EmptyIsSeq == ASSUME NEW S PROVE <<>> \in Seq(S)
  OBVIOUS

LEMMA BoundsAreNat == MaxKeys \in Nat /\ MaxRounds \in Nat
  BY GorillasAssumption DEF GorillasAssumption

LEMMA ZeroFits ==
  /\ 0 \in 0 .. MaxKeys /\ 0 \in 0 .. MaxRounds /\ 0 \in 0 .. 0 /\ 0 \in 0 .. 2
  /\ 0 \in Words /\ 1 \in Words
  BY BoundsAreNat, SmallIsWord

LEMMA CharsAreWords == Chars \subseteq Words /\ 0 \in Chars /\ \A d \in Digits : Char(d) \in Chars
  BY CharIsWord, SmallIsWord DEF Chars

LEMMA InitTypeOK == Init => TypeOK
<1>. SUFFICES ASSUME Init PROVE TypeOK
  OBVIOUS
<1>1. pc \in Start
  BY DEF Init, Start
<1>2. PONTUACAO \in 0 .. rounds /\ left \in Int
  BY DEF Init, Quiet
<1>3. stack \in Seq(Words) /\ typed \in Seq(Digits)
  BY EmptyIsSeq DEF Init, Quiet
<1>. QED
  BY <1>1, <1>2, <1>3, ZeroFits, CharsAreWords DEF Init, Quiet, TypeOK

LEMMA NewRoundTypes ==
  ASSUME TypeOK, NEW n \in Int, NewRound(n)
  PROVE  /\ pc' = "clearNum" /\ ANG' \in Words /\ VEL' \in Words
         /\ stack' \in Seq(Words) /\ typed' \in Seq(Digits)
         /\ R1' \in Words /\ R3' = 0
         /\ rounds' = rounds + 1 /\ rounds' \in 0 .. MaxRounds
         /\ left' = left + n /\ left' \in Int /\ base' = left'
         /\ early' = 0 /\ hurried' = 0
<1>1. rounds' \in 0 .. MaxRounds
  BY BoundsAreNat DEF TypeOK, NewRound
<1>. QED
  BY <1>1, ZeroFits, EmptyIsSeq DEF NewRound

\* Where ESCREVER_NUM looks, a digit has been pushed.
PushedInv == pc \in {"load", "sub", "store"} => Len(stack) > 0

LEMMA StoreTypes ==
  ASSUME NEW seq \in Seq(Words), Len(seq) > 0, NEW word \in Words
  PROVE  /\ [seq EXCEPT ![Len(seq)] = word] \in Seq(Words)
         /\ Len([seq EXCEPT ![Len(seq)] = word]) = Len(seq)
         /\ seq[Len(seq)] \in Words
  OBVIOUS

LEMMA TypeOKNext == ASSUME TypeOK, PushedInv, [Next]_vars PROVE TypeOK'
<1>. USE DEF TypeOK, Start, Counting, Input, flagVars, throwVars, roundVars, histVars
<1>1. CASE INTA
  BY ZeroFits, <1>1 DEF INTA
<1>2. ASSUME NEW d \in Digits, DigitKey(d) PROVE TypeOK'
  <2>1. typed' \in Seq(Digits)
    <3>1. Append(typed, d) \in Seq(Digits)
      BY AppendIsSeq
    <3>. QED
      BY <1>2, <3>1 DEF DigitKey
  <2>2. FLAG_E + 1 \in Nat
    OBVIOUS
  <2>3. early' \in Nat /\ hurried' \in Nat
    BY <1>2 DEF DigitKey
  <2>. QED
    BY ZeroFits, CharsAreWords, <1>2, <2>1, <2>2, <2>3 DEF DigitKey
<1>3. CASE INTF
  BY ZeroFits, <1>3 DEF INTF
<1>4. CASE INTB
  BY <1>4, ZeroFits, EmptyIsSeq, CharsAreWords DEF INTB
<1>5. CASE FirstPressed
  BY <1>5 DEF FirstPressed, Goto
<1>6. CASE ForgetFirst
  BY <1>6 DEF ForgetFirst, Goto
<1>7. CASE SecondPressed
  <2>1. PONTUACAO' \in 0 .. rounds'
    BY <1>7, NewRoundTypes DEF SecondPressed
  <2>. QED
    BY <1>7, <2>1, NewRoundTypes, CharsAreWords DEF SecondPressed
<1>8. CASE ClearNum
  BY <1>8 DEF ClearNum, Goto
<1>9. CASE ClearE
  BY <1>9, ZeroFits DEF ClearE, Goto
<1>10. CASE Poll
  BY ZeroFits, <1>10 DEF Poll, Goto
<1>11. CASE Push
  <2>1. R3 \in Words
    BY CharsAreWords
  <2>2. Append(stack, R3) \in Seq(Words)
    BY <2>1, AppendIsSeq
  <2>. QED
    BY <1>11, <2>2 DEF Push, Goto
<1>12. CASE LoadChar
  <2>1. stack[Len(stack)] \in Words
    BY <1>12, StoreTypes, ZeroFits DEF LoadChar, Goto, PushedInv
  <2>. QED
    BY <1>12, <2>1 DEF LoadChar, Goto
<1>13. CASE SubtractZero
  <2>1. R1 - Char(0) \in Int
    BY WordIsInt DEF Char
  <2>2. Word(R1 - Char(0)) \in Words
    BY <2>1, WordIsWord
  <2>. QED
    BY <1>13, <2>2 DEF SubtractZero, Goto
<1>14. CASE StoreDigit
  <2>1. stack' \in Seq(Words)
    BY <1>14, StoreTypes DEF StoreDigit, Goto, PushedInv
  <2>. QED
    BY <1>14, <2>1 DEF StoreDigit, Goto
<1>15. CASE ClearFlag
  BY <1>15 DEF ClearFlag, Goto
<1>16. CASE Count
  <2>1. CASE Throw
    <3>1. Number(1) \in Words /\ Number(3) \in Words /\ 70 \in Words
      BY NumberIsWord, SmallIsWord
    <3>2. ANG' \in Words /\ VEL' \in Words
      BY <2>1, <3>1 DEF Throw, Angle
    <3>3. left' \in Int /\ timer' \in 0 .. 2
      BY <2>1 DEF Throw, StartTimer
    <3>. QED
      BY <1>16, <2>1, <3>2, <3>3, ZeroFits, EmptyIsSeq, CharsAreWords DEF Count, Throw
  <2>2. CASE ~Throw
    <3>1. R1' \in Words
      BY <1>16, <2>2, ZeroFits DEF Count
    <3>. QED
      BY <1>16, <2>2, <3>1 DEF Count
  <2>. QED
    BY <2>1, <2>2
<1>17. CASE Wait
  BY <1>17 DEF Wait, Goto
<1>18. CASE Move
  <2>1. timer' \in 0 .. 2
    BY <1>18 DEF Move, StartTimer
  <2>. QED
    BY <1>18, <2>1 DEF Move, Goto
<1>19. CASE Hit
  <2>1. PONTUACAO' \in 0 .. rounds'
    BY <1>19, NewRoundTypes DEF Hit
  <2>. QED
    BY <1>19, <2>1, NewRoundTypes, CharsAreWords DEF Hit
<1>20. CASE Out
  <2>1. PONTUACAO' \in 0 .. rounds'
    BY <1>20, NewRoundTypes DEF Out
  <2>. QED
    BY <1>20, <2>1, NewRoundTypes, CharsAreWords DEF Out
<1>21. CASE UNCHANGED vars
  BY <1>21 DEF vars
<1>. QED
  BY <1>1, <1>2, <1>3, <1>4, <1>5, <1>6, <1>7, <1>8, <1>9, <1>10, <1>11, <1>12, <1>13, <1>14,
     <1>15, <1>16, <1>17, <1>18, <1>19, <1>20, <1>21 DEF Next, Main, ReadDigit

LEMMA PushedInvNext == ASSUME TypeOK, PushedInv, [Next]_vars PROVE PushedInv'
<1>. USE DEF PushedInv, Start, Counting, Input, flagVars, throwVars, roundVars, histVars, Goto
<1>1. CASE INTA \/ INTF \/ INTB \/ \E d \in Digits : DigitKey(d)
  BY <1>1 DEF INTA, INTF, INTB, DigitKey
<1>2. CASE FirstPressed \/ ForgetFirst \/ SecondPressed \/ Wait \/ Move \/ Hit \/ Out
  BY <1>2 DEF FirstPressed, ForgetFirst, SecondPressed, Wait, Move, Hit, Out, NewRound
<1>3. CASE ClearNum \/ ClearE \/ Poll \/ ClearFlag \/ Count
  BY <1>3 DEF ClearNum, ClearE, Poll, ClearFlag, Count, Throw
<1>4. CASE Push
  <2>1. R3 \in Words
    BY CharsAreWords DEF TypeOK
  <2>2. Len(Append(stack, R3)) > 0
    BY <2>1 DEF TypeOK
  <2>. QED
    BY <1>4, <2>2 DEF Push
<1>5. CASE LoadChar \/ SubtractZero
  BY <1>5 DEF LoadChar, SubtractZero
<1>6. CASE StoreDigit
  BY <1>6 DEF StoreDigit
<1>7. CASE UNCHANGED vars
  BY <1>7 DEF vars
<1>. QED
  BY <1>1, <1>2, <1>3, <1>4, <1>5, <1>6, <1>7 DEF Next, Main, ReadDigit

-----------------------------------------------------------------------------
\* Where the digits are that were typed, if none was hurried.

\* The n words of the stack up to a place are the first n digits.
Agree(n, top) ==
  /\ n <= top /\ top <= Len(stack) /\ n <= Len(typed)
  /\ \A i \in 1 .. n : stack[top - n + i] = typed[i]

\* The last of them is still on its way from R3 to the stack.
Waiting == Len(typed) > 0 /\ Agree(Len(typed) - 1, Len(stack)) /\ R3 = Char(typed[Len(typed)])

\* It is on the stack, and not yet a number there.
Pushed == Len(typed) > 0 /\ Len(stack) > 0 /\ Agree(Len(typed) - 1, Len(stack) - 1)

Kept == Agree(Len(typed), Len(stack))

Last == typed[Len(typed)]

\* Before the first of them, a key that came early may be on the same way.
KeysInv ==
  /\ pc \in Counting => typed = <<>> /\ stack = <<>>
  /\ pc \in Input => FLAG_E = Len(typed) /\ Len(typed) <= 4
  /\ pc = "poll" /\ FLAG_NUM = 0 => Kept /\ Len(typed) < 4
  /\ pc = "poll" /\ FLAG_NUM # 0 => typed = <<>> \/ Waiting
  /\ pc = "push"  => typed = <<>> \/ Waiting
  /\ pc = "load"  => typed = <<>> \/ (Pushed /\ stack[Len(stack)] = Char(Last))
  /\ pc = "sub"   => typed = <<>> \/ (Pushed /\ R1 = Char(Last))
  /\ pc = "store" => typed = <<>> \/ (Pushed /\ R1 = Last)
  /\ pc \in {"clear", "count"} => Kept
  /\ pc = "count" => FLAG_NUM = 0

\* The last part of ThrownAsTyped, until the next round.
ThrowInv ==
  pc \in {"wait", "fly"} =>
    /\ Len(typed) = 4
    /\ VEL = typed[1] * 10 + typed[2]
    /\ ANG = (LET degrees == typed[3] * 10 + typed[4] IN IF degrees < 70 THEN degrees ELSE 70)

\* What the stack holds, hurried keys or not: a digit for each key that was not
\* hurried or is still to be pushed, and no more than the keys that came.
ToBePushed(n) ==
  \/ n = 1 /\ (pc = "push" \/ (pc = "poll" /\ FLAG_NUM # 0))
  \/ n = 0 /\ ~(pc = "push" \/ (pc = "poll" /\ FLAG_NUM # 0))

MayBePushed(n) ==
  \/ n = 1 /\ (pc = "push" \/ (pc \in {"poll", "count"} /\ FLAG_NUM # 0))
  \/ n = 0 /\ ~(pc = "push" \/ (pc \in {"poll", "count"} /\ FLAG_NUM # 0))

DigitsPushed ==
  /\ FLAG_E = Len(typed)
  /\ \A n \in {0, 1} : ToBePushed(n) => Len(typed) <= hurried + Len(stack) + n
  /\ \A n \in {0, 1} : MayBePushed(n) => Len(stack) + n <= Len(typed) + early

StackInv ==
  /\ pc \in Start => rounds = 0
  /\ pc \in Counting => typed = <<>> /\ stack = <<>>
  /\ pc = "clearE" /\ FLAG_NUM # 0 => early > 0
  /\ pc \in Input => DigitsPushed
  /\ pc \in Counting \cup Input => left = base
  /\ pc \in {"wait", "fly"} => left \in (base - hurried) .. (base + early)

IInv ==
  /\ TypeOK
  /\ PushedInv
  /\ hurried = 0 => KeysInv /\ ThrowInv
  /\ StackInv

LEMMA IInvInit == Init => IInv
<1>. SUFFICES ASSUME Init PROVE IInv
  OBVIOUS
<1>1. KeysInv
  BY DEF Init, Quiet, KeysInv, Counting, Input
<1>2. ThrowInv
  BY DEF Init, ThrowInv
<1>3. PushedInv /\ StackInv
  BY DEF Init, Quiet, PushedInv, StackInv, Start, Counting, Input
<1>. QED
  BY <1>1, <1>2, <1>3, InitTypeOK DEF IInv

\* A digit that came into R3 and one that was pushed, as sequences.
LEMMA AppendLast ==
  ASSUME NEW S, NEW seq \in Seq(S), NEW x \in S
  PROVE  /\ Len(Append(seq, x)) = Len(seq) + 1
         /\ Append(seq, x)[Len(seq) + 1] = x
         /\ \A i \in 1 .. Len(seq) : Append(seq, x)[i] = seq[i]
  OBVIOUS

LEMMA StoreLast ==
  ASSUME NEW S, NEW seq \in Seq(S), Len(seq) > 0, NEW x \in S
  PROVE  /\ Len([seq EXCEPT ![Len(seq)] = x]) = Len(seq)
         /\ [seq EXCEPT ![Len(seq)] = x][Len(seq)] = x
         /\ \A i \in 1 .. Len(seq) - 1 : [seq EXCEPT ![Len(seq)] = x][i] = seq[i]
  OBVIOUS

LEMMA LastIsDigit == ASSUME TypeOK, Len(typed) > 0 PROVE Last \in Digits
  BY DEF TypeOK, Last

LEMMA KeyComes ==
  ASSUME TypeOK, KeysInv, NEW d \in Digits, DigitKey(d), Awaited
  PROVE  KeysInv'
<1>1. pc = "poll" /\ FLAG_NUM = 0 /\ Kept /\ Len(typed) < 4 /\ FLAG_E = Len(typed)
  BY DEF Awaited, KeysInv, Input
<1>2. /\ pc' = "poll" /\ FLAG_NUM' = 1 /\ R3' = Char(d) /\ FLAG_E' = FLAG_E + 1
      /\ typed' = Append(typed, d) /\ stack' = stack
  BY <1>1 DEF DigitKey, Counting
<1>3. typed \in Seq(Digits) /\ stack \in Seq(Words)
  BY DEF TypeOK
<1>4. /\ Len(typed') = Len(typed) + 1 /\ typed'[Len(typed')] = d
      /\ \A i \in 1 .. Len(typed) : typed'[i] = typed[i]
  BY <1>2, <1>3, AppendLast
<1>5. Len(typed) \in Nat
  BY <1>3
<1>6. Waiting'
  BY <1>1, <1>2, <1>3, <1>4, <1>5 DEF Waiting, Kept, Agree
<1>. QED
  BY <1>1, <1>2, <1>4, <1>5, <1>6 DEF KeysInv, Counting, Input

LEMMA DigitIsPushed == ASSUME TypeOK, KeysInv, Push PROVE KeysInv'
<1>1. pc = "push" /\ (typed = <<>> \/ Waiting) /\ FLAG_E = Len(typed) /\ Len(typed) <= 4
  BY DEF Push, Goto, KeysInv, Input
<1>2. /\ pc' = "load" /\ stack' = Append(stack, R3)
      /\ typed' = typed /\ FLAG_E' = FLAG_E
  BY DEF Push, Goto, flagVars, histVars
<1>3. typed \in Seq(Digits) /\ stack \in Seq(Words) /\ R3 \in Words
  BY CharsAreWords DEF TypeOK
<1>4. /\ Len(stack') = Len(stack) + 1 /\ stack'[Len(stack')] = R3
      /\ \A i \in 1 .. Len(stack) : stack'[i] = stack[i]
  BY <1>2, <1>3, AppendLast
<1>5. Len(stack) \in Nat /\ Len(typed) \in Nat
  BY <1>3
<1>6. Waiting => Pushed' /\ stack'[Len(stack')] = Char(Last)'
  BY <1>2, <1>4, <1>5 DEF Waiting, Pushed, Agree, Last
<1>. QED
  BY <1>1, <1>2, <1>6 DEF KeysInv, Counting, Input

LEMMA DigitIsStored == ASSUME TypeOK, PushedInv, KeysInv, StoreDigit PROVE KeysInv'
<1>1. /\ pc = "store" /\ (typed = <<>> \/ (Pushed /\ R1 = Last))
      /\ FLAG_E = Len(typed) /\ Len(typed) <= 4 /\ Len(stack) > 0
  BY DEF StoreDigit, Goto, KeysInv, Input, PushedInv
<1>2. /\ pc' = "clear" /\ FLAG_E' = FLAG_E
      /\ stack' = [stack EXCEPT ![Len(stack)] = R1] /\ typed' = typed
  BY DEF StoreDigit, Goto, flagVars, histVars
<1>3. /\ stack \in Seq(Words) /\ R1 \in Words
      /\ Len(stack) \in Nat /\ Len(typed) \in Nat
  BY DEF TypeOK
<1>4. /\ Len(stack') = Len(stack) /\ stack'[Len(stack)] = R1
      /\ \A i \in 1 .. Len(stack) - 1 : stack'[i] = stack[i]
  BY <1>1, <1>2, <1>3, StoreLast
<1>5. Kept'
  <2>. DEFINE m == Len(typed)
              n == Len(stack)
  <2>0. /\ typed' = typed /\ Len(stack') = n /\ m \in Nat /\ n \in Nat /\ n > 0
        /\ Len(typed') = m /\ Len(typed) = m
    BY <1>1, <1>2, <1>3, <1>4
  <2>1. CASE typed = <<>>
    <3>1. m = 0
      BY <2>1
    <3>. HIDE DEF m, n
    <3>. QED
      BY <3>1, <2>0 DEF Kept, Agree
  <2>2. CASE Pushed /\ R1 = Last
    <3>1. m <= n /\ m > 0
      BY <2>2, <2>0 DEF Pushed, Agree
    <3>2. \A i \in 1 .. m : stack'[n - m + i] = typed[i]
      <4>1. \A i \in 1 .. m - 1 : stack[n - 1 - (m - 1) + i] = typed[i]
        BY <2>2 DEF Pushed, Agree
      <4>2. \A i \in 1 .. n - 1 : stack'[i] = stack[i]
        BY <1>4
      <4>3. stack'[n] = typed[m]
        BY <2>2, <1>4 DEF Last
      <4>. HIDE DEF m, n
      <4>. QED
        BY <2>0, <3>1, <4>1, <4>2, <4>3
    <3>. HIDE DEF m, n
    <3>. QED
      BY <2>0, <3>1, <3>2 DEF Kept, Agree
  <2>. QED
    BY <1>1, <2>1, <2>2
<1>. QED
  BY <1>1, <1>2, <1>5 DEF KeysInv, Counting, Input

\* JOGO pops the digits and makes the numbers that were typed of them.
LEMMA ThrowIsTyped == ASSUME TypeOK, KeysInv, Count, Throw PROVE ThrowInv'
<1>1. Kept /\ FLAG_E = Len(typed) /\ Len(typed) <= 4
  BY DEF Count, KeysInv, Input
<1>2. FLAG_E = 4
  BY <1>1 DEF Count, Throw
<1>3. /\ Len(stack) \in Nat /\ Len(stack) >= 4
      /\ Len(typed) = 4 /\ typed' = typed
  BY <1>1, <1>2 DEF Kept, Agree, Count, histVars, TypeOK
<1>4. \A i \in 1 .. 4 : stack[Len(stack) - 4 + i] = typed[i]
  BY <1>1, <1>3 DEF Kept, Agree
<1>5. \A i \in 1 .. 4 : typed[i] \in Int /\ typed[i] >= 0 /\ typed[i] <= 9
  <2>1. \A i \in 1 .. Len(typed) : typed[i] \in Digits
    BY DEF TypeOK
  <2>. QED
    BY <1>3, <2>1, DigitIsSmall
<1>6. \A i, j \in 1 .. 4 :
        /\ typed[j] + typed[i] * 10 \in Int /\ typed[j] + typed[i] * 10 >= 0
        /\ typed[j] + typed[i] * 10 <= 99
        /\ typed[j] + typed[i] * 10 = typed[i] * 10 + typed[j]
  BY <1>5
<1>7. Number(1) = typed[3] * 10 + typed[4] /\ Number(3) = typed[1] * 10 + typed[2]
  <2>1. /\ Popped(1) = typed[4] /\ Popped(2) = typed[3]
        /\ Popped(3) = typed[2] /\ Popped(4) = typed[1]
    <3>1. /\ Len(stack) + 1 - 1 = Len(stack) - 4 + 4 /\ Len(stack) + 1 - 2 = Len(stack) - 4 + 3
          /\ Len(stack) + 1 - 3 = Len(stack) - 4 + 2 /\ Len(stack) + 1 - 4 = Len(stack) - 4 + 1
      BY <1>3
    <3>. QED
      BY <1>3, <1>4, <3>1 DEF Popped
  <2>2. /\ Number(1) = Word(typed[4] + typed[3] * 10)
        /\ Number(3) = Word(typed[2] + typed[1] * 10)
    BY <2>1 DEF Number
  <2>. QED
    BY <2>2, <1>6, WordOfSmall
<1>8. Negative(Number(1) - 70) <=> Number(1) < 70
  BY <1>6, <1>7, SignOfDifference
<1>. QED
  BY <1>3, <1>7, <1>8 DEF ThrowInv, Throw, Angle

LEMMA DigitsNext ==
  ASSUME TypeOK, PushedInv, hurried = 0 => KeysInv /\ ThrowInv, [Next]_vars, hurried' = 0
  PROVE  KeysInv' /\ ThrowInv'
<1>. USE DEF Start, Counting, Input, flagVars, throwVars, roundVars, histVars, Goto
<1>1. CASE SecondPressed \/ Hit \/ Out
  BY <1>1 DEF SecondPressed, Hit, Out, NewRound, KeysInv, ThrowInv
<1>2. CASE INTB
  BY <1>2 DEF INTB, KeysInv, ThrowInv
<1>3. ASSUME NEW d \in Digits, DigitKey(d) PROVE KeysInv' /\ ThrowInv'
  <2>1. hurried \in Nat
    BY DEF TypeOK
  <2>2. hurried = 0 /\ (Awaited \/ pc \in Counting)
    BY <1>3, <2>1 DEF DigitKey
  <2>3. ThrowInv'
    BY <1>3 DEF DigitKey, ThrowInv
  <2>4. CASE pc \in Counting
    <3>1. /\ pc' = pc /\ typed' = typed /\ stack' = stack
          /\ typed = <<>> /\ stack = <<>>
      BY <1>3, <2>2, <2>4 DEF DigitKey, KeysInv
    <3>. QED
      BY <2>3, <2>4, <3>1 DEF KeysInv
  <2>. QED
    BY <1>3, <2>2, <2>3, <2>4, KeyComes
<1>4. CASE INTA \/ INTF
  BY <1>4 DEF INTA, INTF, KeysInv, ThrowInv, Kept, Waiting, Pushed, Agree, Last
<1>5. CASE FirstPressed \/ ForgetFirst
  BY <1>5 DEF FirstPressed, ForgetFirst, KeysInv, ThrowInv
<1>6. CASE Wait \/ Move
  BY <1>6 DEF Wait, Move, KeysInv, ThrowInv
<1>7. CASE ReadDigit
  <2>1. hurried = 0 /\ KeysInv /\ ThrowInv
    BY <1>7 DEF ReadDigit, ClearNum, ClearE, Poll, Push, LoadChar, SubtractZero, StoreDigit,
                ClearFlag, Count
  <2>2. CASE ClearNum
    BY <2>1, <2>2 DEF ClearNum, KeysInv, ThrowInv
  <2>3. CASE ClearE
    BY <2>1, <2>3 DEF ClearE, KeysInv, ThrowInv, Kept, Agree
  <2>4. CASE Poll
    BY <2>1, <2>4 DEF Poll, KeysInv, ThrowInv, Waiting, Agree
  <2>5. CASE Push
    BY <2>1, <2>5, DigitIsPushed DEF Push, ThrowInv
  <2>6. CASE LoadChar
    BY <2>1, <2>6 DEF LoadChar, KeysInv, ThrowInv, Pushed, Agree, Last
  <2>7. CASE SubtractZero
    <3>1. typed = <<>> \/ (Pushed /\ R1 = Char(Last))
      BY <2>1, <2>7 DEF SubtractZero, KeysInv
    <3>2. typed = <<>> \/ (Pushed /\ R1' = Last)
      BY <2>7, <3>1, LastIsDigit, DigitOfChar DEF SubtractZero, Pushed
    <3>. QED
      BY <2>1, <2>7, <3>2 DEF SubtractZero, KeysInv, ThrowInv, Pushed, Agree, Last
  <2>8. CASE StoreDigit
    BY <2>1, <2>8, DigitIsStored DEF StoreDigit, ThrowInv
  <2>9. CASE ClearFlag
    BY <2>1, <2>9 DEF ClearFlag, KeysInv, ThrowInv, Kept, Agree
  <2>10. CASE Count
    <3>1. CASE Throw
      <4>1. KeysInv'
        BY <2>10, <3>1 DEF Throw, KeysInv
      <4>. QED
        BY <2>1, <2>10, <3>1, <4>1, ThrowIsTyped
    <3>2. CASE ~Throw
      <4>1. FLAG_E # 4 /\ pc' = "poll"
        BY <2>10, <3>2 DEF Count
      <4>2. Kept' /\ Len(typed') < 4
        BY <2>1, <2>10, <3>2, <4>1 DEF Count, KeysInv, Kept, Agree, TypeOK
      <4>. QED
        BY <2>1, <2>10, <3>2, <4>1, <4>2 DEF Count, KeysInv, ThrowInv
    <3>. QED
      BY <3>1, <3>2
  <2>. QED
    BY <1>7, <2>2, <2>3, <2>4, <2>5, <2>6, <2>7, <2>8, <2>9, <2>10 DEF ReadDigit
<1>8. CASE UNCHANGED vars
  BY <1>8 DEF vars, KeysInv, ThrowInv, Kept, Waiting, Pushed, Agree, Last
<1>. QED
  BY <1>1, <1>2, <1>3, <1>4, <1>5, <1>6, <1>7, <1>8 DEF Next, Main

\* The stack as a key comes.
LEMMA StackAtKey ==
  ASSUME TypeOK, StackInv, NEW d \in Digits, DigitKey(d)
  PROVE  StackInv'
<1>. USE DEF Start, Counting, Input
<1>1. /\ pc' = pc /\ FLAG_NUM' = 1 /\ FLAG_E' = FLAG_E + 1
      /\ stack' = stack /\ left' = left /\ base' = base /\ rounds' = rounds
      /\ pc \in Counting \cup Input
  BY DEF DigitKey, roundVars
<1>2. early \in Nat /\ hurried \in Nat /\ FLAG_E \in Nat /\ FLAG_NUM \in {0, 1}
  BY DEF TypeOK
<1>3. CASE pc \in Counting
  <2>1. early' = early + 1 /\ typed' = typed
    BY <1>3 DEF DigitKey
  <2>. QED
    BY <1>1, <1>2, <1>3, <2>1 DEF StackInv
<1>4. CASE pc \in Input
  <2>1. DigitsPushed
    BY <1>4 DEF StackInv
  <2>2. /\ Len(typed') = Len(typed) + 1 /\ early' = early
        /\ hurried' = IF Awaited THEN hurried ELSE hurried + 1
    <3>1. typed' = Append(typed, d) /\ typed \in Seq(Digits)
      BY <1>4 DEF DigitKey, TypeOK
    <3>. QED
      BY <1>4, <3>1, AppendLast DEF DigitKey
  <2>3. Len(typed) \in Nat /\ Len(stack) \in Nat
    BY DEF TypeOK
  <2>4. CASE Awaited
    <3>1. pc = "poll" /\ FLAG_NUM = 0 /\ hurried' = hurried
      BY <2>2, <2>4 DEF Awaited
    <3>2. Len(typed) <= hurried + Len(stack) /\ Len(stack) <= Len(typed) + early
      BY <2>1, <2>3, <1>2, <3>1 DEF DigitsPushed, ToBePushed, MayBePushed
    <3>3. DigitsPushed'
      BY <1>1, <1>2, <2>1, <2>2, <2>3, <3>1, <3>2 DEF DigitsPushed, ToBePushed, MayBePushed
    <3>. QED
      BY <1>1, <1>2, <1>4, <3>3 DEF StackInv
  <2>5. CASE ~Awaited
    <3>1. hurried' = hurried + 1 /\ ~(pc = "poll" /\ FLAG_NUM = 0)
      BY <2>2, <2>5 DEF Awaited
    <3>2. \A n \in {0, 1} : ToBePushed(n)' => ToBePushed(n)
      BY <1>1, <1>2, <3>1 DEF ToBePushed
    <3>3. \A n \in {0, 1} : MayBePushed(n)' => Len(stack) + n <= Len(typed) + 1 + early
      <4>1. Len(stack) <= Len(typed) + early
        BY <2>1, <2>3, <1>2 DEF DigitsPushed, MayBePushed
      <4>. QED
        BY <2>3, <1>2, <4>1
    <3>4. DigitsPushed'
      <4>1. FLAG_E' = Len(typed')
        BY <1>1, <2>1, <2>2 DEF DigitsPushed
      <4>2. \A n \in {0, 1} : ToBePushed(n)' => Len(typed') <= hurried' + Len(stack') + n
        BY <1>1, <1>2, <2>1, <2>2, <2>3, <3>1, <3>2 DEF DigitsPushed
      <4>3. \A n \in {0, 1} : MayBePushed(n)' => Len(stack') + n <= Len(typed') + early'
        BY <1>1, <1>2, <2>2, <2>3, <3>3
      <4>. QED
        BY <4>1, <4>2, <4>3 DEF DigitsPushed
    <3>. QED
      BY <1>1, <1>2, <1>4, <3>4 DEF StackInv
  <2>. QED
    BY <2>4, <2>5
<1>. QED
  BY <1>1, <1>3, <1>4

\* JOGO takes four words from the stack.
LEMMA StackAtThrow ==
  ASSUME TypeOK, StackInv, Count, Throw
  PROVE  /\ StackInv'
         /\ left' \in (base - hurried) .. (base + early)
<1>1. DigitsPushed /\ pc = "count" /\ left = base
  BY DEF Count, StackInv, Input
<1>2. /\ early \in Nat /\ hurried \in Nat /\ left \in Int
      /\ Len(typed) \in Nat /\ Len(stack) \in Nat /\ FLAG_NUM \in {0, 1}
  BY DEF TypeOK
<1>3. Len(typed) = 4
  BY <1>1 DEF DigitsPushed, Count, Throw
<1>4. 4 <= hurried + Len(stack) /\ Len(stack) <= 4 + early
  BY <1>1, <1>2, <1>3 DEF DigitsPushed, ToBePushed, MayBePushed
<1>5. left' = base + Len(stack) - 4
  BY <1>1 DEF Throw
<1>6. left' \in (base - hurried) .. (base + early)
  BY <1>1, <1>2, <1>4, <1>5
<1>7. pc' = "wait" /\ base' = base /\ hurried' = hurried /\ early' = early
  BY DEF Throw, Count, histVars
<1>. QED
  BY <1>6, <1>7 DEF StackInv, Start, Counting, Input

LEMMA StackAtNewRound ==
  ASSUME TypeOK, NEW n \in Int, NewRound(n)
  PROVE  StackInv'
<1>1. /\ pc' = "clearNum" /\ typed' = <<>> /\ stack' = <<>> /\ left' = base'
  BY NewRoundTypes DEF NewRound
<1>. QED
  BY <1>1 DEF StackInv, Start, Counting, Input

LEMMA StackAtDigit == ASSUME TypeOK, StackInv, ReadDigit, ~Throw PROVE StackInv'
<1>. USE DEF Start, Counting, Input, flagVars, throwVars, roundVars, histVars, Goto
<1>1. /\ left' = left /\ base' = base /\ rounds' = rounds
      /\ typed' = typed /\ early' = early /\ hurried' = hurried
  BY DEF ReadDigit, ClearNum, ClearE, Poll, Push, LoadChar, SubtractZero, StoreDigit,
         ClearFlag, Count
<1>2. /\ early \in Nat /\ hurried \in Nat /\ FLAG_NUM \in {0, 1}
      /\ Len(typed) \in Nat /\ Len(stack) \in Nat
  BY DEF TypeOK
<1>3. CASE ClearNum
  BY <1>1, <1>3 DEF ClearNum, StackInv
<1>4. CASE ClearE
  <2>1. /\ typed = <<>> /\ stack = <<>> /\ (FLAG_NUM # 0 => early > 0) /\ left = base
        /\ pc' = "poll" /\ FLAG_NUM' = FLAG_NUM /\ stack' = stack /\ FLAG_E' = 0
    BY <1>4 DEF ClearE, StackInv
  <2>2. DigitsPushed'
    BY <1>1, <1>2, <2>1 DEF DigitsPushed, ToBePushed, MayBePushed
  <2>. QED
    BY <1>1, <2>1, <2>2 DEF StackInv
<1>5. ASSUME Poll \/ LoadChar \/ SubtractZero \/ ClearFlag \/ Count PROVE StackInv'
  <2>1. /\ DigitsPushed /\ left = base
        /\ stack' = stack /\ FLAG_E' = FLAG_E /\ pc' \in Input
    BY <1>5 DEF Poll, LoadChar, SubtractZero, ClearFlag, Count, StackInv
  <2>2. \A n \in {0, 1} : ToBePushed(n)' => \E m \in {0, 1} : m <= n /\ ToBePushed(m)
    BY <1>5 DEF Poll, LoadChar, SubtractZero, ClearFlag, Count, ToBePushed
  <2>3. \A n \in {0, 1} : MayBePushed(n)' => \E m \in {0, 1} : m >= n /\ MayBePushed(m)
    BY <1>5 DEF Poll, LoadChar, SubtractZero, ClearFlag, Count, MayBePushed
  <2>4. DigitsPushed'
    BY <1>1, <1>2, <2>1, <2>2, <2>3 DEF DigitsPushed
  <2>. QED
    BY <1>1, <2>1, <2>4 DEF StackInv
<1>6. CASE Push
  <2>1. DigitsPushed /\ left = base /\ pc = "push" /\ pc' = "load" /\ FLAG_E' = FLAG_E
    BY <1>6 DEF Push, StackInv
  <2>2. Len(stack') = Len(stack) + 1
    <3>1. stack' = Append(stack, R3) /\ stack \in Seq(Words) /\ R3 \in Words
      BY <1>6, CharsAreWords DEF Push, TypeOK
    <3>. QED
      BY <3>1, AppendLast
  <2>3. Len(typed) <= hurried + Len(stack) + 1 /\ Len(stack) + 1 <= Len(typed) + early
    BY <2>1 DEF DigitsPushed, ToBePushed, MayBePushed
  <2>4. DigitsPushed'
    BY <1>1, <1>2, <2>1, <2>2, <2>3 DEF DigitsPushed, ToBePushed, MayBePushed
  <2>. QED
    BY <1>1, <2>1, <2>4 DEF StackInv
<1>7. CASE StoreDigit
  <2>1. DigitsPushed /\ left = base /\ pc = "store" /\ pc' = "clear" /\ FLAG_E' = FLAG_E
    BY <1>7 DEF StoreDigit, StackInv
  <2>2. Len(stack') = Len(stack)
    BY <1>7 DEF StoreDigit, TypeOK
  <2>3. Len(typed) <= hurried + Len(stack) /\ Len(stack) <= Len(typed) + early
    BY <1>2, <2>1 DEF DigitsPushed, ToBePushed, MayBePushed
  <2>4. DigitsPushed'
    BY <1>1, <1>2, <2>1, <2>2, <2>3 DEF DigitsPushed, ToBePushed, MayBePushed
  <2>. QED
    BY <1>1, <2>1, <2>4 DEF StackInv
<1>. QED
  BY <1>3, <1>4, <1>5, <1>6, <1>7 DEF ReadDigit

LEMMA StackNext == ASSUME TypeOK, StackInv, [Next]_vars PROVE StackInv'
<1>. USE DEF Start, Counting, Input, flagVars, throwVars, roundVars, histVars, Goto
<1>1. CASE INTA \/ INTF
  BY <1>1 DEF INTA, INTF, StackInv, DigitsPushed, ToBePushed, MayBePushed
<1>2. CASE INTB
  BY <1>2 DEF INTB, StackInv
<1>3. CASE FirstPressed \/ ForgetFirst \/ Wait \/ Move
  BY <1>3 DEF FirstPressed, ForgetFirst, Wait, Move, StackInv
<1>4. CASE SecondPressed \/ Hit \/ Out
  BY <1>4, StackAtNewRound DEF SecondPressed, Hit, Out
<1>5. CASE ReadDigit
  <2>1. Throw /\ ReadDigit => Count
    BY DEF Throw, ReadDigit, ClearNum, ClearE, Poll, Push, LoadChar, SubtractZero, StoreDigit,
           ClearFlag
  <2>. QED
    BY <1>5, <2>1, StackAtDigit, StackAtThrow
<1>6. CASE UNCHANGED vars
  BY <1>6 DEF vars, StackInv, DigitsPushed, ToBePushed, MayBePushed
<1>. QED
  BY <1>1, <1>2, <1>3, <1>4, <1>5, <1>6, StackAtKey DEF Next, Main

LEMMA IInvNext == IInv /\ [Next]_vars => IInv'
<1>. SUFFICES ASSUME IInv, [Next]_vars PROVE IInv'
  OBVIOUS
<1>1. TypeOK' /\ PushedInv'
  BY TypeOKNext, PushedInvNext DEF IInv
<1>2. hurried' = 0 => KeysInv' /\ ThrowInv'
  BY DigitsNext DEF IInv
<1>3. StackInv'
  BY StackNext DEF IInv
<1>. QED
  BY <1>1, <1>2, <1>3 DEF IInv

\* What is thrown is what was typed, in every round none of whose keys comes
\* while the one before is being read: the digit in R3, the one on the stack and
\* the count in FLAG_E keep in step with the keys, though keys come before the
\* flags are cleared and whatever the rounds before left, and no number leaves
\* sixteen bits.
THEOREM ThrowsAreTyped == Spec => []ThrownAsTyped
<1>1. IInv => ThrownAsTyped
  BY DEF IInv, ThrowInv, ThrownAsTyped, Thrown
<1>. QED
  BY <1>1, IInvInit, IInvNext, PTL DEF Spec

\* The stack pointer goes down two or three words in a round, one more at most
\* for each key that comes early and one less at most for each that is hurried,
\* be there any number of rounds and keys and any word on the stack.
THEOREM VectorsAreSafe == Spec => StackBelowVectors
<1> DEFINE Step == /\ pc = "count" /\ pc' = "wait" => Moved(0, 0)
                   /\ rounds > 0 /\ rounds' # rounds => Moved(2, 3)
<1>1. IInv /\ [Next]_vars => Step
  <2>. SUFFICES ASSUME IInv, [Next]_vars PROVE Step
    OBVIOUS
  <2>1. /\ TypeOK /\ StackInv
        /\ base \in Int /\ left \in Int /\ early \in Nat /\ hurried \in Nat
    BY DEF IInv, TypeOK
  <2>2. ASSUME pc = "count", pc' = "wait" PROVE Moved(0, 0)
    <3>1. Count /\ Throw
      BY <2>2 DEF Next, Main, ReadDigit, INTA, DigitKey, INTF, INTB, FirstPressed, ForgetFirst,
                  SecondPressed, ClearNum, ClearE, Poll, Push, LoadChar, SubtractZero,
                  StoreDigit, ClearFlag, Count, Wait, Move, Hit, Out, Goto, vars
    <3>2. left' \in (base - hurried) .. (base + early)
      BY <2>1, <3>1, StackAtThrow
    <3>. QED
      BY <2>1, <3>2 DEF Moved
  <2>3. ASSUME rounds > 0, rounds' # rounds PROVE Moved(2, 3)
    <3>1. ~SecondPressed
      BY <2>1, <2>3 DEF SecondPressed, StackInv, Start
    <3>2. Hit \/ Out
      BY <2>3, <3>1 DEF Next, Main, ReadDigit, INTA, DigitKey, INTF, INTB, FirstPressed,
                  ForgetFirst, ClearNum, ClearE, Poll, Push, LoadChar, SubtractZero,
                  StoreDigit, ClearFlag, Count, Wait, Move, vars, roundVars
    <3>3. left \in (base - hurried) .. (base + early)
      BY <2>1, <3>2 DEF Hit, Out, StackInv
    <3>4. left' = left + 2 \/ left' = left + 3
      BY <3>2 DEF Hit, Out, NewRound
    <3>. QED
      BY <2>1, <3>3, <3>4 DEF Moved
  <2>. QED
    BY <2>2, <2>3
<1>2. IInv /\ [Next]_vars => [Step]_vars
  BY <1>1
<1> HIDE DEF Step
<1>3. Spec => [][Step]_vars
  BY <1>2, IInvInit, IInvNext, PTL DEF Spec
<1>. QED
  BY <1>3 DEF StackBelowVectors, Step

-----------------------------------------------------------------------------
\* The arithmetic of the flight.

\* MULTIPLICA is the product, in 256ths, as far as it fits a word.
LEMMA ProductIs ==
  ASSUME NEW a \in Nat, NEW b \in Nat
  PROVE  /\ (a * b) \div 256 \in Nat
         /\ Flight!MULTIPLICA(a, b) = ((a * b) \div 256) % 65536
<1> DEFINE q == a \div 256
           r == a % 256
<1>1. q \in Nat /\ r \in Nat /\ a = 256 * q + r
  BY SMT
<1>2. Flight!MULTIPLICA(a, b) = (q * b + (r * b) \div 256) % 65536
  BY SMT DEF Flight!MULTIPLICA, Flight!Word
<1> HIDE DEF q, r
<1>3. a * b = 256 * (q * b) + r * b
  BY <1>1, SMT
<1> DEFINE m == q * b
           n == r * b
<1>4. m \in Nat /\ n \in Nat
  BY <1>1, SMT
<1>5. a * b = 256 * m + n /\ Flight!MULTIPLICA(a, b) = (m + n \div 256) % 65536
  BY <1>2, <1>3, SMT
<1> HIDE DEF m, n
<1>6. (256 * m + n) \div 256 = m + n \div 256 /\ m + n \div 256 \in Nat
  BY <1>4, SMT
<1>. QED
  BY <1>5, <1>6, SMT

LEMMA ProductFits ==
  ASSUME NEW a \in Nat, NEW b \in Nat, a * b <= 16777215
  PROVE  Flight!MULTIPLICA(a, b) = (a * b) \div 256
<1> DEFINE p == a * b
<1>1. p \in Nat /\ p <= 16777215 /\ Flight!MULTIPLICA(a, b) = (p \div 256) % 65536
  BY ProductIs, SMT
<1> HIDE DEF p
<1>2. (p \div 256) % 65536 = p \div 256
  BY <1>1, SMT
<1>. QED
  BY <1>1, <1>2, SMT DEF p

LEMMA ProductsGrow ==
  ASSUME NEW a \in Nat, NEW b \in Nat, NEW c \in Nat, NEW d \in Nat, a <= c, b <= d
  PROVE  a * b <= c * d
<1>1. \E i \in Nat : c = a + i
  <2>1. c = a + (c - a) /\ c - a \in Nat
    BY SMT
  <2>. QED
    BY <2>1, SMT
<1>2. \E j \in Nat : d = b + j
  <2>1. d = b + (d - b) /\ d - b \in Nat
    BY SMT
  <2>. QED
    BY <2>1, SMT
<1>3. PICK i \in Nat : c = a + i
  BY <1>1, SMT
<1>4. PICK j \in Nat : d = b + j
  BY <1>2, SMT
<1>5. c * d = a * b + a * j + i * b + i * j
  BY <1>3, <1>4, SMT
<1>6. a * b \in Nat /\ a * j \in Nat /\ i * b \in Nat /\ i * j \in Nat
  BY SMT
<1>. QED
  BY <1>5, <1>6, SMT

Between(x, low, high) == low \in Nat /\ high \in Nat /\ x \in low .. high

\* The product of numbers between bounds.
LEMMA ProductBetween ==
  ASSUME NEW a, NEW b, NEW c, NEW d, NEW x, NEW y, Between(x, a, c), Between(y, b, d),
         NEW low \in Nat, NEW high \in Nat, 256 * low <= a * b, c * d < 256 * (high + 1), high <= 65535
  PROVE  Between(Flight!MULTIPLICA(x, y), low, high)
<1>1. /\ a \in Nat /\ b \in Nat /\ c \in Nat /\ d \in Nat /\ x \in Nat /\ y \in Nat
      /\ a <= x /\ x <= c /\ b <= y /\ y <= d
  BY SMT DEF Between
<1>2. x * y <= c * d /\ a * b <= x * y
  BY <1>1, ProductsGrow, SMT
<1> DEFINE p == x * y
           e == a * b
           f == c * d
<1>3. p \in Nat /\ e \in Nat /\ f \in Nat /\ e <= p /\ p <= f /\ 256 * low <= e /\ f < 256 * (high + 1)
  BY <1>1, <1>2, SMT
<1>4. p <= 16777215 => Flight!MULTIPLICA(x, y) = p \div 256
  BY <1>1, ProductFits, SMT
<1> HIDE DEF p, e, f
<1>5. p <= 16777215 /\ p \div 256 \in low .. high
  BY <1>3, SMT
<1>. QED
  BY <1>4, <1>5, SMT DEF Between

\* The angle in radians: 329 256ths at most, for 70 degrees.
LEMMA AngleIs ==
  ASSUME NEW a \in 0 .. 70
  PROVE  Flight!CONVERT_ANG(Flight!CONVERT_SHIFT(a)) \in 0 .. 329
<1>1. Flight!CONVERT_SHIFT(a) = a * 256 /\ a * 256 \in Nat
  BY SMT DEF Flight!CONVERT_SHIFT, Flight!Word
<1>2. Flight!MULTIPLICA(402, a * 256) = 402 * a
  <2>1. 402 * (a * 256) <= 7203840 /\ (402 * (a * 256)) \div 256 = 402 * a
    BY SMT
  <2>2. Flight!MULTIPLICA(402, a * 256) = (402 * (a * 256)) \div 256
    BY <1>1, <2>1, ProductFits, SMT
  <2>. QED
    BY <2>1, <2>2, SMT
<1>3. Flight!MULTIPLICA(3, 402 * a) \in 0 .. 329
  <2> DEFINE b == 402 * a
  <2>1. b \in Nat /\ 3 * b <= 84420
    BY SMT
  <2> HIDE DEF b
  <2>2. Flight!MULTIPLICA(3, b) = (3 * b) \div 256
    BY <2>1, ProductFits, SMT
  <2>3. Flight!MULTIPLICA(3, b) \in 0 .. 329
    BY <2>1, <2>2, SMT
  <2>. QED
    BY <2>3, SMT DEF b
<1>. QED
  BY <1>1, <1>2, <1>3, SMT DEF Flight!CONVERT_ANG

\* The powers of an angle.
Square(x) == Flight!MULTIPLICA(x, x)
Cube(x)   == Flight!MULTIPLICA(x, Square(x))
Fourth(x) == Flight!MULTIPLICA(x, Cube(x))
Fifth(x)  == Flight!MULTIPLICA(x, Fourth(x))

LEMMA PowersBetween ==
  ASSUME NEW x, NEW a, NEW a2 \in Nat, NEW a3 \in Nat, NEW a4 \in Nat, NEW a5 \in Nat,
         Between(x, a, 329),
         256 * a2 <= a * a, 256 * a3 <= a * a2, 256 * a4 <= a * a3, 256 * a5 <= a * a4
  PROVE  /\ Between(Square(x), a2, 422) /\ Between(Cube(x), a3, 542)
         /\ Between(Fourth(x), a4, 696) /\ Between(Fifth(x), a5, 894)
<1>1. Between(Square(x), a2, 422)
  <2>1. 329 * 329 < 256 * (422 + 1)
    BY SMT
  <2>. QED
    BY <2>1, ProductBetween, SMT DEF Square
<1>2. Between(Cube(x), a3, 542)
  <2>1. 329 * 422 < 256 * (542 + 1)
    BY SMT
  <2>. QED
    BY <1>1, <2>1, ProductBetween, SMT DEF Cube
<1>3. Between(Fourth(x), a4, 696)
  <2>1. 329 * 542 < 256 * (696 + 1)
    BY SMT
  <2>. QED
    BY <1>2, <2>1, ProductBetween, SMT DEF Fourth
<1>4. Between(Fifth(x), a5, 894)
  <2>1. 329 * 696 < 256 * (894 + 1)
    BY SMT
  <2>. QED
    BY <1>3, <2>1, ProductBetween, SMT DEF Fifth
<1>. QED
  BY <1>1, <1>2, <1>3, <1>4, SMT

LEMMA CosineIs == ASSUME NEW x \in 0 .. 329 PROVE Flight!cos(x) \in 0 .. 256
<1>1. Between(x, 0, 329)
  BY SMT DEF Between
<1>2. Between(Square(x), 0, 422) /\ Between(Fourth(x), 0, 696)
  BY <1>1, PowersBetween, SMT
<1>3. Between(Flight!MULTIPLICA(11, Fourth(x)), 0, 29)
  <2>1. Between(11, 11, 11)
    BY SMT DEF Between
  <2>2. 11 * 696 < 256 * (29 + 1)
    BY SMT
  <2>. QED
    BY <1>2, <2>1, <2>2, ProductBetween, SMT
<1>4. Between(Flight!MULTIPLICA(Square(x), 128), 0, 211)
  <2>1. Between(128, 128, 128)
    BY SMT DEF Between
  <2>2. 422 * 128 < 256 * (211 + 1)
    BY SMT
  <2>. QED
    BY <1>2, <2>1, <2>2, ProductBetween, SMT
<1>5. Flight!cos(x) = Flight!Word(256 - (Flight!MULTIPLICA(11, Fourth(x)) + Flight!MULTIPLICA(Square(x), 128)))
  BY SMT DEF Flight!cos, Square, Cube, Fourth
<1> DEFINE m == Flight!MULTIPLICA(11, Fourth(x))
           n == Flight!MULTIPLICA(Square(x), 128)
<1>6. m \in Int /\ n \in Int /\ 0 <= m /\ m <= 29 /\ 0 <= n /\ n <= 211
  BY <1>3, <1>4, SMT DEF Between
<1> HIDE DEF m, n
<1>7. (256 - (m + n)) % 65536 \in 0 .. 256
  BY <1>6, SMT
<1>. QED
  BY <1>5, <1>7, SMT DEF m, n, Flight!Word

\* What the powers of an angle take from it.
Takes(a, less) ==
  LET a2 == (a * a) \div 256
      a3 == (a * a2) \div 256
      a4 == (a * a3) \div 256
      a5 == (a * a4) \div 256
  IN less = (a5 * 2) \div 256 + (a3 * 39) \div 256

LEMMA SineBetween ==
  ASSUME NEW x, NEW a, NEW less, Between(x, a, 329), Takes(a, less)
  PROVE  /\ Flight!sin(x) \in Int /\ 0 <= Flight!sin(x)
         /\ Flight!sin(x) <= x - less
<1> DEFINE a2 == (a * a) \div 256
           a3 == (a * a2) \div 256
           a4 == (a * a3) \div 256
           a5 == (a * a4) \div 256
           few == (a5 * 2) \div 256
           low == (a3 * 39) \div 256
<1>0. /\ a2 \in Nat /\ a3 \in Nat /\ a4 \in Nat /\ a5 \in Nat /\ few \in Nat /\ low \in Nat
      /\ 256 * a2 <= a * a /\ 256 * a3 <= a * a2 /\ 256 * a4 <= a * a3 /\ 256 * a5 <= a * a4
      /\ 256 * few <= a5 * 2 /\ 256 * low <= a3 * 39 /\ less = few + low
  <2>1. \A n \in Nat : n \div 256 \in Nat /\ 256 * (n \div 256) <= n
    BY SMT
  <2>2. \A m, n \in Nat : m * n \in Nat
    BY SMT
  <2>3. a \in Nat
    BY SMT DEF Between
  <2>4. less = few + low
    BY SMT DEF Takes
  <2> HIDE DEF few, low
  <2>5. a2 \in Nat /\ 256 * a2 <= a * a
    BY <2>1, <2>2, <2>3, SMT
  <2> HIDE DEF a2
  <2>6. a3 \in Nat /\ 256 * a3 <= a * a2
    BY <2>1, <2>2, <2>3, <2>5, SMT
  <2> HIDE DEF a3
  <2>7. a4 \in Nat /\ 256 * a4 <= a * a3
    BY <2>1, <2>2, <2>3, <2>6, SMT
  <2> HIDE DEF a4
  <2>8. a5 \in Nat /\ 256 * a5 <= a * a4
    BY <2>1, <2>2, <2>3, <2>7, SMT
  <2> HIDE DEF a5
  <2>9. few \in Nat /\ low \in Nat /\ 256 * few <= a5 * 2 /\ 256 * low <= a3 * 39
    BY <2>6, <2>8, SMT DEF few, low
  <2>. QED
    BY <2>4, <2>5, <2>6, <2>7, <2>8, <2>9, SMT
<1> HIDE DEF a2, a3, a4, a5, few, low
<1>1. /\ Between(Square(x), a2, 422) /\ Between(Cube(x), a3, 542)
      /\ Between(Fourth(x), a4, 696) /\ Between(Fifth(x), a5, 894)
  BY <1>0, PowersBetween, SMT
<1>2. Flight!sin(x) = Flight!Word(x - (Flight!MULTIPLICA(Fifth(x), 2) + Flight!MULTIPLICA(Cube(x), 39)))
  BY SMT DEF Flight!sin, Square, Cube, Fourth, Fifth
<1> DEFINE x3 == Cube(x)
           x5 == Fifth(x)
<1>3. /\ x \in Nat /\ x <= 329 /\ x3 \in Nat /\ a3 <= x3 /\ x3 <= 542 /\ x5 \in Nat /\ a5 <= x5 /\ x5 <= 894
  BY <1>1, SMT DEF Between
<1>4. 256 * x3 <= 422 * x
  <2> DEFINE y == Square(x)
  <2>1. y \in Nat /\ y <= 422
    BY <1>1, SMT DEF Between
  <2>2. x * y <= 422 * x /\ x * y \in Nat /\ 422 * x <= 138838
    BY <1>3, <2>1, ProductsGrow, SMT
  <2>3. Cube(x) = (x * y) \div 256
    <3>1. x * y <= 16777215
      BY <1>3, <2>1, <2>2, SMT
    <3>. QED
      BY <1>3, <2>1, <3>1, ProductFits, SMT DEF Cube
  <2> DEFINE p == x * y
  <2>4. p \in Nat /\ p <= 422 * x /\ x3 = p \div 256
    BY <2>2, <2>3, SMT
  <2> HIDE DEF p, x3
  <2>. QED
    BY <1>3, <2>4, SMT
<1>5. 256 * x5 <= 696 * x
  <2> DEFINE y == Fourth(x)
  <2>1. y \in Nat /\ y <= 696
    BY <1>1, SMT DEF Between
  <2>2. x * y <= 696 * x /\ x * y \in Nat /\ 696 * x <= 228984
    BY <1>3, <2>1, ProductsGrow, SMT
  <2>3. Fifth(x) = (x * y) \div 256
    <3>1. x * y <= 16777215
      BY <1>3, <2>1, <2>2, SMT
    <3>. QED
      BY <1>3, <2>1, <3>1, ProductFits, SMT DEF Fifth
  <2> DEFINE p == x * y
  <2>4. p \in Nat /\ p <= 696 * x /\ x5 = p \div 256
    BY <2>2, <2>3, SMT
  <2> HIDE DEF p, x5
  <2>. QED
    BY <1>3, <2>4, SMT
<1>6. Flight!MULTIPLICA(x5, 2) = (x5 * 2) \div 256 /\ Flight!MULTIPLICA(x3, 39) = (x3 * 39) \div 256
  <2> HIDE DEF x3, x5
  <2>1. x5 \in Nat /\ 2 \in Nat /\ x5 * 2 <= 16777215
    BY <1>3, SMT
  <2>2. x3 \in Nat /\ 39 \in Nat /\ x3 * 39 <= 16777215
    BY <1>3, SMT
  <2>3. Flight!MULTIPLICA(x5, 2) = (x5 * 2) \div 256
    <3> DEFINE b == 2
    <3>1. b \in Nat /\ x5 * b <= 16777215
      BY <2>1, SMT
    <3> HIDE DEF b
    <3>2. Flight!MULTIPLICA(x5, b) = (x5 * b) \div 256
      BY <2>1, <3>1, ProductFits, SMT
    <3>. QED
      BY <3>2, SMT DEF b
  <2>4. Flight!MULTIPLICA(x3, 39) = (x3 * 39) \div 256
    BY <2>2, ProductFits, SMT
  <2>. QED
    BY <2>3, <2>4, SMT
<1> HIDE DEF x3, x5
<1> DEFINE m == (x5 * 2) \div 256
           n == (x3 * 39) \div 256
<1>7. m \in Nat /\ n \in Nat /\ 256 * m <= x5 * 2 /\ 256 * n <= x3 * 39 /\ few <= m /\ low <= n
  BY <1>0, <1>3, SMT
<1>8. Flight!sin(x) = (x - (m + n)) % 65536
  BY <1>2, <1>6, SMT DEF x3, x5, Flight!Word
<1> HIDE DEF m, n
<1>9. 0 <= x - (m + n) /\ x - (m + n) <= 329
  BY <1>3, <1>4, <1>5, <1>7, SMT
<1>10. (x - (m + n)) % 65536 = x - (m + n)
  BY <1>3, <1>7, <1>9, SMT
<1>. QED
  BY <1>0, <1>3, <1>7, <1>8, <1>9, <1>10, SMT

\* The sine of 70 degrees is the greatest.  Between two angles it is no more than
\* the greater less what the powers of the lesser take.
LEMMA SineIs == ASSUME NEW x \in 0 .. 329 PROVE Flight!sin(x) \in 0 .. 241
<1>1. CASE x <= 241
  <2>1. Between(x, 0, 329)
    BY <1>1, SMT DEF Between
  <2>2. Takes(0, 0)
    BY SMT DEF Takes
  <2>3. Flight!sin(x) \in Int /\ 0 <= Flight!sin(x) /\ Flight!sin(x) <= x - 0
    BY <2>1, <2>2, SineBetween, SMT
  <2>. QED
    BY <1>1, <2>3, SMT
<1>2. CASE 242 <= x /\ x <= 274
  <2>1. Between(x, 242, 329)
    BY <1>2, SMT DEF Between
  <2>2. Takes(242, 33)
    BY SMT DEF Takes
  <2>3. Flight!sin(x) \in Int /\ 0 <= Flight!sin(x) /\ Flight!sin(x) <= x - 33
    BY <2>1, <2>2, SineBetween, SMT
  <2>. QED
    BY <1>2, <2>3, SMT
<1>3. CASE 275 <= x /\ x <= 291
  <2>1. Between(x, 275, 329)
    BY <1>3, SMT DEF Between
  <2>2. Takes(275, 50)
    BY SMT DEF Takes
  <2>3. Flight!sin(x) \in Int /\ 0 <= Flight!sin(x) /\ Flight!sin(x) <= x - 50
    BY <2>1, <2>2, SineBetween, SMT
  <2>. QED
    BY <1>3, <2>3, SMT
<1>4. CASE 292 <= x /\ x <= 301
  <2>1. Between(x, 292, 329)
    BY <1>4, SMT DEF Between
  <2>2. Takes(292, 60)
    BY SMT DEF Takes
  <2>3. Flight!sin(x) \in Int /\ 0 <= Flight!sin(x) /\ Flight!sin(x) <= x - 60
    BY <2>1, <2>2, SineBetween, SMT
  <2>. QED
    BY <1>4, <2>3, SMT
<1>5. CASE 302 <= x /\ x <= 308
  <2>1. Between(x, 302, 329)
    BY <1>5, SMT DEF Between
  <2>2. Takes(302, 67)
    BY SMT DEF Takes
  <2>3. Flight!sin(x) \in Int /\ 0 <= Flight!sin(x) /\ Flight!sin(x) <= x - 67
    BY <2>1, <2>2, SineBetween, SMT
  <2>. QED
    BY <1>5, <2>3, SMT
<1>6. CASE 309 <= x /\ x <= 314
  <2>1. Between(x, 309, 329)
    BY <1>6, SMT DEF Between
  <2>2. Takes(309, 73)
    BY SMT DEF Takes
  <2>3. Flight!sin(x) \in Int /\ 0 <= Flight!sin(x) /\ Flight!sin(x) <= x - 73
    BY <2>1, <2>2, SineBetween, SMT
  <2>. QED
    BY <1>6, <2>3, SMT
<1>7. CASE 315 <= x /\ x <= 318
  <2>1. Between(x, 315, 329)
    BY <1>7, SMT DEF Between
  <2>2. Takes(315, 77)
    BY SMT DEF Takes
  <2>3. Flight!sin(x) \in Int /\ 0 <= Flight!sin(x) /\ Flight!sin(x) <= x - 77
    BY <2>1, <2>2, SineBetween, SMT
  <2>. QED
    BY <1>7, <2>3, SMT
<1>8. CASE 319 <= x /\ x <= 321
  <2>1. Between(x, 319, 329)
    BY <1>8, SMT DEF Between
  <2>2. Takes(319, 80)
    BY SMT DEF Takes
  <2>3. Flight!sin(x) \in Int /\ 0 <= Flight!sin(x) /\ Flight!sin(x) <= x - 80
    BY <2>1, <2>2, SineBetween, SMT
  <2>. QED
    BY <1>8, <2>3, SMT
<1>9. CASE 322 <= x /\ x <= 324
  <2>1. Between(x, 322, 329)
    BY <1>9, SMT DEF Between
  <2>2. Takes(322, 83)
    BY SMT DEF Takes
  <2>3. Flight!sin(x) \in Int /\ 0 <= Flight!sin(x) /\ Flight!sin(x) <= x - 83
    BY <2>1, <2>2, SineBetween, SMT
  <2>. QED
    BY <1>9, <2>3, SMT
<1>10. CASE 325 <= x /\ x <= 326
  <2>1. Between(x, 325, 329)
    BY <1>10, SMT DEF Between
  <2>2. Takes(325, 85)
    BY SMT DEF Takes
  <2>3. Flight!sin(x) \in Int /\ 0 <= Flight!sin(x) /\ Flight!sin(x) <= x - 85
    BY <2>1, <2>2, SineBetween, SMT
  <2>. QED
    BY <1>10, <2>3, SMT
<1>11. CASE 327 <= x /\ x <= 328
  <2>1. Between(x, 327, 329)
    BY <1>11, SMT DEF Between
  <2>2. Takes(327, 87)
    BY SMT DEF Takes
  <2>3. Flight!sin(x) \in Int /\ 0 <= Flight!sin(x) /\ Flight!sin(x) <= x - 87
    BY <2>1, <2>2, SineBetween, SMT
  <2>. QED
    BY <1>11, <2>3, SMT
<1>12. CASE 329 <= x /\ x <= 329
  <2>1. Between(x, 329, 329)
    BY <1>12, SMT DEF Between
  <2>2. Takes(329, 88)
    BY SMT DEF Takes
  <2>3. Flight!sin(x) \in Int /\ 0 <= Flight!sin(x) /\ Flight!sin(x) <= x - 88
    BY <2>1, <2>2, SineBetween, SMT
  <2>. QED
    BY <1>12, <2>3, SMT
<1>. QED
  BY <1>1, <1>2, <1>3, <1>4, <1>5, <1>6, <1>7, <1>8, <1>9, <1>10, <1>11, <1>12, SMT

-----------------------------------------------------------------------------
\* Where the banana is.

\* A throw as it is made: where the gorillas are, and what is thrown.
Placed ==
  /\ G1.line \in 4 .. 21 /\ G1.column \in 0 .. 30
  /\ G2.line \in 4 .. 21 /\ G2.column \in 40 .. 70
  /\ speed \in 0 .. 99 /\ way = speed * 256
  /\ Flight!cos(R7) \in 0 .. 256 /\ Flight!sin(R7) \in 0 .. 241

Up(t)     == ((speed * t) * Flight!sin(R7)) \div 256
Square256(t) == (t * t) \div 256
Fallen(t) == (2509 * Square256(t)) \div 256

\* The line with the fall as the registers have it, and no byte to hold it.
LineOf(t) == G1.line - (Up(t) - (Fallen(t) % 65536) \div 2) \div 256

LEMMA ByteOfWord ==
  ASSUME NEW l \in Int, NEW n \in Int
  PROVE  (l - (n % 65536) \div 256) % 256 = (l - n \div 256) % 256
<1> DEFINE k == n \div 65536
           r == n % 65536
<1>1. k \in Int /\ r \in Int /\ n = 65536 * k + r /\ n \div 256 = 256 * k + r \div 256
  BY SMT
<1>2. n % 65536 = r
  BY SMT
<1> HIDE DEF k, r
<1>3. r \div 256 \in Int
  BY <1>1, SMT
<1>4. (l - (256 * k + r \div 256)) % 256 = (l - r \div 256) % 256
  BY <1>1, <1>3, SMT
<1>. QED
  BY <1>1, <1>2, <1>4, SMT

LEMMA WayIs ==
  ASSUME Placed, NEW t \in Nat, Flight!WayFits(t)
  PROVE  /\ speed * t \in Nat /\ speed * t <= 65535
         /\ Flight!MULTIPLICA(way, t) = speed * t
<1>1. speed \in Nat /\ way = speed * 256 /\ speed * t < 65536
  BY SMT DEF Placed, Flight!WayFits
<1> DEFINE p == speed * t
<1>2. p \in Nat /\ p <= 65535
  BY <1>1, SMT
<1>3. way * t = 256 * p /\ way \in Nat
  BY <1>1, SMT
<1> HIDE DEF p
<1>4. way * t <= 16777215 /\ (256 * p) \div 256 = p
  BY <1>2, <1>3, SMT
<1>5. Flight!MULTIPLICA(way, t) = (way * t) \div 256
  BY <1>3, <1>4, ProductFits, SMT
<1>. QED
  BY <1>2, <1>3, <1>4, <1>5, SMT DEF p

LEMMA UpIs ==
  ASSUME Placed, NEW t \in Nat, Flight!WayFits(t)
  PROVE  /\ Up(t) \in Nat
         /\ Flight!MULTIPLICA(Flight!MULTIPLICA(way, t), Flight!sin(R7)) = Up(t)
         /\ Flight!Times(speed * t, Flight!sin(R7)) = Up(t)
<1> DEFINE p == speed * t
           s == Flight!sin(R7)
<1>1. p \in Nat /\ p <= 65535 /\ Flight!MULTIPLICA(way, t) = p
  BY WayIs, SMT
<1>2. s \in Nat /\ s <= 241
  BY SMT DEF Placed
<1>3. Up(t) = (p * s) \div 256 /\ Flight!Times(p, s) = (p * s) \div 256
  BY SMT DEF Up, Flight!Times
<1> HIDE DEF p, s
<1>4. p * s <= 65535 * 241 /\ p * s \in Nat
  BY <1>1, <1>2, ProductsGrow, SMT
<1> DEFINE q == p * s
<1>5. q \in Nat /\ q <= 15793935
  BY <1>4, SMT
<1>6. Flight!MULTIPLICA(p, s) = (p * s) \div 256
  BY <1>1, <1>2, <1>5, ProductFits, SMT
<1>7. (p * s) \div 256 \in Nat
  <2> HIDE DEF q
  <2>1. q \div 256 \in Nat
    BY <1>5, SMT
  <2>. QED
    BY <2>1, SMT DEF q
<1>. QED
  BY <1>1, <1>3, <1>6, <1>7, SMT DEF p, s

LEMMA ColumnIs ==
  ASSUME Placed, NEW t \in Nat, Flight!WayFits(t)
  PROVE  Flight!ColumnAt(t) = Flight!RealColumn(t) /\ Flight!RealColumn(t) \in Int
<1> DEFINE p == speed * t
           c == Flight!cos(R7)
<1>1. p \in Nat /\ p <= 65535 /\ Flight!MULTIPLICA(way, t) = p
  BY WayIs, SMT
<1>2. c \in Nat /\ c <= 256 /\ G1.column \in Int
  BY SMT DEF Placed
<1>3. Flight!Far(way, R7, t) = Flight!MULTIPLICA(p, c) /\ Flight!RealFar(t) = (p * c) \div 256
  BY <1>1, SMT DEF Flight!Far, Flight!RealFar, Flight!Times
<1> HIDE DEF p, c
<1>4. p * c <= 65535 * 256 /\ p * c \in Nat
  BY <1>1, <1>2, ProductsGrow, SMT
<1>5. p * c <= 16777215
  BY <1>4, SMT
<1>6. Flight!MULTIPLICA(p, c) = (p * c) \div 256
  BY <1>1, <1>2, <1>5, ProductFits, SMT
<1> DEFINE far == Flight!RealFar(t)
<1>7. far \in Nat /\ Flight!Far(way, R7, t) = far
  <2> DEFINE q == p * c
  <2>1. q \in Nat /\ far = q \div 256
    BY <1>3, <1>4, SMT
  <2> HIDE DEF q, far
  <2>2. far \in Nat
    BY <2>1, SMT
  <2>. QED
    BY <1>3, <1>6, <2>2, SMT DEF far
<1>8. /\ Flight!ColumnAt(t) = G1.column + 4 + far \div 256
      /\ Flight!RealColumn(t) = G1.column + 4 + far \div 256
  BY <1>7, SMT DEF Flight!ColumnAt, Flight!RealColumn
<1> HIDE DEF far
<1>. QED
  BY <1>2, <1>7, <1>8, SMT

LEMMA FallenIs ==
  ASSUME NEW t \in Nat
  PROVE  /\ Square256(t) \in Nat /\ Fallen(t) \in Nat
         /\ Flight!Times(Flight!g, Flight!Times(t, t)) = Fallen(t)
<1> DEFINE p == t * t
<1>1. p \in Nat /\ Square256(t) = p \div 256
  BY SMT DEF Square256
<1> HIDE DEF p
<1>2. Square256(t) \in Nat
  BY <1>1, SMT
<1>3. Fallen(t) \in Nat
  BY <1>2, SMT DEF Fallen
<1>. QED
  BY <1>2, <1>3, SMT DEF Fallen, Square256, Flight!Times, Flight!g

\* The line is the low byte of LineOf, as long as the square of the time fits.
LEMMA LineIs ==
  ASSUME Placed, NEW t \in Nat, Flight!WayFits(t), Square256(t) < 65536
  PROVE  LineOf(t) \in Int /\ Flight!LineAt(t) = LineOf(t) % 256
<1> DEFINE u == Up(t)
           w == Fallen(t) % 65536
           s == Square256(t)
<1>1. u \in Nat /\ Flight!MULTIPLICA(Flight!MULTIPLICA(way, t), Flight!sin(R7)) = u
  BY UpIs, SMT
<1>2. s \in Nat /\ s < 65536 /\ Fallen(t) \in Nat /\ w \in Nat /\ w < 65536
  BY FallenIs, SMT
<1>3. Flight!MULTIPLICA(t, t) = s
  <2> DEFINE p == t * t
  <2>1. p \in Nat /\ s = p \div 256 /\ Flight!MULTIPLICA(t, t) = (p \div 256) % 65536
    BY ProductIs, SMT DEF Square256
  <2> HIDE DEF p, s
  <2>. QED
    BY <1>2, <2>1, SMT
<1>4. Flight!MULTIPLICA(2509, s) = w
  <2> DEFINE a == 2509
  <2>1. a \in Nat /\ w = ((a * s) \div 256) % 65536
    BY SMT DEF Fallen
  <2> HIDE DEF a, w, s
  <2>2. Flight!MULTIPLICA(a, s) = ((a * s) \div 256) % 65536
    BY <1>2, <2>1, ProductIs, SMT
  <2>. QED
    BY <2>1, <2>2, SMT DEF a
<1>5. Flight!MULTIPLICA(w, 128) = w \div 2
  <2> DEFINE b == 128
  <2>1. w \in Nat /\ w < 65536
    BY <1>2, SMT
  <2> HIDE DEF w
  <2>2. w * b <= 16777215 /\ b \in Nat
    BY <2>1, SMT
  <2>3. (w * b) \div 256 = w \div 2
    BY <2>1, SMT
  <2> HIDE DEF b
  <2>4. Flight!MULTIPLICA(w, b) = (w * b) \div 256
    BY <2>1, <2>2, ProductFits, SMT
  <2>. QED
    BY <2>3, <2>4, SMT DEF b
<1>6. G1.line \in Int
  BY SMT DEF Placed
<1> DEFINE n == u - w \div 2
<1>7. Flight!High(way, R7, t) = n % 65536
  <2>1. Flight!High(way, R7, t) = Flight!Word(u - Flight!MULTIPLICA(Flight!MULTIPLICA(2509, Flight!MULTIPLICA(t, t)), 128))
    BY <1>1, SMT DEF Flight!High, Flight!g, Flight!half
  <2>2. Flight!High(way, R7, t) = Flight!Word(n)
    BY <1>3, <1>4, <1>5, <2>1, SMT
  <2>. QED
    BY <2>2, SMT DEF Flight!Word
<1>8. n \in Int
  BY <1>1, <1>2, SMT
<1>9. LineOf(t) = G1.line - n \div 256
  BY SMT DEF LineOf
<1>10. Flight!LineAt(t) = (G1.line - (n % 65536) \div 256) % 256
  BY <1>7, SMT DEF Flight!LineAt, Flight!Byte
<1> HIDE DEF n
<1>. QED
  BY <1>6, <1>8, <1>9, <1>10, ByteOfWord, SMT

LEMMA RealLineIs ==
  ASSUME Placed, NEW t \in Nat, Flight!WayFits(t)
  PROVE  /\ Flight!RealLine(t) \in Int
         /\ Flight!RealLine(t) = G1.line - (Up(t) - Fallen(t) \div 2) \div 256
         /\ Fallen(t) < 65536 => Flight!RealLine(t) = LineOf(t)
<1>1. Up(t) \in Nat /\ Flight!Times(speed * t, Flight!sin(R7)) = Up(t)
  BY UpIs, SMT
<1>2. Fallen(t) \in Nat /\ Flight!Times(Flight!g, Flight!Times(t, t)) = Fallen(t)
  BY FallenIs, SMT
<1>3. Flight!Times(Fallen(t), 128) = Fallen(t) \div 2
  BY <1>2, SMT DEF Flight!Times
<1>4. Flight!RealHigh(t) = Up(t) - Fallen(t) \div 2
  BY <1>1, <1>2, <1>3, SMT DEF Flight!RealHigh, Flight!half
<1>5. Flight!RealLine(t) = G1.line - (Up(t) - Fallen(t) \div 2) \div 256 /\ G1.line \in Int
  BY <1>4, SMT DEF Flight!RealLine, Placed
<1>6. Fallen(t) < 65536 => Fallen(t) % 65536 = Fallen(t)
  BY <1>2, SMT
<1>. QED
  BY <1>1, <1>2, <1>5, <1>6, SMT DEF LineOf

LEMMA InAreaIs ==
  ASSUME Placed, NEW l \in Int, 0 <= l, l <= 255, NEW c \in Int, 4 <= c, c <= 289
  PROVE  Flight!InArea(l, c) <=> l - G2.line \in 0 .. 3 /\ c - G2.column \in 0 .. 4
<1> DEFINE i == G2.line
           j == G2.column
<1>1. i \in Int /\ 4 <= i /\ i <= 21 /\ j \in Int /\ 40 <= j /\ j <= 70
  BY SMT DEF Placed
<1> HIDE DEF i, j
<1>2. \A n : Flight!Negative(n) <=> n % 65536 >= 32768
  BY SMT DEF Flight!Negative, Flight!Word
<1>3. \A n : Flight!Positive(n) <=> ~(n % 65536 >= 32768) /\ n % 65536 # 0
  BY SMT DEF Flight!Positive, Flight!Negative, Flight!Word
<1>4. ~Flight!Negative((l - i) * 256) /\ ~Flight!Positive((l - i - 3) * 256) <=> l - i \in 0 .. 3
  <2>1. ((l - i) * 256) % 65536 >= 32768 <=> l - i < 0 \/ l - i > 127
    BY <1>1, SMT
  <2>2. ((l - i - 3) * 256) % 65536 >= 32768 <=> l - i - 3 < 0 \/ l - i - 3 > 127
    BY <1>1, SMT
  <2>3. ((l - i - 3) * 256) % 65536 # 0 <=> l - i - 3 # 0
    BY <1>1, SMT
  <2>. QED
    BY <1>1, <1>2, <1>3, <2>1, <2>2, <2>3, SMT
<1>5. ~Flight!Negative(c - j) /\ ~Flight!Positive(c - j - 4) <=> c - j \in 0 .. 4
  <2>1. (c - j) % 65536 >= 32768 <=> c - j < 0
    BY <1>1, SMT
  <2>2. (c - j - 4) % 65536 >= 32768 <=> c - j - 4 < 0
    BY <1>1, SMT
  <2>3. (c - j - 4) % 65536 # 0 <=> c - j - 4 # 0
    BY <1>1, SMT
  <2>. QED
    BY <1>1, <1>2, <1>3, <2>1, <2>2, <2>3, SMT
<1>. QED
  BY <1>4, <1>5, SMT DEF Flight!InArea, i, j

LEMMA OutIs ==
  ASSUME NEW l \in Int, 0 <= l, l <= 255, 25 <= l, l <= 151, NEW c
  PROVE  Flight!OutOfWindow(l, c)
<1>1. ~((l - 24) * 256 % 65536 >= 32768) /\ (l - 24) * 256 % 65536 # 0
  BY SMT
<1>. QED
  BY <1>1, SMT DEF Flight!OutOfWindow, Flight!Positive, Flight!Negative, Flight!Word

LEMMA FallGrows ==
  ASSUME NEW t \in Nat, NEW u \in Nat, t <= u
  PROVE  Square256(t) <= Square256(u) /\ Fallen(t) <= Fallen(u)
<1> DEFINE p == t * t
           q == u * u
<1>1. p \in Nat /\ q \in Nat /\ p <= q /\ Square256(t) = p \div 256 /\ Square256(u) = q \div 256
  BY ProductsGrow, SMT DEF Square256
<1> HIDE DEF p, q
<1>2. Square256(t) \in Nat /\ Square256(u) \in Nat /\ Square256(t) <= Square256(u)
  BY <1>1, SMT
<1>. QED
  BY <1>2, SMT DEF Fallen

\* The fall fits a word for 163 ticks, and goes round again after 231.
LEMMA FallAt ==
  /\ Square256(1304) = 6642 /\ Fallen(1304) = 65096
  /\ Square256(1312) = 6724 /\ Fallen(1312) = 65900
  /\ Square256(1848) = 13340 /\ Fallen(1848) = 130742
  /\ Square256(1856) = 13456 /\ Fallen(1856) = 131879
<1>1. Square256(1304) = 6642 /\ Square256(1312) = 6724 /\ Square256(1848) = 13340 /\ Square256(1856) = 13456
  BY SMT DEF Square256
<1>. QED
  BY <1>1, SMT DEF Fallen

\* A tick moves the banana four lines at most.
LEMMA StepIs ==
  ASSUME Placed, NEW t \in Nat, 8 <= t, t <= 1312, Flight!WayFits(t), Flight!WayFits(t - 8)
  PROVE  Flight!RealLine(t) - Flight!RealLine(t - 8) \in -4 .. 4
<1> DEFINE s == Flight!sin(R7)
           m == speed * s
           u == Up(t)
           v == Up(t - 8)
           f == Fallen(t)
           e == Fallen(t - 8)
<1>1. t - 8 \in Nat /\ speed \in Nat /\ speed <= 99 /\ s \in Nat /\ s <= 241 /\ G1.line \in Int
  BY SMT DEF Placed
<1>2. m \in Nat /\ m <= 23859
  <2> HIDE DEF s
  <2>1. m <= 99 * 241 /\ m \in Nat
    BY <1>1, ProductsGrow, SMT
  <2>. QED
    BY <2>1, SMT
<1>3. u \in Nat /\ v \in Nat /\ u - v \in 0 .. 746
  <2>1. (speed * t) * s = t * m /\ (speed * (t - 8)) * s = t * m - 8 * m
    <3> HIDE DEF s
    <3>. QED
      BY <1>1, SMT
  <2> DEFINE p == t * m
  <2>2. p \in Nat /\ u = p \div 256 /\ v = (p - 8 * m) \div 256
    <3>1. u = ((speed * t) * s) \div 256 /\ v = ((speed * (t - 8)) * s) \div 256
      BY SMT DEF Up
    <3>2. p \in Nat
      <4> HIDE DEF m
      <4>. QED
        BY <1>2, SMT
    <3> HIDE DEF s
    <3>. QED
      BY <2>1, <3>1, <3>2, SMT
  <2>3. u \in Nat /\ v \in Nat
    BY <1>1, UpIs, SMT
  <2> HIDE DEF p, m, u, v
  <2>. QED
    BY <1>2, <2>2, <2>3, SMT
<1>4. f \in Nat /\ e \in Nat /\ f - e \in 0 .. 805
  <2> DEFINE p == t * t
             r == 16 * t
  <2>1. p \in Nat /\ Square256(t) = p \div 256 /\ r \in Nat /\ r <= 20992
    BY SMT DEF Square256
  <2>2. Square256(t - 8) = (p - r + 64) \div 256
    <3>1. (t - 8) * (t - 8) = t * t - 16 * t + 64
      BY SMT
    <3>. QED
      BY <3>1, SMT DEF Square256
  <2>3. r >= 64
    BY SMT
  <2> DEFINE a == Square256(t)
             b == Square256(t - 8)
  <2>4. a \in Nat /\ b \in Nat
    BY <1>1, FallenIs, SMT
  <2> HIDE DEF p, r
  <2>5. a - b \in 0 .. 82
    <3>1. a = p \div 256 /\ b = (p - r + 64) \div 256
      BY <2>1, <2>2, SMT
    <3> HIDE DEF a, b
    <3>. QED
      BY <2>1, <2>3, <2>4, <3>1, SMT
  <2>6. f = (2509 * a) \div 256 /\ e = (2509 * b) \div 256 /\ f \in Nat /\ e \in Nat
    BY <1>1, FallenIs, SMT DEF Fallen
  <2> HIDE DEF a, b, f, e
  <2>. QED
    BY <2>4, <2>5, <2>6, SMT
<1>5. /\ Flight!RealLine(t) = G1.line - (u - f \div 2) \div 256
      /\ Flight!RealLine(t - 8) = G1.line - (v - e \div 2) \div 256
  BY <1>1, RealLineIs, SMT
<1> HIDE DEF u, v, f, e
<1> DEFINE h == u - f \div 2
           k == v - e \div 2
<1>6. h \in Int /\ k \in Int /\ h - k \in -403 .. 746
  BY <1>3, <1>4, SMT
<1>7. Flight!RealLine(t) = G1.line - h \div 256 /\ Flight!RealLine(t - 8) = G1.line - k \div 256
  BY <1>5, SMT
<1> HIDE DEF h, k
<1> DEFINE x == h \div 256
           y == k \div 256
<1>8. x \in Int /\ y \in Int /\ x - y \in -4 .. 4
  BY <1>6, SMT
<1> HIDE DEF x, y
<1>9. (G1.line - x) - (G1.line - y) \in -4 .. 4
  BY <1>1, <1>8, SMT
<1>. QED
  BY <1>7, <1>9, SMT DEF x, y

LEMMA WayFitsBefore ==
  ASSUME Placed, NEW t \in Nat, NEW n \in Nat, n <= t, Flight!WayFits(t)
  PROVE  Flight!WayFits(n)
<1>1. speed \in Nat /\ speed * t < 65536
  BY SMT DEF Placed, Flight!WayFits
<1>2. speed * n <= speed * t /\ speed * n \in Nat /\ speed * t \in Nat
  BY <1>1, ProductsGrow, SMT
<1>. QED
  BY <1>1, <1>2, SMT DEF Flight!WayFits

-----------------------------------------------------------------------------
\* A flight.

Ticks == {n \in Nat : n < 65536 /\ n % 8 = 0}

FliesOnAt(t) == Flight!FliesOn(Flight!LineAt(t), Flight!ColumnAt(t))

\* The banana has flown on at every tick before t.
Flown(t) == \A n \in Ticks : n < t => FliesOnAt(n)

LEMMA LeastTick ==
  ASSUME NEW S \in SUBSET Nat, S # {}
  PROVE  \E i \in S : \A j \in S : i <= j
<1>1. PICK i \in S : \A j \in S : <<j, i>> \notin OpToRel(<, Nat)
  BY NatLessThanWellFounded, WFMin, Zenon
<1>2. \A j \in S : ~(j < i)
  BY <1>1, Zenon DEF OpToRel
<1>. QED
  BY <1>2, SMT

\* Where the banana flies on the line it has is not one below the window, as a
\* byte.
LEMMA FliesOnIs ==
  ASSUME Placed, NEW t \in Nat, Flight!WayFits(t), Square256(t) < 65536, FliesOnAt(t)
  PROVE  ~(LineOf(t) % 256 >= 25 /\ LineOf(t) % 256 <= 151)
<1>1. LineOf(t) \in Int /\ Flight!LineAt(t) = LineOf(t) % 256
  BY LineIs, SMT
<1> DEFINE l == LineOf(t) % 256
<1>2. l \in Int /\ 0 <= l /\ l <= 255
  BY <1>1, SMT
<1>3. ~Flight!OutOfWindow(l, Flight!ColumnAt(t))
  BY <1>1, SMT DEF FliesOnAt, Flight!FliesOn
<1> HIDE DEF l
<1>4. ~(l >= 25 /\ l <= 151)
  BY <1>2, <1>3, OutIs, SMT
<1>. QED
  BY <1>4, SMT DEF l

\* While the fall fits, the line is between the one a byte has for its lowest and
\* the bottom of the window: from a tick to the next the banana cannot leave these
\* but to where it is found out of the window.
LEMMA LinesOfFlight ==
  ASSUME Placed, NEW t \in Ticks, Flown(t), Flight!WayFits(t)
  PROVE  /\ \A n \in Ticks : n < t /\ n <= 1304 => Flight!RealLine(n) \in -104 .. 24
         /\ t <= 1312 => Flight!RealLine(t) \in -108 .. 28
<1> DEFINE S == {n \in Ticks : n < t /\ n <= 1304 /\ Flight!RealLine(n) \notin -104 .. 24}
<1>1. Ticks \subseteq Nat /\ t \in Nat
  BY SMT DEF Ticks
<1>2. \A n \in Ticks : n < t => Flight!WayFits(n)
  BY <1>1, WayFitsBefore, SMT
<1>3. Flight!RealLine(0) = G1.line /\ G1.line \in 4 .. 21
  <2>1. Up(0) = 0 /\ Fallen(0) = 0
    BY SMT DEF Up, Fallen, Square256, Placed
  <2>2. Flight!RealLine(0) = G1.line - (Up(0) - Fallen(0) \div 2) \div 256
    <3>1. Flight!WayFits(0)
      BY SMT DEF Flight!WayFits, Placed
    <3>. QED
      BY <3>1, RealLineIs, SMT
  <2>3. G1.line \in 4 .. 21
    BY SMT DEF Placed
  <2>. QED
    BY <2>1, <2>2, <2>3, SMT
<1>4. ASSUME NEW n \in Ticks, n # 0
      PROVE  n - 8 \in Ticks /\ n >= 8
  BY <1>4, SMT DEF Ticks
<1>5. ASSUME NEW n \in Ticks, n <= t, n <= 1312, n # 0, n - 8 \notin S
      PROVE  Flight!RealLine(n) \in -108 .. 28
  <2>1. n \in Nat /\ n - 8 \in Nat /\ n - 8 \in Ticks /\ n >= 8 /\ n - 8 < t /\ n - 8 <= 1304
    BY <1>1, <1>4, <1>5, SMT
  <2>2. Flight!WayFits(n) /\ Flight!WayFits(n - 8)
    BY <1>1, <2>1, <1>5, WayFitsBefore, SMT
  <2>3. Flight!RealLine(n - 8) \in -104 .. 24
    BY <1>5, <2>1, SMT
  <2>4. Flight!RealLine(n) - Flight!RealLine(n - 8) \in -4 .. 4 /\ Flight!RealLine(n) \in Int
    BY <1>5, <2>1, <2>2, StepIs, RealLineIs, SMT
  <2>. QED
    BY <2>3, <2>4, SMT
<1>6. S = {}
  <2>1. SUFFICES ASSUME S # {} PROVE FALSE
    BY SMT
  <2>2. S \in SUBSET Nat
    <3>1. S \subseteq Ticks
      BY Zenon
    <3> HIDE DEF S
    <3>. QED
      BY <1>1, <3>1, SMT
  <2>3. PICK n \in S : \A j \in S : n <= j
    <3> HIDE DEF S
    <3>. QED
      BY <2>1, <2>2, LeastTick, SMT
  <2>4. n \in Ticks /\ n \in Nat /\ n < t /\ n <= 1304 /\ Flight!RealLine(n) \notin -104 .. 24
    BY <1>1, SMT
  <2>5. n # 0
    BY <1>3, <2>4, SMT
  <2>6. n - 8 \notin S
    <3>1. n - 8 < n
      BY <2>4, SMT
    <3>2. n - 8 \in S => n <= n - 8
      BY <2>3, SMT
    <3> HIDE DEF S
    <3>. QED
      BY <2>4, <3>2, SMT
  <2>7. Flight!RealLine(n) \in -108 .. 28
    <3>1. n <= t /\ n <= 1312
      BY <1>1, <2>4, SMT
    <3> HIDE DEF S
    <3>. QED
      BY <1>5, <2>4, <2>5, <2>6, <3>1, SMT
  <2>8. Flight!RealLine(n) = LineOf(n) /\ Square256(n) < 65536 /\ Flight!WayFits(n)
    <3>1. Square256(n) <= Square256(1304) /\ Fallen(n) <= Fallen(1304)
      <4>1. n \in Nat /\ 1304 \in Nat /\ n <= 1304
        BY <2>4, SMT
      <4> HIDE DEF S
      <4>. QED
        BY <4>1, FallGrows, SMT
    <3>2. Fallen(n) < 65536 /\ Square256(n) < 65536
      <4>1. Fallen(n) \in Nat /\ Square256(n) \in Nat
        BY <2>4, FallenIs, SMT
      <4>. QED
        BY <3>1, <4>1, FallAt, SMT
    <3>3. Flight!WayFits(n)
      BY <1>2, <2>4, SMT
    <3>. QED
      BY <2>4, <3>2, <3>3, RealLineIs, SMT
  <2>9. FliesOnAt(n)
    BY <2>4, SMT DEF Flown
  <2>10. ~(LineOf(n) % 256 >= 25 /\ LineOf(n) % 256 <= 151)
    BY <2>4, <2>8, <2>9, FliesOnIs, SMT
  <2> DEFINE l == LineOf(n)
  <2>11. l \in -108 .. 28 /\ l \notin -104 .. 24 /\ ~(l % 256 >= 25 /\ l % 256 <= 151)
    BY <2>4, <2>7, <2>8, <2>10, SMT
  <2> HIDE DEF l
  <2>. QED
    BY <2>11, SMT
<1>7. t <= 1312 => Flight!RealLine(t) \in -108 .. 28
  <2>1. CASE t = 0
    BY <1>3, <2>1, SMT
  <2>2. CASE t # 0
    <3>1. t - 8 \notin S /\ t <= t
      BY <1>1, <1>6, SMT
    <3> HIDE DEF S
    <3>. QED
      BY <1>5, <2>2, <3>1, SMT
  <2>. QED
    BY <2>1, <2>2, SMT
<1>. QED
  BY <1>6, <1>7, SMT

Natural(n) == n \in Nat
Fits(n)    == n \in Nat /\ n <= 65535

LEMMA ProductIsWord ==
  \A a, b : Natural(a) /\ Natural(b) =>
    Natural(Flight!MULTIPLICA(a, b)) /\ Fits(Flight!MULTIPLICA(a, b))
<1> SUFFICES ASSUME NEW a \in Nat, NEW b \in Nat
             PROVE  Natural(Flight!MULTIPLICA(a, b)) /\ Fits(Flight!MULTIPLICA(a, b))
  BY Zenon DEF Natural
<1> DEFINE p == (a * b) \div 256
           z == Flight!MULTIPLICA(a, b)
<1>1. p \in Nat /\ z = p % 65536
  BY ProductIs, SMT
<1> HIDE DEF p, z
<1>2. z \in Nat /\ z <= 65535
  BY <1>1, SMT
<1>. QED
  BY <1>2, SMT DEF z, Natural, Fits

LEMMA ColumnFits ==
  ASSUME Placed, NEW t \in Nat
  PROVE  Flight!ColumnAt(t) \in Int /\ 4 <= Flight!ColumnAt(t) /\ Flight!ColumnAt(t) <= 289
<1> DEFINE a == Flight!MULTIPLICA(way, t)
           c == Flight!cos(R7)
           far == Flight!MULTIPLICA(a, c)
<1>1. way \in Nat /\ c \in Nat /\ G1.column \in Int /\ 0 <= G1.column /\ G1.column <= 30
  BY SMT DEF Placed
<1>2. Natural(way) /\ Natural(t) /\ Natural(c)
  BY <1>1, Zenon DEF Natural
<1>3. Fits(far)
  BY <1>2, ProductIsWord, Zenon
<1>4. Flight!ColumnAt(t) = G1.column + 4 + far \div 256
  BY SMT DEF Flight!ColumnAt, Flight!Far
<1> HIDE DEF far
<1>5. far \in Nat /\ far <= 65535
  BY <1>3, SMT DEF Fits
<1>. QED
  BY <1>1, <1>4, <1>5, SMT

LEMMA LineFitsByte ==
  ASSUME Placed, NEW t \in Nat
  PROVE  Flight!LineAt(t) \in Int /\ 0 <= Flight!LineAt(t) /\ Flight!LineAt(t) <= 255
<1> DEFINE h == Flight!High(way, R7, t)
           c == 2509
           e == 128
           x == Flight!MULTIPLICA(Flight!MULTIPLICA(way, t), Flight!sin(R7))
           y == Flight!MULTIPLICA(Flight!MULTIPLICA(c, Flight!MULTIPLICA(t, t)), e)
<1>1. way \in Nat /\ Flight!sin(R7) \in Nat /\ G1.line \in Int /\ c \in Nat /\ e \in Nat
  BY SMT DEF Placed
<1>2. h = (x - y) % 65536
  BY SMT DEF Flight!High, Flight!Word, Flight!g, Flight!half
<1>3. Flight!LineAt(t) = (G1.line - h \div 256) % 256
  BY SMT DEF Flight!LineAt, Flight!Byte
<1> HIDE DEF c, e
<1>4. Natural(x) /\ Natural(y)
  <2>1. Natural(way) /\ Natural(t) /\ Natural(Flight!sin(R7)) /\ Natural(c) /\ Natural(e)
    BY <1>1, Zenon DEF Natural
  <2>. QED
    BY <2>1, ProductIsWord, Zenon
<1> HIDE DEF h, x, y
<1>5. h \in Int
  BY <1>2, <1>4, SMT DEF Natural
<1>. QED
  BY <1>1, <1>3, <1>5, SMT

LEMMA UpOf ==
  ASSUME Placed, NEW t \in Nat
  PROVE  /\ speed * Flight!sin(R7) \in Nat
         /\ t * (speed * Flight!sin(R7)) \in Nat
         /\ Up(t) = (t * (speed * Flight!sin(R7))) \div 256
<1> DEFINE s == Flight!sin(R7)
<1>1. s \in Nat /\ speed \in Nat
  BY SMT DEF Placed
<1>2. Up(t) = ((speed * t) * s) \div 256
  BY SMT DEF Up
<1> HIDE DEF s
<1>3. (speed * t) * s = t * (speed * s) /\ speed * s \in Nat
  BY <1>1, SMT
<1>4. t * (speed * s) \in Nat
  BY <1>3, SMT
<1>. QED
  BY <1>2, <1>3, <1>4, SMT DEF s

\* A flight of which the fall did not fit at the last tick: it is out of the
\* window, or over the gorilla by the lines that a fall gone round adds.
Above == /\ 256 * (G1.line + 100) + 182 <= Up(1312)
         /\ Up(1312) < 256 * (G1.line + 105) + 182

LEMMA FallGoesRound ==
  ASSUME Placed, Flown(1312), Flight!WayFits(1312)
  PROVE  /\ LineOf(1312) \in -231 .. -100
         /\ FliesOnAt(1312) => Above
<1> DEFINE u == Up(1312)
           s == Flight!sin(R7)
<1>1. 1312 \in Ticks /\ 1312 \in Nat
  BY SMT DEF Ticks
<1>2. Flight!RealLine(1312) \in -108 .. 28
  BY <1>1, LinesOfFlight, SMT
<1>3. u \in Nat /\ Flight!RealLine(1312) = G1.line - (u - 65900 \div 2) \div 256
  <2>1. /\ u \in Nat
        /\ Flight!RealLine(1312) = G1.line - (u - Fallen(1312) \div 2) \div 256
    BY <1>1, UpIs, RealLineIs, SMT
  <2>. QED
    BY <2>1, FallAt, SMT
<1>4. LineOf(1312) = G1.line - (u - (65900 % 65536) \div 2) \div 256
  BY FallAt, SMT DEF LineOf
<1>5. u <= 60521
  <2>1. speed \in Nat /\ s \in Nat /\ s <= 241 /\ speed * 1312 < 65536
    BY SMT DEF Placed, Flight!WayFits
  <2>2. speed <= 49
    BY <2>1, SMT
  <2> DEFINE m == speed * s
  <2>3. m \in Nat /\ m <= 49 * 241
    <3> HIDE DEF s
    <3>. QED
      BY <2>1, <2>2, ProductsGrow, SMT
  <2>4. u = (1312 * m) \div 256
    BY <1>1, UpOf, SMT
  <2> HIDE DEF m, u
  <2>. QED
    BY <2>3, <2>4, SMT
<1>6. G1.line \in Int /\ 4 <= G1.line /\ G1.line <= 21
  BY SMT DEF Placed
<1> DEFINE l == LineOf(1312)
           r == Flight!RealLine(1312)
<1>7. l \in Int /\ r \in Int /\ l = r - 128 /\ r >= -103
  <2>1. l = G1.line - (u - 182) \div 256 /\ r = G1.line - (u - 32950) \div 256
    BY <1>3, <1>4, SMT
  <2> HIDE DEF u, l, r
  <2>. QED
    BY <1>3, <1>5, <1>6, <2>1, SMT
<1>8. l \in -231 .. -100
  <2>1. r \in -108 .. 28
    BY <1>2, SMT
  <2> HIDE DEF l, r
  <2>. QED
    BY <1>7, <2>1, SMT
<1>9. ASSUME FliesOnAt(1312) PROVE Above
  <2>1. Square256(1312) < 65536
    BY FallAt, SMT
  <2>2. ~(l % 256 >= 25 /\ l % 256 <= 151)
    BY <1>1, <1>9, <2>1, FliesOnIs, SMT
  <2>3. l = G1.line - (u - 182) \div 256
    BY <1>4, SMT
  <2> HIDE DEF u, l
  <2>4. l \in -104 .. -100
    BY <1>8, <2>2, SMT
  <2>. QED
    BY <1>3, <1>6, <2>3, <2>4, SMT DEF Above, u
<1>. QED
  BY <1>8, <1>9, SMT

LEMMA AboveIs ==
  ASSUME Placed, Above, NEW t \in Nat, 1312 <= t, t <= 1856
  PROVE  /\ t <= 1848 => LineOf(t) \in -175 .. -1
         /\ t = 1856 => LineOf(t) \in -175 .. -105
<1> DEFINE m == speed * Flight!sin(R7)
           u == Up(1312)
           d == t - 1312
           g1 == G1.line
           p == t * m
           v == Up(t)
<1>1. g1 \in Int /\ 4 <= g1 /\ g1 <= 21
  BY SMT DEF Placed
<1>2. m \in Nat /\ u = (1312 * m) \div 256 /\ p \in Nat /\ v = p \div 256
  BY UpOf, SMT
<1>3. 256 * (g1 + 100) + 182 <= u /\ u < 256 * (g1 + 105) + 182
  BY SMT DEF Above
<1> HIDE DEF m, u, v, g1
<1>4. m >= 5230 /\ m <= 6329 /\ 1312 * m >= 256 * (256 * (g1 + 100) + 182)
  BY <1>1, <1>2, <1>3, SMT
<1>5. d \in Nat /\ d <= 544 /\ t = 1312 + d
  BY SMT
<1>6. p >= 1312 * m + 5230 * d /\ p <= 1856 * 6329
  <2>1. p = 1312 * m + m * d
    BY <1>2, <1>5, SMT
  <2>2. 5230 * d <= m * d
    BY <1>2, <1>4, <1>5, ProductsGrow, SMT
  <2>3. t * m <= 1856 * 6329
    BY <1>2, <1>4, ProductsGrow, SMT
  <2>4. m * d \in Int
    BY <1>2, <1>5, SMT
  <2>. QED
    BY <1>2, <1>5, <2>1, <2>2, <2>3, <2>4, SMT
<1> HIDE DEF p
<1>7. m \in Nat /\ v \in Nat /\ v <= 45885 /\ 256 * v + 255 >= 1312 * m + 5230 * d
  BY <1>2, <1>6, SMT
<1> DEFINE f == Fallen(t)
           a == Square256(t)
<1>8. LineOf(t) = g1 - (v - (f % 65536) \div 2) \div 256
  BY SMT DEF LineOf, g1, v
<1>9. f \in Nat /\ a \in Nat /\ f = (2509 * a) \div 256
  BY FallenIs, SMT DEF Fallen
<1>10. ASSUME t <= 1848 PROVE LineOf(t) \in -175 .. -1
  <2>1. f >= 65900 /\ f <= 130742
    <3>1. 1312 \in Nat /\ 1848 \in Nat
      BY SMT
    <3>2. Fallen(1312) <= Fallen(t) /\ Fallen(t) <= Fallen(1848)
      BY <1>10, <3>1, FallGrows, SMT
    <3>. QED
      BY <3>2, FallAt, SMT
  <2>2. a <= (1721344 + 3168 * d) \div 256
    <3> DEFINE q == t * t
    <3>1. q = 1721344 + 2624 * d + d * d
      BY <1>5, SMT
    <3>2. d * d <= 544 * d /\ d * d \in Nat
      BY <1>5, ProductsGrow, SMT
    <3>3. q \in Nat /\ a = q \div 256
      BY SMT DEF Square256
    <3>4. q <= 1721344 + 3168 * d
      BY <1>5, <3>1, <3>2, SMT
    <3> HIDE DEF q, a, d
    <3>. QED
      BY <1>5, <3>3, <3>4, SMT
  <2> HIDE DEF a, d, f
  <2>3. 131072 * f <= 5018 * (1721344 + 3168 * d)
    BY <1>5, <1>9, <2>2, SMT
  <2> DEFINE h == (f % 65536) \div 2
  <2>4. h \in Nat /\ 2 * h <= f - 65536
    BY <1>9, <2>1, SMT
  <2>5. LineOf(t) = g1 - (v - h) \div 256
    BY <1>8, SMT DEF f
  <2> HIDE DEF h
  <2>6. v - h >= 256 * (g1 + 1)
    <3>1. f <= 65901 + 122 * d
      BY <1>5, <1>9, <2>3, SMT
    <3>2. h <= 183 + 61 * d
      BY <1>5, <1>9, <2>4, <3>1, SMT
    <3>3. v >= 256 * (g1 + 100) + 20 * d
      BY <1>1, <1>4, <1>5, <1>7, SMT
    <3>4. 41 * d <= 22304
      BY <1>5, SMT
    <3>. QED
      BY <1>1, <1>5, <1>7, <2>4, <3>2, <3>3, <3>4, SMT
  <2>7. g1 - (v - h) \div 256 \in -175 .. -1
    BY <1>1, <1>7, <2>4, <2>6, SMT
  <2>. QED
    BY <2>5, <2>7, SMT
<1>11. ASSUME t = 1856 PROVE LineOf(t) \in -175 .. -105
  <2>1. f = 131879 /\ d = 544
    BY <1>11, FallAt, SMT
  <2>2. (f % 65536) \div 2 = 403
    BY <2>1, SMT
  <2>3. LineOf(t) = g1 - (v - 403) \div 256
    BY <1>8, <2>2, SMT
  <2>4. v >= 37916
    <3>1. 256 * v + 255 >= 1312 * m + 5230 * 544
      BY <1>7, <2>1, SMT
    <3>2. 1312 * m >= 6861760
      BY <1>4, <1>7, SMT
    <3> HIDE DEF d
    <3>. QED
      BY <1>7, <3>1, <3>2, SMT
  <2>5. g1 - (v - 403) \div 256 \in -175 .. -105
    BY <1>1, <1>7, <2>4, SMT
  <2>. QED
    BY <2>3, <2>5, SMT
<1>. QED
  BY <1>10, <1>11, SMT

\* Once the fall no longer fits, the banana meets no gorilla.
LEMMA NoneLate ==
  ASSUME Placed, NEW t \in Ticks, 1312 <= t, Flown(t), Flight!WayFits(t)
  PROVE  Flight!LineAt(t) \notin 4 .. 24
<1>1. t \in Nat /\ 1312 \in Ticks /\ 1856 \in Ticks
  BY SMT DEF Ticks
<1>2. Flown(1312) /\ \A n \in Ticks : n < t => FliesOnAt(n)
  <2>1. \A n \in Ticks : n < 1312 => n < t
    BY <1>1, SMT DEF Ticks
  <2>. QED
    BY <2>1, SMT DEF Flown
<1>3. Flight!WayFits(1312)
  <2>1. 1312 \in Nat
    BY SMT
  <2>. QED
    BY <1>1, <2>1, WayFitsBefore, SMT
<1>4. LineOf(1312) \in -231 .. -100 /\ (FliesOnAt(1312) => Above)
  BY <1>2, <1>3, FallGoesRound, SMT
<1>5. CASE t = 1312
  <2>1. Flight!LineAt(1312) = LineOf(1312) % 256
    <3>1. 1312 \in Nat /\ Square256(1312) < 65536
      BY FallAt, SMT
    <3>. QED
      BY <1>3, <3>1, LineIs, SMT
  <2> DEFINE l == LineOf(1312)
  <2>2. l \in -231 .. -100
    BY <1>4, SMT
  <2> HIDE DEF l
  <2>3. l % 256 \notin 4 .. 24
    BY <2>2, SMT
  <2>. QED
    BY <1>5, <2>1, <2>3, SMT DEF l
<1>6. CASE t > 1312
  <2>1. Above
    BY <1>1, <1>2, <1>4, <1>6, SMT
  <2>2. ASSUME NEW n \in Nat, 1312 <= n, n <= 1856, Flight!WayFits(n)
        PROVE  /\ Square256(n) < 65536
               /\ Flight!LineAt(n) = LineOf(n) % 256
               /\ n <= 1848 => LineOf(n) \in -175 .. -1
               /\ n = 1856 => LineOf(n) \in -175 .. -105
    <3>1. Square256(n) <= Square256(1856) /\ Square256(n) \in Nat
      <4>1. 1856 \in Nat
        BY SMT
      <4>2. Square256(n) <= Square256(1856)
        BY <2>2, <4>1, FallGrows, SMT
      <4>3. Square256(n) \in Nat
        BY <2>2, FallenIs, SMT
      <4>. QED
        BY <4>2, <4>3, SMT
    <3>2. Square256(n) < 65536
      BY <3>1, FallAt, SMT
    <3>3. Flight!LineAt(n) = LineOf(n) % 256
      BY <2>2, <3>2, LineIs, SMT
    <3>4. /\ n <= 1848 => LineOf(n) \in -175 .. -1
          /\ n = 1856 => LineOf(n) \in -175 .. -105
      BY <2>1, <2>2, AboveIs, SMT
    <3>. QED
      BY <3>2, <3>3, <3>4, SMT
  <2>3. t <= 1848 \/ t = 1856 \/ t > 1856
    BY SMT DEF Ticks
  <2>4. CASE t <= 1848 \/ t = 1856
    <3> DEFINE l == LineOf(t)
    <3>1. t <= 1856 /\ 1312 <= t
      BY <1>1, <2>4, SMT
    <3>2. Flight!LineAt(t) = l % 256 /\ l \in -175 .. -1
      <4>1. /\ Flight!LineAt(t) = LineOf(t) % 256
            /\ t <= 1848 => LineOf(t) \in -175 .. -1
            /\ t = 1856 => LineOf(t) \in -175 .. -105
        BY <1>1, <2>2, <3>1, SMT
      <4>. QED
        BY <2>4, <4>1, SMT
    <3> HIDE DEF l
    <3>3. l % 256 \notin 4 .. 24
      BY <3>2, SMT
    <3>. QED
      BY <3>2, <3>3, SMT
  <2>5. CASE t > 1856
    <3>1. FliesOnAt(1856)
      BY <1>1, <1>2, <2>5, SMT
    <3>2. Flight!WayFits(1856)
      <4>1. 1856 \in Nat /\ 1856 <= t
        BY <1>1, <2>5, SMT
      <4>. QED
        BY <1>1, <4>1, WayFitsBefore, SMT
    <3> DEFINE l == LineOf(1856)
    <3>3. Square256(1856) < 65536 /\ l \in -175 .. -105
      <4>1. 1856 \in Nat /\ 1312 <= 1856 /\ 1856 <= 1856
        BY SMT
      <4>. QED
        BY <2>2, <3>2, <4>1, SMT
    <3>4. ~(l % 256 >= 25 /\ l % 256 <= 151)
      <4>1. 1856 \in Nat
        BY SMT
      <4>. QED
        BY <3>1, <3>2, <3>3, <4>1, FliesOnIs, SMT
    <3>5. l \in -175 .. -105
      BY <3>3, SMT
    <3> HIDE DEF l
    <3>. QED
      BY <3>4, <3>5, SMT
  <2>. QED
    BY <2>3, <2>4, <2>5, SMT
<1>. QED
  BY <1>1, <1>5, <1>6, SMT


LEMMA NoGhost ==
  ASSUME Placed, NEW t \in Ticks, Flown(t), Flight!WayFits(t),
         Flight!InArea(Flight!LineAt(t), Flight!ColumnAt(t))
  PROVE  Flight!RealHit(t)
<1> DEFINE l == Flight!LineAt(t)
           c == Flight!ColumnAt(t)
           r == Flight!RealLine(t)
<1>1. t \in Nat /\ (t <= 1304 \/ t >= 1312)
  BY SMT DEF Ticks
<1>2. l \in Int /\ 0 <= l /\ l <= 255 /\ c \in Int /\ 4 <= c /\ c <= 289
  BY <1>1, LineFitsByte, ColumnFits, SMT
<1>3. Flight!InArea(l, c)
  BY SMT
<1>4. G2.line \in Int /\ 4 <= G2.line /\ G2.line <= 21
  BY SMT DEF Placed
<1>5. c = Flight!RealColumn(t)
  BY <1>1, ColumnIs, SMT
<1>7. t >= 1312 => l \notin 4 .. 24
  BY NoneLate, SMT
<1>8. t <= 1304 => r \in Int /\ l = r % 256 /\ -108 <= r /\ r <= 28
  <2>1. ASSUME t <= 1304 PROVE Square256(t) < 65536 /\ Fallen(t) < 65536
    <3>1. 1304 \in Nat
      BY SMT
    <3>2. Square256(t) <= Square256(1304) /\ Fallen(t) <= Fallen(1304)
      BY <1>1, <2>1, <3>1, FallGrows, SMT
    <3>3. Square256(t) \in Nat /\ Fallen(t) \in Nat
      BY <1>1, FallenIs, SMT
    <3>. QED
      BY <3>2, <3>3, FallAt, SMT
  <2>2. ASSUME t <= 1304 PROVE r \in Int /\ l = r % 256
    BY <1>1, <2>1, <2>2, LineIs, RealLineIs, SMT
  <2>3. ASSUME t <= 1304 PROVE r \in -108 .. 28
    <3>1. t <= 1312
      BY <1>1, <2>3, SMT
    <3>. QED
      BY <3>1, LinesOfFlight, SMT
  <2>. QED
    BY <2>2, <2>3, SMT
<1> HIDE DEF l, c, r
<1>9. l - G2.line \in 0 .. 3 /\ c - G2.column \in 0 .. 4
  BY <1>2, <1>3, InAreaIs, SMT
<1>10. l >= 4 /\ l <= 24
  BY <1>2, <1>4, <1>9, SMT
<1>11. t <= 1304
  BY <1>1, <1>2, <1>7, <1>10, SMT
<1>12. l = r
  BY <1>8, <1>10, <1>11, SMT
<1>. QED
  BY <1>5, <1>9, <1>12, SMT DEF Flight!RealHit, r

LEMMA NoMiss ==
  ASSUME Placed, NEW t \in Nat, Flight!WayFits(t), Flight!FallFits(t), Flight!RealHit(t)
  PROVE  Flight!InArea(Flight!LineAt(t), Flight!ColumnAt(t))
<1> DEFINE l == Flight!LineAt(t)
           c == Flight!ColumnAt(t)
           r == Flight!RealLine(t)
<1>1. l \in Int /\ 0 <= l /\ l <= 255 /\ c \in Int /\ 4 <= c /\ c <= 289
  BY LineFitsByte, ColumnFits, SMT
<1>2. G2.line \in Int /\ 4 <= G2.line /\ G2.line <= 21
  BY SMT DEF Placed
<1>3. c = Flight!RealColumn(t)
  BY ColumnIs, SMT
<1>4. Fallen(t) < 65536 /\ Square256(t) < 65536
  <2> DEFINE s == Square256(t)
             f == Fallen(t)
  <2>1. s \in Nat /\ f \in Nat /\ f < 65536
    BY FallenIs, SMT DEF Flight!FallFits
  <2>2. f = (2509 * s) \div 256
    BY SMT DEF Fallen
  <2> HIDE DEF s, f
  <2>3. s < 65536
    BY <2>1, <2>2, SMT
  <2>. QED
    BY <2>1, <2>3, SMT DEF s, f
<1>5. r \in Int /\ l = r % 256
  BY <1>4, LineIs, RealLineIs, SMT
<1>6. r - G2.line \in 0 .. 3 /\ Flight!RealColumn(t) - G2.column \in 0 .. 4
  BY SMT DEF Flight!RealHit
<1> HIDE DEF l, c, r
<1>7. l = r
  BY <1>2, <1>5, <1>6, SMT
<1>8. Flight!InArea(l, c)
  BY <1>1, <1>3, <1>6, <1>7, InAreaIs, SMT
<1>. QED
  BY <1>8, SMT DEF l, c

-----------------------------------------------------------------------------
\* The inductive invariant of a throw.

Counted ==
  /\ state \in {"fly", "hit", "out"}
  /\ angle \in 0 .. 70
  /\ R7 \in Nat /\ R7 <= 329
  /\ R4 \in Ticks
  /\ line \in Int /\ 0 <= line /\ line <= 255
  /\ column \in Int /\ 4 <= column /\ column <= 289

\* What the banana has met, by where it is and where it has been.
Met ==
  /\ Flown(R4)
  /\ state # "fly" =>
       /\ line = Flight!LineAt(R4) /\ column = Flight!ColumnAt(R4)
       /\ (state = "hit" <=> Flight!InArea(line, column))

FlightInv == Placed /\ Counted /\ Met

LEMMA FlightHits ==
  ASSUME FlightInv
  PROVE  HitsAreTrue
<1>1. Flight!TypeOK
  <2>1. \A gorilla \in {G1, G2} : gorilla.line \in 4 .. 21 /\ gorilla.column \in 0 .. 70
    BY SMT DEF FlightInv, Placed
  <2>2. speed \in 0 .. 99 /\ {R7, R4, way} \subseteq Flight!Words
    <3>1. Flight!MaxWord \in Nat /\ Flight!MaxWord >= 65535
      BY SMT DEF Flight!MaxWord
    <3>2. speed \in 0 .. 99 /\ way \in Nat /\ way <= 65535
      BY SMT DEF FlightInv, Placed
    <3>3. R4 \in Nat /\ R4 <= 65535 /\ R7 \in Nat /\ R7 <= 65535
      BY SMT DEF FlightInv, Counted, Ticks
    <3>4. \A n \in Nat : n <= 65535 => n \in Flight!Words
      BY <3>1, SMT DEF Flight!Words
    <3>5. way \in Flight!Words /\ R4 \in Flight!Words /\ R7 \in Flight!Words
      BY <3>2, <3>3, <3>4, SMT
    <3>. QED
      BY <3>2, <3>5, SMT
  <2>4. line \in 0 .. 255 /\ column \in 4 .. 289 /\ angle \in 0 .. 70 /\ state \in {"fly", "hit", "out"}
    BY SMT DEF FlightInv, Counted
  <2>. QED
    BY <2>1, <2>2, <2>4, SMT DEF Flight!TypeOK
<1>2. Flight!HitIsReal
  <2>1. ASSUME state = "hit", Flight!WayFits(R4) PROVE Flight!RealHit(R4)
    BY <2>1, NoGhost, SMT DEF FlightInv, Counted, Met
  <2>. QED
    BY <2>1, SMT DEF Flight!HitIsReal
<1>3. Flight!HitCounts
  <2> DEFINE last == IF state = "fly" THEN R4 - 8 ELSE R4
  <2>1. ASSUME last >= 0, Flight!WayFits(last), Flight!FallFits(last), Flight!RealHit(last)
        PROVE  state = "hit"
    <3>1. last \in Nat /\ R4 \in Nat
      BY <2>1, SMT DEF FlightInv, Counted, Ticks
    <3>2. Flight!InArea(Flight!LineAt(last), Flight!ColumnAt(last))
      BY <2>1, <3>1, NoMiss, SMT DEF FlightInv
    <3>3. CASE state = "fly"
      <4>1. last \in Ticks /\ last < R4
        BY <2>1, <3>3, SMT DEF FlightInv, Counted, Ticks
      <4>2. FliesOnAt(last)
        BY <4>1, SMT DEF FlightInv, Met, Flown
      <4>. QED
        BY <3>2, <4>2, SMT DEF FliesOnAt, Flight!FliesOn
    <3>4. CASE state # "fly"
      BY <3>2, <3>4, SMT DEF FlightInv, Met
    <3>. QED
      BY <3>3, <3>4, SMT
  <2>. QED
    BY <2>1, SMT DEF Flight!HitCounts
<1>. QED
  BY <1>1, <1>2, <1>3, SMT DEF HitsAreTrue, Flight!HitsAreTrue

\* Before the first tick the banana is over its gorilla: in the window, and on
\* the left of it.
LEMMA FliesAtOnce ==
  ASSUME Placed
  PROVE  FliesOnAt(0)
<1> DEFINE x == G1.line
           y == G1.column + 4
<1>1. Flight!LineAt(0) = x /\ Flight!ColumnAt(0) = y
  <2>1. 0 \in Nat /\ Flight!WayFits(0)
    BY SMT DEF Placed, Flight!WayFits
  <2>2. Square256(0) = 0 /\ Fallen(0) = 0
    BY SMT DEF Square256, Fallen
  <2>3. Up(0) = 0
    BY SMT DEF Up, Placed
  <2>4. LineOf(0) = x /\ x \in 4 .. 21
    BY <2>2, <2>3, SMT DEF LineOf, Placed
  <2>5. Flight!LineAt(0) = LineOf(0) % 256
    BY <2>1, <2>2, LineIs, SMT
  <2>6. Flight!ColumnAt(0) = G1.column + 4 + Flight!RealFar(0) \div 256
    BY <2>1, ColumnIs, SMT DEF Flight!RealColumn
  <2>7. Flight!RealFar(0) = 0
    BY SMT DEF Flight!RealFar, Flight!Times, Placed
  <2> HIDE DEF x, y
  <2>8. x % 256 = x
    BY <2>4, SMT
  <2>. QED
    BY <2>4, <2>5, <2>6, <2>7, <2>8, SMT DEF y, Placed
<1>2. x \in Int /\ 4 <= x /\ x <= 21 /\ y \in Int /\ 4 <= y /\ y <= 34 /\ G2.column \in Int /\ G2.column >= 40
  BY SMT DEF Placed
<1> HIDE DEF x, y
<1>3. ~Flight!InArea(x, y)
  BY <1>2, InAreaIs, SMT
<1>4. ~Flight!OutOfWindow(x, y)
  <2>1. (x - 24) * 256 < 0 /\ (x - 24) * 256 >= -5120 /\ y - 80 < 0 /\ y - 80 >= -76
    BY <1>2, SMT
  <2> DEFINE p == (x - 24) * 256
             q == y - 80
  <2>2. p \in Int /\ p < 0 /\ p >= -5120 /\ q \in Int /\ q < 0 /\ q >= -76
    BY <1>2, <2>1, SMT
  <2> HIDE DEF p, q
  <2>3. p % 65536 >= 32768 /\ q % 65536 >= 32768
    BY <2>2, SMT
  <2>. QED
    BY <2>3, SMT DEF p, q, Flight!OutOfWindow, Flight!Positive, Flight!Negative, Flight!Word
<1>. QED
  BY <1>1, <1>3, <1>4, SMT DEF FliesOnAt, Flight!FliesOn

LEMMA PlaceIs ==
  ASSUME NEW l \in Nat, NEW c \in Nat
  PROVE  /\ Flight!Place(l, c, 0).line \in 4 .. 21 /\ Flight!Place(l, c, 0).column \in 0 .. 30
         /\ Flight!Place(l, c, 40).line \in 4 .. 21 /\ Flight!Place(l, c, 40).column \in 40 .. 70
BY SMT DEF Flight!Place

LEMMA FlightStarts ==
  ASSUME Flight!Init
  PROVE  FlightInv
<1>1. Speeds \subseteq 0 .. 99 /\ Angles \subseteq 0 .. 99 /\ Lines \subseteq Nat /\ Columns \subseteq Nat
  BY FlightAssumption, Zenon DEF Flight!BananaAssumption
<1>2. /\ \E l \in Lines, c \in Columns : G1 = Flight!Place(l, c, 0)
      /\ \E m \in Lines, d \in Columns : G2 = Flight!Place(m, d, 40)
  BY Zenon DEF Flight!Init, Flight!Quiet
<1>3. angle \in {Flight!Limited(a) : a \in Angles} /\ speed \in Speeds
  BY Zenon DEF Flight!Init, Flight!Quiet
<1>4. R7 = Flight!CONVERT_ANG(Flight!CONVERT_SHIFT(angle)) /\ way = Flight!CONVERT_SHIFT(speed)
  BY Zenon DEF Flight!Init, Flight!Quiet
<1>5. R4 \in {0, 8} /\ line = G1.line /\ column = G1.column + 4 /\ state = "fly"
  BY Zenon DEF Flight!Init, Flight!Quiet
<1>6. /\ G1.line \in 4 .. 21 /\ G1.column \in 0 .. 30
      /\ G2.line \in 4 .. 21 /\ G2.column \in 40 .. 70
  <2>1. PICK l \in Lines, c \in Columns : G1 = Flight!Place(l, c, 0)
    BY <1>2, Zenon
  <2>2. PICK m \in Lines, d \in Columns : G2 = Flight!Place(m, d, 40)
    BY <1>2, Zenon
  <2>3. l \in Nat /\ c \in Nat /\ m \in Nat /\ d \in Nat
    BY <1>1, SMT
  <2>. QED
    <3>1. G1.line \in 4 .. 21 /\ G1.column \in 0 .. 30
      BY <2>1, <2>3, PlaceIs, Zenon
    <3>2. G2.line \in 4 .. 21 /\ G2.column \in 40 .. 70
      BY <2>2, <2>3, PlaceIs, Zenon
    <3>. QED
      BY <3>1, <3>2, Zenon
<1>7. angle \in 0 .. 70
  <2>1. PICK a \in Angles : angle = Flight!Limited(a)
    BY <1>3, Zenon
  <2>2. a \in 0 .. 99
    BY <1>1, <2>1, SMT
  <2>. QED
    BY <2>1, <2>2, SMT DEF Flight!Limited
<1>8. R7 \in 0 .. 329
  <2>1. Flight!CONVERT_ANG(Flight!CONVERT_SHIFT(angle)) \in 0 .. 329
    BY <1>7, AngleIs, Zenon
  <2>. QED
    BY <1>4, <2>1, Zenon
<1>9. speed \in 0 .. 99 /\ way = speed * 256
  <2>1. speed \in 0 .. 99 /\ way = (speed * 256) % 65536
    BY <1>1, <1>3, <1>4, SMT DEF Flight!CONVERT_SHIFT, Flight!Word
  <2>. QED
    BY <2>1, SMT
<1>10. Placed
  <2>1. Flight!cos(R7) \in 0 .. 256 /\ Flight!sin(R7) \in 0 .. 241
    BY <1>8, CosineIs, SineIs, Zenon
  <2>. QED
    BY <1>6, <1>9, <2>1, Zenon DEF Placed
<1>11. R4 \in {0, 8} /\ R4 \in Ticks
  BY <1>5, SMT DEF Ticks
<1>12. Counted
  <2>1. R7 \in Nat /\ R7 <= 329
    BY <1>8, SMT
  <2>. QED
    BY <1>6, <1>7, <1>11, <1>5, <2>1, SMT DEF Counted
<1>13. Met
  <2>1. \A n \in Ticks : n < R4 => n = 0
    BY <1>11, SMT DEF Ticks
  <2>. QED
    BY <1>10, <1>5, <2>1, FliesAtOnce, SMT DEF Met, Flown
<1>. QED
  BY <1>10, <1>12, <1>13, SMT DEF FlightInv

LEMMA FlightStays ==
  ASSUME FlightInv, UNCHANGED flightVars
  PROVE  FlightInv'
BY SMT DEF FlightInv, Placed, Counted, Met, Flown, FliesOnAt, flightVars, Ticks,
       Flight!FliesOn, Flight!InArea, Flight!OutOfWindow, Flight!LineAt, Flight!ColumnAt

LEMMA FlightGoesOn ==
  ASSUME FlightInv, Flight!Next
  PROVE  FlightInv'
<1> USE DEF FlightInv
<1>1. /\ state = "fly"
      /\ line' = Flight!LineAt(R4) /\ column' = Flight!ColumnAt(R4)
      /\ G1' = G1 /\ G2' = G2 /\ angle' = angle /\ speed' = speed /\ R7' = R7 /\ way' = way
  BY SMT DEF Flight!Next, Flight!Arrive, Flight!throw
<1>2. R4 \in Nat /\ R4 \in Ticks /\ R4 < 65536
  BY SMT DEF Counted, Ticks
<1>3. Placed'
  BY <1>1, SMT DEF Placed
<1>4. /\ line' \in Int /\ 0 <= line' /\ line' <= 255
      /\ column' \in Int /\ 4 <= column' /\ column' <= 289
  BY <1>1, <1>2, LineFitsByte, ColumnFits, SMT
<1>5. \A t : Flight!LineAt(t)' = Flight!LineAt(t) /\ Flight!ColumnAt(t)' = Flight!ColumnAt(t)
  BY <1>1, SMT DEF Flight!LineAt, Flight!ColumnAt
<1>6. \A t : (FliesOnAt(t))' <=> FliesOnAt(t)
  BY <1>1, <1>5, SMT DEF FliesOnAt, Flight!FliesOn, Flight!InArea, Flight!OutOfWindow
<1>7. /\ Flight!InArea(line, column)' <=> Flight!InArea(line', column')
      /\ Flight!FliesOn(line', column') <=> FliesOnAt(R4)
  BY <1>1, SMT DEF FliesOnAt, Flight!FliesOn, Flight!InArea
<1>8. CASE Flight!Hit \/ Flight!Out
  <2>1. state' \in {"hit", "out"} /\ R4' = R4 /\ (state' = "hit" <=> Flight!InArea(line', column'))
    BY <1>8, SMT DEF Flight!Hit, Flight!Out
  <2>2. Flown(R4)'
    BY <1>6, <2>1, SMT DEF Met, Flown
  <2>3. Met'
    BY <1>1, <1>5, <1>7, <2>1, <2>2, SMT DEF Met
  <2>4. Counted'
    BY <1>1, <1>4, <2>1, SMT DEF Counted
  <2>. QED
    BY <1>3, <2>3, <2>4, SMT
<1>9. CASE Flight!Pass
  <2>1. Flight!FliesOn(line', column') /\ R4' = (R4 + 8) % 65536 /\ state' = "fly"
    BY <1>1, <1>9, SMT DEF Flight!Pass, Flight!Word
  <2>2. R4' \in Nat /\ R4' < 65536 /\ R4' % 8 = 0
    BY <1>2, <2>1, SMT DEF Ticks
  <2>3. ASSUME NEW n \in Ticks, n < R4' PROVE FliesOnAt(n)
    <3>1. n < R4 \/ n = R4
      <4>1. R4' \in Nat /\ R4' <= R4 + 8
        BY <1>2, <2>1, SMT
      <4>. QED
        BY <1>2, <2>3, <4>1, SMT DEF Ticks
    <3>. QED
      BY <1>7, <2>1, <3>1, SMT DEF Met, Flown
  <2>4. R4' \in Ticks
    <3> DEFINE r == (R4 + 8) % 65536
    <3>1. r \in Ticks
      BY <1>2, SMT DEF Ticks
    <3> HIDE DEF r
    <3>2. R4' = r
      BY <2>1, SMT DEF r
    <3>. QED
      BY <3>1, <3>2, SMT
  <2>5. Met'
    BY <1>6, <2>1, <2>3, SMT DEF Met, Flown, Ticks
  <2>6. Counted'
    BY <1>1, <1>4, <2>1, <2>4, SMT DEF Counted, Ticks
  <2>. QED
    BY <1>3, <2>5, <2>6, SMT
<1>. QED
  BY <1>8, <1>9, SMT DEF Flight!Next

\* A throw hits what it would hit in integers of any size: HitsAreTrue, of the
\* flight of every throw.
THEOREM HitsAreReal == Flight!Spec => []HitsAreTrue
<1>1. Flight!Init => FlightInv
  BY FlightStarts, Zenon
<1>2. FlightInv /\ [Flight!Next]_(Flight!vars) => FlightInv'
  <2>1. CASE UNCHANGED Flight!vars
    BY <2>1, FlightStays, Zenon DEF Flight!vars, Flight!throw, flightVars
  <2>. QED
    BY <2>1, FlightGoesOn, Zenon
<1>3. FlightInv => HitsAreTrue
  BY FlightHits, Zenon
<1>. QED
  BY <1>1, <1>2, <1>3, PTL DEF Flight!Spec
=============================================================================
