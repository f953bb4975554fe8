------------------------------- MODULE Algorithms -------------------------------
(***************************************************************************)
(* Pure functions: the codecs of Assignment-2 (codecA.c, codecB.c) and     *)
(* isPrime of Assignment-5 (PrimeCheck.hpp).                               *)
(*                                                                         *)
(* A string is the sequence of its characters without the terminator; a    *)
(* character is a signed char.                                             *)
(***************************************************************************)
EXTENDS Integers, Sequences

Chars == (-128..127) \ {0}
Ascii == 1..127

-----------------------------------------------------------------------------
(* codecA                                                                  *)

islower(c) == c \in 97..122
isupper(c) == c \in 65..90

SwapCase(c) == IF islower(c) THEN c - 32 ELSE IF isupper(c) THEN c + 32 ELSE c

encodeA(str) == [i \in 1..Len(str) |-> SwapCase(str[i])]
decodeA(str) == encodeA(str)

-----------------------------------------------------------------------------
(* codecB                                                                  *)

\* the % of C, which takes the sign of its left side
Rem(a, b) == IF a >= 0 THEN a % b ELSE -((-a) % b)

encodeB(str) == [i \in 1..Len(str) |-> Rem(str[i] + 3, 128)]
decodeB(str) == [i \in 1..Len(str) |-> Rem(str[i] + 125, 128)]

\* What the caller sees of a buffer: the characters before the first 0.
Visible(buf) ==
  SubSeq(buf, 1, (CHOOSE n \in 0..Len(buf) : /\ \A i \in 1..n : buf[i] # 0
                                             /\ n < Len(buf) => buf[n + 1] = 0))

-----------------------------------------------------------------------------
(* isPrime                                                                 *)

IsRoot(r, num) == r * r <= num /\ num < (r + 1) * (r + 1)

\* The loop, with sqrtNum = r.
isPrime(num, r) == num > 1 /\ \A i \in 2..r : num % i # 0

Prime(num) == num > 1 /\ \A a, b \in 2..num : a * b # num
=============================================================================
