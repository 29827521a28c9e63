--------------------------------- MODULE Games ---------------------------------
(***************************************************************************)
(* console.c: what the games of the consoles compute, as operators, and    *)
(* the generator of pseudo-random numbers that they use.                   *)
(***************************************************************************)
LOCAL INSTANCE Integers
LOCAL INSTANCE Sequences
LOCAL INSTANCE FiniteSets
LOCAL INSTANCE FiniteSetsExt
LOCAL INSTANCE SequencesExt

-----------------------------------------------------------------------------
(* my_do_rand: the product a * value modulo m, computed without a number   *)
(* larger than m; a is 16807 and m is 2^31 - 1, so that the quotient is    *)
(* 127773 and the remainder 2836.                                          *)

Rand(a, m, value) ==
    LET quotient == value \div (m \div a)
        remainder == value % (m \div a)
        t == a * remainder - (m % a) * quotient
    IN  IF t <= 0 THEN t + m ELSE t

-----------------------------------------------------------------------------
(* cmd_rps: the choices A, B and C count 4, 7 and 10, those of the computer *)
(* 0, 1 and 2, and the sum decides.                                        *)

Gamer(choice) == CASE choice = "scissors" -> 4 [] choice = "rock" -> 7 [] choice = "paper" -> 10
Computer(choice) == CASE choice = "scissors" -> 0 [] choice = "rock" -> 1 [] choice = "paper" -> 2

Rps(gamer, computer) ==
    LET result == gamer + computer
    IN  IF result \in {6, 7, 11} THEN "You win!"
        ELSE IF result \in {5, 9, 10} THEN "Computer win!" ELSE "Tie"

-----------------------------------------------------------------------------
(* cmd_guess: the loops over the digits of the number and of the guess.    *)

\* Digit t of n, from the right.
Digit(n, t) == (n \div 10 ^ (t - 1)) % 10

\* Digit i of the number: l are the digits of the guess that are taken.
Compare(z, g, so, i) ==
    LET open == {t \in 1 .. 4 : Digit(z, i) = Digit(g, t) /\ t \notin so.l}
    IN  [j |-> IF open = {} THEN so.j ELSE so.j + 1,
         k |-> IF Digit(z, i) = Digit(g, i) THEN so.k + 1 ELSE so.k,
         l |-> IF open = {} THEN so.l ELSE so.l \cup {Min(open)}]

\* The numbers that are printed: digits found, digits in their place.
Guess(z, g) ==
    FoldLeft(LAMBDA so, i : Compare(z, g, so, i), [j |-> 0, k |-> 0, l |-> {}], <<1, 2, 3, 4>>)

-----------------------------------------------------------------------------
(* cmd_stamp: how far the values of at most five stamps of four kinds      *)
(* reach without a gap.                                                    *)

Letter == {n \in [1 .. 4 -> 0 .. 5] : n[1] + n[2] + n[3] + n[4] <= 5}
Postage(a, n) == a[1] * n[1] + a[2] * n[2] + a[3] * n[3] + a[4] * n[4]

\* s is static: it keeps what earlier games have counted.
Counted(s, a) ==
    [v \in DOMAIN s |-> s[v] + Cardinality({n \in Letter : Postage(a, n) = v})]

Reach(s) == Min({v \in DOMAIN s : s[v] = 0}) - 1
=============================================================================
