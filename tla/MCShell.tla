------------------------------- MODULE MCShell -------------------------------
(* Two consoles of six columns and two rows, which share the history; and   *)
(* what the games and calc compute, compared with what they should.         *)
EXTENDS Shell, Games, TLC, FiniteSets

Cd == <<"c">>
Cls == <<"c", "s">>
Stamp == <<"s">>
ConsoleSymmetry == Permutations(Consoles)

-----------------------------------------------------------------------------
(* Schrage's method computes the product modulo m, for small a and m; and   *)
(* the constants in my_do_rand are those for a = 16807 and m = 2^31 - 1.    *)
ASSUME RandIsProduct ==
    /\ \A m \in {31, 127, 251}, a \in 2 .. 11 : m % a < m \div a =>
          \A v \in 1 .. m - 1 : Rand(a, m, v) = (a * v) % m
    /\ 2147483647 \div 16807 = 127773 /\ 2147483647 % 16807 = 2836

(* The seed is the second of the clock: with 0 the generator is stuck.      *)
ASSUME ZeroSticks ==
    /\ Rand(16807, 2147483647, 0) = 2147483647
    /\ Rand(16807, 2147483647, 2147483647) = 2147483647

(* The sums of cmd_rps decide as the game does.                             *)
Figures == {"scissors", "rock", "paper"}
Beats == {<<"scissors", "paper">>, <<"rock", "scissors">>, <<"paper", "rock">>}
ASSUME RpsIsTheGame ==
    \A you, it \in Figures :
        Rps(Gamer(you), Computer(it)) =
            IF <<you, it>> \in Beats THEN "You win!"
            ELSE IF <<it, you>> \in Beats THEN "Computer win!" ELSE "Tie"

(* The loops of cmd_guess count the digits that number and guess share, and *)
(* those at the same place.                                                 *)
Numbers == {a * 1000 + b * 100 + c * 10 + d : a, b, c, d \in 0 .. 2}
Digits(n) == [t \in 1 .. 4 |-> Digit(n, t)]
Times(n, v) == Cardinality({t \in 1 .. 4 : Digit(n, t) = v})
ASSUME GuessCounts ==
    \A z, g \in Numbers :
        /\ Guess(z, g).j = FoldLeft(+, 0, [v \in 1 .. 3 |->
                              Min({Times(z, v - 1), Times(g, v - 1)})])
        /\ Guess(z, g).k = Cardinality({t \in 1 .. 4 : Digit(z, t) = Digit(g, t)})

(* cmd_stamp finds the first gap, but in its table the earlier games count. *)
NoPostage == [v \in 1 .. 60 |-> 0]
Kinds == {<<1, 4, 6, 10>>, <<1, 2, 3, 5>>, <<2, 3, 4, 5>>}
ASSUME FirstGameIsRight ==
    \A a \in Kinds : \A v \in 1 .. Reach(Counted(NoPostage, a)) + 1 :
        (\E n \in Letter : Postage(a, n) = v) <=> v <= Reach(Counted(NoPostage, a))
ASSUME LaterGameIsNot ==
    \E a, b \in Kinds :
        Reach(Counted(Counted(NoPostage, a), b)) # Reach(Counted(NoPostage, b))

-----------------------------------------------------------------------------
(* calc on eight bits, and the values that C gives to a line: an expression *)
(* of a level is two, of the same and of the next level, around an operator.*)
C == INSTANCE Calc WITH Number <- ("0" :> 0 @@ "1" :> 1 @@ "2" :> 2 @@ "3" :> 3), Bits <- 8

RECURSIVE Value(_, _)
Value(s, level) ==
    IF s = <<>> THEN {}
    ELSE IF level = 0
    THEN (IF Len(s) = 1 /\ s[1] \in {"0", "1", "2", "3"} THEN {C!Calc(s)} ELSE {})
         \cup (IF s[1] = "-" THEN {-v : v \in Value(Tail(s), 0)} ELSE {})
         \cup (IF s[1] = "~" THEN {-v - 1 : v \in Value(Tail(s), 0)} ELSE {})
         \cup (IF s[1] = "(" /\ Last(s) = ")" THEN Value(Tail(Front(s)), 6) ELSE {})
    ELSE Value(s, level - 1)
         \cup UNION {{C!Apply(s[n], i, j) : i \in Value(SubSeq(s, 1, n - 1), level),
                        j \in Value(SubSeq(s, n + 1, Len(s)), level - 1)} :
                     n \in {n \in 2 .. Len(s) - 1 :
                              s[n] \in C!Operator /\ C!Level[s[n]] = level}}

Lines(T) == UNION {[1 .. n -> T] : n \in 1 .. 5}
ASSUME CalcIsC ==
    \A T \in {{"2", "3", "-", "*"}, {"1", "3", "<<", "+", "~"}, {"3", "(", ")", "-"},
              {"1", "2", "&", "|", "^"}} :
        \A s \in Lines(T) : \A v \in Value(s, 6) : C!Calc(s) = v

(* But a shift by nothing is refused, as a division by nothing.             *)
ASSUME ShiftByZero == C!Calc(<<"1", "<<", "0">>) = C!INVALID

-----------------------------------------------------------------------------
T == INSTANCE Text

(* Once left, the mode in which a console starts is not to be had again.    *)
ASSUME LangModeLost ==
    \A mode \in T!LangModes, n \in 0 .. 9 : T!LangMode(mode, n) = 3 => mode = 3 /\ n > 2

(* Two characters of Shift JIS have two glyphs, and all lie in the font.    *)
Seconds == (64 .. 126) \cup (128 .. 252)
ShiftJis == {129, 130, 158, 159, 224, 225, 251, 252} \X {64, 65, 126, 128, 158, 159, 160, 252}
ASSUME GlyphsAreApart ==
    \A c, d \in ShiftJis :
        /\ T!Font(1, c[1], c[2]) \in 4096 .. 23901 * 32 - 32
        /\ T!Font(1, c[1], c[2]) = T!Font(1, d[1], d[2]) => c = d

(* A character of EUC or Chinese lies in the font if its second byte is     *)
(* what it should be, which is not tested; nor is, for EUC, all of the first.*)
ASSUME SecondIsNotTested ==
    /\ \A mode \in 2 .. 3, b1, s \in {161, 162, 200, 254} : T!Font(mode, b1, s) \in 0 .. 23901 * 32 - 32
    /\ T!Font(3, 161, 65) < 0 /\ T!Font(2, 129, 161) < 0

(* Bytes that are put in two calls give the cells that they give in one,    *)
(* and what is drawn is refreshed.                                          *)
Bytes == {65, 161, 200}
ASSUME CallsJoin ==
    \A mode \in T!LangModes, n \in 0 .. 4, cut \in 0 .. 4 :
        \A string \in [1 .. n -> Bytes] : cut <= n =>
            LET one == T!PutFonts(0, mode, string)
                first == T!PutFonts(0, mode, SubSeq(string, 1, cut))
                second == T!PutFonts(first.langbyte1, mode, SubSeq(string, cut + 1, n))
            IN  /\ first.cells \o second.cells = one.cells /\ Len(one.cells) = n
                /\ T!DrawnFrom(first.langbyte1, mode, 8) = T!RefreshedFrom(first.langbyte1, mode, 8)

(* Behind a line that ends within a character, a Japanese one is drawn in   *)
(* the line and a Chinese one in its margin.                                *)
ASSUME MarginIsDrawn ==
    /\ T!DrawnFrom(129, 1, T!NewlineAt(129, 1)) = 8
    /\ T!DrawnFrom(161, 3, T!NewlineAt(161, 3)) = 0
=============================================================================
