--------------------------------- MODULE Calc ---------------------------------
(***************************************************************************)
(* calc.c: the application that evaluates the expression on its command    *)
(* line.  A line is a sequence of tokens; blanks have been skipped.        *)
(***************************************************************************)
LOCAL INSTANCE Integers
LOCAL INSTANCE Sequences
LOCAL INSTANCE TLC
LOCAL INSTANCE Bitwise

CONSTANTS
    Number,     \* the tokens that are numbers, with their values: strtol
    Bits        \* the width of an int

\* An int of that width.
Wrapped(n) ==
    LET u == n % 2 ^ Bits IN IF u >= 2 ^ (Bits - 1) THEN u - 2 ^ Bits ELSE u
Unsigned(n) == n % 2 ^ Bits

\* The value that stands for an error: it is also the value of some lines.
INVALID == 1 - 2 ^ (Bits - 1)

Level == [t \in {"*", "/", "%"} |-> 1] @@ [t \in {"+", "-"} |-> 2]
         @@ [t \in {"<<", ">>"} |-> 3] @@ ("&" :> 4) @@ ("^" :> 5) @@ ("|" :> 6)
Operator == DOMAIN Level

\* C rounds towards zero.
Magnitude(n) == IF n < 0 THEN -n ELSE n
Quot(i, j) ==
    LET q == Magnitude(i) \div Magnitude(j) IN IF (i < 0) = (j < 0) THEN q ELSE -q

\* i op j; the processor takes a shift count modulo the width.
Apply(op, i, j) ==
    CASE op = "+" -> Wrapped(i + j)
      [] op = "-" -> Wrapped(i - j)
      [] op = "*" -> Wrapped(i * j)
      [] op = "/" -> Wrapped(Quot(i, j))
      [] op = "%" -> i - j * Quot(i, j)
      [] op = "<<" -> Wrapped(i * 2 ^ (j % Bits))
      [] op = ">>" -> i \div 2 ^ (j % Bits)
      [] op = "&" -> Wrapped(Unsigned(i) & Unsigned(j))
      [] op = "^" -> Wrapped(Unsigned(i) ^^ Unsigned(j))
      [] op = "|" -> Wrapped(Unsigned(i) | Unsigned(j))

\* The operators whose right side must not be zero.
NotByZero == {"/", "%", "<<", ">>"}

\* getnum: a value i and the rest p of the line.
RECURSIVE GetNum(_, _)
RECURSIVE Operated(_, _, _)

Error(p) == [i |-> INVALID, p |-> p]

\* The sign, the parentheses or the number at the beginning of a line.
Primary(p) ==
    IF p = <<>> THEN Error(p)
    ELSE LET n == GetNum(Tail(p), IF Head(p) = "(" THEN 9 ELSE 0)
             signed(v) == [n EXCEPT !.i = IF @ = INVALID THEN @ ELSE v]
         IN  CASE Head(p) = "+" -> n
               [] Head(p) = "-" -> signed(Wrapped(-n.i))
               [] Head(p) = "~" -> signed(-n.i - 1)
               [] Head(p) = "(" -> IF n.p # <<>> /\ Head(n.p) = ")"
                                   THEN [n EXCEPT !.p = Tail(@)] ELSE Error(n.p)
               [] Head(p) \in DOMAIN Number -> [i |-> Number[Head(p)], p |-> Tail(p)]
               [] OTHER -> Error(p)

\* The loop: the operators that bind closer than the caller's.
Operated(i, p, priority) ==
    IF i = INVALID \/ p = <<>> THEN [i |-> i, p |-> p]
    ELSE IF Head(p) \notin Operator THEN [i |-> i, p |-> p]
    ELSE IF priority <= Level[Head(p)] THEN [i |-> i, p |-> p]
    ELSE LET j == GetNum(Tail(p), Level[Head(p)])
             fails == j.i = INVALID \/ (j.i = 0 /\ Head(p) \in NotByZero)
         IN  Operated(IF fails THEN INVALID ELSE Apply(Head(p), i, j.i), j.p, priority)

GetNum(p, priority) ==
    LET first == Primary(p) IN Operated(first.i, first.p, priority)

\* HariMain: whatever follows the expression is not looked at.
Calc(line) == GetNum(line, 9).i
=============================================================================
