--------------------------------- MODULE Login ---------------------------------
(***************************************************************************)
(* bootpack.c: the screen that asks for the PIN before the desktop.        *)
(*                                                                         *)
(* cin_pin does not keep what is typed: it keeps, for each place of the    *)
(* PIN, whether the right digit was typed there.  A key is right or wrong  *)
(* for the place where it lands.  The busy wait after three wrong PINs     *)
(* changes nothing: what is typed meanwhile waits in the FIFO.  A wrong    *)
(* PIN sets timer4, which wipes the message off when it goes off; a second *)
(* one while it runs, and what timer4 points to, are Desktop's WrongPin.   *)
(***************************************************************************)
EXTENDS Naturals, Sequences, SequencesExt

CONSTANTS
    PinLength,      \* 6
    Cells           \* characters that fit in the field, 16

ASSUME LoginAssumption ==
    /\ PinLength \in Nat \ {0}
    /\ Cells \in Nat /\ Cells > PinLength

VARIABLES
    shown,          \* which of the characters shown are right, mima_count long
    flag_mima,      \* flag_mima[0 .. PinLength]; the last: there are no more
    wrong,          \* PINs refused since the last wait
    opened,         \* sht_boot is off the screen
    timer4          \* timer4 runs: it is in the list of timer.c

loginVars == <<shown, flag_mima, wrong, opened, timer4>>

Place == 0 .. PinLength - 1
Cleared == [p \in 0 .. PinLength |-> p = PinLength]

LoginInit ==
    /\ shown = <<>>
    /\ flag_mima = Cleared
    /\ wrong = 0
    /\ opened = FALSE
    /\ timer4 = FALSE

\* Mutant: the flags are not cleared.
RetriedOn ==
    /\ UNCHANGED flag_mima
    /\ shown' = <<>>

\* The field and the flags for the next attempt.
Retried ==
    /\ flag_mima' = Cleared
    /\ shown' = <<>>

\* A character in cin_pin: it sets or clears the flag of its place.
Pin(right) ==
    /\ Len(shown) < Cells
    /\ Len(shown) >= PinLength => ~ right
    /\ shown' = Append(shown, right)
    /\ flag_mima' = IF Len(shown) >= PinLength
                    THEN [flag_mima EXCEPT ![PinLength] = FALSE]
                    ELSE [flag_mima EXCEPT ![Len(shown)] = right]
    /\ UNCHANGED <<wrong, opened, timer4>>

\* Backspace in cin_pin: it clears the flag of the place behind the one that
\* is erased.
UnPin ==
    /\ shown # <<>>
    /\ shown' = Front(shown)
    /\ flag_mima' = CASE Len(shown) < PinLength ->
                            [flag_mima EXCEPT ![Len(shown)] = FALSE]
                      [] Len(shown) = PinLength ->
                            [flag_mima EXCEPT ![PinLength] = TRUE]
                      [] OTHER -> flag_mima
    /\ UNCHANGED <<wrong, opened, timer4>>

\* if_right, once flag_mima[7] is set.
IfRight == \A p \in DOMAIN flag_mima : flag_mima[p]

\* Enter.  Behind the login its variables are not read any more, and the datum
\* of timer4 does nothing.
EnterPin ==
    /\ IfRight \/ ~ timer4
    /\ Retried
    /\ opened' = IfRight
    /\ wrong' = IF IfRight \/ wrong = 2 THEN 0 ELSE wrong + 1
    /\ timer4' = ~ IfRight

\* timer4 goes off after 60 ticks; its datum wipes the message off.
WrongIsOver ==
    /\ timer4
    /\ timer4' = FALSE
    /\ UNCHANGED <<shown, flag_mima, wrong, opened>>

(* The desktop opens only behind the PIN, or behind the PIN whose last     *)
(* digit was typed and erased: an erased digit stays right, because its    *)
(* flag is not the one that is cleared (bootpack.c:1523).  And the PIN     *)
(* opens it, unless too much was typed and erased, which is noticed only   *)
(* one place further down.                                                 *)
PinOpens ==
    [][ /\ opened' # opened =>
              /\ \A i \in DOMAIN shown : shown[i]
              /\ Len(shown) \in {PinLength - 1, PinLength}
        /\ EnterPin /\ shown = [i \in 1 .. PinLength |-> TRUE] =>
              opened' \/ ~ flag_mima[PinLength] ]_loginVars
=============================================================================
