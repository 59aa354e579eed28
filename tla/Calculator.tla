----------------------------- MODULE Calculator -----------------------------
(***************************************************************************)
(* The boot-sector calculator of homework 2, calc.s: 16-bit words, keys    *)
(* pushed on the stack as they are typed, and two's complement by hand.    *)
(* The upper half of eax, which CDQ extends, is taken to be clear.         *)
(***************************************************************************)
EXTENDS Integers, Sequences, FiniteSetsExt, SequencesExt

CONSTANTS
    Digit,
    MaxKeys     \* bound on the keys typed for a number

MINUS == -3     \* '-' - '0'

ASSUME CalculatorAssumption == Digit \subseteq 0..9 /\ MaxKeys \in Nat

VARIABLES
    stage,      \* 1, 2: a number is typed; 3: the operator; or how it ended
    keys,       \* typed for the two numbers
    op, shown

calcVars == <<stage, keys, op, shown>>

Operator == {"+", "-", "*", "/", "other"}
NoOperator == "none"
Ended == {4, 5, 6, 7}
Shown == 4      \* the result is on the screen
Failed == 5     \* "Error!"
Off == 6        \* q
Lost == 7       \* a ret to what is not a return address, or a divide error
Nothing == [minus |-> 0, n |-> 0]

CalcTypeOK ==
    /\ stage \in 1..3 \cup Ended
    /\ keys \in [1..2 -> BoundedSeq(Digit \cup {MINUS}, MaxKeys)]
    /\ op \in Operator \cup {NoOperator}
    /\ shown \in [minus : 0..2, n : 0..2^16 - 1]

CalcInit == stage = 1 /\ keys = <<<<>>, <<>>>> /\ op = NoOperator /\ shown = Nothing

-----------------------------------------------------------------------------
Word(n) == n % 2^16
Signed(x) == IF x < 2^15 THEN x ELSE x - 2^16
Negative(x) == x > 2^15             \* cmp $0x8000; ja
Overflows(n) == n \notin -(2^15)..2^15 - 1    \* jo
Size(n) == IF n < 0 THEN -n ELSE n

(* get_input: the keys ... *)
Press(k) ==
    /\ stage \in 1..2 /\ Len(keys[stage]) < MaxKeys
    /\ keys' = [keys EXCEPT ![stage] = Append(@, k)]
    /\ UNCHANGED <<stage, op, shown>>

(* ... are popped up to a '-'.                                             *)
MinusAt(ks) == Max({0} \cup {i \in DOMAIN ks : ks[i] = MINUS})
Popped(ks) ==
    FoldLeft(LAMBDA n, d : Word(10 * n + d), 0, SubSeq(ks, MinusAt(ks) + 1, Len(ks)))
Operand(ks) == IF MinusAt(ks) > 0 THEN Word(-Popped(ks)) ELSE Popped(ks)

(* jg: a number below -128 passes, one past 2^15 comes round to fail.      *)
TooBig(ks) == Signed(Operand(ks)) > IF MinusAt(ks) > 0 THEN 128 ELSE 127

(* With no key at all the return address is popped; keys before the '-'    *)
(* stay on the stack, over it.                                             *)
StackLost(ks) == ks # <<>> /\ MinusAt(ks) > 1

EnterKey ==
    /\ stage \in 1..2
    /\ stage' = CASE keys[stage] = <<>> -> Lost
                  [] keys[stage] # <<>> /\ TooBig(keys[stage]) -> Failed
                  [] StackLost(keys[stage]) /\ ~TooBig(keys[stage]) -> Lost
                  [] OTHER -> stage + 1
    /\ UNCHANGED <<keys, op, shown>>

Quit == stage \in 1..3 /\ stage' = Off /\ UNCHANGED <<keys, op, shown>>

-----------------------------------------------------------------------------
(* get_result, after so many signs *)
Show(minus, ax) ==
    /\ stage' = Shown
    /\ shown' = [minus |-> minus + (IF Negative(ax) THEN 1 ELSE 0),
                 n |-> IF Negative(ax) THEN Word(-ax) ELSE ax]

Fail(s) == stage' = s /\ UNCHANGED shown

(* addition looks at no flag, subtraction and multiplication at overflow.  *)
Add(a, b) == Show(0, Word(a + b))
Checked(n) == IF Overflows(n) THEN Fail(Failed) ELSE Show(0, Word(n))

(* What division prints before it divides the absolute values *)
SignFirst(a, b) ==
    IF Negative(a) /\ Negative(b) THEN Word(-b) >= Word(-a)
    ELSE Negative(a) \/ Negative(b)

Magnitude(x) == IF Negative(x) THEN Word(-x) ELSE x

(* idiv truncates. *)
Quotient(n, d) == IF n * d < 0 THEN -(Size(n) \div Size(d)) ELSE Size(n) \div Size(d)

Divide(a, b) ==
    IF b = 0 THEN Fail(Failed)
    ELSE LET q == Quotient(Magnitude(a), Signed(Magnitude(b)))
         IN  IF Overflows(q) THEN Fail(Lost)
             ELSE Show(IF SignFirst(a, b) THEN 1 ELSE 0, Word(q))

Operate(o) ==
    /\ stage = 3
    /\ op' = o
    /\ LET a == Operand(keys[1])
           b == Operand(keys[2])
       IN  CASE o = "+" -> Add(a, b)
             [] o = "-" -> Checked(Signed(a) - Signed(b))
             [] o = "*" -> Checked(Signed(a) * Signed(b))
             [] o = "/" -> Divide(a, b)
             [] OTHER -> Fail(Failed)
    /\ UNCHANGED keys

CalcNext ==
    \/ \E k \in Digit \cup {MINUS} : Press(k)
    \/ EnterKey \/ Quit
    \/ \E o \in Operator : Operate(o)

CalcSpec == CalcInit /\ [][CalcNext]_calcVars

-----------------------------------------------------------------------------
(* The number that the user typed *)
Typed(ks) ==
    LET n == FoldLeft(LAMBDA m, d : 10 * m + d, 0, SubSeq(ks, MinusAt(ks) + 1, Len(ks)))
    IN  IF MinusAt(ks) > 0 THEN -n ELSE n

Value == IF shown.minus = 1 THEN -shown.n ELSE shown.n

Result(o, a, b) ==
    CASE o = "+" -> a + b [] o = "-" -> a - b [] o = "*" -> a * b [] o = "/" -> Quotient(a, b)

(* What the program refuses: a number above 127 (those below -128 pass,    *)
(* against calc.s:226), another operator, a division by zero, a difference *)
(* or a product of more than 16 bits                                       *)
Refused(o, a, b) ==
    \/ a > 127 \/ b > 127 \/ o = "other" \/ (o = "/" /\ b = 0)
    \/ o \in {"-", "*"} /\ Overflows(Result(o, a, b))

(* Of what the user typed digit by digit, whatever the numbers, "Error!"   *)
(* is shown if and only if it is refused, and else the right result, with  *)
(* one exception: a quotient of two negative numbers gets a minus sign     *)
(* unless the divisor is the smaller (-4 / -4 is shown as -1).  It goes on  *)
(* to the operator with two numbers whose minus sign, if any, comes first. *)
CalculatorRight ==
    LET a == Typed(keys[1])
        b == Typed(keys[2])
    IN  /\ stage = Failed => Refused(op, a, b)
        /\ stage = Shown =>
              /\ ~Refused(op, a, b)
              /\ IF op = "/" /\ a < 0 /\ b < 0
                 THEN shown = [minus |-> IF b <= a THEN 1 ELSE 0, n |-> Quotient(a, b)]
                 ELSE shown.minus <= 1 /\ Value = Result(op, a, b)
        /\ stage = 3 => a <= 127 /\ b <= 127 /\ \A i \in 1..2 : keys[i] # <<>> /\ MinusAt(keys[i]) <= 1
=============================================================================
