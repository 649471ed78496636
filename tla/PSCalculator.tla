---------------------------- MODULE PSCalculator ----------------------------
(***************************************************************************)
(* The PostScript calculator behind type 4 functions: ps/parser.go reads a *)
(* program, ps/object.go and ps/operations.go run it on a stack, and        *)
(* PdfFunctionType4.Evaluate (model/functions.go) keeps one executor, and   *)
(* with it one stack, for all its evaluations.                              *)
(*                                                                         *)
(* Integers are IntBits wide (64 in the code).  A real is a fraction in     *)
(* lowest terms; d = 0 stands for the infinities (n = 1, -1) and NaN        *)
(* (n = 0), which math.Log, math.Log10 and math.Pow can return.  The        *)
(* transcendental functions are taken at arguments whose value is exact.    *)
(***************************************************************************)
EXTENDS Integers, Sequences, SequencesExt, FiniteSetsExt

CONSTANTS
    IntBits,     \* width of an int
    StackLimit,  \* PSStack.Push refuses to push on more objects than this
    Texts,       \* program texts to parse: sequences of units
    Lines,       \* programs that bring their operands: run once, without arguments
    Functions,   \* programs of functions: evaluated, written and read
    Inputs,      \* argument sequences of the evaluations of a function
    MaxCalls,    \* evaluations made of a function
    Wanted,      \* what programs compute: records [p, args, values]
    NotMade      \* no program was made

VARIABLES
    mode,     \* "new", "parse", "ready", "run" or "bad" (not parsed)
    text,     \* the units the parser has not read
    open,     \* the functions being parsed, outermost first
    program,  \* PSExecutor.program
    stack,    \* PSExecutor.Stack, bottom first
    frames,   \* what is left of the programs being executed, innermost last
    last,     \* the last operand executed and the stack it found
    call,     \* the arguments and, once it is over, the outcome of the last evaluation
    calls,    \* the evaluations made so far and whether the executor failed in one
    made      \* the program made without parsing

vars == <<mode, text, open, program, stack, frames, last, call, calls, made>>

-----------------------------------------------------------------------------
(* Objects.                                                                 *)

Abs(i) == IF i < 0 THEN -i ELSE i

Sign(i) == IF i < 0 THEN -1 ELSE IF i = 0 THEN 0 ELSE 1

\* The value an int keeps of i.
Wrap(i) == ((i + 2^(IntBits - 1)) % 2^IntBits) - 2^(IntBits - 1)

MakeInteger(i) == [k |-> "int", v |-> Wrap(i)]

\* The fraction n / d in lowest terms.
Fraction(n, d) ==
    IF d = 0 \/ n = 0 THEN [n |-> Sign(n), d |-> IF d = 0 THEN 0 ELSE 1]
    ELSE LET g == Max({i \in 1..Abs(d) : Abs(n) % i = 0 /\ Abs(d) % i = 0})
         IN  [n |-> Sign(d) * (n \div g), d |-> Abs(d) \div g]

MakeReal(q) == [k |-> "real", q |-> q]

MakeBool(b) == [k |-> "bool", b |-> b]

MakeOperand(name) == [k |-> "op", name |-> name]

MakeProgram(p) == [k |-> "prog", p |-> p]

IsInt(o) == o.k = "int"

IsBool(o) == o.k = "bool"

IsProgram(o) == o.k = "prog"

IsNumber(o) == o.k \in {"int", "real"}

\* The value of a number as a float64.
Float(o) == IF IsInt(o) THEN [n |-> o.v, d |-> 1] ELSE o.q

Plus(x, y) == Fraction(x.n * y.d + y.n * x.d, x.d * y.d)

Minus(x, y) == Fraction(x.n * y.d - y.n * x.d, x.d * y.d)

Times(x, y) == Fraction(x.n * y.n, x.d * y.d)

Over(x, y) == Fraction(x.n * y.d, x.d * y.n)

Less(x, y) == x.n * y.d < y.n * x.d

\* Numbers closer than the tolerance are taken for equal.
Near(x, y) == LET m == Minus(x, y) IN Abs(m.n) * 1000000 < m.d

Floor(x) == x.n \div x.d

Ceil(x) == -((-x.n) \div x.d)

\* int(x): towards zero.
Int64(x) == Sign(x.n) * (Abs(x.n) \div x.d)

Quotient(i, j) == Sign(i) * Sign(j) * (Abs(i) \div Abs(j))

\* The bits of an int, as the set of their positions.
Bits(i) == {b \in 0..(IntBits - 1) : ((i % 2^IntBits) \div 2^b) % 2 = 1}

FromBits(B) == Wrap(FoldSet(+, 0, {2^b : b \in B}))

RECURSIVE Power(_, _)
Power(x, i) == IF i = 0 THEN Fraction(1, 1) ELSE Times(x, Power(x, i - 1))

-----------------------------------------------------------------------------
(* The stack.  An operation gives the stack it leaves and its error, ""     *)
(* when it has none; what it popped before an error stays popped.           *)

Done(s) == [err |-> "", stack |-> s]

Fail(e, s) == [err |-> e, stack |-> s]

X(s) == s[Len(s)]

Y(s) == s[Len(s) - 1]

Z(s) == s[Len(s) - 2]

Below(s, n) == SubSeq(s, 1, Len(s) - n)

Push(s, o) ==
    IF Len(s) > StackLimit THEN Fail("stack overflow", s) ELSE Done(Append(s, o))

\* An operand that pops one object, checks it, and pushes o.
Pop1(s, ok, o) ==
    IF s = <<>> THEN Fail("stack underflow", <<>>)
    ELSE IF ~ok THEN Fail("type check", Below(s, 1))
    ELSE Push(Below(s, 1), o)

\* An operand that pops two objects before it checks them.
Pop2(s, ok, o) ==
    IF Len(s) < 2 THEN Fail("stack underflow", <<>>)
    ELSE IF ~ok THEN Fail("type check", Below(s, 2))
    ELSE Push(Below(s, 2), o)

\* An operand that checks each of two objects as it pops it: PopInteger,
\* PopNumberAsFloat64.
PopEach(s, okX, okY, o) ==
    IF s = <<>> THEN Fail("stack underflow", <<>>)
    ELSE IF ~okX THEN Fail("type check", Below(s, 1))
    ELSE IF Len(s) = 1 THEN Fail("stack underflow", <<>>)
    ELSE IF ~okY THEN Fail("type check", Below(s, 2))
    ELSE Push(Below(s, 2), o)

PopNumber(s, o) == Pop1(s, IsNumber(X(s)), o)

PopNumbers(s, o) == PopEach(s, IsNumber(X(s)), IsNumber(Y(s)), o)

TwoNumbers(s) == IsNumber(X(s)) /\ IsNumber(Y(s))

TwoInts(s) == IsInt(X(s)) /\ IsInt(Y(s))

TwoBools(s) == IsBool(X(s)) /\ IsBool(Y(s))

-----------------------------------------------------------------------------
(* The operands of ps/operations.go.                                        *)

abs(s) ==
    PopNumber(s, IF IsInt(X(s)) THEN MakeInteger(Abs(X(s).v))
                 ELSE MakeReal([X(s).q EXCEPT !.n = Abs(@)]))

add(s) ==
    Pop2(s, TwoNumbers(s),
         IF TwoInts(s) THEN MakeInteger(X(s).v + Y(s).v) ELSE MakeReal(Plus(Float(X(s)), Float(Y(s)))))

sub(s) ==
    Pop2(s, TwoNumbers(s),
         IF TwoInts(s) THEN MakeInteger(Y(s).v - X(s).v) ELSE MakeReal(Minus(Float(Y(s)), Float(X(s)))))

mul(s) ==
    Pop2(s, TwoNumbers(s),
         IF TwoInts(s) THEN MakeInteger(X(s).v * Y(s).v) ELSE MakeReal(Times(Float(X(s)), Float(Y(s)))))

\* The divisor is checked against zero before the dividend's type is.
div(s) ==
    IF Len(s) >= 2 /\ IsNumber(X(s)) /\ Float(X(s)).n = 0
    THEN Fail("undefined result", Below(s, 2))
    ELSE Pop2(s, TwoNumbers(s), MakeReal(Over(Float(Y(s)), Float(X(s)))))

idiv(s) ==
    IF Len(s) >= 2 /\ IsInt(X(s)) /\ X(s).v = 0
    THEN Fail("undefined result", Below(s, 2))
    ELSE Pop2(s, TwoInts(s), MakeInteger(Quotient(Y(s).v, X(s).v)))

mod(s) ==
    IF Len(s) >= 2 /\ IsInt(X(s)) /\ X(s).v = 0
    THEN Fail("undefined result", Below(s, 2))
    ELSE Pop2(s, TwoInts(s), MakeInteger(Y(s).v - X(s).v * Quotient(Y(s).v, X(s).v)))

neg(s) ==
    PopNumber(s, IF IsInt(X(s)) THEN MakeInteger(-X(s).v)
                 ELSE MakeReal([X(s).q EXCEPT !.n = -@]))

ceiling(s) ==
    PopNumber(s, IF IsInt(X(s)) THEN X(s) ELSE MakeReal(Fraction(Ceil(X(s).q), 1)))

floor(s) ==
    PopNumber(s, IF IsInt(X(s)) THEN X(s) ELSE MakeReal(Fraction(Floor(X(s).q), 1)))

round(s) ==
    PopNumber(s, IF IsInt(X(s)) THEN X(s)
                 ELSE MakeReal(Fraction(Floor(Plus(X(s).q, Fraction(1, 2))), 1)))

truncate(s) ==
    PopNumber(s, IF IsInt(X(s)) THEN X(s) ELSE MakeReal(Fraction(Int64(X(s).q), 1)))

cvi(s) == PopNumber(s, IF IsInt(X(s)) THEN X(s) ELSE MakeInteger(Int64(X(s).q)))

cvr(s) == PopNumber(s, MakeReal(Float(X(s))))

sqrt(s) ==
    IF s # <<>> /\ IsNumber(X(s)) /\ Float(X(s)).n < 0 THEN Fail("range check", Below(s, 1))
    ELSE PopNumber(s, LET Root(i) == CHOOSE r \in 0..i : r * r = i
                      IN  MakeReal(Fraction(Root(Float(X(s)).n), Root(Float(X(s)).d))))

\* At multiples of 90 degrees.
cos(s) ==
    PopNumber(s, MakeReal(Fraction(CASE Float(X(s)).n % 360 = 0 -> 1
                                     [] Float(X(s)).n % 360 = 180 -> -1
                                     [] OTHER -> 0, 1)))

sin(s) ==
    PopNumber(s, MakeReal(Fraction(CASE Float(X(s)).n % 360 = 90 -> 1
                                     [] Float(X(s)).n % 360 = 270 -> -1
                                     [] OTHER -> 0, 1)))

\* At quotients 0, 1 and -1.  The angle is between -90 and 90 degrees unless the
\* denominator is zero.
atan(s) ==
    PopNumbers(s, LET den == Float(X(s))
                      num == Float(Y(s))
                  IN  MakeReal(Fraction(IF den.n = 0 THEN IF num.n < 0 THEN 270 ELSE 90
                                        ELSE 45 * Over(num, den).n, 1)))

\* At integral exponents, and at those the check refuses.
exp(s) ==
    IF Len(s) >= 2 /\ TwoNumbers(s) /\ Float(Y(s)).n < 0
       /\ Abs(Float(X(s)).n) < Float(X(s)).d
    THEN Fail("undefined result", Below(s, 2))
    ELSE PopNumbers(s, LET base == Float(Y(s))
                           e == Float(X(s)).n
                       IN  MakeReal(IF e >= 0 THEN Power(base, e)
                                    ELSE Over(Fraction(1, 1), Power(base, -e))))

\* Not a number below zero and minus infinity at it, without an error; at 1 and,
\* for log, at 10.
Logarithm(x, base) ==
    CASE x.n < 0 -> Fraction(0, 0)
      [] x.n = 0 -> Fraction(-1, 0)
      [] x = Fraction(base, 1) -> Fraction(1, 1)
      [] OTHER -> Fraction(0, 1)

log(s) == PopNumber(s, MakeReal(Logarithm(Float(X(s)), 10)))

ln(s) == PopNumber(s, MakeReal(Logarithm(Float(X(s)), 0)))

and(s) ==
    Pop2(s, TwoInts(s) \/ TwoBools(s),
         IF TwoBools(s) THEN MakeBool(X(s).b /\ Y(s).b)
         ELSE MakeInteger(FromBits(Bits(X(s).v) \cap Bits(Y(s).v))))

or(s) ==
    Pop2(s, TwoInts(s) \/ TwoBools(s),
         IF TwoBools(s) THEN MakeBool(X(s).b \/ Y(s).b)
         ELSE MakeInteger(FromBits(Bits(X(s).v) \cup Bits(Y(s).v))))

xor(s) ==
    Pop2(s, TwoInts(s) \/ TwoBools(s),
         IF TwoBools(s) THEN MakeBool(X(s).b # Y(s).b)
         ELSE MakeInteger(FromBits((Bits(X(s).v) \cup Bits(Y(s).v)) \ (Bits(X(s).v) \cap Bits(Y(s).v)))))

not(s) ==
    Pop1(s, IsBool(X(s)) \/ IsInt(X(s)),
         IF IsBool(X(s)) THEN MakeBool(~X(s).b) ELSE MakeInteger(-X(s).v - 1))

bitshift(s) ==
    PopEach(s, IsInt(X(s)), IsInt(Y(s)),
            MakeInteger(IF X(s).v >= 0
                        THEN FromBits({b + X(s).v : b \in Bits(Y(s).v)} \cap 0..(IntBits - 1))
                        ELSE Y(s).v \div 2^(-X(s).v)))

\* Booleans differ from everything that is no boolean; programs are refused.
eq(s) ==
    LET bools == IsBool(X(s)) \/ IsBool(Y(s))
    IN  Pop2(s, bools \/ TwoNumbers(s),
             MakeBool(IF bools THEN X(s) = Y(s) ELSE Near(Float(X(s)), Float(Y(s)))))

ne(s) == LET r == eq(s) IN IF r.err # "" THEN r ELSE not(r.stack)

gt(s) ==
    PopNumbers(s, MakeBool(~Near(Float(X(s)), Float(Y(s))) /\ Less(Float(X(s)), Float(Y(s)))))

ge(s) ==
    PopNumbers(s, MakeBool(Near(Float(X(s)), Float(Y(s))) \/ Less(Float(X(s)), Float(Y(s)))))

lt(s) ==
    PopNumbers(s, MakeBool(~Near(Float(X(s)), Float(Y(s))) /\ Less(Float(Y(s)), Float(X(s)))))

le(s) ==
    PopNumbers(s, MakeBool(Near(Float(X(s)), Float(Y(s))) \/ Less(Float(Y(s)), Float(X(s)))))

\* The copies are appended without a check of the limit.
copy(s) ==
    IF s = <<>> THEN Fail("stack underflow", <<>>)
    ELSE IF ~IsInt(X(s)) THEN Fail("type check", Below(s, 1))
    ELSE LET n == X(s).v
             r == Below(s, 1)
         IN  IF n \in 0..Len(r) THEN Done(r \o SubSeq(r, Len(r) - n + 1, Len(r)))
             ELSE Fail("range check", r)

\* Two objects are pushed one after the other.
PushBoth(s, o, p) == LET r == Push(s, o) IN IF r.err # "" THEN r ELSE Push(r.stack, p)

dup(s) ==
    IF s = <<>> THEN Fail("stack underflow", <<>>) ELSE PushBoth(Below(s, 1), X(s), X(s))

exch(s) ==
    IF Len(s) < 2 THEN Fail("stack underflow", <<>>) ELSE PushBoth(Below(s, 2), X(s), Y(s))

pop(s) == IF s = <<>> THEN Fail("stack underflow", <<>>) ELSE Done(Below(s, 1))

index(s) ==
    IF s = <<>> THEN Fail("stack underflow", <<>>)
    ELSE LET r == Below(s, 1)
         IN  IF ~IsInt(X(s)) THEN Fail("type check", r)
             ELSE IF X(s).v < 0 THEN Fail("range check", r)
             ELSE IF X(s).v > Len(r) - 1 THEN Fail("stack underflow", r)
             ELSE Push(r, r[Len(r) - X(s).v])

\* One turn of the loop: the top n objects move by one.
Rolled(r, n, up) ==
    LET low == Below(r, n)
        sub_ == SubSeq(r, Len(r) - n + 1, Len(r))
    IN  low \o (IF up THEN <<Last(sub_)>> \o Front(sub_) ELSE Tail(sub_) \o <<Head(sub_)>>)

RECURSIVE Turns(_, _, _)
Turns(r, n, j) ==
    IF j = 0 \/ r = <<>> THEN r ELSE Turns(Rolled(r, n, j > 0), n, j - Sign(j))

roll(s) ==
    IF Len(s) < 2 THEN Fail("stack underflow", <<>>)
    ELSE LET r == Below(s, 2)
             n == Y(s).v
         IN  IF ~TwoInts(s) THEN Fail("type check", r)
             ELSE IF n < 0 THEN Fail("range check", r)
             ELSE IF n \in {0, 1} THEN Done(r)
             ELSE IF n > Len(r) THEN Fail("stack underflow", r)
             ELSE Done(Turns(r, n, X(s).v))

\* if and ifelse leave a program to run, which the caller executes.
NoProgram == <<>>

ifCondition(s) ==
    IF Len(s) < 2 THEN Fail("stack underflow", <<>>)
    ELSE IF IsProgram(X(s)) /\ IsBool(Y(s)) THEN Done(Below(s, 2))
    ELSE Fail("type check", Below(s, 2))

ifelse(s) ==
    IF Len(s) < 3 THEN Fail("stack underflow", <<>>)
    ELSE IF IsProgram(X(s)) /\ IsProgram(Y(s)) /\ IsBool(Z(s)) THEN Done(Below(s, 3))
    ELSE Fail("type check", Below(s, 3))

Chosen(name, s) ==
    CASE name = "if" -> IF Y(s).b THEN X(s).p ELSE NoProgram
      [] name = "ifelse" -> IF Z(s).b THEN Y(s).p ELSE X(s).p
      [] OTHER -> NoProgram

\* PSOperand.Exec
OperandExec(name, s) ==
    CASE name = "abs" -> abs(s)           [] name = "add" -> add(s)
      [] name = "and" -> and(s)           [] name = "atan" -> atan(s)
      [] name = "bitshift" -> bitshift(s) [] name = "ceiling" -> ceiling(s)
      [] name = "copy" -> copy(s)         [] name = "cos" -> cos(s)
      [] name = "cvi" -> cvi(s)           [] name = "cvr" -> cvr(s)
      [] name = "div" -> div(s)           [] name = "dup" -> dup(s)
      [] name = "eq" -> eq(s)             [] name = "exch" -> exch(s)
      [] name = "exp" -> exp(s)           [] name = "floor" -> floor(s)
      [] name = "ge" -> ge(s)             [] name = "gt" -> gt(s)
      [] name = "idiv" -> idiv(s)         [] name = "if" -> ifCondition(s)
      [] name = "ifelse" -> ifelse(s)     [] name = "index" -> index(s)
      [] name = "le" -> le(s)             [] name = "log" -> log(s)
      [] name = "ln" -> ln(s)             [] name = "lt" -> lt(s)
      [] name = "mod" -> mod(s)           [] name = "mul" -> mul(s)
      [] name = "ne" -> ne(s)             [] name = "neg" -> neg(s)
      [] name = "not" -> not(s)           [] name = "or" -> or(s)
      [] name = "pop" -> pop(s)           [] name = "round" -> round(s)
      [] name = "roll" -> roll(s)         [] name = "sin" -> sin(s)
      [] name = "sqrt" -> sqrt(s)         [] name = "sub" -> sub(s)
      [] name = "truncate" -> truncate(s) [] name = "xor" -> xor(s)
      [] OTHER -> Fail("unsupported operand", s)

-----------------------------------------------------------------------------
(* Parsing.  A text is a sequence of units: the brackets, white space, a    *)
(* word, "true" or "false", a number, or a number that starts with a point. *)

Bracket(c) == [u |-> c]

Space == [u |-> "space"]

Word(w) == [u |-> "word", w |-> w]

Truth(b) == [u |-> "bool", b |-> b]

Numeral(o) == [u |-> "number", o |-> o]

Pointed == [u |-> "pointed"]

\* The one unit of one byte that is no bracket is a digit.
OneByte(t) ==
    \/ t.u \in {"{", "}", "space"}
    \/ t.u = "number" /\ IsInt(t.o) /\ t.o.v \in 0..9

\* Peek(2) finds two bytes.
TwoBytes(t) == Len(t) > 1 \/ (Len(t) = 1 /\ ~OneByte(t[1]))

skipSpaces(t) ==
    LET others == {i \in DOMAIN t : t[i].u # "space"}
    IN  IF others = {} THEN <<>> ELSE SubSeq(t, Min(others), Len(t))

\* The units of an operand: up to white space or a bracket.
OperandEnd(t) ==
    LET ends == {i \in DOMAIN t : t[i].u \in {"{", "}", "space"}}
    IN  IF ends = {} THEN Len(t) ELSE Min(ends) - 1

parseOperand(t) ==
    MakeOperand(IF OperandEnd(t) = 1 /\ t[1].u = "word" THEN t[1].w ELSE "unknown")

\* A real is printed with five decimals.
Printed(o) ==
    IF o.k = "real" THEN MakeReal(Fraction(Floor(Plus(Times(o.q, Fraction(100000, 1)), Fraction(1, 2))), 100000))
    ELSE o

RECURSIVE String(_)
String(p) ==
    <<Bracket("{"), Space>>
    \o FlattenSeq([i \in DOMAIN p |->
           (CASE p[i].k = "prog" -> String(p[i].p)
              [] p[i].k = "op" -> <<Word(p[i].name)>>
              [] p[i].k = "bool" -> <<Truth(p[i].b)>>
              [] OTHER -> <<Numeral(Printed(p[i]))>>) \o <<Space>>])
    \o <<Bracket("}")>>

-----------------------------------------------------------------------------

Init ==
    /\ mode = "new"
    /\ text = <<>>
    /\ open = <<>>
    /\ program = <<>>
    /\ stack = <<>>
    /\ frames = <<>>
    /\ last = [op |-> "", stack |-> <<>>]
    /\ call = [args |-> <<>>, err |-> "", values |-> <<>>]
    /\ calls = [count |-> 0, failed |-> FALSE, reloaded |-> FALSE]
    /\ made = NotMade

\* newPdfFunctionType4FromStream: the decoded stream is parsed.
Parse(t) ==
    /\ mode = "new"
    /\ LET s == skipSpaces(t)
       IN  IF TwoBytes(s) /\ s[1].u = "{"
           THEN /\ mode' = "parse"
                /\ text' = Tail(s)
                /\ open' = <<<<>>>>
           ELSE /\ mode' = "bad"
                /\ UNCHANGED <<text, open>>
    /\ UNCHANGED <<program, stack, frames, last, call, calls, made>>

\* The function parsed last becomes an object of the one around it, or the
\* program.
Close(rest) ==
    IF Len(open) = 1
    THEN /\ program' = open[1]
         /\ mode' = "ready"
         /\ text' = <<>>
         /\ open' = <<>>
    ELSE /\ open' = Append(Below(open, 2), Append(Y(open), MakeProgram(X(open))))
         /\ text' = rest
         /\ UNCHANGED <<mode, program>>

Appended(o, rest) ==
    /\ open' = Append(Front(open), Append(Last(open), o))
    /\ text' = rest
    /\ UNCHANGED <<mode, program>>

\* One turn of parseFunction's loop.  The end of the text closes every function.
parseFunction ==
    /\ mode = "parse"
    /\ LET t == skipSpaces(text)
       IN  \/ /\ ~TwoBytes(t)
              /\ Close(t)
           \/ /\ TwoBytes(t)
              /\ t[1].u = "}"
              /\ Close(Tail(t))
           \/ /\ TwoBytes(t)
              /\ t[1].u = "{"
              /\ open' = Append(open, <<>>)
              /\ text' = Tail(t)
              /\ UNCHANGED <<mode, program>>
           \/ /\ TwoBytes(t)
              /\ t[1].u = "number"
              /\ Appended(t[1].o, Tail(t))
           \/ /\ TwoBytes(t)
              /\ t[1].u = "bool"
              /\ Appended(MakeBool(t[1].b), Tail(t))
           \/ /\ TwoBytes(t)
              /\ t[1].u \in {"word", "pointed"}
              /\ Appended(parseOperand(t), SubSeq(t, OperandEnd(t) + 1, Len(t)))
    /\ UNCHANGED <<stack, frames, last, call, calls, made>>

\* A function made from objects.
Make(p) ==
    /\ mode = "new"
    /\ program' = p
    /\ made' = p
    /\ mode' = "ready"
    /\ UNCHANGED <<text, open, stack, frames, last, call, calls>>

\* PdfFunctionType4.ToPdfObject makes the text of a function that was made, and
\* newPdfFunctionType4FromStream reads it into a function with an executor of its
\* own.
Reload ==
    /\ mode = "ready"
    /\ made \in Functions
    /\ ~calls.reloaded
    /\ mode' = "parse"
    /\ text' = Tail(String(program))
    /\ open' = <<<<>>>>
    /\ stack' = <<>>
    /\ calls' = [calls EXCEPT !.failed = FALSE, !.reloaded = TRUE]
    /\ last' = [op |-> "", stack |-> <<>>]
    /\ call' = [args |-> <<>>, err |-> "", values |-> <<>>]
    /\ UNCHANGED <<program, frames, made>>

Limit == IF made \in Lines THEN 1 ELSE MaxCalls

Arguments == IF made \in Lines THEN {<<>>} ELSE Inputs

\* The arguments that fit are pushed; the program runs only when all of them do.
Pushed(args) ==
    SubSeq(args, 1, Max({0} \cup {n \in DOMAIN args : Len(stack) + n - 1 <= StackLimit}))

\* PdfFunctionType4.Evaluate and PSExecutor.Execute up to the program.
Evaluate(xVec) ==
    /\ mode = "ready"
    /\ calls.count < Limit
    /\ stack' = stack \o Pushed(xVec)
    /\ last' = [op |-> "", stack |-> <<>>]
    /\ IF Pushed(xVec) = xVec
       THEN /\ mode' = "run"
            /\ frames' = <<program>>
            /\ call' = [args |-> xVec, err |-> "", values |-> <<>>]
            /\ calls' = [calls EXCEPT !.count = @ + 1]
       ELSE /\ mode' = "ready"
            /\ call' = [args |-> xVec, err |-> "stack overflow", values |-> <<>>]
            /\ calls' = [calls EXCEPT !.count = @ + 1, !.failed = TRUE]
            /\ UNCHANGED frames
    /\ UNCHANGED <<text, open, program, made>>

Failing(e) ==
    /\ call' = [call EXCEPT !.err = e]
    /\ calls' = [calls EXCEPT !.failed = TRUE]
    /\ mode' = "ready"
    /\ frames' = <<>>

\* PSProgram.Exec: the next object of the innermost program.
Exec ==
    /\ mode = "run"
    /\ frames # <<>> /\ Last(frames) # <<>>
    /\ LET o == Head(Last(frames))
           rest == Append(Front(frames), Tail(Last(frames)))
       IN  IF o.k = "op"
           THEN LET r == OperandExec(o.name, stack)
                    chosen == IF r.err = "" THEN Chosen(o.name, stack) ELSE NoProgram
                IN  /\ stack' = r.stack
                    /\ last' = [op |-> o.name, stack |-> stack]
                    /\ IF r.err # "" THEN Failing(r.err)
                       ELSE /\ frames' = IF chosen = NoProgram THEN rest ELSE Append(rest, chosen)
                            /\ UNCHANGED <<mode, call, calls>>
           ELSE LET r == Push(stack, o)
                IN  /\ stack' = r.stack
                    /\ last' = [op |-> "", stack |-> <<>>]
                    /\ IF r.err # "" THEN Failing(r.err)
                       ELSE frames' = rest /\ UNCHANGED <<mode, call, calls>>
    /\ UNCHANGED <<text, open, program, made>>

\* A program that was run to its end returns to the one that ran it.
Return ==
    /\ mode = "run"
    /\ Len(frames) > 1 /\ Last(frames) = <<>>
    /\ frames' = Front(frames)
    /\ last' = [op |-> "", stack |-> <<>>]
    /\ UNCHANGED <<mode, text, open, program, stack, call, calls, made>>

Numbers(s) == \A i \in DOMAIN s : IsNumber(s[i])

Finish_NotEmptied ==
    /\ mode = "run"
    /\ frames = <<<<>>>>
    /\ frames' = <<>>
    /\ stack' = stack
    /\ last' = [op |-> "", stack |-> <<>>]
    /\ call' = [call EXCEPT !.err = IF Numbers(stack) THEN "" ELSE "type check",
                           !.values = IF Numbers(stack) THEN [i \in DOMAIN stack |-> Float(stack[i])]
                                      ELSE <<>>]
    /\ mode' = "ready"
    /\ UNCHANGED <<text, open, program, calls, made>>

\* The rest of Execute and Evaluate: the stack is the result, and is emptied.
Finish ==
    /\ mode = "run"
    /\ frames = <<<<>>>>
    /\ frames' = <<>>
    /\ stack' = <<>>
    /\ last' = [op |-> "", stack |-> <<>>]
    /\ call' = [call EXCEPT !.err = IF Numbers(stack) THEN "" ELSE "type check",
                           !.values = IF Numbers(stack) THEN [i \in DOMAIN stack |-> Float(stack[i])]
                                      ELSE <<>>]
    /\ mode' = "ready"
    /\ UNCHANGED <<text, open, program, calls, made>>

\* Nothing is left to be asked of the function.
Stop ==
    /\ mode = "bad" \/ (mode = "ready" /\ calls.count = Limit)
    /\ UNCHANGED vars

Next ==
    \/ \E t \in Texts : Parse(t)
    \/ parseFunction
    \/ \E p \in Lines \cup Functions : Make(p)
    \/ Reload
    \/ \E x \in Arguments : Evaluate(x)
    \/ Exec
    \/ Return
    \/ Finish
    \/ Stop

Spec == Init /\ [][Next]_vars

-----------------------------------------------------------------------------
(* Properties.                                                              *)

TypeOK ==
    /\ mode \in {"new", "parse", "ready", "run", "bad"}
    /\ \A i \in DOMAIN stack : stack[i].k \in {"int", "real", "bool", "prog"}
    /\ mode = "run" => frames # <<>>
    /\ mode = "parse" <=> open # <<>>

Bit(i, b) == (i \div 2^b) % 2 = 1

\* Two numbers are the same, up to the width of an int when they are ints.
Same(x, y, ints) == IF ints THEN (x.n - y.n) % 2^IntBits = 0 ELSE x = y

AtMost(x, y) == ~Less(y, x)

One == Fraction(1, 1)

\* What the operand promises of r, which it pushes for y and x (x on top).
Promise1(op, x, r) ==
    LET v == Float(x)
        w == Float(r)
    IN  CASE op = "abs" -> r = x \/ Same(Plus(v, w), Fraction(0, 1), IsInt(x))
          [] op = "neg" -> Same(Plus(v, w), Fraction(0, 1), IsInt(x))
          [] op = "floor" -> w.d = 1 /\ AtMost(w, v) /\ Less(v, Plus(w, One)) /\ r.k = x.k
          [] op = "ceiling" -> w.d = 1 /\ AtMost(v, w) /\ Less(w, Plus(v, One)) /\ r.k = x.k
          [] op = "round" -> w.d = 1 /\ AtMost(Times(Minus(w, v), Fraction(2, 1)), One)
                             /\ Less(Fraction(-1, 1), Times(Minus(w, v), Fraction(2, 1))) /\ r.k = x.k
          [] op \in {"truncate", "cvi"} ->
                w.d = 1 /\ Abs(w.n) * v.d <= Abs(v.n) /\ Abs(v.n) < (Abs(w.n) + 1) * v.d
                /\ w.n * v.n >= 0 /\ r.k = (IF op = "cvi" THEN "int" ELSE x.k)
          [] op = "cvr" -> v = w /\ r.k = "real"
          [] op = "sqrt" -> Times(w, w) = v /\ w.n >= 0
          [] OTHER -> TRUE

Promise2(op, y, x, r) ==
    LET ints == IsInt(x) /\ IsInt(y)
        v == Float(x)
        u == Float(y)
        w == Float(r)
    IN  CASE op = "add" -> Same(Minus(w, v), u, ints)
          [] op = "sub" -> Same(Plus(w, v), u, ints)
          [] op = "mul" -> Same(w, Times(u, v), ints)
          [] op = "div" -> Times(w, v) = u /\ r.k = "real"
          [] op = "idiv" -> LET m == u.n - w.n * v.n
                            IN  Abs(m) < Abs(v.n) /\ m * u.n >= 0
          [] op = "mod" -> Abs(w.n) < Abs(v.n) /\ (u.n - w.n) % Abs(v.n) = 0 /\ w.n * u.n >= 0
          [] op = "exp" -> v.n = 1 /\ v.d = 1 => w = u
          [] op = "bitshift" ->
                IF x.v >= 0 THEN (r.v - y.v * 2^x.v) % 2^IntBits = 0
                ELSE r.v * 2^(-x.v) <= y.v /\ y.v < (r.v + 1) * 2^(-x.v)
          [] OTHER -> TRUE

PromiseLogic(op, y, x, r) ==
    IF IsBool(x) THEN r.b <=> CASE op = "and" -> y.b /\ x.b
                                [] op = "or" -> y.b \/ x.b
                                [] OTHER -> y.b # x.b
    ELSE \A b \in 0..(IntBits - 1) :
            Bit(r.v, b) <=> CASE op = "and" -> Bit(y.v, b) /\ Bit(x.v, b)
                              [] op = "or" -> Bit(y.v, b) \/ Bit(x.v, b)
                              [] OTHER -> Bit(y.v, b) # Bit(x.v, b)

PromiseOrder(op, y, x, r) ==
    LET m == x.n * y.d - y.n * x.d
    IN  r.b <=> CASE op = "lt" -> m > 0
                  [] op = "le" -> m >= 0
                  [] op = "gt" -> m < 0
                  [] OTHER -> m <= 0

\* An operand that succeeds pushes what its comment in ps/operations.go says of
\* the operands it popped, in their order on the stack, within the width of an
\* int, and leaves the objects below them alone; roll moves object i of the n to
\* place (i + j) modulo n.
OperandsExact ==
    mode = "run" /\ last.op # "" =>
        LET s == last.stack
            unary == {"abs", "neg", "floor", "ceiling", "round", "truncate", "cvi", "cvr", "sqrt",
                      "cos", "sin", "log", "ln", "not"}
            binary == {"add", "sub", "mul", "div", "idiv", "mod", "exp", "atan", "bitshift"}
        IN  CASE last.op \in unary ->
                    Front(stack) = Below(s, 1) /\ Promise1(last.op, X(s), X(stack))
              [] last.op \in binary ->
                    Front(stack) = Below(s, 2) /\ Promise2(last.op, Y(s), X(s), X(stack))
              [] last.op \in {"and", "or", "xor"} ->
                    Front(stack) = Below(s, 2) /\ PromiseLogic(last.op, Y(s), X(s), X(stack))
              [] last.op \in {"lt", "le", "gt", "ge"} ->
                    Front(stack) = Below(s, 2)
                    /\ PromiseOrder(last.op, Float(Y(s)), Float(X(s)), X(stack))
              [] last.op \in {"eq", "ne"} ->
                    Front(stack) = Below(s, 2)
                    /\ (X(stack).b <=> ((last.op = "eq") <=>
                            (X(s) = Y(s) \/ (TwoNumbers(s) /\ Float(X(s)) = Float(Y(s))))))
              [] last.op = "roll" ->
                    LET n == Y(s).v
                        r == Below(s, 2)
                        at == Len(r) - n
                    IN  /\ Below(stack, n) = Below(r, n)
                        /\ \A i \in 0..(n - 1) : stack[at + 1 + ((i + X(s).v) % n)] = r[at + 1 + i]
              [] last.op = "index" -> Front(stack) = Front(s) /\ X(stack) = s[Len(s) - 1 - X(s).v]
              [] last.op = "copy" ->
                    /\ Len(stack) = Len(s) - 1 + X(s).v
                    /\ \A i \in 1..X(s).v : stack[Len(s) - 1 + i] = s[Len(s) - 1 - X(s).v + i]
              [] OTHER -> TRUE

\* No operand but copy, and no object of a program, puts more than one object
\* beyond StackLimit on the stack.
LimitKept ==
    /\ mode = "run" /\ last.op \notin {"", "copy"} =>
           Len(stack) <= Max({StackLimit + 1, Len(last.stack)})
    /\ mode = "run" /\ last.op = "" /\ frames = <<program>> /\ ~calls.failed =>
           Len(stack) <= StackLimit + 1

\* The executor a function keeps starts every evaluation with an empty stack, so
\* that values of one evaluation are not arguments of the next, as long as no
\* execution failed.
FreshStack == mode = "ready" /\ ~calls.failed => stack = <<>>

\* A program computes what it was written to compute from the arguments, in every
\* evaluation, and after it was written and read as well as before.
ComputesWanted ==
    mode = "ready" /\ calls.count > 0 /\ ~calls.failed =>
        \A w \in Wanted : w.p = made /\ w.args = call.args => call.values = w.values

RECURSIVE Rounded(_)
Rounded(p) ==
    [i \in DOMAIN p |-> IF IsProgram(p[i]) THEN MakeProgram(Rounded(p[i].p)) ELSE Printed(p[i])]

\* The text PSProgram.String makes of a program is parsed to the same objects,
\* nested programs included, with the reals at five decimals.
ParsedBack == mode = "ready" /\ calls.reloaded => program = Rounded(made)

=============================================================================
