------------------------------- MODULE Script -------------------------------
(***************************************************************************)
(* The tests of the exercises as scripts: sequences of steps on named      *)
(* containers, some with an expectation, the assertion of the test.        *)
(***************************************************************************)
EXTENDS MemoryOperationCounter, Sequences

\* The exceptions that cute catches: a test that throws one has failed, unless
\* it asserted that it is thrown.
Thrown == {"logic_error", "invalid_argument", "out_of_range"}

Step(op, b, x, y) == [op |-> op, b |-> b, x |-> x, y |-> y, expect |-> <<"any", 0>>]

Expect(step, kind, v) == [step EXCEPT !.expect = <<kind, v>>]

\* The names most tests use.
buffer      == "buffer"
otherBuffer == "otherBuffer"

New(b, n)         == Step("new", b, n, 0)
PushMove(b, v)    == Step("push", b, Moved(Element(v)), "rvalue")
PushCopy(b, v)    == Step("push", b, Copied(Element(v)), "lvalue")
Pop(b)            == Step("pop", b, 0, 0)
CopyTo(b, c)      == Step("copy_construct", b, c, 0)
MoveTo(b, c)      == Step("move_construct", b, c, 0)
CopyAssignTo(b, c) == Step("copy_assign", b, c, 0)
MoveAssignTo(b, c) == Step("move_assign", b, c, 0)
Swap(b, c)        == Step("swap", b, c, 0)
EndOf(b)          == Step("destroy", b, 0, 0)

EmptyIs(b, t)     == Expect(Step("measure", b, 0, 0), "empty", t)
FullIs(b, t)      == Expect(Step("measure", b, 0, 0), "full", t)
SizeIs(b, n)      == Expect(Step("measure", b, 0, 0), "size", n)
Front(b)          == Step("front", b, 0, 0)
Back(b)           == Step("back", b, 0, 0)
FrontIs(b, v)     == Expect(Front(b), "value", v)
BackIs(b, v)      == Expect(Back(b), "value", v)
CounterIs(b, c)   == Expect(Front(b), "counter", c)
Throws(step)      == Expect(step, "throws", Thrown)
ThrowsInvalid(step) == Expect(step, "throws", {"invalid_argument"})

\* A chain of assignments from b through three new containers.
Chain(Make(_, _), Assign(_, _), b) ==
  <<Make("intermediate1", 1), Make("intermediate2", 1), Make("last", 1),
    Assign("intermediate1", b), Assign("intermediate2", "intermediate1"),
    Assign("last", "intermediate2")>>

\* n_times: the steps n times over.
Times(n, steps) == [i \in 1 .. n * Len(steps) |-> steps[((i - 1) % Len(steps)) + 1]]

\* An expectation and what the step made of it: an outcome and the counts.
Holds(expect, outcome, tally) ==
  CASE expect[1] = "any"     -> outcome[1] \notin Thrown
    [] expect[1] = "value"   -> outcome[1] = "element" /\ outcome[2].value = expect[2]
    [] expect[1] = "counter" -> outcome[1] = "element" /\ CountersEqual(expect[2], outcome[2])
    [] expect[1] = "empty"   -> outcome[2][1] = expect[2]
    [] expect[1] = "full"    -> outcome[2][2] = expect[2]
    [] expect[1] = "size"    -> outcome[2][3] = expect[2]
    [] expect[1] = "throws"  -> outcome[1] \in expect[2]
    [] expect[1] = "doubles" -> tally.docheck => <<tally.wait, tally.notify>> = expect[2]
    [] expect[1] \in DOMAIN tally -> tally[expect[1]] = expect[2]
    [] OTHER                 -> outcome = expect
=============================================================================
