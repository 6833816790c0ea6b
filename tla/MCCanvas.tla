------------------------------ MODULE MCCanvas ------------------------------
\* A small instance of Canvas for TLC.
EXTENDS Canvas, TLC

CONSTANTS i1, i2

Put(i, k)    == [kind |-> "add", id |-> i, kept |-> k]
Set(i, k) == [kind |-> "update", id |-> i, kept |-> k]
Drop(i)    == [kind |-> "remove", id |-> i]
Order(s)     == [kind |-> "reorder", ids |-> s]

SomeOps == {Put(Generated, TRUE), Put(i1, TRUE), Set(i2, FALSE),
            Drop(i1), Drop(Header), Order(<<i2, i1>>)}

Names == {i1, i2}
MessageSymmetry == Permutations(Message)
=============================================================================
