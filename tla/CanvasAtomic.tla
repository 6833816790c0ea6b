---------------------------- MODULE CanvasAtomic ----------------------------
(***************************************************************************)
(* What the canvas promises: every call is one step on the list everybody  *)
(* sees.  A call that fails, or a crash, may leave a cut-off list behind.  *)
(* Once the panel has written while a tool was at work nothing is promised *)
(* any more (raced).                                                       *)
(***************************************************************************)
EXTENDS Integers

CONSTANTS
    Call, Ops, Id,      \* the calls, what they are asked to do, the ids of items
    PanelUse,           \* whether the user removes and clears items in the panel
    NoBatches,          \* the table of batches when the process starts
    Writes(_, _),       \* (o, l): asked to do o on list l, a tool writes a new list:
    Result(_, _, _, _), \* (o, c, l, b): the list call c makes of l, with batches b
    Batched(_, _, _, _),\* (o, c, l, b): the table of batches after it
    Without(_, _),      \* (l, i): l without the item i
    Export(_),          \* what a list is written as,
    Reread(_),          \* what is read from that text,
    CutReads(_)         \* and what from parts of it

VARIABLES
    list,       \* the items a reader of the canvas gets
    batches,    \* the table of batches
    st,         \* each call: new, ok or failed
    faults,     \* how many calls have failed and how often the process crashed
    raced       \* the panel wrote while a tool was at work

vars == <<list, batches, st, faults, raced>>

Init ==
    /\ list = <<>> /\ batches = NoBatches
    /\ st = [c \in Call |-> "new"]
    /\ faults = 0 /\ raced = FALSE

Outcome(o, c) == Export(Result(o, c, list, batches))

\* The call takes effect.
Take(c, o) ==
    /\ st' = [st EXCEPT ![c] = "ok"]
    /\ UNCHANGED <<faults, raced>>
    /\ batches' = IF Writes(o, list) THEN Batched(o, c, list, batches) ELSE batches
    /\ list' = IF Writes(o, list) THEN Reread(Outcome(o, c)) ELSE list

\* A call that did nothing: the panel cleared, after it, what is now an empty canvas.
Overtaken(c, o) ==
    /\ PanelUse /\ list = <<>>
    /\ \/ st' = [st EXCEPT ![c] = "ok"] /\ UNCHANGED faults
       \/ st' = [st EXCEPT ![c] = "failed"] /\ faults' = faults + 1
    /\ UNCHANGED <<list, raced>>
    /\ batches' \in {batches, Batched(o, c, <<>>, batches)}

\* The call fails before or during its write.
Fail(c, o) ==
    /\ st' = [st EXCEPT ![c] = "failed"]
    /\ faults' = faults + 1
    /\ UNCHANGED raced
    /\ \/ batches' \in {batches, Batched(o, c, list, batches)} /\ UNCHANGED list
       \/ /\ Writes(o, list)
          /\ batches' = Batched(o, c, list, batches)
          /\ list' \in CutReads(Outcome(o, c))

\* The panel removes an item, or fails to.
PanelRemove(i) ==
    /\ PanelUse
    /\ UNCHANGED <<batches, st, raced>>
    /\ \/ UNCHANGED faults /\ list' = Reread(Export(Without(list, i)))
       \/ faults' = faults + 1 /\ list' \in CutReads(Export(Without(list, i)))

PanelClear ==
    /\ PanelUse /\ list' = <<>>
    /\ UNCHANGED <<batches, st, faults, raced>>

\* The process ends, possibly in the middle of one write.
Crash ==
    /\ faults' = faults + 1 /\ batches' = NoBatches
    /\ UNCHANGED raced
    /\ \E S \in SUBSET {c \in Call : st[c] = "new"} :
         st' = [c \in Call |-> IF c \in S THEN "failed" ELSE st[c]]
    /\ \/ UNCHANGED list
       \/ \E c \in Call, o \in Ops : Writes(o, list) /\ list' \in CutReads(Outcome(o, c))
       \/ PanelUse /\ \E i \in Id : list' \in CutReads(Export(Without(list, i)))

Ends(c, o) == Take(c, o) \/ Overtaken(c, o) \/ Fail(c, o)

Next ==
    \/ raced'
    \/ \E c \in Call : st[c] = "new" /\ st'[c] # "new" /\ \E o \in Ops : Ends(c, o)
    \/ PanelClear
    \/ \E i \in Id : PanelRemove(i)
    \/ Crash

Spec == Init /\ [][Next]_vars
=============================================================================
