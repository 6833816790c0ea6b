------------------------------- MODULE Canvas -------------------------------
(***************************************************************************)
(* The canvas file, .canvas/canvas.md, and those who rewrite it: the       *)
(* agent's tools in worker threads, which load, change and write it back   *)
(* under _CANVAS_LOCK (langstage/tools.py), and the panel's routes on the  *)
(* event loop, which do the same without the lock                          *)
(* (langstage/workspace/canvas_manager.py).                                *)
(*                                                                         *)
(* A write first truncates the file: until it is done a reader finds some  *)
(* first part of the text.                                                 *)
(***************************************************************************)
EXTENDS CanvasItems

CONSTANTS
    Ops,        \* what calls are asked to do
    MaxCalls,   \* bound: how many of the calls are made
    PanelUse,   \* whether the user removes and clears items in the panel
    MaxPanel,   \* bound: how many operations of the panel
    MaxFaults   \* bound: how many failed calls and crashes

ASSUME CanvasUseAssumption ==
    /\ Ops \subseteq Op /\ PanelUse \in BOOLEAN
    /\ MaxCalls \in Nat /\ MaxPanel \in Nat /\ MaxFaults \in Nat

VARIABLES
    file,       \* the items whose text it holds: whole, or cut while it is written
    pc,         \* where each call stands
    op,         \* what it was asked to do
    got,        \* the list it loaded
    batches,    \* _CANVAS_BATCHES
    panel,      \* the panel's remove_item: where it stands, the item, the list it loaded
    loose,      \* history: messages whose items need not be in order any more
    raced,      \* history: the panel wrote while a tool was at work
    used,       \* operations of the panel so far (bounded)
    faults      \* failed calls and crashes so far (bounded)

vars == <<file, pc, op, got, batches, panel, loose, raced, used, faults>>

\* The file: "empty" without a text, be it there or not; otherwise "whole" or "cut".
Empty    == [is |-> "empty", items |-> <<>>]
Whole(l) == [is |-> "whole", items |-> l]
Cut(l)   == [is |-> "cut", items |-> l]

Idle == [pc |-> "idle", id |-> Header, got |-> <<>>]

Init ==
    /\ file = Empty
    /\ pc = [c \in Call |-> "new"] /\ op = [c \in Call |-> NoCall]
    /\ got = [c \in Call |-> <<>>]
    /\ batches = NoBatches
    /\ panel = Idle
    /\ loose = {} /\ raced = FALSE /\ used = 0 /\ faults = 0

AtWork == {c \in Call : pc[c] \in {"loaded", "writing"}}

\* _CANVAS_LOCK is held from the load to the end of the write.
LockFree == AtWork = {}

\* What load_canvas_from_markdown can return now.
Reads ==
    CASE file.is = "empty" -> {<<>>}
      [] file.is = "whole" -> {Reread(file.items)}
      [] file.is = "cut"   -> CutReads(file.items)

\* What stays of a text whose write was broken off.
Remains(l) == {Empty} \cup {Whole(SubSeq(l, 1, n)) : n \in 0..Len(l)}

\* The end of a write.  A file unlinked meanwhile stays away; over a text that
\* somebody else has finished in between, the end of that text can stay.
Written(l) ==
    CASE file.is = "empty" -> {Empty}
      [] file.is = "whole" -> {Whole(l \o SubSeq(file.items, n, Len(file.items))) :
                                n \in 1..(Len(file.items) + 1)}
      [] file.is = "cut"   -> {Whole(l)}

Output(c) == Export(Result(op[c], c, got[c], batches))

----------------------------------------------------------------------------
\* The tools.

\* A tool takes the lock and loads the file.
Load(c, o) ==
    /\ pc[c] = "new" /\ LockFree /\ Cardinality({d \in Call : pc[d] # "new"}) < MaxCalls
    /\ op' = [op EXCEPT ![c] = o]
    /\ \E l \in Reads : got' = [got EXCEPT ![c] = l]
    /\ pc' = [pc EXCEPT ![c] = "loaded"]
    /\ raced' = (raced \/ panel # Idle)
    /\ UNCHANGED <<file, batches, panel, loose, used, faults>>

\* The tool returns, and its locals are gone.
Return(c, how) ==
    /\ pc' = [pc EXCEPT ![c] = how]
    /\ op' = [op EXCEPT ![c] = NoCall]
    /\ got' = [got EXCEPT ![c] = <<>>]

\* No such item: nothing is written.
NoMatch(c) ==
    /\ pc[c] = "loaded" /\ ~Writes(op[c], got[c])
    /\ Return(c, "ok")
    /\ UNCHANGED <<file, batches, panel, loose, raced, used, faults>>

Owners(l, N) == {Msg(l[n].by) : n \in {k \in N : l[k].by \in Call}}

\* Messages that have placed an item of the id that a call is about to place.
Reuses(o, c, b) == {m \in Message : NewId(o, c) \in PlacedBy(b, m)}

\* Messages whose order the call's write gives up: all that is shown for a reorder, the
\* owner of an item that is replaced (and the caller, if in place), a message that has
\* placed the same id before, and one that falls out of the table.
Loosened(o, c, l, b) ==
    CASE o.kind = "reorder" -> Owners(l, DOMAIN l)
      [] o.kind = "remove"  -> {}
      [] OTHER -> Owners(l, Matches(o, l))
                  \cup (IF Places(o, l) THEN Reuses(o, c, b) ELSE {Msg(c)})
                  \cup (IF Places(o, l) /\ Size # 1 THEN Evicted(b, c) ELSE {})

\* The file is opened for writing: truncated.
Truncate(c) ==
    /\ pc[c] = "loaded" /\ Writes(op[c], got[c])
    /\ file' = Cut(Output(c))
    /\ pc' = [pc EXCEPT ![c] = "writing"]
    /\ loose' = loose \cup Loosened(op[c], c, got[c], batches)
    /\ UNCHANGED <<op, got, batches, panel, raced, used, faults>>

\* The text is written and the lock released.  The table of batches changed before
\* the write; nobody reads it without the lock.
WriteEnd(c) ==
    /\ pc[c] = "writing"
    /\ file' \in Written(Output(c))
    /\ batches' = Batched(op[c], c, got[c], batches)
    /\ Return(c, "ok")
    /\ UNCHANGED <<panel, loose, raced, used, faults>>

\* An exception, while loading, after placing the item, or while writing: the tool
\* reports it and releases the lock.
Fails(c) ==
    /\ faults < MaxFaults /\ pc[c] \in {"loaded", "writing"}
    /\ faults' = faults + 1
    /\ batches' \in {Batched(op[c], c, got[c], batches)}
                    \cup (IF pc[c] = "loaded" THEN {batches} ELSE {})
    /\ file' \in IF pc[c] = "loaded" \/ file.is = "empty" THEN {file} ELSE Remains(Output(c))
    /\ Return(c, "failed")
    /\ UNCHANGED <<panel, loose, raced, used>>

----------------------------------------------------------------------------
\* The panel, on the event loop: one request at a time, no lock.

\* Mutant: what follows the item goes with it.
RestBefore == Export(SubSeq(panel.got, 1, SelectInSeq(panel.got, LAMBDA it : it.id = panel.id) - 1))

\* The items that remain.
Rest == Export(Without(panel.got, panel.id))

\* remove_item loads the file and finds the item.
PanelLoad(i) ==
    /\ PanelUse /\ used < MaxPanel /\ panel.pc = "idle"
    /\ used' = used + 1
    /\ \E l \in Reads : /\ i \in IdsIn(l) \ {Fresh}
                        /\ panel' = [pc |-> "loaded", id |-> i, got |-> l]
    /\ raced' = (raced \/ ~LockFree)
    /\ UNCHANGED <<file, pc, op, got, batches, loose, faults>>

PanelTruncate ==
    /\ panel.pc = "loaded"
    /\ file' = Cut(Rest)
    /\ panel' = [panel EXCEPT !.pc = "writing"]
    /\ UNCHANGED <<pc, op, got, batches, loose, raced, used, faults>>

\* The write ends, or is broken off by an error.
PanelWriteEnd ==
    /\ panel.pc = "writing"
    /\ \/ file' \in Written(Rest) /\ UNCHANGED faults
       \/ file' \in Remains(Rest) /\ faults < MaxFaults /\ faults' = faults + 1
    /\ panel' = Idle
    /\ UNCHANGED <<pc, op, got, batches, loose, raced, used>>

\* clear() unlinks the file: under a tool that has loaded and not yet opened it,
\* the tool brings everything back.
PanelClear ==
    /\ PanelUse /\ used < MaxPanel /\ panel.pc = "idle" /\ file.is # "empty"
    /\ used' = used + 1
    /\ file' = Empty
    /\ raced' = (raced \/ \E c \in Call : pc[c] = "loaded")
    /\ UNCHANGED <<pc, op, got, batches, panel, loose, faults>>

----------------------------------------------------------------------------
\* The process ends anywhere.  Its agents are gone with it, and with them every
\* message one of whose calls had begun.
Crash ==
    /\ faults < MaxFaults
    /\ faults' = faults + 1
    /\ file' \in IF file.is = "cut" THEN Remains(file.items) ELSE {file}
    /\ pc' = [c \in Call |-> IF \/ pc[c] \in {"ok", "failed"}
                                \/ \A k \in Index : pc[<<Msg(c), k>>] = "new"
                             THEN pc[c] ELSE "failed"]
    /\ op' = [c \in Call |-> NoCall] /\ got' = [c \in Call |-> <<>>]
    /\ batches' = NoBatches
    /\ panel' = Idle
    /\ UNCHANGED <<loose, raced, used>>

Tool(c) == (\E o \in Ops : Load(c, o)) \/ NoMatch(c) \/ Truncate(c) \/ WriteEnd(c) \/ Fails(c)
Panel   == (\E i \in Id : PanelLoad(i)) \/ PanelTruncate \/ PanelWriteEnd \/ PanelClear

Next == (\E c \in Call : Tool(c)) \/ Panel \/ Crash

Spec == Init /\ [][Next]_vars

----------------------------------------------------------------------------
\* What the canvas promises.

Writing == {c \in Call : pc[c] = "writing"}

\* The list as of the last finished operation: during a write, the one it started from.
Shown ==
    IF file.is = "empty" THEN <<>>
    ELSE IF Writing # {} THEN got[CHOOSE c \in Writing : TRUE]
    ELSE IF panel.pc = "writing" THEN panel.got
    ELSE Reread(file.items)

Ended == [c \in Call |-> IF pc[c] \in {"ok", "failed"} THEN pc[c] ELSE "new"]

\* gh #200: calls take effect one at a time on what everybody sees, as long as the
\* panel does not write while a tool is at work.
Abstract == INSTANCE CanvasAtomic WITH list <- Shown, st <- Ended
Serialized == Abstract!Spec

\* gh #218: items that one message's calls placed are in the order of the calls.
\* Left out: messages whose items were reordered, replaced or updated in place, one of
\* whose ids was placed again after a removal, by whatever message, or that fell out of
\* the table; races with the panel, and broken writes, which lose items whose ids the
\* table keeps.
BatchOrder ==
    ~raced /\ faults = 0 =>
        \A p, q \in DOMAIN file.items :
            LET a == file.items[p]
                b == file.items[q]
            IN /\ p < q /\ {a.by, b.by} \subseteq Call
               /\ Msg(a.by) = Msg(b.by) /\ Msg(a.by) \notin loose
               => a.by[2] < b.by[2]

\* Ids name one item each, so that updates and removals hit what they mean.  Left out:
\* a reorder that is given an id twice writes its item twice.
UniqueIds ==
    ~raced =>
        \A p, q \in DOMAIN file.items : file.items[p].id = file.items[q].id => p = q

\* What a tool changes is what the file says while it holds the lock.
FreshRead ==
    ~raced => \A c \in Call : pc[c] = "loaded" => got[c] \in Reads
=============================================================================
