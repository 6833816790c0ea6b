---------------------------- MODULE CanvasProofs ----------------------------
(***************************************************************************)
(* For any number of messages, calls, ids, faults and panel operations, as *)
(* long as the panel does not write under a tool's hands: a tool works on  *)
(* what the file says, the canvas implements its atomic specification, ids *)
(* name one item each, and the items of a message are in the order of its  *)
(* calls.                                                                  *)
(***************************************************************************)
EXTENDS Canvas, SequenceTheorems, WellFoundedInduction, TLAPS

\* The shape of the state, as far as the steps depend on it.
Shape ==
    /\ file.is \in {"empty", "cut", "whole"}
    /\ pc \in [Call -> {"new", "loaded", "writing", "ok", "failed"}]
    /\ op \in [Call -> Ops \cup {NoCall}]
    /\ DOMAIN got = Call
    /\ \A c \in AtWork : op[c] \in Ops
    /\ \A c \in Writing : Writes(op[c], got[c])
    /\ panel = [pc |-> panel.pc, id |-> panel.id, got |-> panel.got]
    /\ panel.pc \in {"idle", "loaded", "writing"}
    /\ panel.pc = "idle" => panel = Idle
    /\ panel.pc # "idle" => PanelUse /\ panel.id \in Id
    /\ raced \in BOOLEAN

\* _CANVAS_LOCK: one tool at a time.
Exclusive == \A c, d \in AtWork : c = d

\* Nobody but the tool or the panel at work changes what it started from.
Undisturbed ==
    /\ \A c \in Call : pc[c] = "loaded" =>
         panel.pc = "idle" /\ file.is # "cut" /\ got[c] \in Reads
    /\ \A c \in Call : pc[c] = "writing" =>
         panel.pc = "idle" /\ (file = Cut(Output(c)) \/ (file.is = "empty" /\ PanelUse))
    /\ panel.pc = "loaded" => file.is = "whole" /\ panel.got = Reread(file.items)
    /\ panel.pc = "writing" => file = Cut(Rest)
    /\ panel.pc # "idle" => AtWork = {}
    /\ Writing = {} /\ panel.pc # "writing" => file.is # "cut"

CInv == Shape /\ Exclusive /\ (~raced => Undisturbed)

\* Once raced, always raced.
LEMMA RacedStays == Next /\ raced => raced'
BY DEF Next, Tool, Panel, Load, NoMatch, Truncate, WriteEnd, Fails, PanelLoad,
   PanelTruncate, PanelWriteEnd, PanelClear, Crash

\* Initially nothing is at work.
LEMMA CInvInit == Init => CInv
<1> SUFFICES ASSUME Init PROVE CInv
  OBVIOUS
<1> USE DEF Init
<1>1. AtWork = {} /\ Writing = {}
  BY DEF AtWork, Writing
<1>2. panel.pc = "idle" /\ file.is = "empty"
  BY DEF Idle, Empty
<1>3. Shape
  BY <1>1, <1>2 DEF Shape, Idle
<1>4. Undisturbed
  BY <1>1, <1>2 DEF Undisturbed
<1> QED BY <1>1, <1>3, <1>4 DEF CInv, Exclusive

----------------------------------------------------------------------------
\* The shape and the lock, action by action.

LEMMA LoadShape ==
  ASSUME Shape, Exclusive, NEW c \in Call, NEW o \in Ops, Load(c, o)
  PROVE  Shape' /\ Exclusive'
<1>1. AtWork' = {c} /\ Writing' = {}
  BY DEF Load, LockFree, AtWork, Writing, Shape
<1>2. Exclusive'
  BY <1>1 DEF Exclusive
<1>3. Shape'
  BY <1>1 DEF Load, Shape
<1> QED BY <1>2, <1>3

\* A call that returns leaves the others as they were.
LEMMA ReturnShape ==
  ASSUME Shape, Exclusive, NEW c \in Call, NEW h \in {"ok", "failed"}, Return(c, h),
         file'.is \in {"empty", "cut", "whole"}, UNCHANGED panel, UNCHANGED raced
  PROVE  Shape' /\ Exclusive'
<1>1. AtWork' \subseteq AtWork \ {c} /\ Writing' \subseteq Writing \ {c}
  BY DEF Return, AtWork, Writing, Shape
<1>2. Exclusive'
  BY <1>1 DEF Exclusive
<1>3. Shape'
  BY <1>1 DEF Return, Shape
<1> QED BY <1>2, <1>3

\* What can be in the file after a write that ended or broke off.
LEMMA AfterWrite ==
  ASSUME NEW l
  PROVE  /\ Cut(l).is = "cut" /\ Cut(l).items = l
         /\ file.is = "cut" => Written(l) = {Whole(l)}
         /\ file.is = "empty" => Written(l) = {Empty}
         /\ \A f \in Written(l) : file.is \in {"empty", "cut", "whole"} => f.is \in {"empty", "whole"}
         /\ \A f \in Remains(l) : f.is \in {"empty", "whole"}
BY DEF Cut, Written, Remains, Whole, Empty

LEMMA ToolShape ==
  ASSUME Shape, Exclusive, NEW c \in Call, NoMatch(c) \/ Truncate(c) \/ WriteEnd(c) \/ Fails(c)
  PROVE  Shape' /\ Exclusive'
<1>1. CASE NoMatch(c)
  BY <1>1, ReturnShape DEF NoMatch, Shape
<1>2. CASE Truncate(c)
  <2>1. AtWork' = AtWork /\ Writing' \subseteq Writing \cup {c}
    BY <1>2 DEF Truncate, AtWork, Writing, Shape
  <2>2. Exclusive'
    BY <2>1 DEF Exclusive
  <2>3. file'.is = "cut"
    BY <1>2, AfterWrite DEF Truncate
  <2>4. Shape'
    BY <1>2, <2>1, <2>3 DEF Truncate, Shape
  <2> QED BY <2>2, <2>4
<1>3. CASE WriteEnd(c)
  BY <1>3, ReturnShape, AfterWrite DEF WriteEnd, Shape
<1>4. CASE Fails(c)
  <2>1. file'.is \in {"empty", "cut", "whole"}
    BY <1>4, AfterWrite DEF Fails, Shape
  <2> QED BY <1>4, <2>1, ReturnShape DEF Fails
<1> QED BY <1>1, <1>2, <1>3, <1>4

LEMMA PanelShape ==
  ASSUME Shape, Exclusive, Panel
  PROVE  Shape' /\ Exclusive'
<1>1. UNCHANGED <<pc, op, got>>
  BY DEF Panel, PanelLoad, PanelTruncate, PanelWriteEnd, PanelClear
<1>2. AtWork' = AtWork /\ Writing' = Writing
  BY <1>1 DEF AtWork, Writing
<1>3. Exclusive'
  BY <1>2 DEF Exclusive
<1>4. SUFFICES /\ file'.is \in {"empty", "cut", "whole"}
               /\ panel' = [pc |-> panel'.pc, id |-> panel'.id, got |-> panel'.got]
               /\ panel'.pc \in {"idle", "loaded", "writing"}
               /\ panel'.pc = "idle" => panel' = Idle
               /\ panel'.pc # "idle" => PanelUse /\ panel'.id \in Id
               /\ raced' \in BOOLEAN
  BY <1>1, <1>2, <1>3 DEF Shape
<1>5. ASSUME NEW i \in Id, PanelLoad(i) PROVE <1>4!1
  BY <1>1, <1>2, <1>5 DEF PanelLoad, Shape
<1>6. CASE PanelTruncate
  <2>1. file'.is = "cut"
    BY <1>6, AfterWrite DEF PanelTruncate
  <2>2. panel' = [pc |-> "writing", id |-> panel.id, got |-> panel.got] /\ PanelUse /\ panel.id \in Id
    BY <1>6 DEF PanelTruncate, Shape
  <2> QED BY <1>6, <2>1, <2>2 DEF PanelTruncate, Shape
<1>7. CASE PanelWriteEnd
  <2>1. file'.is \in {"empty", "whole"}
    BY <1>7, AfterWrite DEF PanelWriteEnd, Shape
  <2> QED BY <1>7, <2>1 DEF PanelWriteEnd, Shape, Idle
<1>8. CASE PanelClear
  BY <1>8 DEF PanelClear, Shape, Empty
<1> QED BY <1>5, <1>6, <1>7, <1>8 DEF Panel

LEMMA CrashShape ==
  ASSUME Shape, Exclusive, Crash
  PROVE  Shape' /\ Exclusive'
<1>1. \A c \in Call : c = <<Msg(c), c[2]>> /\ c[2] \in Index
  BY DEF Call, Msg, Index
<1>2. \A c \in Call : pc'[c] \in {"new", "ok", "failed"}
  BY <1>1 DEF Crash
<1>3. AtWork' = {} /\ Writing' = {}
  BY <1>2 DEF AtWork, Writing
<1>4. file'.is \in {"empty", "cut", "whole"}
  <2>1. CASE file.is = "cut"
    BY <2>1, AfterWrite DEF Crash
  <2>2. CASE file.is # "cut"
    BY <2>2 DEF Crash, Shape
  <2> QED BY <2>1, <2>2
<1>5. pc' \in [Call -> {"new", "loaded", "writing", "ok", "failed"}]
  BY <1>2 DEF Crash
<1>6. Shape'
  BY <1>3, <1>4, <1>5 DEF Crash, Shape, Idle
<1> QED BY <1>3, <1>6 DEF Exclusive

----------------------------------------------------------------------------
\* The hands off, action by action.

LEMMA LoadUndisturbed ==
  ASSUME Shape, Undisturbed, NEW c \in Call, NEW o \in Ops, Load(c, o), ~raced'
  PROVE  Undisturbed'
<1>1. /\ UNCHANGED <<file, panel>> /\ panel.pc = "idle"
      /\ AtWork = {} /\ Writing = {}
  <2>1. UNCHANGED <<file, panel>> /\ AtWork = {} /\ panel = Idle
    BY DEF Load, LockFree
  <2> QED BY <2>1 DEF Idle, AtWork, Writing
<1>2. Reads' = Reads /\ file.is # "cut"
  BY <1>1 DEF Reads, Undisturbed
<1>3. /\ \A d \in Call : d # c => pc'[d] \notin {"loaded", "writing"}
      /\ pc'[c] = "loaded" /\ got'[c] \in Reads
  BY <1>1 DEF Load, Shape, AtWork
<1> QED BY <1>1, <1>2, <1>3 DEF Undisturbed

\* When the only tool at work returns, nobody is at work.
LEMMA ReturnAlone ==
  ASSUME Shape, Exclusive, NEW c \in AtWork, NEW h \in {"ok", "failed"}, Return(c, h)
  PROVE  AtWork' = {} /\ Writing' = {}
BY DEF Return, Exclusive, AtWork, Writing, Shape

LEMMA QuietUndisturbed ==
  ASSUME AtWork' = {}, panel'.pc = "idle", file'.is # "cut"
  PROVE  Undisturbed'
BY DEF Undisturbed, AtWork, Writing

LEMMA ToolUndisturbed ==
  ASSUME Shape, Exclusive, Undisturbed, NEW c \in Call,
         NoMatch(c) \/ Truncate(c) \/ WriteEnd(c) \/ Fails(c)
  PROVE  Undisturbed'
<1>1. /\ c \in AtWork /\ UNCHANGED panel
      /\ panel.pc = "idle"
      /\ pc[c] = "loaded" => file.is # "cut"
  BY DEF NoMatch, Truncate, WriteEnd, Fails, Undisturbed, AtWork
<1>2. CASE NoMatch(c)
  BY <1>1, <1>2, ReturnAlone, QuietUndisturbed DEF NoMatch
<1>3. CASE Truncate(c)
  <2>1. file' = Cut(Output(c))' /\ pc'[c] = "writing"
    BY <1>3 DEF Truncate, Output, Shape
  <2>2. \A d \in Call : d # c => pc'[d] \notin {"loaded", "writing"}
    BY <1>1, <1>3 DEF Truncate, Shape, Exclusive, AtWork
  <2>3. c \in Writing'
    BY <2>1 DEF Writing
  <2> QED BY <1>1, <2>1, <2>2, <2>3 DEF Undisturbed
<1>4. CASE WriteEnd(c)
  BY <1>1, <1>4, ReturnAlone, QuietUndisturbed, AfterWrite DEF WriteEnd, Shape
<1>5. CASE Fails(c)
  <2>1. file'.is # "cut"
    BY <1>1, <1>5, AfterWrite DEF Fails
  <2> QED BY <1>1, <1>5, <2>1, ReturnAlone, QuietUndisturbed DEF Fails
<1> QED BY <1>2, <1>3, <1>4, <1>5

LEMMA PanelUndisturbed ==
  ASSUME Shape, Exclusive, Undisturbed, Panel, ~raced'
  PROVE  Undisturbed'
<1>1. UNCHANGED <<pc, op, got, batches>>
  BY DEF Panel, PanelLoad, PanelTruncate, PanelWriteEnd, PanelClear
<1>2. AtWork' = AtWork /\ Writing' = Writing
  BY <1>1 DEF AtWork, Writing
<1>3. ASSUME NEW i \in Id, PanelLoad(i) PROVE Undisturbed'
  <2>1. AtWork = {} /\ Writing = {} /\ UNCHANGED file
    BY <1>3 DEF PanelLoad, LockFree, AtWork, Writing
  <2>2. file.is = "whole"
    BY <1>3, <2>1 DEF PanelLoad, Reads, Undisturbed, Shape, IdsIn
  <2>3. panel'.pc = "loaded" /\ panel'.got = Reread(file.items)
    BY <1>3, <2>2 DEF PanelLoad, Reads
  <2>4. \A c \in Call : pc'[c] \notin {"loaded", "writing"}
    BY <1>2, <2>1 DEF AtWork
  <2> QED BY <1>2, <2>1, <2>2, <2>3, <2>4 DEF Undisturbed
<1>4. CASE PanelTruncate
  <2>1. AtWork = {} /\ file' = Cut(Rest) /\ panel' = [panel EXCEPT !.pc = "writing"]
    BY <1>4 DEF PanelTruncate, Undisturbed
  <2>2. panel'.pc = "writing" /\ Rest' = Rest
    BY <2>1 DEF Rest, Shape
  <2>3. \A c \in Call : pc'[c] \notin {"loaded", "writing"}
    BY <1>2, <2>1 DEF AtWork
  <2> QED BY <1>2, <2>1, <2>2, <2>3 DEF Undisturbed, Cut
<1>5. CASE PanelWriteEnd
  <2>1. AtWork' = {} /\ panel'.pc = "idle"
    BY <1>2, <1>5 DEF PanelWriteEnd, Undisturbed, Idle
  <2>2. file'.is # "cut"
    BY <1>5, AfterWrite DEF PanelWriteEnd, Shape
  <2> QED BY <2>1, <2>2, QuietUndisturbed
<1>6. CASE PanelClear
  <2>1. file'.is = "empty" /\ PanelUse /\ panel' = panel /\ panel.pc = "idle"
    BY <1>6 DEF PanelClear, Empty
  <2>2. \A c \in Call : pc'[c] # "loaded"
    BY <1>1, <1>6 DEF PanelClear
  <2> QED BY <2>1, <2>2 DEF Undisturbed
<1> QED BY <1>3, <1>4, <1>5, <1>6 DEF Panel

LEMMA CrashUndisturbed ==
  ASSUME Shape, Exclusive, Crash
  PROVE  Undisturbed'
<1>1. \A c \in Call : c = <<Msg(c), c[2]>> /\ c[2] \in Index
  BY DEF Call, Msg, Index
<1>2. AtWork' = {}
  BY <1>1 DEF Crash, AtWork
<1>3. panel'.pc = "idle" /\ file'.is # "cut"
  <2>1. CASE file.is = "cut"
    BY <2>1, AfterWrite DEF Crash, Idle
  <2>2. CASE file.is # "cut"
    BY <2>2 DEF Crash, Idle
  <2> QED BY <2>1, <2>2
<1> QED BY <1>2, <1>3, QuietUndisturbed

LEMMA CInvNext == CInv /\ [Next]_vars => CInv'
<1> SUFFICES ASSUME CInv, [Next]_vars PROVE CInv'
  OBVIOUS
<1> USE DEF CInv
<1>1. ASSUME Next, ~raced' PROVE ~raced /\ Undisturbed
  BY <1>1, RacedStays
<1>2. ASSUME NEW c \in Call, NEW o \in Ops, Load(c, o) PROVE CInv'
  BY <1>1, <1>2, LoadShape, LoadUndisturbed DEF Next, Tool
<1>3. ASSUME NEW c \in Call, NoMatch(c) \/ Truncate(c) \/ WriteEnd(c) \/ Fails(c) PROVE CInv'
  BY <1>1, <1>3, ToolShape, ToolUndisturbed DEF Next, Tool
<1>4. CASE Panel
  BY <1>1, <1>4, PanelShape, PanelUndisturbed DEF Next
<1>5. CASE Crash
  BY <1>5, CrashShape, CrashUndisturbed
<1>6. CASE UNCHANGED vars
  BY <1>6 DEF vars, Shape, Exclusive, Undisturbed, AtWork, Writing, Reads, Output, Rest
<1> QED BY <1>2, <1>3, <1>4, <1>5, <1>6 DEF Next, Tool

THEOREM CInvHolds == Spec => []CInv
BY CInvInit, CInvNext, PTL DEF Spec

\* What a tool changes and writes back is what the file says all the while, unless the
\* panel wrote under its hands: the lock around load, change and write does what it is for.
THEOREM FreshReads == Spec => []FreshRead
<1>1. CInv => FreshRead
  BY DEF CInv, Undisturbed, FreshRead
<1> QED BY <1>1, CInvHolds, PTL

----------------------------------------------------------------------------
\* The refinement.  What is shown depends on who is at work.

LEMMA ShownQuiet ==
  ASSUME Shape, Undisturbed, Writing = {}, panel.pc # "writing"
  PROVE  Reads = {Shown}
BY DEF Shape, Undisturbed, Reads, Shown

LEMMA ShownWriting ==
  ASSUME Exclusive, NEW c \in Writing
  PROVE  Shown = IF file.is = "empty" THEN <<>> ELSE got[c]
<1>1. \A d \in Writing : d = c
  BY DEF Exclusive, AtWork, Writing
<1> QED BY <1>1 DEF Shown

\* What a write leaves is what an operation that succeeds, or fails, makes of the list.
LEMMA ShownAfter ==
  ASSUME NEW l, Writing' = {}, panel'.pc # "writing", NEW f, file' = f
  PROVE  /\ f = Whole(l) => Shown' = Reread(l)
         /\ f = Empty => Shown' = <<>>
         /\ f \in Remains(l) => Shown' \in CutReads(l)
<1>1. f = Empty => Shown' = <<>>
  BY DEF Shown, Empty
<1>2. \A k : f = Whole(k) => Shown' = Reread(k)
  BY DEF Shown, Whole
<1> QED BY <1>1, <1>2 DEF Remains, CutReads

\* A call that finds its list gone changes the table of batches as on an empty list.
LEMMA BatchedEmpty ==
  ASSUME NEW o \in Op, NEW c, NEW l, NEW b
  PROVE  Batched(o, c, l, b) \in {b, Batched(o, c, <<>>, b)}
<1>1. Matches(o, <<>>) = {}
  BY DEF Matches
<1> QED BY <1>1 DEF Batched, Places

\* The end of a call, in the abstract specification.
LEMMA ReturnEnds ==
  ASSUME Shape, NEW c \in Call, NEW h \in {"ok", "failed"}, Return(c, h), c \in AtWork
  PROVE  Ended' = [Ended EXCEPT ![c] = h] /\ Ended[c] = "new" /\ Ended'[c] # "new"
<1>1. \A d \in Call : pc'[d] = IF d = c THEN h ELSE pc[d]
  BY DEF Return, Shape
<1> QED BY <1>1 DEF Ended, AtWork

\* A call that ends is a step of the atomic canvas.
LEMMA EndServes ==
  ASSUME NEW c \in Call, NEW o \in Ops, Ended[c] = "new", Ended'[c] # "new", Abstract!Ends(c, o)
  PROVE  Abstract!Next
BY DEF Abstract!Next

LEMMA InitServes == Init => Abstract!Init
BY DEF Init, Abstract!Init, Shown, Ended, Empty

\* What the steps of a tool are in the abstract specification.
LEMMA NoMatchTakes ==
  ASSUME Shape, Exclusive, Undisturbed, NEW c \in Call, NoMatch(c)
  PROVE  Abstract!Next
<1>1. /\ c \in AtWork /\ Writing = {} /\ panel.pc = "idle" /\ got[c] \in Reads
      /\ op[c] \in Ops /\ Return(c, "ok") /\ ~Writes(op[c], got[c])
      /\ UNCHANGED <<file, panel, batches, faults, raced>>
  BY DEF NoMatch, Shape, Exclusive, Undisturbed, AtWork, Writing
<1>2. got[c] = Shown
  BY <1>1, ShownQuiet
<1>3. Writing' = {}
  BY <1>1, ReturnAlone
<1>4. Shown' = Shown
  BY <1>1, <1>3 DEF Shown
<1>5. Ended' = [Ended EXCEPT ![c] = "ok"] /\ Ended[c] = "new" /\ Ended'[c] # "new"
  BY <1>1, ReturnEnds
<1>6. Abstract!Ends(c, op[c])
  BY <1>1, <1>2, <1>4, <1>5 DEF Abstract!Ends, Abstract!Take
<1> QED BY <1>1, <1>5, <1>6, EndServes

\* A call that is writing: its list is shown, or the panel has cleared the file.
LEMMA WritingState ==
  ASSUME Shape, Exclusive, Undisturbed, NEW c \in Writing
  PROVE  /\ c \in AtWork /\ panel.pc = "idle"
         /\ op[c] \in Ops /\ Writes(op[c], got[c])
         /\ \/ file = Cut(Output(c)) /\ Shown = got[c]
               /\ Abstract!Outcome(op[c], c) = Output(c)
            \/ file.is = "empty" /\ PanelUse /\ Shown = <<>>
<1>1. file = Cut(Output(c)) \/ (file.is = "empty" /\ PanelUse)
  BY DEF Undisturbed, Writing
<1>2. Shown = IF file.is = "empty" THEN <<>> ELSE got[c]
  BY ShownWriting
<1> QED BY <1>1, <1>2, AfterWrite DEF Shape, Undisturbed, AtWork, Writing, Output, Abstract!Outcome

LEMMA WriteEndTakes ==
  ASSUME Shape, Exclusive, Undisturbed, NEW c \in Call, WriteEnd(c)
  PROVE  Abstract!Next
<1>1. c \in Writing /\ Return(c, "ok") /\ UNCHANGED <<panel, raced, faults>>
  BY DEF WriteEnd, Writing
<1>2. Writing' = {} /\ panel'.pc # "writing"
  BY <1>1, ReturnAlone, WritingState
<1>3. /\ Ended' = [Ended EXCEPT ![c] = "ok"] /\ Ended[c] = "new" /\ Ended'[c] # "new"
      /\ op[c] \in Ops
  BY <1>1, ReturnEnds, WritingState
<1>4. CASE file = Cut(Output(c)) /\ Shown = got[c] /\ Abstract!Outcome(op[c], c) = Output(c)
  <2>1. file' = Whole(Output(c))
    BY <1>4, AfterWrite DEF WriteEnd
  <2>2. Shown' = Reread(Output(c))
    BY <1>2, <2>1, ShownAfter
  <2>3. Writes(op[c], Shown) /\ batches' = Batched(op[c], c, Shown, batches)
    BY <1>1, <1>4, WritingState DEF WriteEnd
  <2>4. Abstract!Ends(c, op[c])
    BY <1>1, <1>3, <1>4, <2>2, <2>3 DEF Abstract!Ends, Abstract!Take
  <2> QED BY <1>3, <2>4, EndServes
<1>5. CASE file.is = "empty" /\ PanelUse /\ Shown = <<>>
  <2>1. file' = Empty
    BY <1>5, AfterWrite DEF WriteEnd
  <2>2. Shown' = <<>>
    BY <1>2, <2>1, ShownAfter
  <2>3. batches' \in {batches, Batched(op[c], c, <<>>, batches)}
    BY <1>3, BatchedEmpty, CanvasUseAssumption DEF WriteEnd
  <2>4. Abstract!Ends(c, op[c])
    BY <1>1, <1>3, <1>5, <2>2, <2>3 DEF Abstract!Ends, Abstract!Overtaken
  <2> QED BY <1>3, <2>4, EndServes
<1> QED BY <1>1, <1>4, <1>5, WritingState

LEMMA FailsServes ==
  ASSUME Shape, Exclusive, Undisturbed, NEW c \in Call, Fails(c)
  PROVE  Abstract!Next
<1>1. /\ c \in AtWork /\ Return(c, "failed") /\ faults' = faults + 1
      /\ UNCHANGED <<panel, raced>> /\ panel.pc = "idle" /\ op[c] \in Ops
  BY DEF Fails, AtWork, Shape, Undisturbed
<1>2. Writing' = {} /\ panel'.pc # "writing"
  BY <1>1, ReturnAlone
<1>3. Ended' = [Ended EXCEPT ![c] = "failed"] /\ Ended[c] = "new" /\ Ended'[c] # "new"
  BY <1>1, ReturnEnds
<1>4. CASE pc[c] = "loaded"
  <2>1. /\ Writing = {} /\ UNCHANGED file /\ got[c] \in Reads
        /\ batches' \in {batches, Batched(op[c], c, got[c], batches)}
    BY <1>1, <1>4 DEF Fails, Exclusive, Undisturbed, AtWork, Writing
  <2>2. Shown' = Shown /\ got[c] = Shown
    BY <1>1, <1>2, <2>1, ShownQuiet DEF Shown
  <2>3. Abstract!Ends(c, op[c])
    BY <1>1, <1>3, <2>1, <2>2 DEF Abstract!Ends, Abstract!Fail
  <2> QED BY <1>1, <1>3, <2>3, EndServes
<1>5. CASE pc[c] = "writing"
  <2>1. /\ c \in Writing /\ batches' = Batched(op[c], c, got[c], batches)
        /\ file' \in IF file.is = "empty" THEN {file} ELSE Remains(Output(c))
    BY <1>5 DEF Fails, Writing
  <2>2. CASE file = Cut(Output(c)) /\ Shown = got[c] /\ Abstract!Outcome(op[c], c) = Output(c)
    <3>1. file' \in Remains(Output(c))
      BY <2>1, <2>2, AfterWrite
    <3>2. Shown' \in CutReads(Output(c))
      BY <1>2, <3>1, ShownAfter
    <3>3. Abstract!Ends(c, op[c])
      BY <1>1, <1>3, <2>1, <2>2, <3>2, WritingState DEF Abstract!Ends, Abstract!Fail
    <3> QED BY <1>1, <1>3, <3>3, EndServes
  <2>3. CASE file.is = "empty" /\ PanelUse /\ Shown = <<>>
    <3>1. Shown' = <<>>
      BY <2>1, <2>3 DEF Shown
    <3>2. batches' \in {batches, Batched(op[c], c, <<>>, batches)}
      BY <1>1, <2>1, BatchedEmpty, CanvasUseAssumption
    <3>3. Abstract!Ends(c, op[c])
      BY <1>1, <1>3, <2>3, <3>1, <3>2 DEF Abstract!Ends, Abstract!Overtaken
    <3> QED BY <1>1, <1>3, <3>3, EndServes
  <2> QED BY <2>1, <2>2, <2>3, WritingState
<1> QED BY <1>4, <1>5 DEF Fails

\* A load and the start of a write are no steps of the abstract specification.
LEMMA LoadStutters ==
  ASSUME Shape, Undisturbed, NEW c \in Call, NEW o \in Ops, Load(c, o), ~raced, ~raced'
  PROVE  UNCHANGED Abstract!vars
<1>1. Writing = {} /\ Writing' = {}
  BY DEF Load, LockFree, AtWork, Writing, Shape
<1>2. UNCHANGED <<file, panel, batches, faults>> /\ raced' = raced
  BY DEF Load, Shape
<1>3. Shown' = Shown
  BY <1>1, <1>2 DEF Shown
<1>4. Ended' = Ended
  BY DEF Load, Ended, Shape
<1> QED BY <1>2, <1>3, <1>4 DEF Abstract!vars

LEMMA TruncateStutters ==
  ASSUME Shape, Exclusive, Undisturbed, Exclusive', NEW c \in Call, Truncate(c)
  PROVE  UNCHANGED Abstract!vars
<1>1. /\ c \in AtWork /\ Writing = {} /\ panel.pc = "idle" /\ got[c] \in Reads
      /\ c \in Writing' /\ got' = got /\ UNCHANGED <<batches, faults, raced>>
  BY DEF Truncate, Shape, Exclusive, Undisturbed, AtWork, Writing
<1>2. Shown = got[c]
  BY <1>1, ShownQuiet
<1>3. Shown' = got'[c]
  <2>1. \A d \in Writing' : d = c
    BY <1>1 DEF Exclusive, AtWork, Writing
  <2>2. file'.is = "cut"
    BY AfterWrite DEF Truncate
  <2> QED BY <1>1, <2>1, <2>2 DEF Shown
<1>4. Ended' = Ended
  BY DEF Truncate, Ended, Shape
<1> QED BY <1>1, <1>2, <1>3, <1>4 DEF Abstract!vars

\* The panel's removal is one step, when its write ends.
LEMMA PanelServes ==
  ASSUME Shape, Exclusive, Undisturbed, Panel, ~raced, ~raced'
  PROVE  Abstract!Next \/ UNCHANGED Abstract!vars
<1>1. UNCHANGED <<pc, op, got, batches>> /\ raced' = raced
  BY DEF Panel, PanelLoad, PanelTruncate, PanelWriteEnd, PanelClear, Shape
<1>2. Writing' = Writing /\ Ended' = Ended
  BY <1>1 DEF Writing, Ended
<1>3. ASSUME NEW i \in Id, PanelLoad(i) PROVE UNCHANGED Abstract!vars
  <2>1. Writing = {}
    <3>1. LockFree
      BY <1>3 DEF PanelLoad, Shape
    <3> QED BY <3>1 DEF LockFree, AtWork, Writing
  <2>2. UNCHANGED <<file, faults>> /\ panel.pc # "writing" /\ panel'.pc # "writing"
    BY <1>3 DEF PanelLoad
  <2>3. Shown' = Shown
    BY <1>2, <2>1, <2>2 DEF Shown
  <2> QED BY <1>1, <1>2, <2>2, <2>3 DEF Abstract!vars
<1>4. CASE PanelTruncate
  <2>1. /\ Writing = {} /\ panel'.pc = "writing" /\ panel'.got = panel.got /\ UNCHANGED faults
        /\ file.is = "whole" /\ panel.pc = "loaded" /\ panel.got = Reread(file.items)
    BY <1>4 DEF PanelTruncate, Undisturbed, Shape, AtWork, Writing
  <2>2. file'.is = "cut"
    BY <1>4, AfterWrite DEF PanelTruncate
  <2>3. Shown' = Shown
    BY <1>2, <2>1, <2>2 DEF Shown
  <2> QED BY <1>1, <1>2, <2>1, <2>3 DEF Abstract!vars
<1>5. CASE PanelWriteEnd
  <2>1. /\ Writing = {} /\ panel.pc = "writing" /\ panel'.pc # "writing"
        /\ file = Cut(Rest) /\ PanelUse /\ panel.id \in Id
    BY <1>5 DEF PanelWriteEnd, Undisturbed, Shape, AtWork, Writing, Idle
  <2>2. Shown = panel.got /\ Rest = Export(Without(Shown, panel.id))
    BY <2>1, AfterWrite DEF Shown, Rest
  <2>3. CASE file' \in Written(Rest) /\ UNCHANGED faults
    <3>1. file' = Whole(Rest)
      BY <2>1, <2>3, AfterWrite
    <3>2. Shown' = Reread(Rest)
      BY <1>2, <2>1, <3>1, ShownAfter
    <3>3. Abstract!PanelRemove(panel.id)
      BY <1>1, <1>2, <2>1, <2>2, <2>3, <3>2 DEF Abstract!PanelRemove
    <3> QED BY <2>1, <3>3 DEF Abstract!Next
  <2>4. CASE file' \in Remains(Rest) /\ faults' = faults + 1
    <3>1. Shown' \in CutReads(Rest)
      BY <1>2, <2>1, <2>4, ShownAfter
    <3>2. Abstract!PanelRemove(panel.id)
      BY <1>1, <1>2, <2>1, <2>2, <2>4, <3>1 DEF Abstract!PanelRemove
    <3> QED BY <2>1, <3>2 DEF Abstract!Next
  <2> QED BY <1>5, <2>3, <2>4 DEF PanelWriteEnd
<1>6. CASE PanelClear
  <2>1. Shown' = <<>>
    BY <1>6 DEF PanelClear, Shown, Empty
  <2>2. Abstract!PanelClear
    BY <1>1, <1>2, <1>6, <2>1 DEF PanelClear, Abstract!PanelClear
  <2> QED BY <2>2 DEF Abstract!Next
<1> QED BY <1>3, <1>4, <1>5, <1>6 DEF Panel

LEMMA CrashServes ==
  ASSUME Shape, Exclusive, Undisturbed, Crash
  PROVE  Abstract!Next
<1>1. \A c \in Call : c = <<Msg(c), c[2]>> /\ c[2] \in Index
  BY DEF Call, Msg, Index
<1>2. \A c \in Call : pc'[c] = pc[c] \/ (pc'[c] = "failed" /\ pc[c] \notin {"ok", "failed"})
  BY DEF Crash
<1>3. Writing' = {} /\ panel'.pc # "writing"
  <2>1. \A c \in Call : pc'[c] # "writing"
    BY <1>1 DEF Crash
  <2> QED BY <2>1 DEF Crash, Writing, Idle
<1>4. \E S \in SUBSET {c \in Call : Ended[c] = "new"} :
        Ended' = [c \in Call |-> IF c \in S THEN "failed" ELSE Ended[c]]
  <2> DEFINE S == {c \in Call : Ended[c] = "new" /\ pc'[c] = "failed"}
  <2>1. \A c \in Call : Ended'[c] = IF c \in S THEN "failed" ELSE Ended[c]
    BY <1>2, <1>1 DEF Ended, Crash
  <2>2. Ended' = [c \in Call |-> IF c \in S THEN "failed" ELSE Ended[c]]
    BY <2>1 DEF Ended
  <2> QED BY <2>2
<1>5. \/ Shown' = Shown
      \/ \E c \in Call, o \in Ops : Writes(o, Shown) /\ Shown' \in CutReads(Abstract!Outcome(o, c))
      \/ PanelUse /\ \E i \in Id : Shown' \in CutReads(Export(Without(Shown, i)))
  <2>1. CASE \E c \in Writing : file.is = "cut"
    <3>1. PICK c \in Writing : file.is = "cut"
      BY <2>1
    <3>2. /\ file = Cut(Output(c)) /\ Shown = got[c] /\ Abstract!Outcome(op[c], c) = Output(c)
          /\ op[c] \in Ops /\ Writes(op[c], Shown) /\ c \in Call
      BY <3>1, WritingState DEF Writing
    <3>3. file' \in Remains(Output(c))
      BY <3>1, <3>2, AfterWrite DEF Crash
    <3>4. Shown' \in CutReads(Output(c))
      BY <1>3, <3>3, ShownAfter
    <3> QED BY <3>2, <3>4
  <2>2. CASE panel.pc = "writing"
    <3>1. file = Cut(Rest) /\ Writing = {} /\ PanelUse /\ panel.id \in Id
      BY <2>2 DEF Undisturbed, Shape, AtWork, Writing
    <3>2. Rest = Export(Without(Shown, panel.id))
      BY <2>2, <3>1, AfterWrite DEF Shown, Rest
    <3>3. file' \in Remains(Rest)
      BY <3>1, AfterWrite DEF Crash
    <3>4. Shown' \in CutReads(Rest)
      BY <1>3, <3>3, ShownAfter
    <3> QED BY <3>1, <3>2, <3>4
  <2>3. CASE file.is # "cut"
    <3>1. file' = file
      BY <2>3 DEF Crash
    <3>2. CASE file.is = "empty"
      BY <3>1, <3>2 DEF Shown
    <3>3. CASE file.is = "whole"
      <4>1. Writing = {} /\ panel.pc # "writing"
        BY <3>3, WritingState, AfterWrite DEF Undisturbed
      <4> QED BY <1>3, <3>1, <4>1 DEF Shown
    <3> QED BY <2>3, <3>2, <3>3 DEF Shape
  <2> QED BY <2>1, <2>2, <2>3 DEF Undisturbed
<1>6. Abstract!Crash
  BY <1>4, <1>5 DEF Crash, Abstract!Crash
<1> QED BY <1>6 DEF Abstract!Next

LEMMA StepServes == CInv /\ CInv' /\ [Next]_vars => [Abstract!Next]_Abstract!vars
<1> SUFFICES ASSUME CInv, CInv', [Next]_vars PROVE [Abstract!Next]_Abstract!vars
  OBVIOUS
<1> USE DEF CInv
<1>1. CASE UNCHANGED vars
  <2>1. Shown' = Shown /\ Ended' = Ended
    BY <1>1 DEF vars, Shown, Ended, Writing
  <2> QED BY <1>1, <2>1 DEF vars, Abstract!vars
<1>2. CASE raced'
  BY <1>2 DEF Abstract!Next
<1>3. CASE Next /\ ~raced'
  <2>1. ~raced /\ Undisturbed
    BY <1>3, RacedStays
  <2>2. ASSUME NEW c \in Call, Tool(c) PROVE [Abstract!Next]_Abstract!vars
    <3>1. ASSUME NEW o \in Ops, Load(c, o) PROVE UNCHANGED Abstract!vars
      BY <1>3, <2>1, <3>1, LoadStutters
    <3> QED BY <2>1, <2>2, <3>1, NoMatchTakes, TruncateStutters, WriteEndTakes, FailsServes DEF Tool
  <2>3. CASE Panel
    BY <1>3, <2>1, <2>3, PanelServes
  <2>4. CASE Crash
    BY <2>1, <2>4, CrashServes
  <2> QED BY <1>3, <2>2, <2>3, <2>4 DEF Next
<1> QED BY <1>1, <1>2, <1>3

\* gh #200: for as many calls, in as many messages, on whatever ids: what everybody sees
\* changes as if every call, removal and clearing were one step, as long as the panel
\* does not write while a tool is at work.
THEOREM CallsSerialize == Spec => Serialized
<1>1. Init => Abstract!Init
  BY InitServes
<1>2. CInv /\ CInv' /\ [Next]_vars => [Abstract!Next]_Abstract!vars
  BY StepServes
<1> QED BY <1>1, <1>2, CInvHolds, PTL DEF Spec, Serialized, Abstract!Spec

----------------------------------------------------------------------------
\* What the operators on lists return.

LEMMA LessIsWellFounded == IsWellFoundedOn({ss \in Nat \X Nat : ss[1] < ss[2]}, Nat)
BY Zenon, NatLessThanWellFounded DEF OpToRel

LEMMA Least == ASSUME NEW S \in SUBSET Nat, S # {} PROVE \E m \in S : \A k \in S : m <= k
<1> DEFINE R == {ss \in Nat \X Nat : ss[1] < ss[2]}
<1>1. IsWellFoundedOn(R, Nat)
  BY LessIsWellFounded
<1>2. PICK m \in S : \A k \in S : ~(<<k, m>> \in R)
  <2> HIDE DEF R
  <2> QED BY <1>1, WFMin
<1>3. \A k \in S : ~(k < m)
  BY <1>2
<1> QED BY <1>3

LEMMA MinOf == ASSUME NEW S \in SUBSET Nat, S # {} PROVE Min(S) \in S /\ \A k \in S : Min(S) <= k
BY Least DEF Min

LEMMA MaxOf ==
    ASSUME NEW N \in Nat, NEW S \in SUBSET (0..N), S # {}
    PROVE  Max(S) \in S
<1> DEFINE T == {N - k : k \in S}
<1>1. T \in SUBSET Nat /\ T # {}
  <2>1. \A k \in S : k \in 0..N /\ N - k \in Nat
    OBVIOUS
  <2> QED BY <2>1
<1>2. PICK m \in T : \A k \in T : m <= k
  <2> HIDE DEF T
  <2> QED BY <1>1, Least
<1>3. N - m \in S /\ \A k \in S : k <= N - m
  BY <1>2
<1> QED BY <1>3 DEF Max

LEMMA UpTo ==
    ASSUME NEW N \in Nat, NEW S, 0 \in S, \A n \in 1..N : n - 1 \in S => n \in S
    PROVE  \A n \in 0..N : n \in S
<1> SUFFICES ASSUME {n \in 0..N : n \notin S} # {} PROVE FALSE
  OBVIOUS
<1>1. {n \in 0..N : n \notin S} \in SUBSET Nat
  OBVIOUS
<1>2. PICK m \in {n \in 0..N : n \notin S} : \A k \in {n \in 0..N : n \notin S} : m <= k
  BY <1>1, Least
<1>3. m \in 1..N
  BY <1>2
<1>4. m - 1 \in S
  BY <1>2, <1>3
<1> QED BY <1>2, <1>3, <1>4

\* PickedUpTo is the function its recursive definition describes.
LEMMA PickedSteps ==
    ASSUME NEW s, NEW N, Len(s) \in Nat
    PROVE  /\ PickedUpTo(s, N)[0] = <<>>
           /\ \A n \in 1..Len(s) : PickedUpTo(s, N)[n] =
                 IF n \in N THEN Append(PickedUpTo(s, N)[n - 1], s[n]) ELSE PickedUpTo(s, N)[n - 1]
<1> DEFINE Onward(q, n) == IF n \in N THEN Append(q, s[n]) ELSE q
           E(g, k) == g = [n \in 0..k |-> IF n = 0 THEN <<>>
                                          ELSE IF n \in N THEN Append(g[n - 1], s[n])
                                          ELSE g[n - 1]]
           S == {k \in 0..Len(s) : \E g : E(g, k)}
<1>1. 0 \in S
  <2>1. E([n \in 0..0 |-> <<>>], 0)
    OBVIOUS
  <2> HIDE DEF E
  <2>2. \E g : E(g, 0)
    BY ONLY <2>1, Zenon
  <2> QED BY <2>2
<1>2. ASSUME NEW k \in 1..Len(s), k - 1 \in S PROVE k \in S
  <2>1. PICK g : E(g, k - 1)
    BY <1>2
  <2> DEFINE h == [n \in 0..k |-> IF n = k THEN Onward(g[k - 1], k) ELSE g[n]]
  <2>2. \A n \in 0..k : h[n] = IF n = 0 THEN <<>> ELSE Onward(h[n - 1], n)
    <3> SUFFICES ASSUME NEW n \in 0..k
                 PROVE  h[n] = IF n = 0 THEN <<>> ELSE Onward(h[n - 1], n)
      OBVIOUS
    <3>0. g = [j \in 0..(k - 1) |-> IF j = 0 THEN <<>> ELSE Onward(g[j - 1], j)]
      BY <2>1
    <3> HIDE DEF Onward
    <3>1. CASE n = k
      BY <3>1
    <3>2. CASE n # k
      <4>1. n \in 0..(k - 1) /\ h[n] = g[n]
        BY <3>2
      <4>2. n # 0 => h[n - 1] = g[n - 1]
        BY <4>1
      <4>3. g[n] = IF n = 0 THEN <<>> ELSE Onward(g[n - 1], n)
        BY <3>0, <4>1
      <4> QED BY <4>1, <4>2, <4>3
    <3> QED BY <3>1, <3>2
  <2>3. E(h, k)
    <3>1. h = [n \in 0..k |-> h[n]]
      OBVIOUS
    <3> HIDE DEF h
    <3> QED BY <2>2, <3>1
  <2> HIDE DEF E, h
  <2>4. \E g2 : E(g2, k)
    BY ONLY <2>3, Zenon
  <2> QED BY <2>4
<1> HIDE DEF S
<1>3. Len(s) \in S
  <2>1. \A k \in 0..Len(s) : k \in S
    BY <1>1, <1>2, UpTo, Zenon
  <2> QED BY <2>1
<1>4. \E g : E(g, Len(s))
  BY <1>3 DEF S
<1>5. E(PickedUpTo(s, N), Len(s))
  BY <1>4, Zenon DEF PickedUpTo
<1> DEFINE f == PickedUpTo(s, N)
<1>6. f = [n \in 0..Len(s) |-> IF n = 0 THEN <<>> ELSE Onward(f[n - 1], n)]
  BY <1>5
<1> HIDE DEF f, Onward
<1>7. f[0] = <<>> /\ \A n \in 1..Len(s) : f[n] = Onward(f[n - 1], n)
  BY <1>6
<1> QED BY <1>7 DEF f, Onward

\* r is made of elements of s in their order.
Rises(h) == \A p, q \in DOMAIN h : p < q => h[p] < h[q]
Within(r, s) ==
    \E h \in [DOMAIN r -> DOMAIN s] : Rises(h) /\ \A p \in DOMAIN r : r[p] = s[h[p]]

LEMMA PickedIn ==
    ASSUME NEW S, NEW s \in Seq(S), NEW N
    PROVE  /\ Picked(s, N) \in Seq(S) /\ Within(Picked(s, N), s)
           /\ \A p \in DOMAIN Picked(s, N) : \E n \in DOMAIN s \cap N : Picked(s, N)[p] = s[n]
<1> DEFINE f == PickedUpTo(s, N)
           Fit(n, h) == h \in [1..Len(f[n]) -> 1..n \cap N] /\ Rises(h) /\ \A p \in 1..Len(f[n]) : f[n][p] = s[h[p]]
           Z == {n \in 0..Len(s) : f[n] \in Seq(S) /\ \E h : Fit(n, h)}
<1>1. /\ f[0] = <<>>
      /\ \A n \in 1..Len(s) : f[n] = IF n \in N THEN Append(f[n - 1], s[n]) ELSE f[n - 1]
  BY PickedSteps
<1> HIDE DEF f
<1>2. 0 \in Z
  <2>1. f[0] \in Seq(S) /\ Len(f[0]) = 0
    BY <1>1
  <2>2. Fit(0, <<>>)
    BY <2>1 DEF Rises
  <2> HIDE DEF Fit
  <2> QED BY <2>1, <2>2
<1>3. ASSUME NEW n \in 1..Len(s), n - 1 \in Z PROVE n \in Z
  <2>1. f[n - 1] \in Seq(S) /\ \E h : Fit(n - 1, h)
    BY <1>3
  <2>2. PICK h : Fit(n - 1, h)
    BY <2>1
  <2>3. CASE n \notin N
    <3>1. f[n] = f[n - 1]
      BY <1>1, <2>3
    <3>2. Fit(n, h)
      BY <2>2, <3>1
    <3> HIDE DEF Fit
    <3> QED BY <2>1, <3>1, <3>2
  <2>4. CASE n \in N
    <3> DEFINE q == f[n - 1]  r == f[n]  i == [p \in 1..(Len(q) + 1) |-> IF p = Len(q) + 1 THEN n ELSE h[p]]
    <3>1. q \in Seq(S) /\ r = Append(q, s[n]) /\ s[n] \in S
      <4>1. r = Append(q, s[n])
        BY <1>1, <2>4
      <4> QED BY <2>1, <4>1
    <3>2. /\ r \in Seq(S) /\ Len(r) = Len(q) + 1 /\ Len(q) \in Nat
          /\ \A p \in 1..Len(q) : r[p] = q[p]
          /\ r[Len(q) + 1] = s[n]
      <4> HIDE DEF q, r
      <4> QED BY <3>1, AppendProperties
    <3>3. h \in [1..Len(q) -> 1..(n - 1) \cap N] /\ Rises(h) /\ \A p \in 1..Len(q) : q[p] = s[h[p]]
      BY <2>2
    <3> HIDE DEF q, r
    <3>4. i \in [1..Len(r) -> 1..n \cap N]
      BY <3>2, <3>3, <2>4
    <3>5. Rises(i)
      <4> SUFFICES ASSUME NEW p1 \in 1..(Len(q) + 1), NEW p2 \in 1..(Len(q) + 1), p1 < p2 PROVE i[p1] < i[p2]
        BY DEF Rises
      <4>1. p1 \in 1..Len(q) /\ i[p1] = h[p1] /\ h[p1] \in 1..(n - 1)
        BY <3>2, <3>3
      <4>2. CASE p2 = Len(q) + 1
        BY <4>1, <4>2
      <4>3. CASE p2 # Len(q) + 1
        <5>1. p1 \in DOMAIN h /\ p2 \in DOMAIN h /\ i[p2] = h[p2]
          <6>0. Len(q) \in Nat
            BY <3>2
          <6>1. p2 \in 1..Len(q)
            BY ONLY <4>3, <6>0, p2 \in 1..(Len(q) + 1)
          <6>2. i[p2] = h[p2]
            BY <3>2, <4>3, <6>1
          <6>3. DOMAIN h = 1..Len(q)
            BY <3>3
          <6> QED BY <4>1, <6>1, <6>2, <6>3
        <5> QED BY <3>3, <4>1, <5>1 DEF Rises
      <4> QED BY <4>2, <4>3
    <3>6. \A p \in 1..Len(r) : r[p] = s[i[p]]
      BY <3>2, <3>3
    <3>7. Fit(n, i)
      <4> HIDE DEF i
      <4> QED BY <3>4, <3>5, <3>6 DEF r
    <3> HIDE DEF Fit, i
    <3>8. \E h2 : Fit(n, h2)
      BY <3>7
    <3> QED BY <3>2, <3>8 DEF r
  <2> QED BY <2>3, <2>4
<1> HIDE DEF Z
<1>4. Len(s) \in Z
  <2>1. Len(s) \in Nat
    OBVIOUS
  <2>2. \A n \in 0..Len(s) : n \in Z
    BY <2>1, <1>2, <1>3, UpTo, Zenon
  <2> QED BY <2>1, <2>2
<1>5. f[Len(s)] \in Seq(S) /\ \E h : Fit(Len(s), h)
  BY <1>4 DEF Z
<1>6. Picked(s, N) = f[Len(s)]
  BY DEF Picked, f
<1>7. PICK h : Fit(Len(s), h)
  BY <1>5
<1>8. DOMAIN f[Len(s)] = 1..Len(f[Len(s)]) /\ DOMAIN s = 1..Len(s)
  BY <1>5
<1>9. Within(f[Len(s)], s) /\ \A p \in DOMAIN f[Len(s)] : \E n \in DOMAIN s \cap N : f[Len(s)][p] = s[n]
  <2>1. /\ h \in [DOMAIN f[Len(s)] -> DOMAIN s] /\ Rises(h)
        /\ \A p \in DOMAIN f[Len(s)] : f[Len(s)][p] = s[h[p]] /\ h[p] \in DOMAIN s \cap N
    BY <1>7, <1>8
  <2> QED BY <2>1 DEF Within
<1> QED BY <1>5, <1>6, <1>9

\* Putting an item into a list: what was there stays, in its order.
LEMMA Inserted ==
    ASSUME NEW s \in Seq(Item), NEW i \in 1..(Len(s) + 1), NEW e \in Item
    PROVE  /\ InsertAt(s, i, e) \in Seq(Item)
           /\ Len(InsertAt(s, i, e)) = Len(s) + 1
           /\ \A j \in 1..(i - 1) : InsertAt(s, i, e)[j] = s[j]
           /\ InsertAt(s, i, e)[i] = e
           /\ \A j \in (i + 1)..(Len(s) + 1) : InsertAt(s, i, e)[j] = s[j - 1]
<1> DEFINE front == SubSeq(s, 1, i - 1)
           back  == SubSeq(s, i, Len(s))
<1>1. /\ front \in Seq(Item) /\ Len(front) = i - 1
      /\ \A j \in 1..(i - 1) : front[j] = s[j]
  BY SubSeqProperties
<1>2. /\ back \in Seq(Item) /\ Len(back) = Len(s) - i + 1
      /\ \A j \in 1..(Len(s) - i + 1) : back[j] = s[i + j - 1]
  <2>1. i \in Int /\ Len(s) \in Int /\ \A j \in i..Len(s) : s[j] \in Item
    OBVIOUS
  <2> QED BY <2>1, SubSeqProperties
<1>3. <<e>> \in Seq(Item) /\ Len(<<e>>) = 1 /\ <<e>>[1] = e
  OBVIOUS
<1> DEFINE start == front \o <<e>>
<1> HIDE DEF front, back
<1>4. /\ start \in Seq(Item) /\ Len(start) = i
      /\ \A j \in 1..i : start[j] = IF j < i THEN s[j] ELSE e
  BY <1>1, <1>3, ConcatProperties
<1> HIDE DEF start
<1>5. InsertAt(s, i, e) = start \o back
  BY DEF InsertAt, start, front, back
<1>6. /\ start \o back \in Seq(Item) /\ Len(start \o back) = Len(start) + Len(back)
      /\ \A j \in 1..(Len(start) + Len(back)) : (start \o back)[j] =
            IF j <= Len(start) THEN start[j] ELSE back[j - Len(start)]
  BY <1>2, <1>4, ConcatProperties
<1>7. ASSUME NEW j \in 1..(Len(s) + 1), j > i
      PROVE  back[j - i] = s[j - 1]
  <2>1. j - i \in 1..(Len(s) - i + 1) /\ i + (j - i) - 1 = j - 1
    BY <1>7
  <2> QED BY <2>1, <1>2
<1> DEFINE all == start \o back
<1>8. /\ all \in Seq(Item) /\ Len(all) = Len(s) + 1
      /\ \A j \in 1..(Len(s) + 1) : all[j] = IF j <= i THEN start[j] ELSE back[j - i]
  <2>1. i \in Int /\ Len(s) \in Int /\ Len(start) + Len(back) = Len(s) + 1
    BY <1>2, <1>4
  <2> QED BY <1>4, <1>6, <2>1
<1> HIDE DEF all
<1>9. /\ \A j \in 1..(i - 1) : all[j] = s[j]
      /\ all[i] = e
      /\ \A j \in (i + 1)..(Len(s) + 1) : all[j] = s[j - 1]
  <2>1. \A j \in 1..(i - 1) : j \in 1..(Len(s) + 1) /\ j \in 1..i /\ j <= i /\ j < i
    OBVIOUS
  <2>2. \A j \in (i + 1)..(Len(s) + 1) : j \in 1..(Len(s) + 1) /\ ~(j <= i) /\ j > i
    OBVIOUS
  <2>3. i \in 1..i /\ i <= i /\ ~(i < i)
    OBVIOUS
  <2> QED BY ONLY <1>4, <1>7, <1>8, <2>1, <2>2, <2>3, i \in 1..(Len(s) + 1)
<1> QED BY <1>5, <1>8, <1>9 DEF all

\* A first part of a list.
LEMMA FirstPart ==
    ASSUME NEW s \in Seq(Item), NEW n \in 0..Len(s)
    PROVE  SubSeq(s, 1, n) \in Seq(Item) /\ Within(SubSeq(s, 1, n), s)
<1>1. /\ SubSeq(s, 1, n) \in Seq(Item) /\ Len(SubSeq(s, 1, n)) = n
      /\ \A j \in 1..n : SubSeq(s, 1, n)[j] = s[j]
  BY SubSeqProperties
<1> DEFINE h == [j \in 1..n |-> j]
<1>2. h \in [1..n -> DOMAIN s] /\ Rises(h)
  BY DEF Rises
<1>3. DOMAIN SubSeq(s, 1, n) = 1..n
  BY <1>1
<1> QED BY <1>1, <1>2, <1>3 DEF Within

LEMMA WithinItself == ASSUME NEW s PROVE Within(s, s)
<1> DEFINE h == [j \in DOMAIN s |-> j]
<1>1. h \in [DOMAIN s -> DOMAIN s] /\ Rises(h) /\ \A p \in DOMAIN s : s[p] = s[h[p]]
  BY DEF Rises
<1> QED BY <1>1 DEF Within

----------------------------------------------------------------------------
\* What a list of the canvas is, and what stays true of what is taken from it.

\* Everything in it was put there by calls in P, or is the header item.
OfCalls(l, P) ==
    /\ l \in Seq(Item)
    /\ \A n \in DOMAIN l : /\ l[n].by \in P \cup {NoCall}
                           /\ l[n].id \in Call => l[n].id \in P
    /\ Fresh \in IdsIn(l) => Header \notin IdsIn(l)

Distinct(l) == \A p, q \in DOMAIN l : l[p].id = l[q].id => p = q

\* The items of a message not in L are in the order of its calls.
Ordered(l, L) ==
    \A p, q \in DOMAIN l :
        (/\ p < q /\ l[p].by \in Call /\ l[q].by \in Call
         /\ Msg(l[p].by) = Msg(l[q].by) /\ Msg(l[p].by) \notin L)
        => l[p].by[2] < l[q].by[2]

\* The table knows their ids, and knows them as theirs alone.
Listed(l, b, L) ==
    /\ Size # 1 => \A n \in DOMAIN l :
         l[n].by \in Call /\ Msg(l[n].by) \notin L => b.placed[Msg(l[n].by)][l[n].by[2]] = l[n].id
    /\ \A n \in DOMAIN l, m \in Message \ L :
         l[n].id \in PlacedBy(b, m) => l[n].by \in Call /\ Msg(l[n].by) = m

Table(b) ==
    /\ b = [order |-> b.order, placed |-> b.placed]
    /\ b.order \in Seq(Message)
    /\ b.placed \in [Message -> [Index -> Named \cup Call \cup {NoCall}]]

\* A message not in L has placed each id once.
Once(b, L) ==
    \A m \in Message \ L, j, k \in Index :
        b.placed[m][j] = b.placed[m][k] /\ b.placed[m][j] # NoCall => j = k

LEMMA WithinKeeps ==
    ASSUME NEW l \in Seq(Item), NEW r \in Seq(Item), Within(r, l), NEW P, NEW L, NEW b
    PROVE  /\ OfCalls(l, P) => OfCalls(r, P)
           /\ Distinct(l) => Distinct(r)
           /\ Ordered(l, L) => Ordered(r, L)
           /\ Listed(l, b, L) => Listed(r, b, L)
           /\ IdsIn(r) \subseteq IdsIn(l)
<1>1. PICK h \in [DOMAIN r -> DOMAIN l] : Rises(h) /\ \A p \in DOMAIN r : r[p] = l[h[p]]
  BY DEF Within
<1>2. \A p, q \in DOMAIN r : p < q => h[p] < h[q]
  BY <1>1 DEF Rises
<1>3. DOMAIN r = 1..Len(r) /\ DOMAIN l = 1..Len(l) /\ Len(r) \in Nat /\ Len(l) \in Nat
  OBVIOUS
<1>4. \A p, q \in DOMAIN r : h[p] = h[q] => p = q
  <2> SUFFICES ASSUME NEW p \in DOMAIN r, NEW q \in DOMAIN r, h[p] = h[q], p # q PROVE FALSE
    OBVIOUS
  <2>1. h[p] \in Int /\ h[q] \in Int
    BY <1>3
  <2>2. p < q \/ q < p
    BY <1>3
  <2> QED BY <1>2, <2>1, <2>2
<1>5. IdsIn(r) \subseteq IdsIn(l)
  BY <1>1 DEF IdsIn
<1>6. OfCalls(l, P) => OfCalls(r, P)
  BY <1>1, <1>5 DEF OfCalls
<1>7. Distinct(l) => Distinct(r)
  BY <1>1, <1>4 DEF Distinct
<1>8. Ordered(l, L) => Ordered(r, L)
  BY <1>1, <1>2 DEF Ordered
<1>9. ASSUME Listed(l, b, L) PROVE Listed(r, b, L)
  <2>1. \A p \in DOMAIN r : h[p] \in DOMAIN l /\ r[p] = l[h[p]]
    BY <1>1
  <2>2. ASSUME Size # 1, NEW p \in DOMAIN r, r[p].by \in Call, Msg(r[p].by) \notin L
        PROVE  b.placed[Msg(r[p].by)][r[p].by[2]] = r[p].id
    <3>1. h[p] \in DOMAIN l /\ r[p] = l[h[p]]
      BY <2>1
    <3> QED BY ONLY <1>9, <2>2, <3>1 DEF Listed
  <2>3. ASSUME NEW p \in DOMAIN r, NEW m \in Message \ L, r[p].id \in PlacedBy(b, m)
        PROVE  r[p].by \in Call /\ Msg(r[p].by) = m
    <3>1. h[p] \in DOMAIN l /\ r[p] = l[h[p]]
      BY <2>1
    <3> QED BY ONLY <1>9, <2>3, <3>1 DEF Listed
  <2> QED BY <2>2, <2>3 DEF Listed
<1> QED BY <1>5, <1>6, <1>7, <1>8, <1>9

\* Writing a list: only the header item gets another id.
LEMMA ExportOf ==
    ASSUME NEW l \in Seq(Item)
    PROVE  /\ Export(l) \in Seq(Item) /\ DOMAIN Export(l) = DOMAIN l
           /\ \A n \in DOMAIN l : /\ Export(l)[n].by = l[n].by
                                  /\ Export(l)[n].id = IF l[n].id = Fresh THEN Header ELSE l[n].id
<1>1. DOMAIN l = 1..Len(l) /\ Len(l) \in Nat /\ \A n \in DOMAIN l : l[n] \in Item
  OBVIOUS
<1>2. \A it \in Item : /\ [it EXCEPT !.id = Header] \in Item
                       /\ [it EXCEPT !.id = Header].by = it.by
                       /\ [it EXCEPT !.id = Header].id = Header
  BY DEF Item, Id
<1> DEFINE e == Export(l)
<1>3. /\ DOMAIN e = DOMAIN l
      /\ \A n \in DOMAIN l : e[n] = IF l[n].id = Fresh THEN [l[n] EXCEPT !.id = Header] ELSE l[n]
      /\ e = [n \in 1..Len(l) |-> e[n]]
  BY <1>1 DEF Export
<1> HIDE DEF e
<1>4. \A n \in DOMAIN l : e[n] \in Item
  BY <1>1, <1>2, <1>3
<1>5. e \in Seq(Item)
  BY <1>1, <1>3, <1>4
<1>6. \A n \in DOMAIN l : /\ e[n].by = l[n].by
                          /\ e[n].id = IF l[n].id = Fresh THEN Header ELSE l[n].id
  <2> SUFFICES ASSUME NEW n \in DOMAIN l
               PROVE  /\ e[n].by = l[n].by
                      /\ e[n].id = IF l[n].id = Fresh THEN Header ELSE l[n].id
    OBVIOUS
  <2>1. CASE l[n].id = Fresh
    <3>1. e[n] = [l[n] EXCEPT !.id = Header] /\ l[n] \in Item
      BY <1>1, <1>3, <2>1
    <3> QED BY ONLY <1>2, <2>1, <3>1
  <2>2. CASE l[n].id # Fresh
    BY <1>3, <2>2
  <2> QED BY <2>1, <2>2
<1> QED BY <1>3, <1>5, <1>6 DEF e

LEMMA ExportKeeps ==
    ASSUME NEW l \in Seq(Item), NEW P, OfCalls(l, P)
    PROVE  /\ OfCalls(Export(l), P) /\ Fresh \notin IdsIn(Export(l))
           /\ Distinct(l) => Distinct(Export(l))
           /\ \A L : Ordered(l, L) => Ordered(Export(l), L)
           /\ \A b, L : Table(b) /\ Listed(l, b, L) => Listed(Export(l), b, L)
<1> DEFINE e == Export(l)
<1>1. /\ e \in Seq(Item) /\ DOMAIN e = DOMAIN l
      /\ \A n \in DOMAIN l : /\ e[n].by = l[n].by
                             /\ e[n].id = IF l[n].id = Fresh THEN Header ELSE l[n].id
  BY ExportOf
<1> HIDE DEF e
<1>2. Fresh # Header /\ Header \notin Call /\ Fresh \notin Call /\ Header # NoCall /\ Fresh # NoCall
      /\ Header \notin Named /\ Fresh \notin Named
  BY CanvasAssumption DEF CanvasAssumption
<1>3. Fresh \notin IdsIn(e)
  BY <1>1, <1>2 DEF IdsIn
<1>4. OfCalls(e, P)
  BY <1>1, <1>2, <1>3 DEF OfCalls
<1>5. Distinct(l) => Distinct(e)
  <2> SUFFICES ASSUME Distinct(l), NEW p \in DOMAIN l, NEW q \in DOMAIN l, e[p].id = e[q].id PROVE p = q
    BY <1>1 DEF Distinct
  <2>1. ~(Fresh \in IdsIn(l) /\ Header \in IdsIn(l))
    BY DEF OfCalls
  <2>2. l[p].id \in IdsIn(l) /\ l[q].id \in IdsIn(l)
    BY DEF IdsIn
  <2>3. l[p].id = l[q].id
    BY <1>1, <2>1, <2>2
  <2> QED BY <2>3 DEF Distinct
<1>6. ASSUME NEW L, Ordered(l, L) PROVE Ordered(e, L)
  BY <1>1, <1>6 DEF Ordered
<1>7. ASSUME NEW b, NEW L, Table(b), Listed(l, b, L) PROVE Listed(e, b, L)
  <2>1. \A m \in Message, k \in Index : b.placed[m][k] \notin {Fresh, Header}
    BY <1>2, <1>7 DEF Table
  <2>2. \A m \in Message : Fresh \notin PlacedBy(b, m) /\ Header \notin PlacedBy(b, m)
    BY <2>1 DEF PlacedBy
  <2>3. \A c \in Call : Msg(c) \in Message /\ c[2] \in Index
    BY DEF Call, Msg, Index
  <2>4. ASSUME Size # 1, NEW n \in DOMAIN e, e[n].by \in Call, Msg(e[n].by) \notin L
        PROVE  b.placed[Msg(e[n].by)][e[n].by[2]] = e[n].id
    <3>1. b.placed[Msg(l[n].by)][l[n].by[2]] = l[n].id /\ l[n].by = e[n].by
      BY <1>1, <1>7, <2>4 DEF Listed
    <3>2. l[n].id # Fresh
      BY <2>1, <2>3, <2>4, <3>1
    <3> QED BY <1>1, <3>1, <3>2
  <2>5. ASSUME NEW n \in DOMAIN e, NEW m \in Message \ L, e[n].id \in PlacedBy(b, m)
        PROVE  e[n].by \in Call /\ Msg(e[n].by) = m
    <3>1. l[n].id \in PlacedBy(b, m)
      BY <1>1, <2>2, <2>5
    <3> QED BY <1>1, <1>7, <2>5, <3>1 DEF Listed
  <2> QED BY <2>4, <2>5 DEF Listed
<1> QED BY <1>3, <1>4, <1>5, <1>6, <1>7 DEF e

\* Reading a list back: a part of it, or the header alone.
LEMMA RereadOf ==
    ASSUME NEW l \in Seq(Item)
    PROVE  /\ Reread(l) \in Seq(Item)
           /\ Reread(l) = <<HeaderItem>> \/ Within(Reread(l), l)
<1>1. HeaderItem \in Item
  BY DEF HeaderItem, Item, Id
<1> QED BY <1>1, PickedIn DEF Reread

LEMMA HeaderAlone ==
    ASSUME NEW P, NEW L, NEW b, Table(b)
    PROVE  /\ OfCalls(<<HeaderItem>>, P) /\ Distinct(<<HeaderItem>>)
           /\ Ordered(<<HeaderItem>>, L) /\ Listed(<<HeaderItem>>, b, L)
<1> DEFINE l == <<HeaderItem>>
<1>1. /\ l \in Seq(Item) /\ DOMAIN l = {1}
      /\ l[1].id = Fresh /\ l[1].by = NoCall
  BY DEF HeaderItem, Item, Id
<1> HIDE DEF l
<1>2. /\ Fresh # Header /\ Fresh \notin Call /\ NoCall \notin Call /\ Fresh \notin Named /\ Fresh # NoCall
  BY CanvasAssumption DEF CanvasAssumption
<1>3. OfCalls(l, P)
  BY <1>1, <1>2 DEF OfCalls, IdsIn
<1>4. Distinct(l) /\ Ordered(l, L)
  BY <1>1, <1>2 DEF Distinct, Ordered
<1>5. \A m \in Message : Fresh \notin PlacedBy(b, m)
  BY <1>2 DEF Table, PlacedBy
<1>6. Listed(l, b, L)
  BY <1>1, <1>2, <1>5 DEF Listed
<1> QED BY <1>3, <1>4, <1>6 DEF l

LEMMA RereadKeeps ==
    ASSUME NEW l \in Seq(Item), NEW P, NEW L, NEW b, Table(b)
    PROVE  /\ OfCalls(l, P) => OfCalls(Reread(l), P)
           /\ Distinct(l) => Distinct(Reread(l))
           /\ Ordered(l, L) => Ordered(Reread(l), L)
           /\ Listed(l, b, L) => Listed(Reread(l), b, L)
<1>1. CASE Reread(l) = <<HeaderItem>>
  BY <1>1, HeaderAlone
<1>2. CASE Within(Reread(l), l)
  BY <1>2, RereadOf, WithinKeeps
<1> QED BY <1>1, <1>2, RereadOf

\* What the tools make of a list: it gets an item, one of its items is replaced, it is
\* cut down, or it is put in an order that was asked for.
Grown(o, c, l, b) ==
    /\ o.kind \in {"add", "update"} /\ Places(o, l)
    /\ \E w \in Seq(Item) :
         /\ Within(w, l) /\ \A n \in DOMAIN w : w[n].id # o.id
         /\ Result(o, c, l, b) = Place(w, NewItem(o, c), b, c)

Changed(o, c, l, b) ==
    /\ o.kind = "update" /\ ~Places(o, l)
    /\ \E n \in Matches(o, l) : Result(o, c, l, b) = [l EXCEPT ![n] = NewItem(o, c)]

Reduced(o, c, l, b) ==
    /\ o.kind = "remove"
    /\ Result(o, c, l, b) \in Seq(Item) /\ Within(Result(o, c, l, b), l)

Arranged(o, c, l, b) ==
    /\ o.kind = "reorder"
    /\ \E known \in Seq(Named \cup {Header}) : \E k \in [DOMAIN known -> DOMAIN l] :
         /\ Within(known, o.ids)
         /\ Result(o, c, l, b) = [n \in DOMAIN known |-> l[k[n]]]
         /\ \A n \in DOMAIN known : l[k[n]].id = known[n]

LEMMA Results ==
    ASSUME NEW o \in Op, NEW c, NEW l \in Seq(Item), NEW b
    PROVE  Grown(o, c, l, b) \/ Changed(o, c, l, b) \/ Reduced(o, c, l, b) \/ Arranged(o, c, l, b)
<1>1. CASE o.kind = "add"
  <2> DEFINE w == Without(l, o.id)
  <2>1. w \in Seq(Item) /\ Within(w, l) /\ \A n \in DOMAIN w : w[n].id # o.id
    BY PickedIn DEF Without
  <2>2. Result(o, c, l, b) = Place(w, NewItem(o, c), b, c)
    BY <1>1 DEF Result
  <2> HIDE DEF w
  <2> QED BY <1>1, <2>1, <2>2 DEF Grown, Places
<1>2. CASE o.kind = "update" /\ Matches(o, l) = {}
  <2>1. \A n \in DOMAIN l : l[n].id # o.id
    BY <1>2 DEF Matches
  <2>2. Result(o, c, l, b) = Place(l, NewItem(o, c), b, c)
    BY <1>2 DEF Result, Places
  <2> QED BY <1>2, <2>1, <2>2, WithinItself DEF Grown, Places
<1>3. CASE o.kind = "update" /\ Matches(o, l) # {}
  <2>1. Matches(o, l) \in SUBSET Nat
    BY DEF Matches
  <2>2. Min(Matches(o, l)) \in Matches(o, l)
    BY <1>3, <2>1, MinOf
  <2>3. ~Places(o, l) /\ Result(o, c, l, b) = [l EXCEPT ![Min(Matches(o, l))] = NewItem(o, c)]
    BY <1>3 DEF Result, Places
  <2> QED BY <1>3, <2>2, <2>3 DEF Changed
<1>4. CASE o.kind = "remove"
  <2>1. Result(o, c, l, b) = Without(l, o.id)
    BY <1>4 DEF Result
  <2> QED BY <1>4, <2>1, PickedIn DEF Without, Reduced
<1>5. CASE o.kind = "reorder"
  <2> DEFINE N == {n \in DOMAIN o.ids : o.ids[n] \in IdsIn(l)}
             known == Picked(o.ids, N)
             At(i) == {k \in DOMAIN l : l[k].id = i}
             k == [n \in DOMAIN known |-> Max(At(known[n]))]
  <2>1. o.ids \in Seq(Named \cup {Header})
    BY <1>5 DEF Op
  <2>2. /\ known \in Seq(Named \cup {Header}) /\ Within(known, o.ids)
        /\ \A p \in DOMAIN known : \E n \in DOMAIN o.ids \cap N : known[p] = o.ids[n]
    <3> HIDE DEF N
    <3> QED BY <2>1, PickedIn
  <2>3. \A n \in DOMAIN known : known[n] \in IdsIn(l)
    BY <2>2
  <2>4. Result(o, c, l, b) = [n \in DOMAIN known |-> l[Max({j \in DOMAIN l : l[j].id = known[n]})]]
    BY <1>5 DEF Result, Reordered
  <2> HIDE DEF known
  <2>5. ASSUME NEW n \in DOMAIN known PROVE k[n] \in DOMAIN l /\ l[k[n]].id = known[n]
    <3>1. At(known[n]) # {}
      BY <2>3 DEF IdsIn
    <3>2. At(known[n]) \in SUBSET (0..Len(l)) /\ Len(l) \in Nat
      OBVIOUS
    <3> HIDE DEF At
    <3>3. Max(At(known[n])) \in At(known[n])
      BY <3>1, <3>2, MaxOf
    <3> QED BY <3>3 DEF At
  <2>6. k \in [DOMAIN known -> DOMAIN l]
    BY <2>5
  <2>7. Result(o, c, l, b) = [n \in DOMAIN known |-> l[k[n]]]
    BY <2>4
  <2> HIDE DEF k
  <2> QED BY <1>5, <2>2, <2>5, <2>6, <2>7 DEF Arranged
<1> QED BY <1>1, <1>2, <1>3, <1>4, <1>5 DEF Op

----------------------------------------------------------------------------
\* What one call does to a list and to the table of batches.

LEMMA CallParts ==
    /\ \A c \in Call : Msg(c) \in Message /\ c[2] \in Index /\ c[2] \in Int /\ c = <<Msg(c), c[2]>>
    /\ \A c, d \in Call : Msg(c) = Msg(d) /\ c[2] = d[2] => c = d
    /\ Size = 1 => \A c, d \in Call : Msg(c) = Msg(d) => c = d
<1>1. Size \in Nat
  BY CanvasAssumption DEF CanvasAssumption
<1>2. \A c \in Call : Msg(c) \in Message /\ c[2] \in Index /\ c[2] \in Int /\ c = <<Msg(c), c[2]>>
  BY <1>1 DEF Call, Msg, Index
<1>3. Size = 1 => \A k \in Index : k = 1
  BY DEF Index
<1> QED BY <1>2, <1>3

\* The item of a call has an id that no other list item from before has.
LEMMA New ==
    ASSUME NEW o \in Op, o.kind \in {"add", "update"}, NEW c \in Call
    PROVE  /\ NewItem(o, c) \in Item /\ NewItem(o, c).by = c /\ NewItem(o, c).id = NewId(o, c)
           /\ NewId(o, c) \in Named \cup {c} /\ NewId(o, c) \notin {Fresh, Header, NoCall}
           /\ (NewId(o, c) = c /\ o.id = Generated) \/ (NewId(o, c) = o.id /\ o.id \in Named)
           /\ o.kind = "update" => NewId(o, c) = o.id
<1>1. o.kept \in BOOLEAN /\ o.id \in Named \cup {Generated} /\ (o.kind = "update" => o.id \in Named)
  BY DEF Op
<1>2. /\ {Generated, Fresh, Header, NoCall} \cap Named = {}
      /\ ({Generated, Fresh, Header, NoCall} \cup Named) \cap Call = {}
  BY CanvasAssumption DEF CanvasAssumption
<1>3. (NewId(o, c) = c /\ o.id = Generated) \/ (NewId(o, c) = o.id /\ o.id \in Named)
  BY <1>1, <1>2 DEF NewId
<1>4. /\ NewId(o, c) \in Named \cup {c} /\ NewId(o, c) \notin {Fresh, Header, NoCall}
      /\ o.kind = "update" => NewId(o, c) = o.id
  BY <1>1, <1>2, <1>3
<1>5. NewItem(o, c) \in Item
  BY <1>1, <1>4 DEF NewItem, Item, Id
<1> QED BY <1>3, <1>4, <1>5 DEF NewItem

\* Where a list grows.
LEMMA SpotIn ==
    ASSUME NEW w \in Seq(Item), NEW b, NEW c
    PROVE  /\ Spot(w, b, c) \in 1..(Len(w) + 1)
           /\ Size # 1 => \A n \in DOMAIN w : w[n].id \in Later(b, c) => Spot(w, b, c) <= n
           /\ Size # 1 /\ Spot(w, b, c) <= Len(w) => w[Spot(w, b, c)].id \in Later(b, c)
<1> DEFINE hits == {n \in DOMAIN w : w[n].id \in Later(b, c)}
<1>1. hits \in SUBSET Nat /\ hits \in SUBSET (1..Len(w)) /\ Len(w) \in Nat /\ DOMAIN w = 1..Len(w)
  OBVIOUS
<1>2. Spot(w, b, c) = IF Size = 1 \/ hits = {} THEN Len(w) + 1 ELSE Min(hits)
  BY DEF Spot
<1>3. hits # {} => Min(hits) \in hits /\ \A n \in hits : Min(hits) <= n
  <2> HIDE DEF hits
  <2> QED BY <1>1, MinOf
<1>4. \A n \in DOMAIN w : w[n].id \in Later(b, c) <=> n \in hits
  OBVIOUS
<1> HIDE DEF hits
<1>5. CASE Size = 1 \/ hits = {}
  <2>1. Spot(w, b, c) = Len(w) + 1
    BY <1>2, <1>5
  <2> QED BY <1>1, <1>4, <1>5, <2>1
<1>6. CASE Size # 1 /\ hits # {}
  <2>1. Spot(w, b, c) = Min(hits)
    BY <1>2, <1>6
  <2>2. Spot(w, b, c) \in hits /\ \A n \in hits : Spot(w, b, c) <= n
    BY <1>3, <1>6, <2>1
  <2>3. Spot(w, b, c) \in 1..Len(w)
    BY <1>1, <2>2
  <2> QED BY <1>1, <1>4, <2>2, <2>3
<1> QED BY <1>5, <1>6

\* The table once the call has placed the item i.
LEMMA Remembers ==
    ASSUME NEW b, Table(b), NEW c \in Call, NEW i \in Named \cup Call
    PROVE  /\ Table(Remember(b, c, i))
           /\ Size # 1 => Remember(b, c, i).placed[Msg(c)][c[2]] = i
           /\ \A m \in Message : m \notin (IF Size # 1 THEN Evicted(b, c) ELSE {}) =>
                \A k \in Index : (m # Msg(c) \/ k # c[2] \/ Size = 1) =>
                                   Remember(b, c, i).placed[m][k] = b.placed[m][k]
<1>1. CASE Size = 1
  BY <1>1 DEF Remember
<1>2. CASE Size # 1
  <2> DEFINE r == Remember(b, c, i)
             grown == IF Msg(c) \in ToSet(b.order) THEN b.order ELSE Append(b.order, Msg(c))
             order == IF Evicted(b, c) = {} THEN grown ELSE Tail(grown)
             kept == [m \in Message |-> IF m \in Evicted(b, c) THEN NoBatches.placed[m] ELSE b.placed[m]]
             Row == [Index -> Named \cup Call \cup {NoCall}]
  <2>1. r = [order |-> order, placed |-> [kept EXCEPT ![Msg(c)][c[2]] = i]]
    BY <1>2 DEF Remember
  <2>2. Msg(c) \in Message /\ c[2] \in Index
    BY CallParts
  <2>3. b.order \in Seq(Message) /\ b.placed \in [Message -> Row]
    BY DEF Table
  <2>4. \A m \in Message : NoBatches.placed[m] \in Row
    BY DEF NoBatches
  <2> HIDE DEF Row
  <2>5. kept \in [Message -> Row]
    BY <2>3, <2>4
  <2>6. order \in Seq(Message)
    <3>1. grown \in Seq(Message) /\ grown # <<>>
      <4>1. CASE Msg(c) \in ToSet(b.order)
        <5>1. b.order # <<>>
          BY <4>1 DEF ToSet
        <5> QED BY <2>3, <4>1, <5>1
      <4>2. CASE Msg(c) \notin ToSet(b.order)
        <5>1. Append(b.order, Msg(c)) \in Seq(Message) /\ Append(b.order, Msg(c)) # <<>>
          BY ONLY <2>2, <2>3
        <5> QED BY <4>2, <5>1
      <4> QED BY <4>1, <4>2
    <3> HIDE DEF grown
    <3>2. Tail(grown) \in Seq(Message)
      BY <3>1
    <3> QED BY <3>1, <3>2
  <2> HIDE DEF kept, order
  <2>7. /\ r.order = order /\ r = [order |-> r.order, placed |-> r.placed]
        /\ r.placed = [kept EXCEPT ![Msg(c)] = [kept[Msg(c)] EXCEPT ![c[2]] = i]]
    BY <2>1
  <2>8. kept[Msg(c)] \in Row /\ [kept[Msg(c)] EXCEPT ![c[2]] = i] \in Row
    <3>1. kept[Msg(c)] \in Row
      BY <2>2, <2>5
    <3> QED BY <3>1, <2>2 DEF Row
  <2>9. r.placed \in [Message -> Row]
    BY <2>5, <2>7, <2>8
  <2>10. Table(r)
    BY <2>6, <2>7, <2>9 DEF Table, Row
  <2>11. r.placed[Msg(c)][c[2]] = i
    <3>1. r.placed[Msg(c)] = [kept[Msg(c)] EXCEPT ![c[2]] = i]
      BY <2>2, <2>5, <2>7
    <3> QED BY <2>2, <2>8, <3>1 DEF Row
  <2>12. ASSUME NEW m \in Message, m \notin Evicted(b, c), NEW k \in Index, m # Msg(c) \/ k # c[2]
         PROVE  r.placed[m][k] = b.placed[m][k]
    <3>1. kept[m] = b.placed[m]
      BY <2>12 DEF kept
    <3>2. CASE m # Msg(c)
      BY <2>5, <2>7, <3>1, <3>2
    <3>3. CASE m = Msg(c)
      <4>1. r.placed[m] = [kept[m] EXCEPT ![c[2]] = i]
        BY <2>2, <2>5, <2>7, <3>3
      <4> QED BY <2>8, <2>12, <3>1, <3>3, <4>1 DEF Row
    <3> QED BY <3>2, <3>3
  <2> HIDE DEF r
  <2> QED BY <1>2, <2>10, <2>11, <2>12 DEF r
<1> QED BY <1>1, <1>2

\* A list that gets an item: where each item of the new list comes from.
LEMMA PlaceOf ==
    ASSUME NEW w \in Seq(Item), NEW e \in Item, NEW b, NEW c
    PROVE  LET i == Spot(w, b, c)
               r == Place(w, e, b, c)
           IN /\ r \in Seq(Item) /\ Len(r) = Len(w) + 1 /\ i \in 1..(Len(w) + 1) /\ r[i] = e
              /\ \A n \in DOMAIN r : n = i \/ (n < i /\ n \in DOMAIN w /\ r[n] = w[n])
                                     \/ (n > i /\ n - 1 \in DOMAIN w /\ r[n] = w[n - 1])
<1> DEFINE i == Spot(w, b, c)
           r == InsertAt(w, i, e)
<1>1. i \in 1..(Len(w) + 1)
  BY SpotIn
<1> HIDE DEF i
<1>2. /\ r \in Seq(Item) /\ Len(r) = Len(w) + 1 /\ r[i] = e
      /\ \A j \in 1..(i - 1) : r[j] = w[j]
      /\ \A j \in (i + 1)..(Len(w) + 1) : r[j] = w[j - 1]
  BY <1>1, Inserted
<1> HIDE DEF r
<1>3. DOMAIN r = 1..(Len(w) + 1) /\ DOMAIN w = 1..Len(w) /\ Len(w) \in Nat
  BY <1>2
<1>4. ASSUME NEW n \in DOMAIN r
      PROVE  n = i \/ (n < i /\ n \in DOMAIN w /\ r[n] = w[n])
             \/ (n > i /\ n - 1 \in DOMAIN w /\ r[n] = w[n - 1])
  <2>1. n < i => n \in 1..(i - 1) /\ n \in DOMAIN w
    BY <1>1, <1>3
  <2>2. n > i => n \in (i + 1)..(Len(w) + 1) /\ n - 1 \in DOMAIN w
    BY <1>1, <1>3
  <2>3. n < i \/ n = i \/ n > i
    BY <1>1, <1>3
  <2> QED BY <1>2, <2>1, <2>2, <2>3
<1>5. Place(w, e, b, c) = r
  BY DEF Place, i, r
<1> QED BY <1>1, <1>2, <1>4, <1>5 DEF i

\* The same, each old item with its old place.
Placing(r, w, e, i) ==
    /\ r \in Seq(Item) /\ i \in DOMAIN r /\ r[i] = e
    /\ \E from \in [DOMAIN r \ {i} -> DOMAIN w] :
         /\ \A n \in DOMAIN r \ {i} : r[n] = w[from[n]] /\ (n < i <=> from[n] < i)
         /\ \A m, n \in DOMAIN r \ {i} : m < n => from[m] < from[n]

LEMMA PlaceFrom ==
    ASSUME NEW w \in Seq(Item), NEW e \in Item, NEW b, NEW c
    PROVE  Placing(Place(w, e, b, c), w, e, Spot(w, b, c))
<1> DEFINE i == Spot(w, b, c)
           r == Place(w, e, b, c)
           from == [n \in DOMAIN r \ {i} |-> IF n < i THEN n ELSE n - 1]
<1>1. /\ r \in Seq(Item) /\ Len(r) = Len(w) + 1 /\ i \in 1..(Len(w) + 1) /\ r[i] = e
      /\ \A n \in DOMAIN r : n = i \/ (n < i /\ n \in DOMAIN w /\ r[n] = w[n])
                             \/ (n > i /\ n - 1 \in DOMAIN w /\ r[n] = w[n - 1])
  BY PlaceOf
<1> HIDE DEF i, r
<1>2. DOMAIN r = 1..(Len(w) + 1) /\ DOMAIN w = 1..Len(w) /\ Len(w) \in Nat
  BY <1>1
<1>3. i \in DOMAIN r
  BY <1>1, <1>2
<1>4. ASSUME NEW n \in DOMAIN r \ {i}
      PROVE  from[n] \in DOMAIN w /\ r[n] = w[from[n]] /\ (n < i <=> from[n] < i)
  <2>1. n \in Int /\ i \in Int
    BY <1>1, <1>2
  <2>2. CASE n < i
    BY <1>1, <2>1, <2>2
  <2>3. CASE n > i
    <3>1. from[n] = n - 1 /\ n - 1 \in DOMAIN w /\ r[n] = w[n - 1]
      BY <1>1, <2>1, <2>3
    <3>2. ~(n < i) /\ ~(n - 1 < i)
      BY <2>1, <2>3
    <3> QED BY <3>1, <3>2
  <2> QED BY <2>1, <2>2, <2>3
<1>5. ASSUME NEW m \in DOMAIN r \ {i}, NEW n \in DOMAIN r \ {i}, m < n
      PROVE  from[m] < from[n]
  <2>1. n \in Int /\ m \in Int /\ i \in Int /\ n # i /\ m # i
    BY <1>1, <1>2
  <2>2. from[m] = (IF m < i THEN m ELSE m - 1) /\ from[n] = IF n < i THEN n ELSE n - 1
    OBVIOUS
  <2> HIDE DEF from
  <2> QED BY ONLY <1>5, <2>1, <2>2
<1>6. from \in [DOMAIN r \ {i} -> DOMAIN w]
  <2>1. from = [n \in DOMAIN r \ {i} |-> from[n]]
    OBVIOUS
  <2> HIDE DEF from
  <2> QED BY <1>4, <2>1
<1> HIDE DEF from
<1>7. /\ \A n \in DOMAIN r \ {i} : r[n] = w[from[n]] /\ (n < i <=> from[n] < i)
      /\ \A m, n \in DOMAIN r \ {i} : m < n => from[m] < from[n]
  BY <1>4, <1>5
<1>8. Placing(r, w, e, i)
  BY <1>1, <1>3, <1>6, <1>7 DEF Placing
<1> QED BY <1>8 DEF i, r


\* A list that gets an item is one of its calls', and ids stay apart.
LEMMA GrownFits ==
    ASSUME NEW o \in Op, NEW c \in Call, NEW l \in Seq(Item), NEW b, Grown(o, c, l, b),
           NEW P \in SUBSET Call, c \notin P, OfCalls(l, P)
    PROVE  /\ OfCalls(Result(o, c, l, b), P \cup {c})
           /\ Distinct(l) => Distinct(Result(o, c, l, b))
<1> DEFINE e == NewItem(o, c)
           res == Result(o, c, l, b)
<1>1. o.kind \in {"add", "update"}
  BY DEF Grown
<1>2. PICK w \in Seq(Item) : /\ Within(w, l) /\ \A n \in DOMAIN w : w[n].id # o.id
                             /\ res = Place(w, e, b, c)
  BY DEF Grown
<1>3. /\ e \in Item /\ e.by = c /\ e.id = NewId(o, c)
      /\ e.id \in Named \cup {c} /\ e.id \notin {Fresh, Header, NoCall}
      /\ (e.id = c /\ o.id = Generated) \/ (e.id = o.id /\ o.id \in Named)
  BY <1>1, New
<1>4. Named \cap Call = {}
  BY CanvasAssumption DEF CanvasAssumption
<1>5. OfCalls(w, P) /\ (Distinct(l) => Distinct(w))
  BY <1>2, WithinKeeps
<1> DEFINE i == Spot(w, b, c)
<1> HIDE DEF e, res
<1>6. /\ res \in Seq(Item) /\ i \in DOMAIN res /\ res[i] = e
      /\ \E from \in [DOMAIN res \ {i} -> DOMAIN w] :
           /\ \A n \in DOMAIN res \ {i} : res[n] = w[from[n]] /\ (n < i <=> from[n] < i)
           /\ \A m, n \in DOMAIN res \ {i} : m < n => from[m] < from[n]
  <2>1. Placing(res, w, e, i)
    BY <1>2, <1>3, PlaceFrom DEF i
  <2> QED BY <2>1 DEF Placing
<1> HIDE DEF i
<1>7. PICK from \in [DOMAIN res \ {i} -> DOMAIN w] :
           /\ \A n \in DOMAIN res \ {i} : res[n] = w[from[n]] /\ (n < i <=> from[n] < i)
           /\ \A m, n \in DOMAIN res \ {i} : m < n => from[m] < from[n]
  BY <1>6
<1>8. \A n \in DOMAIN w : w[n].id # e.id
  BY <1>2, <1>3, <1>5 DEF OfCalls
<1>9. \A n \in DOMAIN res \ {i} : from[n] \in DOMAIN w /\ res[n] = w[from[n]]
  BY <1>7
<1>10. OfCalls(res, P \cup {c})
  <2>1. ASSUME NEW n \in DOMAIN res
        PROVE  res[n].by \in P \cup {c, NoCall} /\ (res[n].id \in Call => res[n].id \in P \cup {c})
    <3>1. CASE n = i
      BY <1>3, <1>4, <1>6, <3>1
    <3>2. CASE n # i
      BY <1>5, <1>9, <3>2 DEF OfCalls
    <3> QED BY <3>1, <3>2
  <2>2. Fresh \in IdsIn(res) => Header \notin IdsIn(res)
    <3>1. \A x \in {Fresh, Header} : x \in IdsIn(res) => x \in IdsIn(w)
      BY <1>3, <1>6, <1>9 DEF IdsIn
    <3> QED BY <1>5, <3>1 DEF OfCalls
  <2> QED BY <1>6, <2>1, <2>2 DEF OfCalls
<1>11. ASSUME Distinct(w) PROVE Distinct(res)
  <2> SUFFICES ASSUME NEW p \in DOMAIN res, NEW q \in DOMAIN res, res[p].id = res[q].id, p # q PROVE FALSE
    BY DEF Distinct
  <2>1. p # i /\ q # i
    BY <1>6, <1>8, <1>9
  <2>2. from[p] = from[q]
    BY <1>9, <1>11, <2>1 DEF Distinct
  <2>3. p \in Int /\ q \in Int /\ from[p] \in Int
    <3>1. DOMAIN res = 1..Len(res) /\ DOMAIN w = 1..Len(w)
      BY <1>6
    <3> QED BY <1>9, <2>1, <3>1
  <2>4. p < q \/ q < p
    BY <2>3
  <2> QED BY <1>7, <2>1, <2>2, <2>3, <2>4
<1> QED BY <1>5, <1>10, <1>11 DEF res

\* Its order, and what the table says of it, once the order of those is given up of whom it must be.
LEMMA GrownOrder ==
    ASSUME NEW o \in Op, NEW c \in Call, NEW l \in Seq(Item), NEW b, Table(b), Grown(o, c, l, b),
           NEW P \in SUBSET Call, c \notin P, OfCalls(l, P),
           NEW L, Ordered(l, L), Listed(l, b, L), Once(b, L),
           NEW M, L \cup Reuses(o, c, b) \cup (IF Size # 1 THEN Evicted(b, c) ELSE {}) \subseteq M
    PROVE  /\ Ordered(Result(o, c, l, b), M)
           /\ Listed(Result(o, c, l, b), Batched(o, c, l, b), M) /\ Once(Batched(o, c, l, b), M)
           /\ Table(Batched(o, c, l, b))
<1> DEFINE e == NewItem(o, c)
           res == Result(o, c, l, b)
           d == Batched(o, c, l, b)
<1>1. o.kind \in {"add", "update"} /\ Places(o, l)
  BY DEF Grown
<1>2. PICK w \in Seq(Item) : /\ Within(w, l) /\ \A n \in DOMAIN w : w[n].id # o.id
                             /\ res = Place(w, e, b, c)
  BY DEF Grown
<1>3. /\ e \in Item /\ e.by = c /\ e.id = NewId(o, c)
      /\ e.id \in Named \cup {c} /\ e.id \notin {Fresh, Header, NoCall}
      /\ (e.id = c /\ o.id = Generated) \/ (e.id = o.id /\ o.id \in Named)
  BY <1>1, New
<1>4. d = Remember(b, c, e.id)
  BY <1>1, <1>3 DEF Batched
<1>5. /\ Table(d)
      /\ Size # 1 => d.placed[Msg(c)][c[2]] = e.id
      /\ Size = 1 => d = b
      /\ \A m \in Message \ M : \A k \in Index : (m # Msg(c) \/ k # c[2]) => d.placed[m][k] = b.placed[m][k]
  <2>1. e.id \in Named \cup Call
    BY <1>3
  <2> HIDE DEF e, d
  <2>2. /\ Table(d)
        /\ Size # 1 => d.placed[Msg(c)][c[2]] = e.id
        /\ \A m \in Message : m \notin (IF Size # 1 THEN Evicted(b, c) ELSE {}) =>
                \A k \in Index : (m # Msg(c) \/ k # c[2] \/ Size = 1) => d.placed[m][k] = b.placed[m][k]
    BY <1>4, <2>1, Remembers
  <2>3. Size = 1 => d = b
    BY <1>4 DEF Remember
  <2> QED BY <2>2, <2>3
<1>6. OfCalls(w, P) /\ Ordered(w, L) /\ Listed(w, b, L)
  BY <1>2, WithinKeeps
<1>7. \A m \in Message \ M : e.id \notin PlacedBy(b, m) /\ m \notin L
  BY <1>3 DEF Reuses
<1> DEFINE i == Spot(w, b, c)
<1>s. /\ i \in 1..(Len(w) + 1)
      /\ Size # 1 => \A n \in DOMAIN w : w[n].id \in Later(b, c) => i <= n
      /\ Size # 1 /\ i <= Len(w) => w[i].id \in Later(b, c)
  BY SpotIn
<1> HIDE DEF e, res, d
<1>8. /\ res \in Seq(Item) /\ i \in DOMAIN res /\ res[i] = e
      /\ \E from \in [DOMAIN res \ {i} -> DOMAIN w] :
           /\ \A n \in DOMAIN res \ {i} : res[n] = w[from[n]] /\ (n < i <=> from[n] < i)
           /\ \A m, n \in DOMAIN res \ {i} : m < n => from[m] < from[n]
  <2>1. Placing(res, w, e, i)
    BY <1>2, <1>3, PlaceFrom DEF i
  <2> QED BY <2>1 DEF Placing
<1> HIDE DEF i
<1>9. PICK from \in [DOMAIN res \ {i} -> DOMAIN w] :
           /\ \A n \in DOMAIN res \ {i} : res[n] = w[from[n]] /\ (n < i <=> from[n] < i)
           /\ \A m, n \in DOMAIN res \ {i} : m < n => from[m] < from[n]
  BY <1>8
<1>10. \A n \in DOMAIN res \ {i} : from[n] \in DOMAIN w /\ res[n] = w[from[n]]
  BY <1>9
<1>11. \A n \in DOMAIN w : w[n].id # e.id /\ w[n].by # c
  <2>1. c # NoCall
    BY CanvasAssumption DEF CanvasAssumption
  <2> QED BY <1>2, <1>3, <1>6, <2>1 DEF OfCalls
\* Among the caller's siblings.
<1>12. ASSUME NEW n \in DOMAIN w, w[n].by \in Call, Msg(w[n].by) = Msg(c), Msg(c) \notin M
       PROVE  (w[n].by[2] < c[2] => n < i) /\ (c[2] < w[n].by[2] => i <= n) /\ w[n].by[2] # c[2] /\ Size # 1
  <2>1. Size # 1 /\ w[n].by[2] # c[2]
    BY <1>11, <1>12, CallParts
  <2>2. \A j \in DOMAIN w : w[j].by \in Call /\ Msg(w[j].by) = Msg(c) =>
           b.placed[Msg(c)][w[j].by[2]] = w[j].id /\ w[j].by[2] \in Index
    BY <1>6, <1>12, <2>1, CallParts DEF Listed
  <2>3. Msg(c) \in Message \ L
    BY <1>7, <1>12, CallParts
  <2>4. \A j \in Index : b.placed[Msg(c)][j] # NoCall => b.placed[Msg(c)][j] \in PlacedBy(b, Msg(c))
    BY DEF PlacedBy
  <2>5. \A j \in DOMAIN w : w[j].id # NoCall
    <3>1. \A j \in DOMAIN w : w[j].id \in Id
      <4>1. \A j \in DOMAIN w : w[j] \in Item
        OBVIOUS
      <4> QED BY <4>1 DEF Item
    <3>2. NoCall \notin Id
      BY CanvasAssumption DEF CanvasAssumption, Id
    <3> QED BY <3>1, <3>2
  <2>6. ASSUME c[2] < w[n].by[2] PROVE i <= n
    <3>1. w[n].id \in Later(b, c)
      BY <1>12, <2>2, <2>5, <2>6 DEF Later
    <3> QED BY <1>s, <2>1, <3>1
  <2>7. ASSUME w[n].by[2] < c[2], i <= n PROVE FALSE
    <3>1. i \in DOMAIN w /\ w[i].id \in Later(b, c)
      <4>1. DOMAIN w = 1..Len(w) /\ Len(w) \in Nat
        OBVIOUS
      <4>2. i <= Len(w) /\ i \in 1..Len(w)
        BY <1>s, <2>7, <4>1
      <4> QED BY <1>s, <2>1, <4>1, <4>2
    <3>2. PICK j \in Index : j > c[2] /\ b.placed[Msg(c)][j] = w[i].id /\ w[i].id # NoCall
      BY <3>1 DEF Later
    <3>3. w[i].id \in PlacedBy(b, Msg(c))
      BY <2>4, <3>2
    <3>4. w[i].by \in Call /\ Msg(w[i].by) = Msg(c)
      BY <1>6, <2>3, <3>1, <3>3 DEF Listed
    <3>5. w[i].by[2] = j
      BY <2>2, <2>3, <3>1, <3>2, <3>4 DEF Once
    <3>6. i # n /\ i \in Int /\ n \in Int
      BY <1>s, <2>7, <3>2, <3>5, CallParts, <1>12
    <3>7. i < n
      BY <2>7, <3>6
    <3>8. w[i].by[2] < w[n].by[2]
      BY <1>6, <1>12, <2>3, <3>1, <3>4, <3>7 DEF Ordered
    <3>9. c[2] \in Int /\ w[n].by[2] \in Int /\ w[i].by[2] \in Int
      BY <1>12, <3>4, CallParts
    <3>10. w[i].by[2] > c[2]
      BY <3>2, <3>5
    <3> QED BY ONLY <2>7, <3>8, <3>9, <3>10
  <2>8. i \in Int /\ n \in Int
    BY <1>s
  <2> QED BY <2>1, <2>6, <2>7, <2>8
<1>13. Ordered(res, M)
  <2> SUFFICES ASSUME NEW p \in DOMAIN res, NEW q \in DOMAIN res, p < q,
                      res[p].by \in Call, res[q].by \in Call, Msg(res[p].by) = Msg(res[q].by),
                      Msg(res[p].by) \notin M
               PROVE  res[p].by[2] < res[q].by[2]
    BY DEF Ordered
  <2>0. /\ p \in Int /\ q \in Int /\ i \in Int /\ res[p].by[2] \in Int /\ res[q].by[2] \in Int
        /\ \A n \in DOMAIN w : n \in Int
    <3>1. DOMAIN res = 1..Len(res)
      BY <1>8
    <3> QED BY <1>s, <3>1, CallParts
  <2>1. CASE p = i
    <3>1. q # i /\ ~(q < i)
      BY <2>0, <2>1
    <3>2. from[q] \in DOMAIN w /\ res[q] = w[from[q]] /\ ~(from[q] < i)
      BY <1>9, <1>10, <3>1
    <3>3. Msg(w[from[q]].by) = Msg(c) /\ w[from[q]].by \in Call /\ Msg(c) \notin M /\ res[p].by = c
      BY <1>3, <1>8, <2>1, <3>2
    <3>4. w[from[q]].by[2] # c[2] /\ ~(w[from[q]].by[2] < c[2])
      BY <1>12, <3>2, <3>3
    <3> QED BY <2>0, <3>2, <3>3, <3>4
  <2>2. CASE q = i
    <3>1. p # i /\ p < i
      BY <2>0, <2>2
    <3>2. from[p] \in DOMAIN w /\ res[p] = w[from[p]] /\ from[p] < i
      BY <1>9, <1>10, <3>1
    <3>3. Msg(w[from[p]].by) = Msg(c) /\ w[from[p]].by \in Call /\ Msg(c) \notin M /\ res[q].by = c
      BY <1>3, <1>8, <2>2, <3>2
    <3>4. w[from[p]].by[2] # c[2] /\ ~(i <= from[p])
      BY <1>12, <2>0, <3>2, <3>3
    <3>5. ~(c[2] < w[from[p]].by[2])
      BY <1>12, <3>2, <3>3, <3>4
    <3> QED BY <2>0, <3>2, <3>3, <3>4, <3>5
  <2>3. CASE p # i /\ q # i
    <3>1. from[p] \in DOMAIN w /\ res[p] = w[from[p]] /\ from[q] \in DOMAIN w /\ res[q] = w[from[q]]
      BY <1>10, <2>3
    <3>2. from[p] < from[q]
      BY <1>9, <2>3
    <3>3. Msg(res[p].by) \notin L
      BY <1>7, CallParts
    <3> QED BY <1>6, <3>1, <3>2, <3>3 DEF Ordered
  <2> QED BY <2>1, <2>2, <2>3
<1>14. Listed(res, d, M)
  <2>1. ASSUME Size # 1, NEW n \in DOMAIN res, res[n].by \in Call, Msg(res[n].by) \notin M
        PROVE  d.placed[Msg(res[n].by)][res[n].by[2]] = res[n].id
    <3>1. CASE n = i
      BY <1>3, <1>5, <1>8, <2>1, <3>1
    <3>2. CASE n # i
      <4>1. from[n] \in DOMAIN w /\ res[n] = w[from[n]]
        BY <1>10, <3>2
      <4>2. Msg(res[n].by) \in Message \ M /\ Msg(res[n].by) \notin L /\ res[n].by[2] \in Index
        BY <1>7, <2>1, CallParts
      <4>3. b.placed[Msg(res[n].by)][res[n].by[2]] = res[n].id
        BY <1>6, <2>1, <4>1, <4>2 DEF Listed
      <4>4. Msg(res[n].by) # Msg(c) \/ res[n].by[2] # c[2]
        BY <1>11, <2>1, <4>1, CallParts
      <4> QED BY <1>5, <4>2, <4>3, <4>4
    <3> QED BY <3>1, <3>2
  <2>2. ASSUME NEW n \in DOMAIN res, NEW m \in Message \ M, res[n].id \in PlacedBy(d, m)
        PROVE  res[n].by \in Call /\ Msg(res[n].by) = m
    <3>1. PICK k \in Index : d.placed[m][k] = res[n].id /\ res[n].id # NoCall
      BY <2>2 DEF PlacedBy
    <3>2. \A x : x # NoCall /\ b.placed[m][k] = x => x \in PlacedBy(b, m)
      BY DEF PlacedBy
    <3>3. CASE n = i
      <4>1. res[n] = e
        BY <1>8, <3>3
      <4>2. m = Msg(c)
        <5> SUFFICES ASSUME m # Msg(c) PROVE FALSE
          OBVIOUS
        <5>1. b.placed[m][k] = e.id
          BY <1>5, <3>1, <4>1
        <5> QED BY <1>7, <3>1, <3>2, <4>1, <5>1
      <4> QED BY <1>3, <4>1, <4>2
    <3>4. CASE n # i
      <4>1. from[n] \in DOMAIN w /\ res[n] = w[from[n]]
        BY <1>10, <3>4
      <4>2. b.placed[m][k] = res[n].id
        <5>1. CASE m # Msg(c) \/ k # c[2]
          BY <1>5, <3>1, <5>1
        <5>2. CASE m = Msg(c) /\ k = c[2]
          <6>1. Size = 1
            BY <1>5, <1>11, <3>1, <4>1, <5>2
          <6> QED BY <1>5, <3>1, <6>1
        <5> QED BY <5>1, <5>2
      <4>3. res[n].id \in PlacedBy(b, m)
        BY <3>1, <3>2, <4>2
      <4> QED BY <1>6, <1>7, <4>1, <4>3 DEF Listed
    <3> QED BY <3>3, <3>4
  <2> QED BY <2>1, <2>2 DEF Listed
<1>15. Once(d, M)
  <2> SUFFICES ASSUME NEW m \in Message \ M, NEW j \in Index, NEW k \in Index,
                      d.placed[m][j] = d.placed[m][k], d.placed[m][j] # NoCall, j # k
               PROVE  FALSE
    BY DEF Once
  <2>1. m \in Message \ L
    BY <1>7
  <2>2. CASE Size = 1
    BY <1>5, <2>1, <2>2 DEF Once
  <2>3. CASE Size # 1 /\ (m # Msg(c) \/ (j # c[2] /\ k # c[2]))
    <3>1. d.placed[m][j] = b.placed[m][j] /\ d.placed[m][k] = b.placed[m][k]
      BY <1>5, <2>3
    <3> QED BY <2>1, <3>1 DEF Once
  <2>4. ASSUME Size # 1, m = Msg(c), NEW x \in Index, x # c[2], d.placed[m][x] = e.id PROVE FALSE
    <3>1. b.placed[m][x] = e.id
      BY <1>5, <2>4
    <3>2. e.id \in PlacedBy(b, m)
      BY <1>3, <3>1 DEF PlacedBy
    <3> QED BY <1>7, <3>2
  <2>5. CASE Size # 1 /\ m = Msg(c) /\ (j = c[2] \/ k = c[2])
    <3>1. d.placed[m][c[2]] = e.id
      BY <1>5, <2>5
    <3> QED BY <2>4, <2>5, <3>1
  <2> QED BY <2>2, <2>3, <2>5
<1> QED BY <1>5, <1>13, <1>14, <1>15 DEF res, d

\* An item replaced where it stands.
LEMMA ChangedKeeps ==
    ASSUME NEW o \in Op, NEW c \in Call, NEW l \in Seq(Item), NEW b, Changed(o, c, l, b),
           NEW P \in SUBSET Call, OfCalls(l, P), NEW L, NEW M,
           L \cup Owners(l, Matches(o, l)) \cup {Msg(c)} \subseteq M
    PROVE  /\ OfCalls(Result(o, c, l, b), P \cup {c})
           /\ Distinct(l) => Distinct(Result(o, c, l, b))
           /\ Ordered(l, L) => Ordered(Result(o, c, l, b), M)
           /\ Listed(l, b, L) => Listed(Result(o, c, l, b), b, M)
<1> DEFINE e == NewItem(o, c)
           res == Result(o, c, l, b)
<1>1. PICK n \in Matches(o, l) : res = [l EXCEPT ![n] = e]
  BY DEF Changed
<1>2. /\ e \in Item /\ e.by = c /\ e.id = o.id /\ o.id \in Named /\ o.id \notin {Fresh, Header}
      /\ Named \cap Call = {}
  <2>1. o.kind = "update"
    BY DEF Changed
  <2>2. o.id \in Named
    BY <2>1 DEF Op
  <2> QED BY <2>1, <2>2, New, CanvasAssumption DEF CanvasAssumption
<1>3. n \in DOMAIN l /\ l[n].id = o.id
  BY DEF Matches
<1> HIDE DEF e, res
<1>4. /\ res \in Seq(Item) /\ DOMAIN res = DOMAIN l /\ res[n] = e
      /\ \A p \in DOMAIN l : p # n => res[p] = l[p]
  BY <1>1, <1>2, <1>3
<1>5. \A p \in DOMAIN l : res[p].id = l[p].id
  BY <1>2, <1>3, <1>4
<1>6. OfCalls(res, P \cup {c})
  <2>1. IdsIn(res) = IdsIn(l)
    BY <1>4, <1>5 DEF IdsIn
  <2>2. ASSUME NEW p \in DOMAIN res
        PROVE  res[p].by \in P \cup {c, NoCall} /\ (res[p].id \in Call => res[p].id \in P \cup {c})
    BY <1>2, <1>4, <1>5 DEF OfCalls
  <2> QED BY <1>4, <2>1, <2>2 DEF OfCalls
<1>7. Distinct(l) => Distinct(res)
  BY <1>4, <1>5 DEF Distinct
<1>8. ASSUME Ordered(l, L) PROVE Ordered(res, M)
  <2> SUFFICES ASSUME NEW p \in DOMAIN res, NEW q \in DOMAIN res, p < q,
                      res[p].by \in Call, res[q].by \in Call, Msg(res[p].by) = Msg(res[q].by),
                      Msg(res[p].by) \notin M
               PROVE  res[p].by[2] < res[q].by[2]
    BY DEF Ordered
  <2>1. p # n /\ q # n
    BY <1>2, <1>4
  <2> QED BY <1>4, <1>8, <2>1 DEF Ordered
<1>9. ASSUME Listed(l, b, L) PROVE Listed(res, b, M)
  <2>1. ASSUME Size # 1, NEW p \in DOMAIN res, res[p].by \in Call, Msg(res[p].by) \notin M
        PROVE  b.placed[Msg(res[p].by)][res[p].by[2]] = res[p].id
    <3>1. p # n
      BY <1>2, <1>4, <2>1
    <3> QED BY <1>4, <1>9, <2>1, <3>1 DEF Listed
  <2>2. ASSUME NEW p \in DOMAIN res, NEW m \in Message \ M, res[p].id \in PlacedBy(b, m)
        PROVE  res[p].by \in Call /\ Msg(res[p].by) = m
    <3>1. l[p].by \in Call /\ Msg(l[p].by) = m
      BY <1>4, <1>5, <1>9, <2>2 DEF Listed
    <3>2. p # n
      BY <2>2, <3>1 DEF Owners
    <3> QED BY <1>4, <3>1, <3>2
  <2> QED BY <2>1, <2>2 DEF Listed
<1> QED BY <1>6, <1>7, <1>8, <1>9 DEF res

\* A list put in the order asked for.
LEMMA ArrangedKeeps ==
    ASSUME NEW o \in Op, NEW c \in Call, NEW l \in Seq(Item), NEW b, Arranged(o, c, l, b),
           NEW P \in SUBSET Call, OfCalls(l, P), NEW L, NEW M, L \cup Owners(l, DOMAIN l) \subseteq M
    PROVE  /\ OfCalls(Result(o, c, l, b), P \cup {c})
           /\ IsInjective(o.ids) => Distinct(Result(o, c, l, b))
           /\ Ordered(Result(o, c, l, b), M)
           /\ Listed(l, b, L) => Listed(Result(o, c, l, b), b, M)
<1> DEFINE res == Result(o, c, l, b)
<1>0. PICK known \in Seq(Named \cup {Header}) : \E k \in [DOMAIN known -> DOMAIN l] :
         /\ Within(known, o.ids)
         /\ res = [n \in DOMAIN known |-> l[k[n]]]
         /\ \A n \in DOMAIN known : l[k[n]].id = known[n]
  BY DEF Arranged
<1>1. PICK k \in [DOMAIN known -> DOMAIN l] :
         /\ Within(known, o.ids)
         /\ res = [n \in DOMAIN known |-> l[k[n]]]
         /\ \A n \in DOMAIN known : l[k[n]].id = known[n]
  BY <1>0
<1> HIDE DEF res
<1>2. /\ DOMAIN known = 1..Len(known) /\ Len(known) \in Nat
      /\ \A n \in DOMAIN known : known[n] \in Named \cup {Header}
  OBVIOUS
<1>3. /\ DOMAIN res = DOMAIN known
      /\ \A n \in DOMAIN res : k[n] \in DOMAIN l /\ res[n] = l[k[n]] /\ res[n].id = known[n]
  BY <1>1
<1>4. res \in Seq(Item)
  <2>1. \A n \in DOMAIN res : res[n] \in Item
    BY <1>3
  <2>2. res = [n \in 1..Len(known) |-> res[n]]
    BY <1>1, <1>2, <1>3
  <2> QED BY <1>2, <1>3, <2>1, <2>2
<1>5. OfCalls(res, P \cup {c})
  <2>1. Fresh \notin IdsIn(res)
    <3>1. Fresh \notin Named \cup {Header}
      BY CanvasAssumption DEF CanvasAssumption
    <3> QED BY <1>2, <1>3, <3>1 DEF IdsIn
  <2> QED BY <1>3, <1>4, <2>1 DEF OfCalls
<1>6. ASSUME IsInjective(o.ids) PROVE Distinct(res)
  <2>1. PICK h \in [DOMAIN known -> DOMAIN o.ids] : Rises(h) /\ \A p \in DOMAIN known : known[p] = o.ids[h[p]]
    BY <1>1 DEF Within
  <2> SUFFICES ASSUME NEW p \in DOMAIN known, NEW q \in DOMAIN known, known[p] = known[q], p # q PROVE FALSE
    BY <1>3 DEF Distinct
  <2>2. h[p] = h[q]
    BY <1>6, <2>1 DEF IsInjective
  <2>3. h[p] \in Int /\ p \in Int /\ q \in Int
    <3>1. o.ids \in Seq(Named \cup {Header})
      BY DEF Arranged, Op
    <3>2. DOMAIN o.ids = 1..Len(o.ids)
      BY <3>1
    <3>3. h[p] \in DOMAIN o.ids
      BY <2>1
    <3> QED BY <1>2, <3>2, <3>3
  <2>4. p < q \/ q < p
    BY <2>3
  <2> QED BY <2>1, <2>2, <2>3, <2>4 DEF Rises
<1>7. \A n \in DOMAIN res : res[n].by \in Call => Msg(res[n].by) \in M
  BY <1>3 DEF Owners
<1>8. Ordered(res, M)
  BY <1>7 DEF Ordered
<1>9. ASSUME Listed(l, b, L) PROVE Listed(res, b, M)
  <2>1. ASSUME NEW n \in DOMAIN res, NEW m \in Message \ M, res[n].id \in PlacedBy(b, m)
        PROVE  res[n].by \in Call /\ Msg(res[n].by) = m
    BY <1>3, <1>9, <2>1 DEF Listed
  <2> QED BY <1>7, <2>1 DEF Listed
<1> QED BY <1>5, <1>6, <1>8, <1>9 DEF res

\* What no call breaks: whose the items are, and that ids stay apart.
LEMMA CallFits ==
    ASSUME NEW o \in Op, NEW c \in Call, NEW l \in Seq(Item), NEW b,
           NEW P \in SUBSET Call, c \notin P, OfCalls(l, P)
    PROVE  /\ OfCalls(Result(o, c, l, b), P \cup {c})
           /\ Distinct(l) /\ (o.kind = "reorder" => IsInjective(o.ids)) => Distinct(Result(o, c, l, b))
<1>0. ASSUME NEW r, OfCalls(r, P) PROVE OfCalls(r, P \cup {c})
  BY <1>0 DEF OfCalls
<1>1. CASE Grown(o, c, l, b)
  BY <1>1, GrownFits
<1>2. CASE Changed(o, c, l, b)
  <2> DEFINE M == Owners(l, Matches(o, l)) \cup {Msg(c)}
  <2>1. {} \cup Owners(l, Matches(o, l)) \cup {Msg(c)} \subseteq M
    OBVIOUS
  <2> HIDE DEF M
  <2> QED BY <1>2, <2>1, ChangedKeeps
<1>3. CASE Reduced(o, c, l, b)
  BY <1>0, <1>3, WithinKeeps DEF Reduced
<1>4. CASE Arranged(o, c, l, b)
  <2> DEFINE M == Owners(l, DOMAIN l)
  <2>1. {} \cup Owners(l, DOMAIN l) \subseteq M
    OBVIOUS
  <2> HIDE DEF M
  <2>2. o.kind = "reorder"
    BY <1>4 DEF Arranged
  <2> QED BY <1>4, <2>1, <2>2, ArrangedKeeps
<1> QED BY <1>1, <1>2, <1>3, <1>4, Results

\* The order of the messages that keep it, and what the table says.
LEMMA CallKeepsOrder ==
    ASSUME NEW o \in Op, NEW c \in Call, NEW l \in Seq(Item), NEW b, Table(b),
           NEW P \in SUBSET Call, c \notin P, OfCalls(l, P),
           NEW L, Ordered(l, L), Listed(l, b, L), Once(b, L)
    PROVE  LET M == L \cup Loosened(o, c, l, b)
           IN /\ Ordered(Result(o, c, l, b), M) /\ Listed(Result(o, c, l, b), Batched(o, c, l, b), M)
              /\ Once(Batched(o, c, l, b), M) /\ Table(Batched(o, c, l, b))
<1> DEFINE M == L \cup Loosened(o, c, l, b)
<1>0. L \subseteq M
  OBVIOUS
<1>1. CASE Grown(o, c, l, b)
  <2>1. L \cup Reuses(o, c, b) \cup (IF Size # 1 THEN Evicted(b, c) ELSE {}) \subseteq M
    BY <1>1 DEF Grown, Loosened
  <2> HIDE DEF M
  <2>2. /\ Ordered(Result(o, c, l, b), M) /\ Listed(Result(o, c, l, b), Batched(o, c, l, b), M)
        /\ Once(Batched(o, c, l, b), M) /\ Table(Batched(o, c, l, b))
    BY <1>1, <2>1, GrownOrder
  <2> QED BY <2>2 DEF M
<1>a. Once(b, M)
  BY DEF Once
<1>b. ASSUME ~(o.kind = "add"), ~(o.kind = "update" /\ Places(o, l)) PROVE Batched(o, c, l, b) = b
  BY <1>b DEF Batched, Places
<1>2. CASE Changed(o, c, l, b)
  <2>1. L \cup Owners(l, Matches(o, l)) \cup {Msg(c)} \subseteq M /\ Batched(o, c, l, b) = b
    BY <1>2, <1>b DEF Changed, Loosened
  <2> HIDE DEF M
  <2>2. Ordered(Result(o, c, l, b), M) /\ Listed(Result(o, c, l, b), b, M)
    BY <1>2, <2>1, ChangedKeeps
  <2> QED BY <1>a, <2>1, <2>2 DEF M
<1>3. CASE Reduced(o, c, l, b)
  <2>1. Batched(o, c, l, b) = b
    BY <1>3, <1>b DEF Reduced
  <2>2. Ordered(Result(o, c, l, b), L) /\ Listed(Result(o, c, l, b), b, L)
    BY <1>3, WithinKeeps DEF Reduced
  <2> HIDE DEF M
  <2>3. Ordered(Result(o, c, l, b), M)
    BY <1>0, <2>2 DEF Ordered
  <2>4. Listed(Result(o, c, l, b), b, M)
    BY <1>0, <2>2 DEF Listed
  <2> QED BY <1>a, <2>1, <2>3, <2>4 DEF M
<1>4. CASE Arranged(o, c, l, b)
  <2>1. L \cup Owners(l, DOMAIN l) \subseteq M /\ Batched(o, c, l, b) = b
    BY <1>4, <1>b DEF Arranged, Loosened
  <2> HIDE DEF M
  <2>2. Ordered(Result(o, c, l, b), M) /\ Listed(Result(o, c, l, b), b, M)
    BY <1>4, <2>1, ArrangedKeeps
  <2> QED BY <1>a, <2>1, <2>2 DEF M
<1> QED BY <1>1, <1>2, <1>3, <1>4, Results

----------------------------------------------------------------------------
\* Ids and order, as invariants of the canvas.

Begun == {c \in Call : pc[c] \in {"writing", "ok", "failed"}}

\* Whose items the lists hold that are in the file and in the hands of a tool or the panel.
Theirs ==
    /\ OfCalls(file.items, Begun) /\ Fresh \notin IdsIn(file.items)
    /\ \A c \in AtWork : OfCalls(got[c], Begun \ {c})
    /\ panel.pc # "idle" => OfCalls(panel.got, Begun)

\* Their ids.
Apart ==
    /\ Distinct(file.items)
    /\ \A c \in AtWork : Distinct(got[c])
    /\ panel.pc # "idle" => Distinct(panel.got)

\* Their order, and the table: while a call writes, the file is ahead of the table.
Tabled(l, b) == Ordered(l, loose) /\ Listed(l, b, loose)

InTable ==
    /\ Once(batches, loose)
    /\ Writing = {} => Tabled(file.items, batches)
    /\ \A c \in AtWork : Tabled(got[c], batches)
    /\ \A c \in Writing : LET after == Batched(op[c], c, got[c], batches)
                          IN Tabled(file.items, after) /\ Once(after, loose)
    /\ panel.pc # "idle" => Tabled(panel.got, batches)

\* No tool call gives an order in which an id appears twice.
NoRepeats == \A o \in Ops : o.kind = "reorder" => IsInjective(o.ids)

\* The parts of the list l that a write that ends or breaks off can leave.
PartOf(r, l) == r = l \/ r = <<>> \/ \E n \in 0..Len(l) : r = SubSeq(l, 1, n)

LEMMA PartWithin ==
    ASSUME NEW l \in Seq(Item), NEW r, PartOf(r, l)
    PROVE  r \in Seq(Item) /\ Within(r, l)
<1>1. CASE r = l
  BY <1>1, WithinItself
<1>2. CASE r = <<>>
  <2>1. r \in Seq(Item) /\ DOMAIN r = {}
    BY <1>2
  <2>2. <<>> \in [DOMAIN r -> DOMAIN l] /\ Rises(<<>>)
    BY <2>1 DEF Rises
  <2> QED BY <2>1, <2>2 DEF Within
<1>3. CASE \E n \in 0..Len(l) : r = SubSeq(l, 1, n)
  BY <1>3, FirstPart
<1> QED BY <1>1, <1>2, <1>3 DEF PartOf

LEMMA MoreCalls ==
    ASSUME NEW l, NEW P, NEW Q, P \subseteq Q, OfCalls(l, P)
    PROVE  OfCalls(l, Q)
BY DEF OfCalls

LEMMA MoreLoose ==
    ASSUME NEW l, NEW b, NEW L, NEW M, L \subseteq M
    PROVE  /\ Ordered(l, L) => Ordered(l, M)
           /\ Listed(l, b, L) => Listed(l, b, M)
           /\ Once(b, L) => Once(b, M)
<1>1. Ordered(l, L) => Ordered(l, M)
  BY DEF Ordered
<1>2. Listed(l, b, L) => Listed(l, b, M)
  BY DEF Listed
<1>3. Once(b, L) => Once(b, M)
  BY DEF Once
<1> QED BY <1>1, <1>2, <1>3

\* Nobody at work, and in the file a part of what was there.
LEMMA QuietItems ==
    ASSUME Theirs, AtWork' = {}, panel'.pc = "idle", Begun \subseteq Begun',
           PartOf(file'.items, file.items)
    PROVE  /\ Theirs'
           /\ Apart => Apart'
           /\ \A b : Ordered(file.items, loose) /\ Listed(file.items, b, loose)
                     /\ loose' = loose /\ Once(b, loose) /\ batches' = b => InTable'
<1> DEFINE l == file.items  r == file'.items
<1>1. l \in Seq(Item) /\ OfCalls(l, Begun) /\ Fresh \notin IdsIn(l) /\ PartOf(r, l)
  BY DEF Theirs, OfCalls
<1>2. r \in Seq(Item) /\ Within(r, l)
  <2> HIDE DEF l, r
  <2> QED BY <1>1, PartWithin
<1>3. Writing' = {}
  BY DEF AtWork, Writing
<1> HIDE DEF l, r
<1>4. OfCalls(r, Begun) /\ IdsIn(r) \subseteq IdsIn(l) /\ (Distinct(l) => Distinct(r))
  BY <1>1, <1>2, WithinKeeps
<1>5. OfCalls(r, Begun')
  BY <1>4, MoreCalls
<1>6. Theirs'
  BY <1>1, <1>4, <1>5 DEF Theirs, r
<1>7. ASSUME Apart PROVE Apart'
  BY <1>4, <1>7 DEF Apart, l, r
<1>8. ASSUME NEW b, Ordered(l, loose), Listed(l, b, loose), loose' = loose, Once(b, loose), batches' = b
      PROVE  InTable'
  <2>1. Ordered(r, loose) /\ Listed(r, b, loose)
    BY <1>1, <1>2, <1>8, WithinKeeps
  <2>2. (Tabled(file.items, batches))'
    BY <1>8, <2>1 DEF Tabled, r
  <2>3. (Once(batches, loose))'
    BY <1>8
  <2> QED BY <1>3, <2>2, <2>3 DEF InTable
<1> QED BY <1>6, <1>7, <1>8 DEF l

LEMMA LoadItems ==
    ASSUME Shape, Undisturbed, Theirs, NEW c \in Call, NEW o \in Ops, Load(c, o), ~raced'
    PROVE  /\ Theirs'
           /\ Apart => Apart'
           /\ Table(batches) /\ InTable => InTable'
<1> DEFINE l == file.items
<1>1. /\ UNCHANGED <<file, panel, batches, loose>> /\ panel.pc = "idle"
      /\ AtWork = {} /\ Writing = {} /\ pc[c] = "new"
  <2>1. UNCHANGED <<file, panel, batches, loose>> /\ AtWork = {} /\ panel = Idle /\ pc[c] = "new"
    BY DEF Load, LockFree
  <2> QED BY <2>1 DEF Idle, AtWork, Writing
<1>2. got'[c] \in {<<>>, Reread(l)}
  <2>1. got'[c] \in Reads
    BY DEF Load, Shape
  <2> QED BY <1>1, <2>1 DEF Reads, Undisturbed, Shape
<1>3. AtWork' = {c} /\ Writing' = {} /\ Begun' = Begun /\ c \notin Begun
  BY <1>1 DEF Load, Shape, AtWork, Writing, Begun
<1>4. l \in Seq(Item) /\ OfCalls(l, Begun)
  BY DEF Theirs, OfCalls
<1> HIDE DEF l
<1>5. <<>> \in Seq(Item) /\ Within(<<>>, l)
  BY <1>4, PartWithin DEF PartOf
<1>t. \E b : Table(b)
  <2>1. Table([order |-> <<>>, placed |-> [m \in Message |-> [k \in Index |-> NoCall]]])
    BY DEF Table
  <2> QED BY <2>1
<1>6. OfCalls(got'[c], Begun) /\ (Distinct(l) => Distinct(got'[c]))
  <2>1. CASE got'[c] = <<>>
    BY <1>4, <1>5, <2>1, WithinKeeps
  <2>2. CASE got'[c] = Reread(l)
    BY <1>4, <1>t, <2>2, RereadKeeps
  <2> QED BY <1>2, <2>1, <2>2
<1>7. ASSUME Table(batches), Tabled(l, batches) PROVE Tabled(got'[c], batches)
  <2>1. CASE got'[c] = <<>>
    BY <1>4, <1>5, <1>7, <2>1, WithinKeeps DEF Tabled
  <2>2. CASE got'[c] = Reread(l)
    BY <1>4, <1>7, <2>2, RereadKeeps DEF Tabled
  <2> QED BY <1>2, <2>1, <2>2
<1>8. Theirs'
  <2>1. Begun \ {c} = Begun
    BY <1>3
  <2>2. OfCalls(got'[c], (Begun \ {c})')
    BY <1>3, <1>6, <2>1
  <2> QED BY <1>1, <1>3, <2>2 DEF Theirs
<1>9. Apart => Apart'
  BY <1>1, <1>3, <1>6 DEF Apart, l
<1>10. ASSUME Table(batches), InTable PROVE InTable'
  <2>1. Tabled(l, batches) /\ Once(batches, loose)
    BY <1>1, <1>10 DEF InTable, l
  <2>2. Tabled(got'[c], batches)
    BY <1>7, <1>10, <2>1
  <2>3. (Tabled(file.items, batches))' /\ (Tabled(got[c], batches))' /\ (Once(batches, loose))'
    BY <1>1, <2>1, <2>2 DEF Tabled, l
  <2> QED BY <1>1, <1>3, <2>3 DEF InTable
<1> QED BY <1>8, <1>9, <1>10

LEMMA ReturnItems ==
    ASSUME Shape, Exclusive, NEW c \in AtWork, NEW h \in {"ok", "failed"}, Return(c, h)
    PROVE  AtWork' = {} /\ Writing' = {} /\ Begun \subseteq Begun'
<1>1. Begun \subseteq Begun'
  BY DEF Return, Begun, Shape
<1> QED BY <1>1, ReturnAlone

LEMMA TruncateItems ==
    ASSUME Shape, Exclusive, Undisturbed, Theirs, NEW c \in Call, Truncate(c)
    PROVE  /\ Theirs'
           /\ NoRepeats /\ Apart => Apart'
           /\ Table(batches) /\ InTable => InTable'
<1> DEFINE l == got[c]  res == Result(op[c], c, l, batches)
           P == Begun \ {c}
           after == Batched(op[c], c, l, batches)
<1>1. /\ c \in AtWork /\ op[c] \in Op /\ op[c] \in Ops /\ panel.pc = "idle"
      /\ UNCHANGED <<op, got, batches, panel>> /\ file'.items = Export(res)
      /\ loose' = loose \cup Loosened(op[c], c, l, batches)
  <2>1. c \in AtWork /\ panel.pc = "idle"
    BY DEF Truncate, AtWork, Undisturbed
  <2>2. op[c] \in Op /\ op[c] \in Ops
    BY <2>1, CanvasUseAssumption DEF Shape, CanvasUseAssumption
  <2> QED BY <2>1, <2>2, AfterWrite DEF Truncate, Output
<1>2. AtWork' = {c} /\ Writing' = {c} /\ Writing = {} /\ Begun' = P \cup {c} /\ P = (Begun \ {c})'
  <2>1. \A d \in AtWork : d = c
    BY <1>1 DEF Exclusive
  <2>2. pc[c] = "loaded" /\ pc' = [pc EXCEPT ![c] = "writing"]
    BY DEF Truncate
  <2>3. pc'[c] = "writing" /\ \A d \in Call : d # c => pc'[d] = pc[d]
    BY <2>2 DEF Shape
  <2> QED BY <2>1, <2>2, <2>3 DEF AtWork, Writing, Begun
<1>3. /\ l \in Seq(Item) /\ OfCalls(l, P) /\ P \in SUBSET Call /\ c \notin P
  BY <1>1 DEF Theirs, OfCalls, Begun
<1> HIDE DEF P
<1>4. /\ OfCalls(res, P \cup {c})
      /\ Distinct(l) /\ (op[c].kind = "reorder" => IsInjective(op[c].ids)) => Distinct(res)
  <2> HIDE DEF l
  <2> QED BY <1>1, <1>3, CallFits
<1> HIDE DEF res
<1>5. res \in Seq(Item)
  BY <1>4 DEF OfCalls
<1>6. /\ OfCalls(Export(res), P \cup {c}) /\ Fresh \notin IdsIn(Export(res))
      /\ Distinct(res) => Distinct(Export(res))
  BY <1>4, <1>5, ExportKeeps
<1>7. Theirs'
  BY <1>1, <1>2, <1>3, <1>6 DEF Theirs
<1>8. ASSUME NoRepeats, Apart PROVE Apart'
  <2>1. Distinct(l) /\ (op[c].kind = "reorder" => IsInjective(op[c].ids))
    BY <1>1, <1>8 DEF Apart, NoRepeats
  <2> QED BY <1>1, <1>2, <1>4, <1>6, <2>1 DEF Apart
<1>9. ASSUME Table(batches), InTable PROVE InTable'
  <2>1. Ordered(l, loose) /\ Listed(l, batches, loose) /\ Once(batches, loose)
    BY <1>1, <1>9 DEF InTable, Tabled
  <2> HIDE DEF l, after
  <2>2. Ordered(res, loose') /\ Listed(res, after, loose') /\ Once(after, loose') /\ Table(after)
    BY <1>1, <1>3, <1>9, <2>1, CallKeepsOrder DEF res, after
  <2>3. Ordered(Export(res), loose') /\ Listed(Export(res), after, loose')
    BY <1>4, <1>5, <2>2, ExportKeeps
  <2>4. Ordered(l, loose') /\ Listed(l, batches, loose') /\ Once(batches, loose')
    BY <1>1, <2>1, MoreLoose
  <2>5. (Once(batches, loose))' /\ (Tabled(got[c], batches))'
    BY <1>1, <2>4 DEF Tabled, l
  <2>6. after = (Batched(op[c], c, got[c], batches))'
    BY <1>1 DEF after, l
  <2>7. Ordered(file'.items, loose') /\ Listed(file'.items, after, loose')
    BY <1>1, <2>3
  <2> HIDE DEF after
  <2> QED BY <1>1, <1>2, <2>2, <2>5, <2>6, <2>7 DEF InTable, Tabled
<1> QED BY <1>7, <1>8, <1>9

LEMMA NoMatchItems ==
    ASSUME Shape, Exclusive, Undisturbed, Theirs, NEW c \in Call, NoMatch(c)
    PROVE  Theirs' /\ (Apart => Apart') /\ (InTable => InTable')
<1>1. /\ c \in AtWork /\ Writing = {} /\ panel.pc = "idle" /\ Return(c, "ok")
      /\ UNCHANGED <<file, panel, batches, loose>>
  BY DEF NoMatch, Exclusive, Undisturbed, AtWork, Writing
<1>2. AtWork' = {} /\ Begun \subseteq Begun'
  BY <1>1, ReturnItems
<1>3. PartOf(file'.items, file.items)
  BY <1>1 DEF PartOf
<1>4. InTable => Tabled(file.items, batches) /\ Once(batches, loose)
  BY <1>1 DEF InTable
<1> QED BY <1>1, <1>2, <1>3, <1>4, QuietItems DEF Tabled

LEMMA WriteEndItems ==
    ASSUME Shape, Exclusive, Undisturbed, Theirs, NEW c \in Call, WriteEnd(c)
    PROVE  Theirs' /\ (Apart => Apart') /\ (InTable => InTable')
<1>1. /\ c \in AtWork /\ c \in Writing /\ panel.pc = "idle" /\ Return(c, "ok")
      /\ UNCHANGED <<panel, loose>> /\ batches' = Batched(op[c], c, got[c], batches)
      /\ file' \in Written(Output(c))
      /\ file = Cut(Output(c)) \/ file.is = "empty"
  BY DEF WriteEnd, Undisturbed, AtWork, Writing
<1>2. AtWork' = {} /\ Begun \subseteq Begun'
  BY <1>1, ReturnItems
<1>3. PartOf(file'.items, file.items)
  <2>1. CASE file = Cut(Output(c))
    BY <1>1, <2>1 DEF Written, Cut, Whole, PartOf
  <2>2. CASE file.is = "empty"
    BY <1>1, <2>2 DEF Written, Empty, PartOf
  <2> QED BY <1>1, <2>1, <2>2
<1>4. InTable => Tabled(file.items, batches') /\ Once(batches', loose)
  BY <1>1 DEF InTable, Tabled
<1> QED BY <1>1, <1>2, <1>3, <1>4, QuietItems DEF Tabled

\* What a text that is broken off leaves.
LEMMA RemainsPart ==
    ASSUME NEW l, NEW f \in Remains(l)
    PROVE  PartOf(f.items, l)
BY DEF Remains, Empty, Whole, PartOf

LEMMA FailsItems ==
    ASSUME Shape, Exclusive, Undisturbed, Theirs, NEW c \in Call, Fails(c)
    PROVE  Theirs' /\ (Apart => Apart')
<1>1. /\ c \in AtWork /\ panel.pc = "idle" /\ Return(c, "failed") /\ UNCHANGED panel
      /\ file' \in IF pc[c] = "loaded" \/ file.is = "empty" THEN {file} ELSE Remains(Output(c))
      /\ pc[c] # "loaded" => file = Cut(Output(c)) \/ file.is = "empty"
  BY DEF Fails, Undisturbed, AtWork
<1>2. AtWork' = {} /\ Begun \subseteq Begun'
  BY <1>1, ReturnItems
<1>3. PartOf(file'.items, file.items)
  <2>1. CASE pc[c] = "loaded" \/ file.is = "empty"
    BY <1>1, <2>1 DEF PartOf
  <2>2. CASE ~(pc[c] = "loaded" \/ file.is = "empty")
    <3>1. file.items = Output(c) /\ file' \in Remains(Output(c))
      BY <1>1, <2>2, AfterWrite
    <3> QED BY <3>1, RemainsPart
  <2> QED BY <2>1, <2>2
<1> QED BY <1>1, <1>2, <1>3, QuietItems

\* The panel: it takes out an item of what it loaded.
LEMMA RestKeeps ==
    ASSUME NEW P, OfCalls(panel.got, P)
    PROVE  /\ OfCalls(Rest, P) /\ Fresh \notin IdsIn(Rest)
           /\ Distinct(panel.got) => Distinct(Rest)
           /\ Table(batches) /\ Tabled(panel.got, batches) => Tabled(Rest, batches)
<1> DEFINE l == panel.got  w == Without(l, panel.id)
<1>1. l \in Seq(Item) /\ OfCalls(l, P)
  BY DEF OfCalls
<1>2. w \in Seq(Item) /\ Within(w, l)
  BY <1>1, PickedIn DEF Without
<1>3. Rest = Export(w)
  BY DEF Rest
<1> HIDE DEF l, w
<1>4. OfCalls(w, P) /\ (Distinct(l) => Distinct(w)) /\ (Tabled(l, batches) => Tabled(w, batches))
  BY <1>1, <1>2, WithinKeeps DEF Tabled
<1>5. OfCalls(Export(w), P) /\ Fresh \notin IdsIn(Export(w)) /\ (Distinct(w) => Distinct(Export(w)))
  BY <1>2, <1>4, ExportKeeps
<1>6. Table(batches) /\ Tabled(w, batches) => Tabled(Export(w), batches)
  BY <1>2, <1>4, ExportKeeps DEF Tabled
<1> QED BY <1>3, <1>4, <1>5, <1>6 DEF l

LEMMA PanelItems ==
    ASSUME Shape, Exclusive, Undisturbed, Theirs, Panel, ~raced', faults \in Nat
    PROVE  /\ Theirs'
           /\ Apart => Apart'
           /\ Table(batches) /\ (faults = 0 => InTable) /\ faults' = 0 => InTable'
<1>1. UNCHANGED <<pc, op, got, batches, loose>>
  BY DEF Panel, PanelLoad, PanelTruncate, PanelWriteEnd, PanelClear
<1>2. AtWork' = AtWork /\ Writing' = Writing /\ Begun' = Begun
  BY <1>1 DEF AtWork, Writing, Begun
<1>3. ASSUME NEW i \in Id, PanelLoad(i) PROVE Theirs' /\ (Apart => Apart') /\ (Table(batches) /\ InTable => InTable')
  <2> DEFINE l == file.items
  <2>1. AtWork = {} /\ Writing = {} /\ UNCHANGED file /\ l \in Seq(Item)
    BY <1>3 DEF PanelLoad, LockFree, AtWork, Writing, Theirs, OfCalls
  <2>2. file.is = "whole"
    BY <1>3, <2>1 DEF PanelLoad, Reads, Undisturbed, Shape, IdsIn
  <2>3. panel'.pc = "loaded" /\ panel'.got = Reread(l)
    BY <1>3, <2>2 DEF PanelLoad, Reads
  <2> HIDE DEF l
  <2>t. \E b : Table(b)
    <3>1. Table([order |-> <<>>, placed |-> [m \in Message |-> [k \in Index |-> NoCall]]])
      BY DEF Table
    <3> QED BY <3>1
  <2>4. OfCalls(l, Begun) /\ OfCalls(Reread(l), Begun) /\ (Distinct(l) => Distinct(Reread(l)))
    BY <2>1, <2>t, RereadKeeps DEF Theirs, l
  <2>5. Table(batches) /\ Tabled(l, batches) => Tabled(Reread(l), batches)
    BY <2>1, RereadKeeps DEF Tabled
  <2>6. Theirs'
    BY <1>2, <2>1, <2>3, <2>4 DEF Theirs, l
  <2>7. Apart => Apart'
    BY <1>2, <2>1, <2>3, <2>4 DEF Apart, l
  <2>8. ASSUME Table(batches), InTable PROVE InTable'
    <3>1. Tabled(l, batches) /\ Once(batches, loose) /\ Tabled(panel'.got, batches)
      BY <2>1, <2>3, <2>5, <2>8 DEF InTable, l
    <3>2. (Tabled(file.items, batches))' /\ (Once(batches, loose))' /\ (Tabled(panel.got, batches))'
      BY <1>1, <2>1, <3>1 DEF Tabled, l
    <3> QED BY <1>2, <2>1, <3>2 DEF InTable
  <2> QED BY <2>6, <2>7, <2>8
<1>4. ASSUME PanelTruncate PROVE Theirs' /\ (Apart => Apart') /\ (Table(batches) /\ InTable => InTable')
  <2>1. /\ AtWork = {} /\ Writing = {} /\ panel.pc # "idle" /\ file'.items = Rest
        /\ panel'.pc # "idle" /\ panel'.got = panel.got
    <3>1. panel.pc = "loaded" /\ file' = Cut(Rest) /\ panel' = [panel EXCEPT !.pc = "writing"]
      BY <1>4 DEF PanelTruncate
    <3>2. panel'.pc = "writing" /\ panel'.got = panel.got
      BY <3>1 DEF Shape
    <3> QED BY <3>1, <3>2, AfterWrite DEF Undisturbed, AtWork, Writing
  <2>2. OfCalls(panel.got, Begun)
    BY <2>1 DEF Theirs
  <2>3. OfCalls(Rest, Begun) /\ Fresh \notin IdsIn(Rest) /\ (Distinct(panel.got) => Distinct(Rest))
    BY <2>2, RestKeeps
  <2>4. Table(batches) /\ Tabled(panel.got, batches) => Tabled(Rest, batches)
    BY <2>2, RestKeeps
  <2>5. Theirs'
    BY <1>2, <2>1, <2>2, <2>3 DEF Theirs
  <2>6. Apart => Apart'
    BY <1>2, <2>1, <2>3 DEF Apart
  <2>7. ASSUME Table(batches), InTable PROVE InTable'
    <3>1. Tabled(panel.got, batches) /\ Once(batches, loose) /\ Tabled(Rest, batches)
      BY <2>1, <2>4, <2>7 DEF InTable
    <3>2. (Tabled(file.items, batches))' /\ (Once(batches, loose))' /\ (Tabled(panel.got, batches))'
      BY <1>1, <2>1, <3>1 DEF Tabled
    <3> QED BY <1>2, <2>1, <3>2 DEF InTable
  <2> QED BY <2>5, <2>6, <2>7
<1>5. ASSUME PanelWriteEnd
      PROVE  Theirs' /\ (Apart => Apart') /\ ((faults = 0 => InTable) /\ faults' = 0 => InTable')
  <2>1. /\ AtWork' = {} /\ Writing = {} /\ panel.pc = "writing" /\ panel'.pc = "idle" /\ file = Cut(Rest)
        /\ (file' \in Written(Rest) /\ faults' = faults) \/ (file' \in Remains(Rest) /\ faults' = faults + 1)
    BY <1>2, <1>5 DEF PanelWriteEnd, Undisturbed, Idle, AtWork, Writing
  <2>2. PartOf(file'.items, file.items)
    <3>1. file.items = Rest /\ file.is = "cut"
      BY <2>1, AfterWrite
    <3>2. CASE file' \in Written(Rest)
      BY <2>1, <3>1, <3>2, AfterWrite DEF Whole, PartOf
    <3>3. CASE file' \in Remains(Rest)
      BY <3>1, <3>3, RemainsPart
    <3> QED BY <2>1, <3>2, <3>3
  <2>3. ASSUME faults = 0 => InTable, faults' = 0
        PROVE  Tabled(file.items, batches) /\ Once(batches, loose)
    <3>1. faults = 0
      BY <2>1, <2>3
    <3> QED BY <2>1, <2>3, <3>1 DEF InTable
  <2> QED BY <1>1, <1>2, <2>1, <2>2, <2>3, QuietItems DEF Tabled
<1>6. ASSUME PanelClear PROVE Theirs' /\ (Apart => Apart') /\ (InTable => InTable')
  <2>1. file'.items = <<>> /\ panel' = panel /\ panel.pc = "idle"
    BY <1>6 DEF PanelClear, Empty
  <2>2. file.items \in Seq(Item) /\ PartOf(file'.items, file.items)
    BY <2>1 DEF Theirs, OfCalls, PartOf
  <2>3. <<>> \in Seq(Item) /\ Within(<<>>, file.items)
    BY <2>1, <2>2, PartWithin
  <2>4. /\ OfCalls(<<>>, Begun) /\ IdsIn(<<>>) \subseteq IdsIn(file.items)
        /\ Distinct(file.items) => Distinct(<<>>)
    BY <2>2, <2>3, WithinKeeps DEF Theirs
  <2>5. Theirs'
    BY <1>1, <1>2, <2>1, <2>4 DEF Theirs
  <2>6. Apart => Apart'
    BY <1>1, <1>2, <2>1, <2>4 DEF Apart
  <2>7. ASSUME InTable PROVE InTable'
    <3>1. \A b : Tabled(<<>>, b)
      BY DEF Tabled, Ordered, Listed
    <3> QED BY <1>1, <1>2, <2>1, <2>7, <3>1 DEF InTable, Tabled
  <2> QED BY <2>5, <2>6, <2>7
<1>7. faults' = 0 /\ ~PanelWriteEnd => faults = 0
  BY DEF Panel, PanelLoad, PanelTruncate, PanelClear
<1> QED BY <1>3, <1>4, <1>5, <1>6, <1>7 DEF Panel

LEMMA CrashItems ==
    ASSUME Shape, Theirs, Crash
    PROVE  Theirs' /\ (Apart => Apart')
<1>1. \A c \in Call : c = <<Msg(c), c[2]>> /\ c[2] \in Index
  BY DEF Call, Msg, Index
<1>2. AtWork' = {} /\ Begun \subseteq Begun' /\ panel'.pc = "idle"
  <2>1. \A c \in Call : pc'[c] \in {"new", "ok", "failed"}
    BY <1>1 DEF Crash, Shape
  <2>2. \A c \in Begun : pc'[c] \in {"ok", "failed"}
    BY <1>1 DEF Crash, Begun
  <2> QED BY <2>1, <2>2 DEF AtWork, Begun, Crash, Idle
<1>3. PartOf(file'.items, file.items)
  <2>1. CASE file.is = "cut"
    BY <2>1, RemainsPart DEF Crash
  <2>2. CASE file.is # "cut"
    BY <2>2 DEF Crash, PartOf
  <2> QED BY <2>1, <2>2
<1> QED BY <1>2, <1>3, QuietItems

----------------------------------------------------------------------------
\* All steps together.

\* The table of batches, whatever happens to the file.
TableInv == faults \in Nat /\ Table(batches)

LEMMA EmptyTable == Table(NoBatches)
BY DEF Table, NoBatches

LEMMA TableKept ==
    ASSUME NEW o \in Op, NEW c \in Call, NEW l, NEW b, Table(b)
    PROVE  Table(Batched(o, c, l, b))
<1>1. CASE Places(o, l)
  <2>1. o.kind \in {"add", "update"}
    BY <1>1 DEF Places
  <2>2. NewId(o, c) \in Named \cup Call
    BY <2>1, New
  <2> QED BY <1>1, <2>2, Remembers DEF Batched
<1>2. CASE ~Places(o, l)
  BY <1>2 DEF Batched
<1> QED BY <1>1, <1>2

LEMMA TableStep == CInv /\ TableInv /\ [Next]_vars => TableInv'
<1> SUFFICES ASSUME CInv, TableInv, [Next]_vars PROVE TableInv'
  OBVIOUS
<1>1. ASSUME NEW c \in Call, WriteEnd(c) \/ Fails(c) PROVE TableInv'
  <2>1. op[c] \in Op
    <3>1. c \in AtWork
      BY <1>1 DEF WriteEnd, Fails, AtWork
    <3> QED BY <3>1, CanvasUseAssumption DEF CInv, Shape, CanvasUseAssumption
  <2>2. Table(Batched(op[c], c, got[c], batches))
    BY <2>1, TableKept DEF TableInv
  <2> QED BY <1>1, <2>2 DEF WriteEnd, Fails, TableInv
<1>2. ASSUME NEW c \in Call, (\E o \in Ops : Load(c, o)) \/ NoMatch(c) \/ Truncate(c) PROVE TableInv'
  BY <1>2 DEF Load, NoMatch, Truncate, TableInv
<1>3. CASE Panel
  BY <1>3 DEF Panel, PanelLoad, PanelTruncate, PanelWriteEnd, PanelClear, TableInv
<1>4. CASE Crash
  BY <1>4, EmptyTable DEF Crash, TableInv
<1>5. CASE UNCHANGED vars
  BY <1>5 DEF vars, TableInv
<1> QED BY <1>1, <1>2, <1>3, <1>4, <1>5 DEF Next, Tool

\* What a step does to the items, unless the panel writes under a tool's hands.
LEMMA ItemsStep ==
    ASSUME CInv, TableInv, Theirs, Next, ~raced'
    PROVE  /\ Theirs'
           /\ NoRepeats /\ Apart => Apart'
           /\ (faults = 0 => InTable) /\ faults' = 0 => InTable'
<1>1. Shape /\ Exclusive /\ Undisturbed /\ Table(batches) /\ faults \in Nat
  BY RacedStays DEF CInv, TableInv
<1>2. ASSUME NEW c \in Call, NEW o \in Ops, Load(c, o)
      PROVE  Theirs' /\ (Apart => Apart') /\ (InTable => InTable') /\ faults' = faults
  <2>1. faults' = faults
    BY <1>2 DEF Load
  <2> QED BY <1>1, <1>2, <2>1, LoadItems
<1>3. ASSUME NEW c \in Call, NoMatch(c)
      PROVE  Theirs' /\ (Apart => Apart') /\ (InTable => InTable') /\ faults' = faults
  <2>1. faults' = faults
    BY <1>3 DEF NoMatch
  <2> QED BY <1>1, <1>3, <2>1, NoMatchItems
<1>4. ASSUME NEW c \in Call, Truncate(c)
      PROVE  Theirs' /\ (NoRepeats /\ Apart => Apart') /\ (InTable => InTable') /\ faults' = faults
  <2>1. faults' = faults
    BY <1>4 DEF Truncate
  <2> QED BY <1>1, <1>4, <2>1, TruncateItems
<1>5. ASSUME NEW c \in Call, WriteEnd(c)
      PROVE  Theirs' /\ (Apart => Apart') /\ (InTable => InTable') /\ faults' = faults
  <2>1. faults' = faults
    BY <1>5 DEF WriteEnd
  <2> QED BY <1>1, <1>5, <2>1, WriteEndItems
<1>6. ASSUME NEW c \in Call, Fails(c) PROVE Theirs' /\ (Apart => Apart') /\ faults' # 0
  <2>1. faults' # 0
    BY <1>1, <1>6 DEF Fails
  <2> QED BY <1>1, <1>6, <2>1, FailsItems
<1>7. CASE Panel
  BY <1>1, <1>7, PanelItems
<1>8. ASSUME Crash PROVE Theirs' /\ (Apart => Apart') /\ faults' # 0
  <2>1. faults' # 0
    BY <1>1, <1>8 DEF Crash
  <2> QED BY <1>1, <1>8, <2>1, CrashItems
<1> QED BY <1>2, <1>3, <1>4, <1>5, <1>6, <1>7, <1>8 DEF Next, Tool

\* Nothing is anywhere at the start.
LEMMA ItemsInit == Init => TableInv /\ Theirs /\ Apart /\ InTable
<1> SUFFICES ASSUME Init PROVE TableInv /\ Theirs /\ Apart /\ InTable
  OBVIOUS
<1>1. /\ AtWork = {} /\ Writing = {} /\ panel.pc = "idle" /\ file.items = <<>>
      /\ batches = NoBatches /\ faults = 0
  BY DEF Init, AtWork, Writing, Idle, Empty
<1>2. TableInv
  BY <1>1, EmptyTable DEF TableInv
<1>3. OfCalls(<<>>, Begun) /\ IdsIn(<<>>) = {} /\ Distinct(<<>>)
  BY DEF OfCalls, IdsIn, Distinct
<1>4. Tabled(<<>>, batches)
  BY DEF Tabled, Ordered, Listed
<1>5. Once(NoBatches, loose)
  BY DEF Once, NoBatches
<1> QED BY <1>1, <1>2, <1>3, <1>4, <1>5 DEF Theirs, Apart, InTable

\* The items, once and for all.
ItemsInv == TableInv /\ (~raced => Theirs /\ (faults = 0 => InTable))

LEMMA Unmoved == UNCHANGED vars /\ ~raced => (Theirs => Theirs') /\ (Apart => Apart') /\ (InTable => InTable')
<1> SUFFICES ASSUME UNCHANGED vars
             PROVE  (Theirs => Theirs') /\ (Apart => Apart') /\ (InTable => InTable')
  OBVIOUS
<1>1. AtWork' = AtWork /\ Writing' = Writing /\ Begun' = Begun /\ UNCHANGED <<file, op, got, batches, panel, loose>>
  BY DEF vars, AtWork, Writing, Begun
<1> QED BY ONLY <1>1 DEF Theirs, Apart, InTable, Tabled

LEMMA ItemsInvStep == CInv /\ ItemsInv /\ [Next]_vars => ItemsInv'
<1> SUFFICES ASSUME CInv, ItemsInv, [Next]_vars PROVE ItemsInv'
  OBVIOUS
<1>1. TableInv'
  BY TableStep DEF ItemsInv
<1>2. ASSUME Next, ~raced' PROVE Theirs' /\ (faults' = 0 => InTable')
  <2>1. ~raced
    BY <1>2, RacedStays
  <2> QED BY <1>2, <2>1, ItemsStep DEF ItemsInv
<1>3. CASE UNCHANGED vars
  <2>1. raced' = raced /\ faults' = faults
    BY <1>3 DEF vars
  <2> QED BY <1>1, <1>3, <2>1, Unmoved DEF ItemsInv
<1> QED BY <1>1, <1>2, <1>3 DEF ItemsInv

LEMMA ItemsInvInit == Init => ItemsInv
BY ItemsInit DEF ItemsInv

THEOREM ItemsInvHolds == Spec => []ItemsInv
BY ItemsInvInit, ItemsInvStep, CInvHolds, PTL DEF Spec

\* gh #218: the items that one message's calls place are in the order of its calls,
\* whatever is added, updated, removed and reordered by however many other calls meanwhile.
THEOREM BatchesInOrder == Spec => []BatchOrder
<1>1. CInv /\ ItemsInv => BatchOrder
  <2> SUFFICES ASSUME CInv, ItemsInv, ~raced, faults = 0 PROVE Ordered(file.items, loose)
    BY DEF BatchOrder, Ordered
  <2>1. InTable
    BY DEF ItemsInv
  <2>2. CASE Writing = {}
    BY <2>1, <2>2 DEF InTable, Tabled
  <2>3. CASE Writing # {}
    BY <2>1, <2>3 DEF InTable, Tabled
  <2> QED BY <2>2, <2>3
<1> QED BY <1>1, CInvHolds, ItemsInvHolds, PTL

\* Ids name one item each, as long as no reorder is given an id twice.
THEOREM IdsNameOneItem == ASSUME NoRepeats PROVE Spec => []UniqueIds
<1> DEFINE IdsInv == ~raced => Apart
<1>1. Init => IdsInv
  BY ItemsInit
<1>2. CInv /\ ItemsInv /\ IdsInv /\ [Next]_vars => IdsInv'
  <2> SUFFICES ASSUME CInv, ItemsInv, IdsInv, [Next]_vars, ~raced' PROVE Apart'
    OBVIOUS
  <2>1. CASE Next
    <3>1. ~raced
      BY <2>1, RacedStays
    <3> QED BY <2>1, <3>1, NoRepeats, ItemsStep DEF ItemsInv
  <2>2. CASE UNCHANGED vars
    <3>1. ~raced
      BY <2>2 DEF vars
    <3> QED BY <2>2, <3>1, Unmoved
  <2> QED BY <2>1, <2>2
<1>3. IdsInv => UniqueIds
  BY DEF Apart, Distinct, UniqueIds
<1> HIDE DEF IdsInv
<1> QED BY <1>1, <1>2, <1>3, CInvHolds, ItemsInvHolds, PTL DEF Spec
=============================================================================
