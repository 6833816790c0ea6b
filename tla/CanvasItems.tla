---------------------------- MODULE CanvasItems ----------------------------
(***************************************************************************)
(* The canvas as a list of items, and what the tools of                    *)
(* langstage/tools.py and the file format of langstage/canvas.py make of   *)
(* it.  An item is its id and the call that made it; the rest of its       *)
(* content matters in one respect only: whether the text written for it    *)
(* is read back as an item.                                                *)
(***************************************************************************)
EXTENDS Integers, FiniteSets, SequencesExt

CONSTANTS
    Message,    \* the messages of a model that request canvas calls
    Size,       \* how many calls each of them requests, run in parallel
    Named,      \* the item ids a call may name
    Limit,      \* _CANVAS_BATCH_LIMIT
    Generated,       \* no item_id given: a fresh one is generated
    Fresh,      \* the id given to the file's own header each time it is read as an item
    Header,     \* the id of that item once a tool has written it back
    NoCall      \* the header item was made by no call

\* A call is its message and its index among the tool calls of that message.
Call  == Message \X (1..Size)
Index == 1..Size

\* The id generated for a call's item is written as the call itself.
ASSUME CanvasAssumption ==
    /\ Size \in Nat \ {0} /\ Limit \in Nat \ {0}
    /\ Fresh # Header /\ NoCall \notin {Generated, Fresh, Header} /\ Generated \notin {Fresh, Header}
    /\ {Generated, Fresh, Header, NoCall} \cap Named = {}
    /\ ({Generated, Fresh, Header, NoCall} \cup Named) \cap Call = {}

Msg(c) == c[1]

Id    == Named \cup Call \cup {Fresh, Header}
Item  == [id : Id, by : Call \cup {NoCall}, kept : BOOLEAN]

\* What a call may be asked to do.  kept is FALSE for content whose text does not
\* parse back: blank markdown, a figure without its file, a frame without a table.
Op == [kind : {"add"}, id : Named \cup {Generated}, kept : BOOLEAN]
      \cup [kind : {"update"}, id : Named, kept : BOOLEAN]
      \cup [kind : {"remove"}, id : Named \cup {Header}]
      \cup [kind : {"reorder"}, ids : Seq(Named \cup {Header})]

IdsIn(l)  == {l[n].id : n \in DOMAIN l}

\* The elements of s at the positions in N, in their order in s.
PickedUpTo(s, N) ==
    LET f[n \in 0..Len(s)] == IF n = 0 THEN <<>>
                              ELSE IF n \in N THEN Append(f[n - 1], s[n])
                              ELSE f[n - 1]
    IN f
Picked(s, N) == PickedUpTo(s, N)[Len(s)]

Without(l, i) == Picked(l, {n \in DOMAIN l : l[n].id # i})

----------------------------------------------------------------------------
\* The file format.

\* export_canvas_to_markdown writes what it is given; the header item gets its id here.
Export(l) == [n \in DOMAIN l |-> IF l[n].id = Fresh THEN [l[n] EXCEPT !.id = Header] ELSE l[n]]

\* A file without item markers goes through the legacy parser, which takes the
\* header text itself for a markdown item.
HeaderItem == [id |-> Fresh, by |-> NoCall, kept |-> TRUE]

\* load_canvas_from_markdown of a file that holds the export of l.
Reread(l) == IF l = <<>> THEN <<HeaderItem>> ELSE Picked(l, {n \in DOMAIN l : l[n].kept})

\* The file cut short: no text, the header alone, or the first items.
CutReads(l) == {<<>>} \cup {Reread(SubSeq(l, 1, n)) : n \in 0..Len(l)}

----------------------------------------------------------------------------
\* _CANVAS_BATCHES: the messages remembered, oldest first, and for each the id
\* placed by each of its calls.

NoBatches == [order |-> <<>>, placed |-> [m \in Message |-> [k \in Index |-> NoCall]]]

\* Mutant: siblings listed before the call count as later ones.
LaterReversed(b, c) == {b.placed[Msg(c)][k] : k \in {i \in Index : i < c[2]}} \ {NoCall}

PlacedBy(b, m) == {b.placed[m][k] : k \in Index} \ {NoCall}

\* The ids of the siblings that the message listed after this call.
Later(b, c) == {b.placed[Msg(c)][k] : k \in {i \in Index : i > c[2]}} \ {NoCall}

\* A message that requests one call has no position: its item goes to the end.
Spot(l, b, c) ==
    IF Size = 1 THEN Len(l) + 1
    ELSE LET hits == {n \in DOMAIN l : l[n].id \in Later(b, c)}
         IN IF hits = {} THEN Len(l) + 1 ELSE Min(hits)

Place(l, it, b, c) == InsertAt(l, Spot(l, b, c), it)

\* The oldest message is forgotten when there are too many.
Evicted(b, c) ==
    IF Msg(c) \in ToSet(b.order) \/ Len(b.order) < Limit THEN {} ELSE {Head(b.order)}

\* placed[index] = parsed.get("id")
Remember(b, c, i) ==
    IF Size = 1 THEN b
    ELSE LET grown == IF Msg(c) \in ToSet(b.order) THEN b.order ELSE Append(b.order, Msg(c))
             kept  == [m \in Message |-> IF m \in Evicted(b, c) THEN NoBatches.placed[m]
                                         ELSE b.placed[m]]
         IN [order  |-> IF Evicted(b, c) = {} THEN grown ELSE Tail(grown),
             placed |-> [kept EXCEPT ![Msg(c)][c[2]] = i]]

----------------------------------------------------------------------------
\* The tools, on a list l they have loaded.

NewId(o, c) == IF o.id = Generated THEN c ELSE o.id
NewItem(o, c) == [id |-> NewId(o, c), by |-> c, kept |-> o.kept]

Matches(o, l) == {n \in DOMAIN l : l[n].id = o.id}

\* remove_canvas_item of an unknown id and reorder_canvas with no known id write nothing.
Writes(o, l) ==
    CASE o.kind = "remove"  -> Matches(o, l) # {}
      [] o.kind = "reorder" -> ToSet(o.ids) \cap IdsIn(l) # {}
      [] OTHER              -> TRUE

\* add_to_canvas, and update_canvas_item of an unknown id, place a new item.
Places(o, l) == o.kind = "add" \/ (o.kind = "update" /\ Matches(o, l) = {})

\* reorder_canvas: by_id keeps the last item of an id; unknown ids are ignored.
Reordered(ids, l) ==
    LET known == Picked(ids, {n \in DOMAIN ids : ids[n] \in IdsIn(l)})
    IN [n \in DOMAIN known |-> l[Max({k \in DOMAIN l : l[k].id = known[n]})]]

\* Mutant: an item with the same id is not taken out first.
ResultTwice(o, c, l, b) ==
    CASE o.kind = "add"     -> Place(l, NewItem(o, c), b, c)
      [] o.kind = "update"  -> IF Places(o, l) THEN Place(l, NewItem(o, c), b, c)
                               ELSE [l EXCEPT ![Min(Matches(o, l))] = NewItem(o, c)]
      [] o.kind = "remove"  -> Without(l, o.id)
      [] o.kind = "reorder" -> Reordered(o.ids, l)

\* The list each tool writes back.
Result(o, c, l, b) ==
    CASE o.kind = "add"     -> Place(Without(l, o.id), NewItem(o, c), b, c)
      [] o.kind = "update"  -> IF Places(o, l) THEN Place(l, NewItem(o, c), b, c)
                               ELSE [l EXCEPT ![Min(Matches(o, l))] = NewItem(o, c)]
      [] o.kind = "remove"  -> Without(l, o.id)
      [] o.kind = "reorder" -> Reordered(o.ids, l)

\* What the table of batches is once the call has placed its item.
Batched(o, c, l, b) == IF Places(o, l) THEN Remember(b, c, NewId(o, c)) ELSE b
=============================================================================
