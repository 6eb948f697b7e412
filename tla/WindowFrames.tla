---------------------------- MODULE WindowFrames ----------------------------
(***************************************************************************)
(* Window specifications (transformOver, applyNamedWindow,                 *)
(* transformWindowFrameDefinition and the frame clause,                    *)
(* parser/transform_func): the windows of a WINDOW clause, each fresh or   *)
(* over an earlier one, and the OVER that uses them.  Which windows a name *)
(* can mean is TransformContext's part: here a window is known by its      *)
(* place in the clause, and 0 stands for no base.                          *)
(*                                                                         *)
(* The contents of a definition are its partition and its order, each      *)
(* written or not (order "all" is ORDER BY ALL), and its frame clause or   *)
(* NoFrame.                                                                *)
(***************************************************************************)
EXTENDS Naturals, Sequences

CONSTANTS Contents,   \* the contents a definition may have
          MaxWindows  \* the most definitions, OVER's own one included

Kinds == <<"UNBOUNDED_PRECEDING", "EXPR_PRECEDING", "CURRENT_ROW", "EXPR_FOLLOWING", "UNBOUNDED_FOLLOWING">>
BoundKinds == {Kinds[k] : k \in 1..Len(Kinds)}
Framings == {"RANGE", "ROWS", "GROUPS"}
NoFrame == [framing |-> "none"]

\* A frame clause has a framing, one bound or two, and may exclude rows.
ASSUME ContentsAssumption ==
    /\ MaxWindows \in Nat \ {0}
    /\ \A c \in Contents :
          /\ c.partition \in BOOLEAN /\ c.order \in {"none", "keys", "all"}
          /\ c.frame # NoFrame => /\ c.frame.framing \in Framings /\ c.frame.start \in BoundKinds
                                  /\ c.frame.end \in BoundKinds \cup {"single"}

\* A boundary; the unbounded ones have no framing.
Bound(kind, framing) ==
    [kind |-> kind, framing |-> IF kind \in {"UNBOUNDED_PRECEDING", "UNBOUNDED_FOLLOWING"} THEN "none" ELSE framing]

DefaultFrame == [start |-> Bound("UNBOUNDED_PRECEDING", "RANGE"), end |-> Bound("CURRENT_ROW", "RANGE"), exclude |-> "noothers"]

\* Partition and order are named by the definition they were written in, 0
\* if they are absent.
EmptyWindow == [partition |-> 0, order |-> 0, frame |-> DefaultFrame]

-----------------------------------------------------------------------------
\* The bounds transformFrameClause refuses.
Backwards(start, end) ==
    \/ start = "CURRENT_ROW" /\ end = "EXPR_PRECEDING"
    \/ start = "EXPR_FOLLOWING" /\ end \in {"CURRENT_ROW", "EXPR_PRECEDING"}
    \/ start = "UNBOUNDED_FOLLOWING" \/ end = "UNBOUNDED_PRECEDING"

\* A frame of one bound ends at the current row.
EndOf(clause) == IF clause.end = "single" THEN "CURRENT_ROW" ELSE clause.end

\* transformFrameClause, transformFrameBound; absent, the frame is the
\* default one, and so is what is excluded.
Frame(clause) ==
    IF clause = NoFrame THEN DefaultFrame
    ELSE [start |-> Bound(clause.start, clause.framing), end |-> Bound(EndOf(clause), clause.framing),
          exclude |-> IF clause.exclude = "none" THEN "noothers" ELSE clause.exclude]

\* fillWindowContents, for the definition at this place.
FillRefused(c) == c.order = "all" \/ (c.frame # NoFrame /\ Backwards(c.frame.start, EndOf(c.frame)))
Fill(place, c) ==
    [partition |-> IF c.partition THEN place ELSE 0, order |-> IF c.order = "keys" THEN place ELSE 0, frame |-> Frame(c.frame)]

\* windowHasFrameClause.
HasFrame(w) == w.frame.start # DefaultFrame.start \/ w.frame.end # DefaultFrame.end

\* Mutant: the base's order stands behind the extension's.
ExtendRefusedOrder(base, c) ==
    HasFrame(base) \/ FillRefused(c) \/ (base.partition # 0 /\ c.partition)

\* A window over a base may not repeat what the base has.
ExtendRefused(base, c) ==
    \/ HasFrame(base) \/ FillRefused(c)
    \/ base.order # 0 /\ c.order = "keys"
    \/ base.partition # 0 /\ c.partition

\* transformWindowFrameDefinition over a base.
Extend(base, place, c) ==
    LET over == Fill(place, c)
    IN  [partition |-> IF base.partition = 0 THEN over.partition ELSE base.partition,
         order |-> IF base.order = 0 THEN over.order ELSE base.order, frame |-> over.frame]

-----------------------------------------------------------------------------
VARIABLES windows,  \* the windows of the clause, by their place
          written,  \* the definitions they were written as
          over,     \* the window of the function call
          stage     \* "clause", "done" or "refused"
windowVars == <<windows, written, over, stage>>

InitWindows == windows = <<>> /\ written = <<>> /\ over = EmptyWindow /\ stage = "clause"

RefuseWindow == stage' = "refused" /\ UNCHANGED <<windows, over>>

\* A definition, over the window at place base or over none; reserved says
\* that the base is called partition, range, rows or groups, which are
\* refused before they are looked up.
Refused(base, reserved, c) ==
    IF base = 0 THEN FillRefused(c) ELSE reserved \/ ExtendRefused(windows[base], c)
Definition(base, place, c) == IF base = 0 THEN Fill(place, c) ELSE Extend(windows[base], place, c)

\* A window of the WINDOW clause.
Define(base, reserved, c) ==
    /\ stage = "clause" /\ Len(windows) + 1 < MaxWindows
    /\ written' = Append(written, [base |-> base, contents |-> c])
    /\ IF Refused(base, reserved, c) THEN RefuseWindow
       ELSE /\ windows' = Append(windows, Definition(base, Len(windows) + 1, c))
            /\ UNCHANGED <<over, stage>>

\* OVER (...).
OverDefinition(base, reserved, c) ==
    /\ stage = "clause"
    /\ written' = Append(written, [base |-> base, contents |-> c])
    /\ IF Refused(base, reserved, c) THEN RefuseWindow
       ELSE over' = Definition(base, Len(windows) + 1, c) /\ stage' = "done" /\ UNCHANGED windows

\* OVER name, a copy of the window.
OverName(name) ==
    /\ stage = "clause"
    /\ over' = windows[name] /\ stage' = "done"
    /\ UNCHANGED <<windows, written>>

\* OVER (name), a copy too, but not of a window with a frame.
OverParens(name) ==
    /\ stage = "clause"
    /\ IF HasFrame(windows[name]) THEN RefuseWindow
       ELSE over' = windows[name] /\ stage' = "done" /\ UNCHANGED windows
    /\ UNCHANGED written

NextWindows ==
    \/ \E base \in 0..Len(windows), reserved \in BOOLEAN, c \in Contents :
          Define(base, reserved, c) \/ OverDefinition(base, reserved, c)
    \/ \E name \in 1..Len(windows) : OverName(name) \/ OverParens(name)
SpecWindows == InitWindows /\ [][NextWindows]_windowVars

-----------------------------------------------------------------------------
(* Correctness. *)
Rank(b) == CHOOSE k \in 1..Len(Kinds) : Kinds[k] = b.kind
Accepted == {windows[k] : k \in 1..Len(windows)} \cup (IF stage = "done" THEN {over} ELSE {})

\* The definitions a window is made of, from its own to the last base: the
\* least set with its place and the base of each definition in it.
Bases(place) ==
    {k \in 1..Len(written) : \A S \in SUBSET (1..Len(written)) :
        place \in S \cup {0} /\ (\A j \in S : written[j].base \in S \cup {0}) => k \in S}

\* The definition the call's window was written as, 0 if it is a copy.
Own == IF stage = "done" /\ Len(written) > Len(windows) THEN Len(written) ELSE 0
Defined == {<<k, windows[k]>> : k \in 1..Len(windows)} \cup (IF Own = 0 THEN {} ELSE {<<Own, over>>})

-----------------------------------------------------------------------------
\* The type invariant; partition and order belong to a definition,
\* and every frame has two bounds.
FramesTypeOK ==
    /\ Len(windows) < MaxWindows
    /\ \A w \in Accepted :
          /\ {w.partition, w.order} \subseteq 0..Len(written)
          /\ {w.frame.start.kind, w.frame.end.kind} \subseteq BoundKinds
          /\ {w.frame.start.framing, w.frame.end.framing} \subseteq Framings \cup {"none"}

\* No window has a frame that runs backwards, starts behind the partition or
\* ends before it, however it was put together.
FramesForward ==
    \A w \in Accepted :
        /\ Rank(w.frame.start) <= Rank(w.frame.end)
        /\ w.frame.start.kind # "UNBOUNDED_FOLLOWING" /\ w.frame.end.kind # "UNBOUNDED_PRECEDING"

\* And nothing else about the bounds is refused: a first definition without
\* ORDER BY ALL is refused for a frame that runs backwards only.
ForwardAccepted ==
    stage = "refused" /\ Len(written) = 1 /\ windows = <<>> =>
        LET c == written[1].contents
        IN  \/ c.order = "all"
            \/ /\ c.frame # NoFrame
               /\ LET f == Frame(c.frame)
                  IN  \/ Rank(f.start) > Rank(f.end) \/ Rank(f.end) = 1 \/ Rank(f.start) = Len(Kinds)

\* Of all the definitions a window goes back to, at most one has a partition
\* and at most one an order, and the window has those.
NothingOverridden ==
    \A d \in Defined :
        LET parts  == {k \in Bases(d[1]) : written[k].contents.partition}
            orders == {k \in Bases(d[1]) : written[k].contents.order = "keys"}
        IN  /\ parts = (IF d[2].partition = 0 THEN {} ELSE {d[2].partition})
            /\ orders = (IF d[2].order = 0 THEN {} ELSE {d[2].order})

\* A window has the frame of its own definition, and the definitions under
\* it have the default bounds.
FrameIsOwn ==
    \A d \in Defined :
        /\ d[2].frame = Frame(written[d[1]].contents.frame)
        /\ \A k \in Bases(d[1]) \ {d[1]} :
              [windows[k].frame EXCEPT !.exclude = "noothers"] = DefaultFrame

\* Window definitions over others: frames run forwards and are the window's
\* own, and of all the definitions under it at most one has a partition and
\* one an order, which are the window's.
WindowsNeverOverridden == FramesTypeOK /\ FramesForward /\ ForwardAccepted /\ NothingOverridden /\ FrameIsOwn
=============================================================================
