------------------------------ MODULE Locations ------------------------------
(***************************************************************************)
(* Where parse results are (internal/matcher: encloseChild, and what the   *)
(* matchers record of the current token). Results are made as matching     *)
(* makes them: leaves consume tokens, and a composite begins at the token  *)
(* its first child began at and encloses its children one by one.          *)
(*                                                                         *)
(* A token is where it starts and how long its text is; the last one is    *)
(* the end of input. What is backtracked out of leaves no result and is    *)
(* left out.                                                               *)
(***************************************************************************)
EXTENDS Naturals, SequencesExt, FiniteSetsExt

CONSTANTS Scripts,    \* the tokens of a text
          MaxResults

VARIABLES tokens,
          pos,    \* the tokens consumed
          stack,  \* results that are nobody's children yet
          made    \* results so far
vars == <<tokens, pos, stack, made>>

Eoi == Len(tokens)

\* A result: its location, the tokens [from, to) it consumed, and the
\* locations of its children.
Nowhere == [has |-> FALSE, offset |-> 0, length |-> 0]
Place(offset, length) == [has |-> TRUE, offset |-> offset, length |-> length]
Result(loc, from, to, kids) == [loc |-> loc, from |-> from, to |-> to, kids |-> kids]
End(loc) == loc.offset + loc.length

\* currentOffset at a position: the next token, of no length.
CurrentOffset(k) == IF k < Len(tokens) THEN Place(tokens[k + 1].start, 0) ELSE Nowhere

\* encloseChild: the extent grows, the offset stays.
EncloseChild(self, child) ==
    IF ~self.has \/ ~child.has \/ End(child) <= End(self) THEN self
    ELSE [self EXCEPT !.length = End(child) - self.offset]

-----------------------------------------------------------------------------
Init == tokens \in Scripts /\ pos = 0 /\ stack = <<>> /\ made = 0

Push(r) == stack' = Append(stack, r) /\ made' = made + 1 /\ UNCHANGED tokens

\* Only literals are joined, and no literal is recorded early.
Joins(n) == \A k \in (pos + 1)..(pos + n - 1) : tokens[k].start + tokens[k].len <= tokens[k + 1].start

\* Keywords, identifiers, numbers and operators, one token each; strings and
\* their continuations, whose extent is to the end of the last one.
Leaf ==
    \E n \in 1..(Eoi - 1 - pos) :
        /\ made < MaxResults /\ Joins(n)
        /\ pos' = pos + n
        /\ LET first == tokens[pos + 1]
               last  == tokens[pos + n]
           IN  Push(Result(Place(first.start, (last.start + last.len) - first.start), pos, pos + n, {}))

\* endOfInputMatcher: the sentinel is consumed, its result is nowhere.
EndOfInput ==
    /\ made < MaxResults /\ pos = Eoi - 1
    /\ pos' = Eoi
    /\ Push(Result(Nowhere, pos, pos', {}))

\* optionalMatcher without a match.
NotMatched == made < MaxResults /\ Push(Result(Nowhere, pos, pos, {})) /\ UNCHANGED pos

\* Mutant: the offset is taken after the children are matched.
CompositeLate ==
    /\ made < MaxResults
    /\ \E n \in 1..Len(stack) :
          LET kids == SubSeq(stack, Len(stack) - n + 1, Len(stack))
              Grow(loc, kid) == EncloseChild(loc, kid.loc)
          IN  /\ stack' = Append(SubSeq(stack, 1, Len(stack) - n),
                                 Result(FoldLeft(Grow, CurrentOffset(pos), kids), kids[1].from, pos,
                                        {kids[k].loc : k \in 1..n}))
              /\ made' = made + 1 /\ UNCHANGED <<tokens, pos>>

\* listMatcher and repeatMatcher; choiceMatcher and optionalMatcher have one
\* child.
Composite ==
    /\ made < MaxResults
    /\ \E n \in 1..Len(stack) :
          LET kids == SubSeq(stack, Len(stack) - n + 1, Len(stack))
              Grow(loc, kid) == EncloseChild(loc, kid.loc)
          IN  /\ stack' = Append(SubSeq(stack, 1, Len(stack) - n),
                                 Result(FoldLeft(Grow, CurrentOffset(kids[1].from), kids), kids[1].from, pos,
                                        {kids[k].loc : k \in 1..n}))
              /\ made' = made + 1 /\ UNCHANGED <<tokens, pos>>

Next == Leaf \/ EndOfInput \/ NotMatched \/ Composite
Spec == Init /\ [][Next]_vars

-----------------------------------------------------------------------------
(* Correctness. *)
Least(a, b) == IF a < b THEN a ELSE b
AllResults == {stack[k] : k \in 1..Len(stack)}
\* The sentinel has no text and no location.
Texts(r) == (r.from + 1)..(IF r.to = Eoi THEN r.to - 1 ELSE r.to)

-----------------------------------------------------------------------------
\* The type invariant; results are next to each other and begin at the
\* token they began at, unless they are nowhere.
TypeOK ==
    /\ pos \in 0..Len(tokens) /\ made \in 0..MaxResults
    /\ \A k \in 1..Len(stack) :
          /\ stack[k].from = (IF k = 1 THEN 0 ELSE stack[k - 1].to) /\ stack[k].to \in stack[k].from..pos
          /\ stack[k].loc.has => stack[k].loc = Place(tokens[stack[k].from + 1].start, stack[k].loc.length)

\* "grows this node's location so it encloses the child's location"
\* (result.go): though the offset never moves, every child is within its
\* parent, also where a token starts no later than the one before.
EnclosesChildren ==
    \A r \in AllResults : \A kid \in r.kids :
        r.loc.has /\ kid.has => r.loc.offset <= kid.offset /\ End(kid) <= End(r.loc)

\* A result is exactly as far as the texts it consumed, or, because of a
\* composite that matched nothing at its end, as the start of the next
\* token: never into a text that it did not consume, unless that is
\* recorded early.
EndsAtTextOrNext ==
    \A r \in AllResults : r.loc.has /\ Texts(r) # {} =>
        LET texts == Max({tokens[k].start + tokens[k].len : k \in Texts(r)})
        IN  End(r.loc) \in {texts} \cup {Max({texts, tokens[Least(r.to + 1, Eoi)].start})}
=============================================================================
