-------------------------------- MODULE Depth --------------------------------
(***************************************************************************)
(* The limit on the depth of expressions (parser/transform_depth): a pass  *)
(* over a statement's parse tree adds up the weights of the rules on every *)
(* path, and the two folds over prefix operators check their own length.   *)
(*                                                                         *)
(* A result is [shape, rule, kids]; rule is "nesting" or "chain", the name *)
(* of a rule with a fold ("NotExpression", "TildeExpression", both         *)
(* chains), or anything else.                                              *)
(***************************************************************************)
EXTENDS Naturals, SequencesExt, FiniteSetsExt

CONSTANTS Trees, \* the parse trees of the statements
          Limit  \* maxExpressionDepth

VARIABLES tree,
          folds,  \* the prefix operators still to be folded: their rule and number
          outcome \* "", or "frames", "fold" (which refused the statement), or "accepted"
vars == <<tree, folds, outcome>>

Folded == {"NotExpression", "TildeExpression"}
Chains == {"chain"} \cup Folded


-----------------------------------------------------------------------------
\* chainLinks: the elements of the repetitions directly in a rule's match.
RECURSIVE ChainLinks(_)
ChainLinks(r) ==
    CASE r.shape = "repeat"   -> Len(r.kids)
      [] r.shape = "optional" -> IF r.kids = <<>> THEN 0 ELSE ChainLinks(r.kids[1])
      [] r.shape = "list"     ->
            LET Links(c) == IF c.shape \in {"repeat", "optional"} THEN ChainLinks(c) ELSE 0
            IN  MapThenFoldSet(+, 0, LAMBDA k : Links(r.kids[k]), LAMBDA S : CHOOSE k \in S : TRUE, 1..Len(r.kids))
      [] OTHER                -> 0

\* Mutant: a repetition that carries its rule's name is a frame as well.
ChargeAny(r) ==
    CASE r.rule = "nesting" -> 1
      [] r.rule \in Chains  -> ChainLinks(r)
      [] OTHER              -> 0

\* Only a rule's own list is a frame.
Charge(r) ==
    CASE r.shape # "list"   -> 0
      [] r.rule = "nesting" -> 1
      [] r.rule \in Chains  -> ChainLinks(r)
      [] OTHER              -> 0

\* maxDepthWeight, from the weight of the ancestors; it goes no further
\* when that is over the limit.
RECURSIVE MaxDepthWeight(_, _)
MaxDepthWeight(r, acc) ==
    LET here == acc + Charge(r)
    IN  IF acc > Limit THEN acc
        ELSE Max({here} \cup {MaxDepthWeight(r.kids[k], here) : k \in 1..Len(r.kids)})

\* The folds of a tree, inner ones first.
RECURSIVE FoldsOf(_)
FoldsOf(r) ==
    FoldLeft(LAMBDA acc, kid : acc \o FoldsOf(kid), <<>>, r.kids)
    \o IF r.shape = "list" /\ r.rule \in Folded THEN << [rule |-> r.rule, links |-> ChainLinks(r)] >> ELSE <<>>

-----------------------------------------------------------------------------
Init == tree \in Trees /\ folds = <<>> /\ outcome = "check"

\* checkExpressionDepth.
CheckExpressionDepth ==
    /\ outcome = "check"
    /\ IF MaxDepthWeight(tree, 0) > Limit THEN outcome' = "frames" /\ UNCHANGED folds
       ELSE outcome' = "fold next" /\ folds' = FoldsOf(tree)
    /\ UNCHANGED tree

\* applyNotKeywords and transformTilde: stackCheck.
StackCheck ==
    /\ outcome = "fold next" /\ folds # <<>>
    /\ IF folds[1].links >= Limit THEN outcome' = "fold" /\ UNCHANGED folds
       ELSE folds' = Tail(folds) /\ UNCHANGED outcome
    /\ UNCHANGED tree

Accept == outcome = "fold next" /\ folds = <<>> /\ outcome' = "accepted" /\ UNCHANGED <<tree, folds>>

Next == CheckExpressionDepth \/ StackCheck \/ Accept
Spec == Init /\ [][Next]_vars

-----------------------------------------------------------------------------
(* Correctness. *)
\* Reference definition: the weights of all paths, from the top to a rule.
RECURSIVE Paths(_)
Paths(r) ==
    LET Elements(c) == IF c.shape = "optional" /\ c.kids # <<>> THEN Len(c.kids[1].kids)
                       ELSE IF c.shape = "repeat" THEN Len(c.kids) ELSE 0
        own == IF r.shape # "list" THEN 0
               ELSE IF r.rule = "nesting" THEN 1
               ELSE IF r.rule \in Chains THEN FoldLeft(LAMBDA n, c : n + Elements(c), 0, r.kids) ELSE 0
    IN  {own} \cup {own + w : w \in UNION {Paths(r.kids[k]) : k \in 1..Len(r.kids)}}
Deepest == Max(Paths(tree))

NotChains == {f \in ToSet(FoldsOf(tree)) : f.rule = "NotExpression"}

-----------------------------------------------------------------------------
\* The type invariant; only prefix operators are folded with a check.
TypeOK ==
    /\ outcome \in {"check", "frames", "fold next", "fold", "accepted"}
    /\ folds \in Seq([rule : Folded, links : Nat])

\* The pass refuses a statement exactly if some path weighs more than the
\* limit, although it stops early and every result is looked at once.
DepthExact ==
    /\ outcome = "frames" => Deepest > Limit
    /\ outcome \in {"fold next", "fold", "accepted"} => Deepest <= Limit

\* The two checks differ by one: what passed the first is refused by the
\* second exactly if it has as many NOTs in a row as the limit. A chain of
\* tildes never is, its operand weighs one more.
FoldsRefuseTheLimit ==
    /\ outcome = "fold" => \E k \in NotChains : k.links = Limit
    /\ outcome = "accepted" => \A k \in NotChains : k.links < Limit
=============================================================================
