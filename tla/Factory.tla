------------------------------- MODULE Factory -------------------------------
(***************************************************************************)
(* matcher.New: the factory that compiles a grammar's rules to the tree of *)
(* matchers the engine runs.  createMatcher and createExpression call each *)
(* other; here the recursion is an explicit stack, so that a call, and the *)
(* return of one, is a step.                                               *)
(*                                                                         *)
(* A matcher is its place in nodes (alloc's id, counted from 1).  A rule   *)
(* name is looked up in the grammar without regard to case (Lower), in the *)
(* factory's own maps as it is spelled.                                    *)
(***************************************************************************)
EXTENDS Integers, Sequences, FiniteSets, TLC

CONSTANTS
    Grammars,    \* [key -> [name, parameters, expression]], key a lower-case name
    Root,        \* the rule New starts from
    Overrides,   \* installOverrides: the names of the special-token rules, in order
    MemoizedRules, \* packratMemoizedRules
    Lower(_)     \* strings.ToLower

VARIABLES
    grammar,
    nodes,       \* the matchers allocated so far
    matchers,    \* factory.matchers: name -> matcher
    keywords,    \* factory.keywords: lower-case text -> matcher
    stack,       \* calls in progress, innermost last
    call,        \* the call about to be made
    ctl,         \* "call", "return", "done", "error"
    ret          \* the matcher the last call returned

vars == <<grammar, nodes, matchers, keywords, stack, call, ctl, ret>>

Node(kind, text, children) ==
    [kind |-> kind, text |-> text, children |-> children, rule |-> "", memoized |-> FALSE]

Rule(name)    == grammar[Lower(name)]
HasRule(name) == Lower(name) \in DOMAIN grammar

RuleCall(name, params) == [what |-> "rule", name |-> name, params |-> params]
ExprCall(e, env)       == [what |-> "expression", expr |-> e, env |-> env]

NoEnv == [parameters |-> <<>>, params |-> <<>>]
IndexOf(name, parameters) == CHOOSE k \in 1..Len(parameters) : parameters[k] = name
IsParameter(name, env) == \E k \in 1..Len(env.parameters) : env.parameters[k] = name

Top    == stack[Len(stack)]
Pop    == SubSeq(stack, 1, Len(stack) - 1)
Last   == Len(nodes) + 1   \* the id alloc gives next

Returning(m) == ctl' = "return" /\ ret' = m /\ UNCHANGED <<grammar, call>>
Calling(c)   == ctl' = "call" /\ call' = c /\ UNCHANGED <<grammar, ret>>
Failing      == ctl' = "error" /\ UNCHANGED <<grammar, nodes, matchers, keywords, stack, call, ret>>

-----------------------------------------------------------------------------
(* createMatcher *)
OnRule == ctl = "call" /\ call.what = "rule"

\* A rule without arguments is compiled only once.
Cached == call.params = <<>> /\ call.name \in DOMAIN matchers

RuleCached ==
    /\ OnRule /\ Cached
    /\ Returning(matchers[call.name])
    /\ UNCHANGED <<nodes, matchers, keywords, stack>>

RuleMissing == OnRule /\ ~Cached /\ ~HasRule(call.name) /\ Failing

RuleFrame(root) ==
    [what |-> "rule", asked |-> call.name, rule |-> Rule(call.name), root |-> root,
     plain |-> call.params = <<>>]

\* The list is cached before its body is built: rules are recursive.
CacheEarly ==
    IF call.params = <<>> THEN (Rule(call.name).name :> Last) @@ matchers ELSE matchers

RuleBegin ==
    /\ OnRule /\ ~Cached /\ HasRule(call.name)
    /\ Len(Rule(call.name).parameters) = Len(call.params)
    /\ nodes' = Append(nodes, Node("list", "", <<>>))
    /\ matchers' = CacheEarly
    /\ stack' = Append(stack, RuleFrame(Last))
    /\ Calling(ExprCall(Rule(call.name).expression,
                        [parameters |-> Rule(call.name).parameters, params |-> call.params]))
    /\ UNCHANGED keywords

\* A macro without its argument, or a plain rule with one.
ParameterMismatch ==
    /\ OnRule /\ ~Cached /\ HasRule(call.name)
    /\ Len(Rule(call.name).parameters) # Len(call.params)
    /\ Failing

\* Mutant: a sequence body stays a list inside the rule's own list.
RuleBodyNested(body) == <<body>>

\* A sequence body becomes the rule's own list.
RuleBody(body) ==
    IF Top.rule.expression.type = "sequence" THEN nodes[body].children ELSE <<body>>

Memoized(name) == name \in MemoizedRules

RuleEnd ==
    /\ ctl = "return" /\ stack # <<>> /\ Top.what = "rule"
    /\ nodes' = [nodes EXCEPT ![Top.root].children = RuleBody(ret),
                              ![Top.root].rule = Top.rule.name,
                              ![Top.root].memoized = Memoized(Top.asked)]
    /\ stack' = Pop
    /\ Returning(Top.root)
    /\ UNCHANGED <<matchers, keywords>>

-----------------------------------------------------------------------------
(* createExpression *)
OnExpression(types) == ctl = "call" /\ call.what = "expression" /\ call.expr.type \in types

Literal ==
    /\ OnExpression({"literal"})
    /\ LET key == Lower(call.expr.text) IN
       IF key \in DOMAIN keywords
       THEN Returning(keywords[key]) /\ UNCHANGED <<nodes, keywords>>
       ELSE /\ nodes' = Append(nodes, Node("keyword", call.expr.text, <<>>))
            /\ keywords' = (key :> Last) @@ keywords
            /\ Returning(Last)
    /\ UNCHANGED <<matchers, stack>>

Parameter ==
    /\ OnExpression({"reference"}) /\ IsParameter(call.expr.text, call.env)
    /\ Returning(call.env.params[IndexOf(call.expr.text, call.env.parameters)])
    /\ UNCHANGED <<nodes, matchers, keywords, stack>>

Reference ==
    /\ OnExpression({"reference"}) /\ ~IsParameter(call.expr.text, call.env)
    /\ Calling(RuleCall(call.expr.text, <<>>))
    /\ UNCHANGED <<nodes, matchers, keywords, stack>>

ExprFrame(built) == [what |-> "expression", expr |-> call.expr, env |-> call.env, built |-> built]

Composites == {"sequence", "choice", "optional", "repeat", "optionalRepeat", "call"}

\* The children of a composite, or a call's argument, are built first to last.
EnterComposite ==
    /\ OnExpression(Composites) /\ call.expr.children # <<>>
    /\ stack' = Append(stack, ExprFrame(<<>>))
    /\ Calling(ExprCall(call.expr.children[1], call.env))
    /\ UNCHANGED <<nodes, matchers, keywords>>

EmptySequence ==
    /\ OnExpression({"sequence"}) /\ call.expr.children = <<>>
    /\ nodes' = Append(nodes, Node("list", "", <<>>))
    /\ Returning(Last)
    /\ UNCHANGED <<matchers, keywords, stack>>

Regex == OnExpression({"regex"}) /\ Failing

InComposite == ctl = "return" /\ stack # <<>> /\ Top.what = "expression"
Built == Append(Top.built, ret)
Complete == Len(Built) = Len(Top.expr.children)

NextChild ==
    /\ InComposite /\ ~Complete
    /\ stack' = Append(Pop, [Top EXCEPT !.built = Built])
    /\ Calling(ExprCall(Top.expr.children[Len(Built) + 1], Top.env))
    /\ UNCHANGED <<nodes, matchers, keywords>>

KindOf == [sequence |-> "list", choice |-> "choice", optional |-> "optional", repeat |-> "repeat"]

\* x* is Optional(Repeat(x)).
NewNodes ==
    IF Top.expr.type = "optionalRepeat"
    THEN <<Node("repeat", "", Built), Node("optional", "", <<Last>>)>>
    ELSE <<Node(KindOf[Top.expr.type], "", Built)>>

LeaveComposite ==
    /\ InComposite /\ Complete /\ Top.expr.type # "call"
    /\ nodes' = nodes \o NewNodes
    /\ Returning(Len(nodes'))
    /\ stack' = Pop
    /\ UNCHANGED <<matchers, keywords>>

\* A macro is compiled anew for each call, with the argument's matcher.
MacroCall ==
    /\ InComposite /\ Complete /\ Top.expr.type = "call"
    /\ Calling(RuleCall(Top.expr.text, Built))
    /\ stack' = Pop
    /\ UNCHANGED <<nodes, matchers, keywords>>

-----------------------------------------------------------------------------
Finish ==
    /\ ctl = "return" /\ stack = <<>>
    /\ ctl' = "done"
    /\ UNCHANGED <<grammar, nodes, matchers, keywords, stack, call, ret>>

Overridden == {Overrides[k] : k \in 1..Len(Overrides)}

\* installOverrides comes before the first rule.
Override(name) ==
    [Node("override", name, <<>>) EXCEPT
        !.rule = IF HasRule(name) THEN name ELSE "", !.memoized = name \in MemoizedRules]

Init ==
    /\ grammar \in Grammars
    /\ nodes = [k \in 1..Len(Overrides) |-> Override(Overrides[k])]
    /\ matchers = [name \in Overridden |-> IndexOf(name, Overrides)]
    /\ keywords = <<>>
    /\ stack = <<>>
    /\ call = RuleCall(Root, <<>>)
    /\ ctl = "call"
    /\ ret = 0

Step ==
    \/ RuleCached \/ RuleMissing \/ RuleBegin \/ ParameterMismatch \/ RuleEnd
    \/ Literal \/ Parameter \/ Reference \/ EnterComposite \/ EmptySequence \/ Regex
    \/ NextChild \/ LeaveComposite \/ MacroCall \/ Finish

Stopped == ctl \in {"done", "error"}

Next == Step \/ (Stopped /\ UNCHANGED vars)

Spec == Init /\ [][Next]_vars

-----------------------------------------------------------------------------
(* Correctness. *)
Ids == 1..Len(nodes)

\* The type invariant: children are matchers that exist.
TypeOK ==
    /\ \A k \in Ids : \A j \in 1..Len(nodes[k].children) : nodes[k].children[j] \in Ids
    /\ \A name \in DOMAIN matchers : matchers[name] \in Ids
    /\ \A key \in DOMAIN keywords : nodes[keywords[key]].kind = "keyword"
    /\ ctl = "return" => ret \in Ids

Means(m, expression, environment) ==
    LET RECURSIVE Is(_,_,_), All(_,_,_), Body(_,_,_)
        All(ms, es, env) == Len(ms) = Len(es) /\ \A k \in 1..Len(es) : Is(ms[k], es[k], env)
        Body(k, rule, env) ==
            /\ nodes[k].kind = "list" /\ nodes[k].rule = rule.name
            /\ All(nodes[k].children,
                   IF rule.expression.type = "sequence" THEN rule.expression.children
                   ELSE <<rule.expression>>, env)
        Is(k, e, env) ==
            LET x == nodes[k] IN
            CASE e.type = "literal" -> x.kind = "keyword" /\ Lower(x.text) = Lower(e.text)
              [] e.type = "reference" ->
                    k = IF IsParameter(e.text, env) THEN env.params[IndexOf(e.text, env.parameters)]
                        ELSE matchers[e.text]
              [] e.type = "call" ->
                    \E arg \in Ids : /\ Is(arg, e.children[1], env)
                                     /\ Body(k, Rule(e.text), [parameters |-> Rule(e.text).parameters,
                                                               params |-> <<arg>>])
              [] e.type = "optionalRepeat" ->
                    /\ x.kind = "optional"
                    /\ nodes[x.children[1]].kind = "repeat"
                    /\ All(nodes[x.children[1]].children, e.children, env)
              [] OTHER -> x.kind = KindOf[e.type] /\ All(x.children, e.children, env)
    IN  Body(m, expression, environment)

\* The compiled tree is the grammar: the matcher of every rule that was
\* compiled is its definition, with overrides in place of the rules they
\* replace, macros expanded, and references, recursive ones too, leading to
\* the one matcher of the rule they name.
CompiledAsWritten ==
    ctl = "done" =>
        \A name \in DOMAIN matchers \ Overridden : Means(matchers[name], Rule(name), NoEnv)

Roots(key) ==
    {k \in Ids : nodes[k].kind = "list" /\ Lower(nodes[k].rule) = key}
    \cup {stack[j].root : j \in {j \in 1..Len(stack) : stack[j].what = "rule"
                                                        /\ Lower(stack[j].rule.name) = key}}

\* "rule names and literals are both matched case-insensitively"
\* (upstream_test.go): a rule without parameters has one matcher, built or
\* being built, and a literal one in all its spellings.  Two for one rule
\* would split its packrat entries, and a recursive rule would be compiled
\* for ever.
MatchersShared ==
    /\ \A key \in DOMAIN grammar : grammar[key].parameters = <<>> => Cardinality(Roots(key)) <= 1
    /\ \A j, k \in Ids :
          nodes[j].kind = "keyword" /\ nodes[k].kind = "keyword" /\ Lower(nodes[j].text) = Lower(nodes[k].text)
              => j = k

\* Exactly the shared matchers of the hot rules are memoized: no expanded
\* macro and no anonymous list is, whose outcome its id would not determine.
MemoizedAreHotRules ==
    ctl = "done" =>
        {k \in Ids : nodes[k].memoized} = {matchers[name] : name \in MemoizedRules \cap DOMAIN matchers}

\* The names a definition refers to, as a rule and with an argument.
Names(expression) ==
    LET RECURSIVE In(_)
        In(e) == (CASE e.type = "reference" -> {<<e.text, 0>>} [] e.type = "call" -> {<<e.text, 1>>}
                    [] e.type = "regex" -> {<<"regex", 0>>} [] OTHER -> {})
                 \cup UNION {In(e.children[k]) : k \in 1..Len(e.children)}
    IN  In(expression)

Needed ==
    LET RECURSIVE Close(_)
        Close(seen) ==
            LET rules == {u \in seen : u[1] \notin Overridden /\ HasRule(u[1])}
                more == UNION {Names(Rule(u[1]).expression) \ {<<Rule(u[1]).parameters[k], 0>> :
                                    k \in 1..Len(Rule(u[1]).parameters)} : u \in rules}
            IN  IF more \subseteq seen THEN seen ELSE Close(seen \cup more)
    IN  Close({<<Root, 0>>})

Defective(use) ==
    \/ use[1] \notin Overridden /\ ~HasRule(use[1])
    \/ use[1] \notin Overridden /\ HasRule(use[1]) /\ Len(Rule(use[1]).parameters) # use[2]

\* New fails exactly if a rule that the root needs is missing, is used with
\* the wrong number of arguments or is a character class without an
\* override; what the root does not need does not matter.
FailsIfNeededRuleBroken ==
    /\ ctl = "error" => \E use \in Needed : Defective(use)
    /\ ctl = "done"  => \A use \in Needed : ~Defective(use)
=============================================================================
