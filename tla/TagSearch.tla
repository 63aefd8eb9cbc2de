----------------------------- MODULE TagSearch ------------------------------
(***************************************************************************)
(* Searches for tags: the expressions (first part), and the patterns       *)
(* inside them (second part).                                              *)
(***************************************************************************)
EXTENDS Integers, Sequences, SequencesExt, FiniteSetsExt

(***************************************************************************)
(* Tag searches (noit_metric_tag_search.c): the text of a search is parsed *)
(* into a tree (noit_metric_tag_search_parse_lazy), written back as text   *)
(* for other nodes and for the logs (noit_metric_tag_search_unparse) and   *)
(* evaluated against the tags of a metric.                                 *)
(*                                                                         *)
(* A text is a sequence of tokens: "and(", "or(", "hint(", "not(", the     *)
(* name of a matcher in brackets, and single characters.  Escapes inside   *)
(* quotes and parts in base 64 are left out.                               *)
(***************************************************************************)

CONSTANTS QueryTokens,     \* the tokens searches are written with
          QueryOpenings,   \* the texts to begin with
          MaxSearchTags,   \* MAX_TAGS
          MaxQuery         \* bound: tokens appended

VARIABLES query, typed
queryVars == <<query, typed>>

ASSUME SearchAssumption == MaxQuery \in Nat /\ MaxSearchTags \in Nat \ {0}

ImplOf(tok) == CASE tok = "[exact]" -> "exact" [] tok = "[default]" -> "default"
                 [] tok = "[re]" -> "re" [] tok = "[graphite]" -> "graphite"
Impls == {"[exact]", "[default]", "[re]", "[graphite]"}
Brackets(impl) == CHOOSE tok \in Impls : ImplOf(tok) = impl

\* What a part may be written with when it is neither quoted nor a regex.
PlainPart(part) == {"a", "*", "/", "\""} \cup (IF part = 2 THEN {":"} ELSE {})

At(q, i) == IF i <= Len(q) THEN q[i] ELSE "end"
NextOf(q, i, tok) == Min({j \in i..Len(q) : q[j] = tok} \cup {Len(q) + 1})
RunEnd(q, i, toks) == Min({j \in i..Len(q) : q[j] \notin toks} \cup {Len(q) + 1})

\* How a part without a matcher's name is matched.
Guessed(str) == IF "*" \in ToSet(str) THEN "default" ELSE "exact"

\* noit_metric_tag_match_init at position i: <<>> if there is no match,
\* otherwise its matcher and string, and where it ends.
noit_metric_tag_match_init(q, i, part) ==
  LET alt   == At(q, i) \in Impls
      at    == IF alt THEN i + 1 ELSE i
      close == NextOf(q, at + 1, "/")
      regex == /\ ~alt /\ At(q, at) = "/" /\ close <= Len(q)
               /\ At(q, close + 1) \in {",", ")"} \cup (IF part = 1 THEN {":"} ELSE {})
      quote == NextOf(q, at + 1, "\"")
      match(str, end) ==
        <<[impl |-> IF alt THEN ImplOf(q[i]) ELSE Guessed(str), str |-> str, end |-> end]>>
      run   == RunEnd(q, at, PlainPart(part))
  IN IF regex THEN <<[impl |-> "re", str |-> SubSeq(q, at + 1, close - 1), end |-> close + 1]>>
     ELSE IF At(q, at) = "\""
     THEN IF quote > Len(q) \/ (part = 1 /\ quote = at + 1) THEN <<>>
          ELSE match(SubSeq(q, at + 1, quote - 1), quote + 1)
     ELSE IF part = 1 /\ run = at THEN <<>>
     ELSE match(SubSeq(q, at, run - 1), run)

Spaces(q, i) == RunEnd(q, i, {" "})
Node(op, args) == [op |-> op, args |-> args]
Part(m) == [impl |-> m.impl, str |-> m.str]

\* noit_metric_tag_part_parse and its loop over the arguments.
RECURSIVE noit_metric_tag_part_parse(_, _, _), Arguments(_, _, _)
noit_metric_tag_part_parse(q, i, allow_match) ==
  LET at == Spaces(q, i)
  IN IF At(q, at) \in {"and(", "or(", "hint("} THEN
       LET args == Arguments(q, at + 1, <<>>)
       IN IF args = <<>> THEN <<>>
          ELSE <<[node |-> Node(q[at], args[1].args), end |-> args[1].end]>>
     ELSE IF At(q, at) = "not(" THEN
       LET arg == noit_metric_tag_part_parse(q, Spaces(q, at + 1), TRUE)
       IN IF arg = <<>> THEN <<>>
          ELSE IF At(q, arg[1].end) # ")" THEN <<>>
          ELSE <<[node |-> Node("not(", <<arg[1].node>>), end |-> arg[1].end + 1]>>
     ELSE IF ~allow_match THEN <<>>
     ELSE LET cat == noit_metric_tag_match_init(q, i, 1)
          IN IF cat = <<>> THEN <<>>
             ELSE IF At(q, cat[1].end) # ":"
             THEN <<[node |-> Node("match", <<Part(cat[1])>>), end |-> cat[1].end]>>
             ELSE LET name == noit_metric_tag_match_init(q, cat[1].end + 1, 2)
                  IN IF name = <<>> THEN <<>>
                     ELSE <<[node |-> Node("match", <<Part(cat[1]), Part(name[1])>>),
                             end |-> name[1].end]>>
Arguments(q, i, args) ==
  LET arg == noit_metric_tag_part_parse(q, Spaces(q, i), TRUE)
  IN IF arg = <<>> THEN <<>>
     ELSE LET at   == Spaces(q, arg[1].end)
              more == Append(args, arg[1].node)
          IN IF At(q, at) = "," THEN Arguments(q, at + 1, more)
             ELSE IF At(q, at) = ")" THEN <<[args |-> more, end |-> at + 1]>>
             ELSE <<>>

\* noit_metric_tag_search_parse_lazy: the whole text, and not a bare match.
noit_metric_tag_search_parse(q) ==
  LET tree == noit_metric_tag_part_parse(q, 1, FALSE)
  IN IF tree = <<>> THEN <<>>
     ELSE IF tree[1].end # Len(q) + 1 THEN <<>> ELSE <<tree[1].node>>

\* noit_metric_tag_search_unparse.
UnparsePart(m) == <<Brackets(m.impl)>> \o m.str
RECURSIVE noit_metric_tag_search_unparse(_)
noit_metric_tag_search_unparse(node) ==
  IF node.op = "match"
  THEN UnparsePart(node.args[1])
       \o (IF Len(node.args) = 2 THEN <<":">> \o UnparsePart(node.args[2]) ELSE <<>>)
  ELSE <<node.op>>
       \o FlattenSeq([i \in DOMAIN node.args |->
            (IF i > 1 THEN <<",">> ELSE <<>>) \o noit_metric_tag_search_unparse(node.args[i])])
       \o <<")">>

\* noit_match_str: the matchers as far as searches tell them apart; "*" in a
\* wildcard stands for anything.
MatchStr(p, text) ==
  IF p.impl = "exact" THEN p.str = text
  ELSE LET star == NextOf(p.str, 1, "*")
       IN IF star > Len(p.str) THEN p.str = text
          ELSE IsPrefix(SubSeq(p.str, 1, star - 1), text)

\* noit_metric_tag_match_evaluate_against_tags_multi: both parts of one tag.
MatchTags(parts, tags) ==
  \E tag \in tags : /\ MatchStr(parts[1], tag.cat)
                     /\ Len(parts) = 2 => MatchStr(parts[2], tag.name)

\* noit_metric_tag_search_evaluate_against_tags_multi.
RECURSIVE Evaluate(_, _)
Evaluate(node, tags) ==
  CASE node.op = "match" -> MatchTags(node.args, tags)
    [] node.op = "not("  -> ~Evaluate(node.args[1], tags)
    [] node.op = "and("  -> \A i \in DOMAIN node.args : Evaluate(node.args[i], tags)
    [] node.op = "or("   -> \E i \in DOMAIN node.args : Evaluate(node.args[i], tags)
    [] node.op = "hint(" -> Evaluate(node.args[1], tags)

\* noit_metric_tag_search_evaluate_against_metric_id: the identifier of the
\* check and the name of the metric are tags too, if there is room for them.
Own(cat) == [cat |-> cat, name |-> <<"a">>]
EvaluateMetric(node, check, stream) ==
  /\ Cardinality(check) <= MaxSearchTags - 1 /\ Cardinality(stream) <= MaxSearchTags - 1
  /\ Evaluate(node, check \cup stream \cup {Own(<<"__check_uuid">>), Own(<<"__name">>)})
-----------------------------------------------------------------------------
SearchInit == query \in QueryOpenings /\ typed = 0
SearchNext == /\ typed < MaxQuery
              /\ \E tok \in QueryTokens : query' = Append(query, tok)
              /\ typed' = typed + 1
-----------------------------------------------------------------------------
\* Every string of the tree can be written without quotes.
RECURSIVE PlainTree(_)
PlainTree(node) ==
  \A i \in DOMAIN node.args :
     IF node.op = "match"
     THEN /\ ToSet(node.args[i].str) \subseteq PlainPart(i)
          /\ node.args[i].str # <<>> => node.args[i].str[1] # "\""
          /\ i = 1 => node.args[i].str # <<>>
     ELSE PlainTree(node.args[i])

Tree == noit_metric_tag_search_parse(query)

(* A search survives being written down: parsing what                       *)
(* noit_metric_tag_search_unparse writes of a parsed search gives the same  *)
(* tree, matchers included, so that a node which is sent the text decides   *)
(* what the sender does.  The text is written without quotes, so this is    *)
(* said of searches whose strings need none.                                *)
SearchSurvivesText ==
  (Tree # <<>> /\ PlainTree(Tree[1])) =>
     noit_metric_tag_search_parse(noit_metric_tag_search_unparse(Tree[1])) = Tree

RECURSIVE Positive(_)
Positive(node) ==
  /\ node.op # "not("
  /\ node.op # "match" => \A i \in DOMAIN node.args : Positive(node.args[i])

SampleTags == {[cat |-> <<"a">>, name |-> <<>>], [cat |-> <<"a">>, name |-> <<"a">>],
               [cat |-> <<"*">>, name |-> <<"/">>]}

(* A search without a negation that finds a metric still finds it when it   *)
(* is given more tags, as the rules of a filter set do, as long as the      *)
(* identifier and the name, which are matched as tags, still have room.     *)
MoreTagsFindMore ==
  (Tree # <<>> /\ Positive(Tree[1])) =>
     \A few \in SUBSET SampleTags : \A more \in SUBSET SampleTags :
        (EvaluateMetric(Tree[1], few, {}) /\ Cardinality(few \cup more) < MaxSearchTags) =>
           EvaluateMetric(Tree[1], few, more)

-----------------------------------------------------------------------------
(***************************************************************************)
(* The matchers of a tag search (noit_metric_tag_search.c): "default"      *)
(* turns a pattern with wildcards into a regular expression; "graphite"    *)
(* first expands braces into several patterns, and remembers how much of   *)
(* the pattern is fixed so that most subjects are refused without a        *)
(* regular expression.  The fixed prefix of a matcher also bounds the      *)
(* index scan that looks for matching names.                               *)
(*                                                                         *)
(* A pattern is a sequence of characters; a regular expression is a        *)
(* sequence of items: a character, one character, one or any number of     *)
(* characters, with or without the dot.                                    *)
(***************************************************************************)

CONSTANTS PatternChars,     \* characters patterns are written with
          SubjectChars,     \* characters of subjects
          MaxPattern, MaxSubject   \* bounds: lengths

VARIABLE pattern

ASSUME PatternsAssumption == MaxPattern \in Nat /\ MaxSubject \in Nat

Item(k, c) == [k |-> k, c |-> c]

\* build_regex_from_expansion, the "default" matcher.
build_regex_from_expansion(p) ==
  [i \in DOMAIN p |-> CASE p[i] = "*" -> Item("any*", "")
                        [] p[i] = "?" -> Item("any", "")
                        [] OTHER      -> Item("lit", p[i])]

\* build_regex_from_graphite: one "*" stops at a dot, two do not.
RECURSIVE build_regex_from_graphite(_)
build_regex_from_graphite(p) ==
  IF p = <<>> THEN <<>>
  ELSE IF p[1] = "*"
  THEN IF Len(p) > 1 /\ p[2] = "*"
       THEN <<Item("any*", "")>> \o build_regex_from_graphite(SubSeq(p, 3, Len(p)))
       ELSE <<Item("word*", "")>> \o build_regex_from_graphite(Tail(p))
  ELSE <<IF p[1] = "?" THEN Item("word", "") ELSE Item("lit", p[1])>>
       \o build_regex_from_graphite(Tail(p))

\* pcre_exec of an anchored expression.
Fits(item, c) == CASE item.k = "lit" -> c = item.c
                   [] item.k \in {"any", "any*"} -> TRUE
                   [] item.k \in {"word", "word*"} -> c # "."
RECURSIVE pcre_exec(_, _)
pcre_exec(re, s) ==
  IF re = <<>> THEN s = <<>>
  ELSE \/ re[1].k \in {"any*", "word*"} /\ pcre_exec(Tail(re), s)
       \/ /\ s # <<>> /\ Fits(re[1], s[1])
          /\ pcre_exec(IF re[1].k \in {"any*", "word*"} THEN re ELSE Tail(re), Tail(s))

\* append_prefix: the characters in front of the first item that is none.
append_prefix(re) ==
  LET stop == Min({i \in DOMAIN re : re[i].k # "lit"} \cup {Len(re) + 1})
  IN [text |-> [i \in 1..(stop - 1) |-> re[i].c], all |-> stop = Len(re) + 1]
-----------------------------------------------------------------------------
\* graphite_has_wildcards.
Wildcards == {"*", "?"}
HasWildcards(p) == \E i \in DOMAIN p : p[i] \in Wildcards
FixedPrefixLen(p) == Min({i \in DOMAIN p : p[i] \in Wildcards \cup {"{"}} \cup {Len(p) + 1}) - 1

\* The first "{" and the "}" that closes it; 0 if there is none.
OpenBrace(p) == Min({i \in DOMAIN p : p[i] = "{"} \cup {Len(p) + 1})
CloseBrace(p) == Min({i \in OpenBrace(p)..Len(p) : p[i] = "}"} \cup {Len(p) + 1})

\* strtok_r at the commas: empty alternatives are skipped.
RECURSIVE Alternatives(_)
Alternatives(s) ==
  LET comma == Min({i \in DOMAIN s : s[i] = ","} \cup {Len(s) + 1})
      head  == SubSeq(s, 1, comma - 1)
      rest  == IF comma > Len(s) THEN <<>> ELSE Alternatives(SubSeq(s, comma + 1, Len(s)))
  IN IF head = <<>> THEN rest ELSE <<head>> \o rest

\* graphite_expand_braces: the expansions of pre s suf, in order, of a text
\* without braces in braces.
RECURSIVE graphite_expand_braces(_, _, _)
graphite_expand_braces(pre, s, suf) ==
  LET open  == OpenBrace(s)
      close == CloseBrace(s)
  IN IF close > Len(s)
     THEN IF suf # <<>> THEN graphite_expand_braces(pre \o s, suf, <<>>)
          ELSE <<pre \o s>>
     ELSE LET alts == Alternatives(SubSeq(s, open + 1, close - 1))
          IN FlattenSeq([i \in DOMAIN alts |->
               graphite_expand_braces(pre \o SubSeq(s, 1, open - 1), alts[i],
                                      SubSeq(s, close + 1, Len(s)) \o suf)])

\* graphite_add_expansion: an expansion without wildcards is compared.
MatchExpansion(e, s) == IF HasWildcards(e) THEN pcre_exec(build_regex_from_graphite(e), s)
                        ELSE e = s

\* var_graphite_match.
var_graphite_match(p, s) ==
  LET fixed == FixedPrefixLen(p)
      exps  == graphite_expand_braces(<<>>, p, <<>>)
  IN /\ fixed <= Len(s) /\ SubSeq(s, 1, fixed) = SubSeq(p, 1, fixed)
     /\ \/ fixed = Len(s)
        \/ \E i \in DOMAIN exps : MatchExpansion(exps[i], s)

\* var_graphite_afp: the expression's prefix if there is one expansion, else
\* the pattern's.  It is asked of expansions with wildcards only.
var_graphite_afp(p) ==
  LET exps == graphite_expand_braces(<<>>, p, <<>>)
  IN IF Len(exps) = 1 THEN append_prefix(build_regex_from_graphite(exps[1]))
     ELSE [text |-> SubSeq(p, 1, FixedPrefixLen(p)), all |-> FixedPrefixLen(p) = Len(p)]
-----------------------------------------------------------------------------
PatternInit == pattern = <<>>
PatternNext == /\ Len(pattern) < MaxPattern
               /\ \E c \in PatternChars : pattern' = Append(pattern, c)
-----------------------------------------------------------------------------
Subjects == SeqOf(SubjectChars, MaxSubject)

\* Every brace is closed before the next is opened, no alternative is empty,
\* and none can join its own star to one in front of the brace.
Depth(p, n) == Cardinality({i \in 1..n : p[i] = "{"}) - Cardinality({i \in 1..n : p[i] = "}"})
Simple(p) == /\ \A n \in DOMAIN p : Depth(p, n) \in {0, 1}
             /\ Depth(p, Len(p)) = 0
             /\ \A i \in 1..(Len(p) - 1) :
                  /\ ~(p[i] \in {"{", ","} /\ p[i + 1] \in {",", "}"})
                  /\ ~(p[i] = "*" /\ p[i + 1] = "{")

\* What a graphite pattern means, from left to right.
RECURSIVE Means(_, _)
Means(p, s) ==
  IF p = <<>> THEN s = <<>>
  ELSE CASE p[1] = "{" ->
              LET close == CloseBrace(p)
                  body  == SubSeq(p, 2, close - 1)
                  cuts  == {0, Len(body) + 1} \cup {i \in DOMAIN body : body[i] = ","}
              IN \E a \in cuts, b \in cuts :
                    /\ a < b /\ ~\E c \in cuts : a < c /\ c < b
                    /\ Means(SubSeq(body, a + 1, b - 1) \o SubSeq(p, close + 1, Len(p)), s)
         [] p[1] = "*" ->
              LET deep == Len(p) > 1 /\ p[2] = "*"
                  rest == SubSeq(p, IF deep THEN 3 ELSE 2, Len(p))
              IN \E n \in 0..Len(s) :
                    /\ deep \/ \A i \in 1..n : s[i] # "."
                    /\ Means(rest, SubSeq(s, n + 1, Len(s)))
         [] p[1] = "?" -> s # <<>> /\ s[1] # "." /\ Means(Tail(p), Tail(s))
         [] OTHER -> s # <<>> /\ s[1] = p[1] /\ Means(Tail(p), Tail(s))

(* A graphite pattern matches the names it means: expanding the braces and  *)
(* matching each expansion, or comparing the ones without wildcards, finds  *)
(* what reading the pattern from left to right finds.  A subject as long as *)
(* the fixed prefix is left out: var_graphite_match takes it for an exact   *)
(* match although the rest of the pattern may ask for more.                 *)
GraphiteMeans ==
  pattern # <<>> /\ Simple(pattern) =>
    \A s \in Subjects :
       Len(s) # FixedPrefixLen(pattern) =>
         (var_graphite_match(pattern, s) <=> Means(pattern, s))

(* The fixed prefix of a matcher bounds the scan of an index, so every      *)
(* subject the expression matches begins with it, and is it where the       *)
(* matcher says that the prefix is all.                                     *)
PrefixBounds ==
  pattern # <<>> => \A s \in Subjects :
    LET covers(p) == IsPrefix(p.text, s) /\ (p.all => s = p.text)
    IN /\ pcre_exec(build_regex_from_expansion(pattern), s) =>
             covers(append_prefix(build_regex_from_expansion(pattern)))
       /\ (Simple(pattern) /\ HasWildcards(pattern) /\ Means(pattern, s)) =>
             covers(var_graphite_afp(pattern))
=============================================================================
