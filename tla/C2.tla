---------------------------------- MODULE C2 ----------------------------------
(****************************************************************************)
(* The condition language of the rules: how c2_parsed turns a pattern into  *)
(* a tree of conditions.                                                    *)
(*                                                                          *)
(* c2_parse_grp keeps at most two elements and combines them by precedence  *)
(* when a third one comes.  A pattern is a sequence of tokens; a tree is    *)
(* represented by its meaning, the set of truth assignments to its leaves   *)
(* it matches, and by the number of its nodes, because a failure anywhere   *)
(* must free all of them.  A leaf is parsed in the four steps of the code.  *)
(****************************************************************************)
EXTENDS Naturals, FiniteSets, SequencesExt

CONSTANTS
  MaxLevels,   \* C2_MAX_LEVELS
  RegexPcre,   \* CONFIG_REGEX_PCRE
  MaxTokens    \* bound: tokens of a pattern

ASSUME C2Assumption ==
  MaxLevels \in Nat /\ RegexPcre \in BOOLEAN /\ MaxTokens \in Nat \ {0}

VARIABLES
  pc,        \* where the parser is
  tokens,    \* history: the tokens of the pattern read so far
  frames,    \* the calls of c2_parse_grp, outermost first
  leaf,      \* the leaf being parsed
  heap,      \* the number of nodes allocated and not freed
  tracked,   \* what the leaves have made compton track
  why,       \* history: what the parse failed of
  garbage    \* history: a branch was left with neg set by what malloc returned

vars == <<pc, tokens, frames, leaf, heap, tracked, why, garbage>>

------------------------------------------------------------------------------
(* Trees.  The n-th leaf of a pattern is true in the assignments with n.    *)

Assignment == SUBSET (1 .. (MaxTokens + 1) \div 2)
IsLeaf(t) == t \in {"leaf", "!leaf"}
LeafCount(s) == Cardinality({i \in DOMAIN s : IsLeaf(s[i])})
Holds(n, neg) == {v \in Assignment : (n \in v) # neg}
Negated(m) == Assignment \ m
Joined(op, m1, m2) == IF op = "and" THEN m1 \cap m2 ELSE m1 \cup m2

Tree(means, nodes) == [means |-> means, nodes |-> nodes]
NoTree == Tree({}, 0)

(* c2h_comb_tree: neg is not assigned.                                      *)
Combined(op, t1, t2, neg) ==
  LET m == Joined(op, t1.means, t2.means)
  IN  Tree(IF neg THEN Negated(m) ELSE m, t1.nodes + t2.nodes + 1)

Precedence(op) == IF op = "and" THEN 2 ELSE 1

------------------------------------------------------------------------------
(* A call of c2_parse_grp.  eles holds the elements up to elei; open is the *)
(* left operand of a branch without its right one, into which the next     *)
(* element goes.                                                            *)

NewFrame ==
  [eles |-> <<>>, ops |-> <<"none", "none">>, open |-> NoTree,
   neg |-> FALSE, expected |-> TRUE]

Top == frames[Len(frames)]
Caller == frames[Len(frames) - 1]
WithTop(f) == [frames EXCEPT ![Len(frames)] = f]

(* Mutant of MadeRoom: left to right whatever the operators.                 *)
MadeRoomLeft(f, neg) ==
  IF Len(f.eles) < 2 THEN f
  ELSE [f EXCEPT !.eles = <<Combined(f.ops[1], f.eles[1], f.eles[2], neg)>>,
                 !.ops  = <<f.ops[2], "none">>]

(* Mutant of MadeRoom: the second element is lost.                           *)
MadeRoomLosing(f, neg) ==
  IF Len(f.eles) < 2 THEN f
  ELSE [f EXCEPT !.eles = <<f.eles[1]>>, !.ops = <<f.ops[1], "none">>]

(* What is done before an element when there are two already.               *)
MadeRoom(f, neg) ==
  CASE Len(f.eles) < 2 -> f
    [] Len(f.eles) = 2 /\ Precedence(f.ops[1]) >= Precedence(f.ops[2]) ->
         [f EXCEPT !.eles = <<Combined(f.ops[1], f.eles[1], f.eles[2], neg)>>,
                   !.ops  = <<f.ops[2], "none">>]
    [] OTHER ->
         [f EXCEPT !.eles = <<f.eles[1]>>,
                   !.open = Tree(f.eles[2].means, f.eles[2].nodes + 1),
                   !.ops  = <<f.ops[1], "none">>]

(* The element is stored where pele points and negated if need be.          *)
WithElement(f, tree, neg) ==
  LET x == IF f.neg THEN Tree(Negated(tree.means), tree.nodes) ELSE tree
      m == f.open.means \cap x.means     \* only && leaves a branch open
      e == IF f.open = NoTree THEN x
           ELSE Tree(IF neg THEN Negated(m) ELSE m, f.open.nodes + x.nodes)
  IN  [f EXCEPT !.eles = Append(@, e), !.open = NoTree,
                !.neg = FALSE, !.expected = FALSE]

(* Two elements are joined into a branch, which takes a node; the branch is *)
(* whole at once unless its right operand is still to come.                 *)
NewBranch(f) == IF Len(f.eles) = 2 THEN 1 ELSE 0
Joins(f) == Len(f.eles) = 2 /\ MadeRoom(f, FALSE).open = NoTree

(* The tree of a group that is over.                                        *)
Closed(f, neg) ==
  IF Len(f.eles) = 2 THEN Combined(f.ops[1], f.eles[1], f.eles[2], neg)
  ELSE f.eles[1]

(* The nodes that hang on the elements of a call: c2_free() of both.        *)
NodesOf(f) ==
  LET nodes(i) == IF i \in DOMAIN f.eles THEN f.eles[i].nodes ELSE 0
  IN  f.open.nodes + nodes(1) + nodes(2)

(* The neg of a branch, if one is made: what malloc returned.               *)
FreshNeg(made) == IF made THEN BOOLEAN ELSE {FALSE}

------------------------------------------------------------------------------
(* A leaf.  A predefined target stands for all that c2_match_once_leaf      *)
(* treats alike: "id" for the integers, "client" for "leader" too, "name"   *)
(* for the strings of track_wdata.                                          *)

PredefType ==
  [id |-> "cardinal", focused |-> "cardinal", client |-> "window",
   window_type |-> "string", name |-> "string"]
Predef == DOMAIN PredefType
Formats == {0, 8, 16, 32}

LeafDef ==
  [predef |-> "none", type |-> "none", format |-> 0, index |-> FALSE,
   neg |-> FALSE, op |-> "exists", match |-> "exact", icase |-> FALSE,
   ptntype |-> "none"]

(* The text of a target: its name, an index in brackets, and after a colon  *)
(* a format and a type.  A format of 7 stands for any other number.         *)
TargetText ==
  [name : Predef \cup {"custom", ""}, index : {"none", "good", "bad"},
   colon : BOOLEAN, given : BOOLEAN, format : Formats \cup {7},
   type : {"window", "drawable", "cardinal", "string", "atom", "bad"}]
PlainTarget ==
  [name |-> "name", index |-> "none", colon |-> FALSE, given |-> FALSE,
   format |-> 0, type |-> "bad"]

DefaultFormat(type) ==
  CASE type \in {"window", "drawable", "atom"} -> 32
    [] type = "string"                       -> 8
    [] OTHER                                 -> 0

(* The leaf after c2_parse_target.                                          *)
Targeted(x) ==
  LET predef == x.name \in Predef
      type == IF predef THEN PredefType[x.name]
              ELSE IF x.colon THEN x.type ELSE "none"
      default == IF x.colon THEN DefaultFormat(type) ELSE 0
      given == x.colon /\ x.given /\ ~predef /\ type # "string"
  IN  [LeafDef EXCEPT !.predef = IF predef THEN x.name ELSE "none",
                      !.type = type, !.index = x.index = "good",
                      !.format = IF given THEN x.format ELSE default]

TargetAccepted(x) ==
  LET l == Targeted(x)
  IN  /\ x.name # ""
      /\ x.index # "bad" /\ (x.index = "good" => l.predef = "none")
      /\ x.colon => x.type # "bad"
      /\ l.type # "none" /\ l.format \in Formats

(* The text of an operator: negated or not, a qualifier, the flag ?, and    *)
(* the characters of the operator itself, three at most.                    *)
OpText ==
  [neg : BOOLEAN, match : {"exact", "contains", "start", "wildcard", "pcre"},
   icase : BOOLEAN,
   op : {<<"", "", "">>, <<"=", "", "">>, <<">", "", "">>, <<"<", "", "">>,
         <<">", "=", "">>, <<"<", "=", "">>, <<"=", "=", "">>, <<"=", ">", "">>,
         <<">", "=", "=">>}]
PlainOp ==
  [neg |-> FALSE, match |-> "exact", icase |-> FALSE, op |-> <<"=", "", "">>]

(* One more character of the operator.                                      *)
OpChar(op, char) ==
  CASE char = ""                  -> op
    [] char = "=" /\ op = "gt"     -> "gteq"
    [] char = "=" /\ op = "lt"     -> "lteq"
    [] char = "=" /\ op = "exists" -> "eq"
    [] char = ">" /\ op = "exists" -> "gt"
    [] char = "<" /\ op = "exists" -> "lt"
    [] OTHER                       -> "duplicate"

(* The leaf after c2_parse_op.                                              *)
Operated(l, x) ==
  [l EXCEPT !.neg = x.neg, !.match = x.match, !.icase = x.icase,
            !.op = OpChar(OpChar(OpChar("exists", x.op[1]), x.op[2]), x.op[3])]

OpAccepted(l) ==
  /\ l.op # "duplicate"
  /\ l.op = "eq" \/ (l.match = "exact" /\ ~l.icase)

(* The text of a pattern; "broken" is one with a trailing character, a bad  *)
(* escape sequence, or no end.                                              *)
PatternText == {"int", "string", "broken"}

IntTypes == {"cardinal", "window", "drawable"}

(* Mutant of Compatible: the types are not compared.                         *)
CompatibleAnyhow(l) ==
  IF l.ptntype = "int" THEN l.match = "exact" /\ ~l.icase ELSE l.op = "eq"

(* The checks at the end of c2_parse_pattern.                               *)
Compatible(l) ==
  IF l.ptntype = "int" THEN l.type \in IntTypes /\ l.match = "exact" /\ ~l.icase
  ELSE l.type \in {"string", "atom"} /\ l.op = "eq"

(* What c2_l_postprocess makes compton track, and the leaf after it.  The   *)
(* other predefined targets are tracked anyway or, as the leader, not.      *)
Tracks(l) ==
  CASE l.predef = "none"    -> {"property"}
    [] l.predef = "focused" -> {"focus"}
    [] l.predef = "name"    -> {"wdata"}
    [] OTHER                -> {}
Postprocessed(l) ==
  IF l.op = "exists" /\ l.ptntype = "none"
  THEN [l EXCEPT !.ptntype = IF l.type = "string" THEN "string" ELSE "int"]
  ELSE l
IsPcre(l) == l.ptntype = "string" /\ l.match = "pcre"

(* c2_match_once on a leaf.  What the window has is "missing", or how it    *)
(* compares to the pattern: a number "less", "equal" or "more", and "zero"  *)
(* or not; a string "equal" or not.  An assertion may fail on the way.      *)
IntSwitch == {"id", "focused", "client"}
StringSwitch == {"window_type", "name"}
Datum ==
  [value : {"less", "equal", "more"}, zero : BOOLEAN, missing : BOOLEAN]
Compares(l, d) ==
  CASE l.op = "exists" -> l.predef = "none" \/ l.ptntype = "string" \/ ~d.zero
    [] l.op = "eq"     -> d.value = "equal"
    [] l.op = "gt"     -> d.value = "more"
    [] l.op = "gteq"   -> d.value # "less"
    [] l.op = "lt"     -> d.value = "less"
    [] l.op = "lteq"   -> d.value # "more"
Asserts(l) ==
  /\ l.ptntype \in {"int", "string"}
  /\ l.predef # "none" =>
       l.predef \in IF l.ptntype = "int" THEN IntSwitch ELSE StringSwitch
  /\ l.predef = "none" => l.type # "none"
  /\ l.ptntype = "string" => l.op \in {"exists", "eq"}
  /\ (IsPcre(l) /\ l.op = "eq") => RegexPcre
MatchOnce(l, d) ==
  LET error == d.missing /\ (l.predef = "none" \/ l.ptntype = "string")
  IN  (~error /\ Compares(l, d)) # l.neg

------------------------------------------------------------------------------
(* The parser.                                                              *)

InLeaf == pc \in {"op", "pattern", "post", "store"}

(* c2_error(): the leaf being parsed is freed, which hangs on an element of *)
(* the innermost call, or on the result of a legacy pattern.                *)
Error(cause) ==
  /\ pc' = "failing" /\ why' = cause /\ leaf' = LeafDef
  /\ heap' = heap - (IF InLeaf THEN 1 ELSE 0)
  /\ UNCHANGED <<frames, garbage>>
Fail(cause) == Error(cause) /\ UNCHANGED tracked

(* c2_parse_grp_fail: the call frees what hangs on its elements and returns *)
(* -1, for which its caller fails too.                                      *)
FailGroup ==
  /\ pc = "failing"
  /\ IF frames = <<>> THEN pc' = "failed" /\ UNCHANGED <<frames, heap>>
     ELSE /\ frames' = Front(frames) /\ heap' = heap - NodesOf(Top)
          /\ UNCHANGED pc
  /\ UNCHANGED <<tokens, leaf, tracked, why, garbage>>

Result(tree) == frames' = <<[NewFrame EXCEPT !.eles = <<tree>>]>>
Token(t) == /\ pc = "grp" /\ Len(tokens) < MaxTokens
             /\ tokens' = Append(tokens, t)
Keep == UNCHANGED <<leaf, tracked, why>>

Not ==
  /\ Token("!")
  /\ IF Top.expected
     THEN /\ frames' = WithTop([Top EXCEPT !.neg = ~@])
          /\ Keep /\ UNCHANGED <<pc, heap, garbage>>
     ELSE Fail("syntax")

(* "&" stands for an operator that is neither "&&" nor "||".                *)
Logical(op) ==
  /\ Token(op)
  /\ IF ~Top.expected /\ op # "&"
     THEN /\ frames' = WithTop([Top EXCEPT !.expected = TRUE, !.ops[Len(Top.eles)] = op])
          /\ Keep /\ UNCHANGED <<pc, heap, garbage>>
     ELSE Fail("syntax")

(* Mutant of TooDeep: one level more.                                        *)
TooDeepLate == Len(frames) > MaxLevels + 1

TooDeep == Len(frames) > MaxLevels

(* A subgroup: the element before it is made room for, then c2_parse_grp    *)
(* calls itself.                                                            *)
Open ==
  /\ Token("(")
  /\ IF Top.expected
     THEN IF TooDeep THEN Fail("levels")
          ELSE \E neg \in FreshNeg(Joins(Top)) :
               /\ frames' = Append(WithTop(MadeRoom(Top, neg)), NewFrame)
               /\ heap' = heap + NewBranch(Top)
               /\ garbage' = (garbage \/ neg)
               /\ Keep /\ UNCHANGED pc
     ELSE Fail("syntax")

(* A leaf: only the first token of a pattern is any text, the others are    *)
(* one text that is a leaf.                                                 *)
Texts(any, plain) == IF tokens = <<>> THEN any ELSE {plain}

ParseTarget ==
  /\ pc = "grp" /\ Len(tokens) < MaxTokens /\ Top.expected
  /\ UNCHANGED tokens
  /\ \/ \E x \in Texts(TargetText, PlainTarget), neg \in FreshNeg(Joins(Top)) :
          /\ TargetAccepted(x)
          /\ pc' = "op" /\ leaf' = Targeted(x)
          /\ frames' = WithTop(MadeRoom(Top, neg))
          /\ heap' = heap + NewBranch(Top) + 1
          /\ garbage' = (garbage \/ neg)
          /\ UNCHANGED <<tracked, why>>
     \/ Fail("leaf")

(* A leaf where none is expected.                                           *)
Unexpected == Token("leaf") /\ ~Top.expected /\ Fail("syntax")

ParseOp ==
  /\ pc = "op" /\ UNCHANGED tokens
  /\ \E x \in Texts(OpText, PlainOp) :
       IF OpAccepted(Operated(leaf, x))
       THEN /\ pc' = "pattern" /\ leaf' = Operated(leaf, x)
            /\ UNCHANGED <<frames, heap, tracked, why, garbage>>
       ELSE Fail("leaf")

ParsePattern ==
  /\ pc = "pattern" /\ UNCHANGED tokens
  /\ IF leaf.op = "exists"
     THEN pc' = "post" /\ UNCHANGED <<frames, leaf, heap, tracked, why, garbage>>
     ELSE \E x \in Texts(PatternText, "string") :
          LET l == [leaf EXCEPT !.ptntype = x]
          IN  IF x # "broken" /\ Compatible(l)
              THEN /\ pc' = "post" /\ leaf' = l
                   /\ UNCHANGED <<frames, heap, tracked, why, garbage>>
              ELSE Fail("leaf")

(* c2_parse_legacy, up to c2_l_postprocess; on failure the leaf, if there   *)
(* is one, is freed.                                                        *)
LegacyText ==
  [match : {"exact", "contains", "start", "wildcard", "pcre"}, icase : BOOLEAN]
ParseLegacy ==
  /\ pc = "start"
  /\ \/ \E x \in LegacyText :
          /\ leaf' = [LeafDef EXCEPT !.predef = "name", !.type = "string",
                         !.op = "eq", !.ptntype = "string",
                         !.match = x.match, !.icase = x.icase]
          /\ pc' = "post" /\ heap' = heap + 1 /\ UNCHANGED why
     \/ /\ pc' = "failed" /\ why' = "leaf"
        /\ UNCHANGED <<leaf, heap>>
  /\ UNCHANGED <<tokens, frames, tracked, garbage>>

(* c2_l_postprocess: a target of its own needs an atom, which get_atom may  *)
(* not get; what is tracked stays so when the PCRE pattern is refused, as   *)
(* all are where PCRE is not compiled in.                                   *)
Postprocess ==
  LET l == Postprocessed(leaf)
  IN  /\ pc = "post" /\ UNCHANGED tokens
      /\ \/ l.predef = "none" /\ Fail("leaf")
         \/ /\ tracked' = tracked \cup Tracks(l)
            /\ \/ /\ IsPcre(l) => RegexPcre
                  /\ pc' = "store" /\ leaf' = l
                  /\ UNCHANGED <<frames, heap, why, garbage>>
               \/ IsPcre(l) /\ Error("leaf")

(* The leaf is an element of the group, or the condition of a legacy        *)
(* pattern.                                                                 *)
Store ==
  /\ pc = "store" /\ leaf' = LeafDef
  /\ tokens' = Append(tokens, IF leaf.neg THEN "!leaf" ELSE "leaf")
  /\ LET tree == Tree(Holds(LeafCount(tokens'), leaf.neg), 1)
     IN  IF frames = <<>>
         THEN pc' = "accepted" /\ Result(tree) /\ UNCHANGED garbage
         ELSE \E neg \in FreshNeg(Top.open # NoTree) :
              /\ pc' = "grp" /\ frames' = WithTop(WithElement(Top, tree, neg))
              /\ garbage' = (garbage \/ neg)
  /\ UNCHANGED <<heap, tracked, why>>

(* Mutant of Complete: a group of one element seems empty.                   *)
CompleteTwo(f) == Len(f.eles) > 1 /\ ~f.expected

(* The end of a group: ")" in a subgroup, the end of the string outside.    *)
Complete(f) == f.eles # <<>> /\ ~f.expected

EndGroup ==
  /\ Token(")")
  /\ IF Len(frames) > 1 /\ Complete(Top)
     THEN \E n1 \in FreshNeg(Len(Top.eles) = 2), n2 \in FreshNeg(Caller.open # NoTree) :
          /\ frames' = Append(SubSeq(frames, 1, Len(frames) - 2),
                              WithElement(Caller, Closed(Top, n1), n2))
          /\ heap' = heap + NewBranch(Top)
          /\ garbage' = (garbage \/ n1 \/ n2)
          /\ Keep /\ UNCHANGED pc
     ELSE Fail("syntax")

EndString ==
  /\ pc = "grp" /\ tokens' = Append(tokens, "end")
  /\ IF Len(frames) = 1 /\ Complete(Top)
     THEN \E neg \in FreshNeg(Len(Top.eles) = 2) :
          /\ pc' = "accepted" /\ Result(Closed(Top, neg))
          /\ heap' = heap + NewBranch(Top)
          /\ garbage' = (garbage \/ neg)
          /\ Keep
     ELSE Fail("syntax")

ParseGroup ==
  /\ pc = "start" /\ pc' = "grp" /\ frames' = <<NewFrame>>
  /\ UNCHANGED <<tokens, leaf, heap, tracked, why, garbage>>

Init ==
  /\ pc = "start" /\ tokens = <<>> /\ frames = <<>> /\ leaf = LeafDef
  /\ heap = 0 /\ tracked = {} /\ why = "none" /\ garbage = FALSE

Next ==
  \/ ParseGroup \/ ParseLegacy
  \/ Not \/ Open \/ EndGroup \/ EndString \/ Unexpected
  \/ \E op \in {"and", "or", "&"} : Logical(op)
  \/ FailGroup \/ ParseTarget \/ ParseOp \/ ParsePattern \/ Postprocess \/ Store

Spec == Init /\ [][Next]_vars

------------------------------------------------------------------------------
(* The grammar of the man page: && binds tighter than ||, ! tighter than    *)
(* both.  Derived(s) is the set of the meanings of s as an expression: empty *)
(* if s is none.                                                            *)
Derived(s) ==
  LET atom(i) == Holds(LeafCount(SubSeq(s, 1, i)), s[i] = "!leaf")
      D[k \in {"or", "and", "not"}, i \in 1 .. Len(s) + 1, j \in 0 .. Len(s)] ==
        CASE i > j      -> {}
          [] k = "not"  ->
               (IF i = j /\ IsLeaf(s[i]) THEN {atom(i)} ELSE {})
                 \cup (IF s[i] = "!" THEN {Negated(m) : m \in D["not", i + 1, j]} ELSE {})
                 \cup (IF s[i] = "(" /\ s[j] = ")" THEN D["or", i + 1, j - 1] ELSE {})
          [] OTHER      ->
               LET tighter == IF k = "or" THEN "and" ELSE "not"
               IN  D[tighter, i, j] \cup
                   UNION {{Joined(k, l, r) : l \in D[k, i, x - 1], r \in D[tighter, x + 1, j]} :
                            x \in {x \in i .. j : s[x] = k}}
  IN  D["or", 1, Len(s)]

(* The shortest pattern that begins with s, if one does.                    *)
Count(s, t) == Cardinality({i \in DOMAIN s : s[i] = t})
Finished(s) ==
  IF s # <<>> /\ Last(s) = "end" THEN Front(s)
  ELSE LET operand == s = <<>> \/ Last(s) \in {"!", "(", "and", "or"}
           whole == IF operand THEN Append(s, "leaf") ELSE s
           depth == Count(s, "(") - Count(s, ")")
       IN  whole \o [i \in 1 .. IF depth > 0 THEN depth ELSE 0 |-> ")"]

Pattern == SelectSeq(tokens, LAMBDA t : t # "end")

(* An accepted pattern is an expression of the grammar, and the tree        *)
(* c2_parse_grp builds while it holds only two elements has its meaning, as *)
(* long as malloc returns a clear neg.                                      *)
Meaning == Derived(Pattern) = {frames[1].eles[1].means}
ParsedRight == (pc = "accepted" /\ ~garbage) => Meaning

(* The same without that condition: c2h_comb_tree makes branches that mean  *)
(* what the man page says of && and ||.                                     *)
BranchesMean == pc = "accepted" => Meaning

(* A pattern is refused as ill-formed only if no expression of the grammar  *)
(* begins with what was read of it.                                         *)
RefusedRight == (pc = "failed" /\ why = "syntax") => Derived(Finished(tokens)) = {}

(* A failure anywhere, in a leaf or in a group at any depth, frees all the  *)
(* nodes of the unfinished trees, and what is kept are the nodes of the     *)
(* result.                                                                  *)
NoLeak ==
  /\ pc = "failed" => heap = 0
  /\ pc = "accepted" => heap = NodesOf(frames[1])

(* A leaf that has been accepted, of any syntax, reaches no assert(0) of    *)
(* c2_match_once_leaf, and its negation matches the windows it does not.    *)
MatchDefined ==
  pc = "store" =>
    /\ Asserts(leaf)
    /\ \A d \in Datum : MatchOnce(leaf, d) # MatchOnce([leaf EXCEPT !.neg = ~@], d)

TypeOK ==
  /\ pc \in {"start", "grp", "op", "pattern", "post", "store", "accepted",
            "failing", "failed"}
  /\ Len(frames) <= MaxLevels + 1
  /\ \A i \in DOMAIN frames :
       Len(frames[i].eles) <= 2 /\ (frames[i].open # NoTree => Len(frames[i].eles) = 1)
  /\ heap \in Nat /\ garbage \in BOOLEAN
  /\ leaf.type = "none" => leaf = LeafDef
==============================================================================
