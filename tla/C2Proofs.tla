-------------------------------- MODULE C2Proofs --------------------------------
(****************************************************************************)
(* Theorems about C2, for any number of levels and tokens, with and without *)
(* PCRE: the parser, whatever it reads and wherever it fails.               *)
(****************************************************************************)
EXTENDS C2, SequenceTheorems, TLAPS

Operators == {"none", "and", "or"}
TreeType == [means : SUBSET Assignment, nodes : Nat]
Frame ==
  [eles : Seq(TreeType), ops : Seq(Operators), open : TreeType,
   neg : BOOLEAN, expected : BOOLEAN]
Types == {"window", "drawable", "cardinal", "string", "atom"}
Ops == {"exists", "eq", "gt", "gteq", "lt", "lteq", "duplicate"}
Matches == {"exact", "contains", "start", "wildcard", "pcre"}
Leaf ==
  [predef : Predef \cup {"none"}, type : Types \cup {"none"}, format : Formats,
   index : BOOLEAN, neg : BOOLEAN, op : Ops, match : Matches, icase : BOOLEAN,
   ptntype : {"none", "int", "string"}]

(* A call keeps two elements, and is in need of one while a branch is open. *)
Shaped(f) ==
  /\ f \in Frame /\ Len(f.eles) <= 2 /\ Len(f.ops) = 2
  /\ f.open # NoTree => Len(f.eles) = 1
  /\ ~f.expected => f.eles # <<>>
Roomy(f) == Shaped(f) /\ Len(f.eles) <= 1

(* The calls: all but the innermost wait for an element, for which there is *)
(* room.                                                                    *)
Stack(fs) ==
  /\ fs \in Seq(Frame)
  /\ \A i \in 1 .. Len(fs) : Shaped(fs[i])
  /\ \A i \in 1 .. Len(fs) - 1 : Roomy(fs[i])
FramesShaped ==
  /\ Stack(frames) /\ Len(frames) <= MaxLevels + 1
  /\ pc \in {"start", "failed"} => frames = <<>>
  /\ pc = "grp" => frames # <<>> /\ Top.open = NoTree
  /\ InLeaf /\ frames # <<>> => Roomy(Top)
  /\ pc = "accepted" => Len(frames) = 1

(* sum[i] is what hangs on the i outermost calls.                           *)
SumOf(sum, fs) ==
  /\ sum \in [0 .. Len(fs) -> Nat] /\ sum[0] = 0
  /\ \A i \in 1 .. Len(fs) : sum[i] = sum[i - 1] + NodesOf(fs[i])
InHand == IF InLeaf THEN 1 ELSE 0
HeapCounted == \E sum : SumOf(sum, frames) /\ heap = sum[Len(frames)] + InHand

(* How far the leaf has been read.                                          *)
Typed(l) == IF l.predef = "none" THEN l.type # "none" ELSE l.type = PredefType[l.predef]
Plain(l) == l.match = "exact" /\ ~l.icase
LeafRead ==
  /\ leaf \in Leaf
  /\ InLeaf => Typed(leaf) /\ leaf.op # "duplicate"
  /\ ~InLeaf => leaf = LeafDef
  /\ pc = "op" => leaf.op = "exists" /\ leaf.ptntype = "none"
  /\ pc = "pattern" => leaf.ptntype = "none" /\ (leaf.op = "eq" \/ Plain(leaf))
  /\ pc = "post" =>
       \/ leaf.ptntype = "none" /\ leaf.op = "exists" /\ Plain(leaf)
       \/ leaf.ptntype # "none" /\ Compatible(leaf)
  /\ pc = "store" => Asserts(leaf)

IInv ==
  /\ pc \in {"start", "grp", "op", "pattern", "post", "store", "accepted",
             "failing", "failed"}
  /\ garbage \in BOOLEAN /\ heap \in Nat
  /\ FramesShaped /\ HeapCounted /\ LeafRead

------------------------------------------------------------------------------
(* Calls of c2_parse_grp and the nodes on them.                             *)
LEMMA AtMost ==
  /\ \A n \in Nat : n <= 1 => n = 0 \/ n = 1
  /\ \A n \in Nat : n <= 2 => n = 0 \/ n = 1 \/ n = 2
OBVIOUS

LEMMA NoTreeType == NoTree \in TreeType /\ NoTree.nodes = 0
BY DEF NoTree, Tree, TreeType

LEMMA CombinedType ==
  ASSUME NEW op, NEW t1 \in TreeType, NEW t2 \in TreeType, NEW neg \in BOOLEAN
  PROVE  /\ Combined(op, t1, t2, neg) \in TreeType
         /\ Combined(op, t1, t2, neg).nodes = t1.nodes + t2.nodes + 1
<1>1. Joined(op, t1.means, t2.means) \in SUBSET Assignment
  BY DEF Joined, TreeType
<1>2. (IF neg THEN Negated(Joined(op, t1.means, t2.means))
       ELSE Joined(op, t1.means, t2.means)) \in SUBSET Assignment
  BY <1>1 DEF Negated
<1> QED
  BY <1>2 DEF Combined, Tree, TreeType

LEMMA NodesNat ==
  ASSUME NEW f, Shaped(f)
  PROVE  NodesOf(f) \in Nat
<1>1. f.eles \in Seq(TreeType) /\ f.open \in TreeType
  BY DEF Shaped, Frame
<1>2. \A i \in DOMAIN f.eles : f.eles[i] \in TreeType
  BY <1>1
<1>3. f.open.nodes \in Nat /\ \A i \in DOMAIN f.eles : f.eles[i].nodes \in Nat
  BY <1>1, <1>2 DEF TreeType
<1> QED
  BY <1>3 DEF NodesOf

LEMMA NewFrameShaped == Roomy(NewFrame) /\ NewFrame.open = NoTree /\ NodesOf(NewFrame) = 0
<1> DEFINE ops == <<"none", "none">>
<1>1. ops \in Seq(Operators) /\ Len(ops) = 2
  BY DEF Operators
<1>2. /\ NewFrame \in Frame /\ NewFrame.eles = <<>> /\ NewFrame.ops = ops
      /\ NewFrame.open = NoTree /\ NewFrame.expected
  <2> HIDE DEF ops
  <2>1. <<>> \in Seq(TreeType)
    OBVIOUS
  <2> QED
    BY <1>1, <2>1, NoTreeType DEF NewFrame, Frame, ops
<1> HIDE DEF ops
<1> QED
  BY <1>1, <1>2, NoTreeType DEF Roomy, Shaped, NodesOf

(* Room is made with a branch, which takes a node, or none.                 *)
LEMMA MadeRoomShaped ==
  ASSUME NEW f, Shaped(f), f.open = NoTree, NEW neg \in BOOLEAN
  PROVE  /\ Roomy(MadeRoom(f, neg))
         /\ NodesOf(MadeRoom(f, neg)) = NodesOf(f) + NewBranch(f)
         /\ MadeRoom(f, neg).expected = f.expected
<1>1. CASE Len(f.eles) < 2
  <2>1. MadeRoom(f, neg) = f /\ NewBranch(f) = 0
    BY <1>1 DEF MadeRoom, NewBranch
  <2>2. Len(f.eles) <= 1 /\ NodesOf(f) \in Nat
    BY <1>1, NodesNat DEF Shaped, Frame
  <2> QED
    BY <2>1, <2>2 DEF Roomy
<1>3. f.ops[1] \in Operators /\ f.ops[2] \in Operators
  BY DEF Shaped, Frame
<1>2. CASE ~(Len(f.eles) < 2)
  <2>1. /\ Len(f.eles) = 2 /\ f \in Frame /\ DOMAIN f.eles = {1, 2}
        /\ f.eles[1] \in TreeType /\ f.eles[2] \in TreeType
    BY <1>2 DEF Shaped, Frame
  <2>2. NodesOf(f) = f.eles[1].nodes + f.eles[2].nodes
    BY <2>1, NoTreeType DEF NodesOf, TreeType
  <2>5. f.open.nodes = 0
    BY NoTreeType
  <2>3. CASE Precedence(f.ops[1]) >= Precedence(f.ops[2])
    <3> DEFINE c == Combined(f.ops[1], f.eles[1], f.eles[2], neg)
               ops == <<f.ops[2], "none">>
               g == [f EXCEPT !.eles = <<c>>, !.ops = ops]
    <3>1. MadeRoom(f, neg) = g
      BY <1>2, <2>1, <2>3 DEF MadeRoom
    <3>2. c \in TreeType /\ c.nodes = f.eles[1].nodes + f.eles[2].nodes + 1
      BY <2>1, CombinedType
    <3>3. ops \in Seq(Operators) /\ Len(ops) = 2
      <4>1. "none" \in Operators
        BY DEF Operators
      <4> QED
        BY <1>3, <4>1
    <3> HIDE DEF c, ops
    <3>8. <<c>> \in Seq(TreeType) /\ Len(<<c>>) = 1 /\ <<c>>[1] = c /\ DOMAIN <<c>> = {1}
      BY <3>2
    <3>4. /\ g \in Frame /\ g.eles = <<c>> /\ g.ops = ops /\ g.open = f.open /\ g.expected = f.expected
      BY <2>1, <3>2, <3>3, <3>8 DEF Frame
    <3> HIDE DEF g
    <3>5. Roomy(g)
      BY <3>3, <3>4, <3>8 DEF Roomy, Shaped
    <3>6. NodesOf(g) = c.nodes
      BY <2>5, <3>2, <3>4, <3>8, NoTreeType DEF NodesOf, TreeType
    <3> QED
      BY <2>1, <2>2, <3>1, <3>2, <3>4, <3>5, <3>6 DEF NewBranch, TreeType
  <2>4. CASE ~(Precedence(f.ops[1]) >= Precedence(f.ops[2]))
    <3> DEFINE o == Tree(f.eles[2].means, f.eles[2].nodes + 1)
               ops == <<f.ops[1], "none">>
               a == f.eles[1]
               g == [f EXCEPT !.eles = <<a>>, !.open = o, !.ops = ops]
    <3>1. MadeRoom(f, neg) = g
      BY <1>2, <2>1, <2>4 DEF MadeRoom
    <3>2. o \in TreeType /\ o.nodes = f.eles[2].nodes + 1 /\ a \in TreeType
      BY <2>1 DEF Tree, TreeType
    <3>3. ops \in Seq(Operators) /\ Len(ops) = 2
      <4>1. "none" \in Operators
        BY DEF Operators
      <4> QED
        BY <1>3, <4>1
    <3> HIDE DEF o, ops
    <3>8. <<a>> \in Seq(TreeType) /\ Len(<<a>>) = 1 /\ <<a>>[1] = a /\ DOMAIN <<a>> = {1}
      BY <3>2
    <3>4. /\ g \in Frame /\ g.eles = <<a>> /\ g.ops = ops /\ g.open = o /\ g.expected = f.expected
      BY <2>1, <3>2, <3>3, <3>8 DEF Frame
    <3> HIDE DEF g
    <3>5. Roomy(g)
      BY <3>3, <3>4, <3>8 DEF Roomy, Shaped
    <3>6. NodesOf(g) = o.nodes + a.nodes
      BY <3>2, <3>4, <3>8 DEF NodesOf, TreeType
    <3> QED
      BY <2>1, <2>2, <3>1, <3>2, <3>4, <3>5, <3>6 DEF NewBranch, TreeType
  <2> QED
    BY <2>3, <2>4
<1> QED
  BY <1>1, <1>2

(* The new element goes where there is room, with its nodes.                *)
LEMMA WithElementShaped ==
  ASSUME NEW f, Roomy(f), NEW tree \in TreeType, NEW neg \in BOOLEAN
  PROVE  /\ Shaped(WithElement(f, tree, neg)) /\ WithElement(f, tree, neg).open = NoTree
         /\ NodesOf(WithElement(f, tree, neg)) = NodesOf(f) + tree.nodes
<1> DEFINE x == IF f.neg THEN Tree(Negated(tree.means), tree.nodes) ELSE tree
           m == f.open.means \cap x.means
           e == IF f.open = NoTree THEN x
                ELSE Tree(IF neg THEN Negated(m) ELSE m, f.open.nodes + x.nodes)
           g == [f EXCEPT !.eles = Append(@, e), !.open = NoTree,
                          !.neg = FALSE, !.expected = FALSE]
<1>1. WithElement(f, tree, neg) = g
  BY DEF WithElement
<1>2. f \in Frame /\ f.open \in TreeType /\ f.eles \in Seq(TreeType)
  BY DEF Roomy, Shaped, Frame
<1>3. x \in TreeType /\ x.nodes = tree.nodes
  BY DEF Tree, TreeType, Negated
<1> HIDE DEF x
<1>4. e \in TreeType /\ e.nodes = f.open.nodes + x.nodes
  <2>1. CASE f.open = NoTree
    BY <1>3, <2>1, NoTreeType DEF TreeType
  <2>2. CASE f.open # NoTree
    <3>1. (IF neg THEN Negated(m) ELSE m) \in SUBSET Assignment
      BY <1>2, <1>3 DEF Negated, TreeType
    <3>2. f.open.nodes + x.nodes \in Nat
      BY <1>2, <1>3 DEF TreeType
    <3> QED
      BY <2>2, <3>1, <3>2 DEF Tree, TreeType
  <2> QED
    BY <2>1, <2>2
<1> HIDE DEF e
<1> DEFINE s == Append(f.eles, e)
<1>5. /\ s \in Seq(TreeType) /\ Len(s) = Len(f.eles) + 1 /\ s # <<>>
      /\ Len(f.eles) \in {0, 1} /\ DOMAIN f.eles = 1 .. Len(f.eles)
      /\ s[Len(f.eles) + 1] = e /\ DOMAIN s = 1 .. Len(f.eles) + 1
      /\ \A i \in 1 .. Len(f.eles) : s[i] = f.eles[i]
  <2>1. Len(f.eles) \in Nat /\ Len(f.eles) <= 1
    BY <1>2 DEF Roomy
  <2>6. Len(f.eles) \in {0, 1}
    BY <2>1, AtMost
  <2>2. Len(f.eles) \in {0, 1} /\ DOMAIN f.eles = 1 .. Len(f.eles)
    BY <1>2, <2>6
  <2>3. s \in Seq(TreeType) /\ Len(s) = Len(f.eles) + 1 /\ s # <<>>
    BY <1>2, <1>4, AppendProperties
  <2>4. s[Len(f.eles) + 1] = e /\ \A i \in 1 .. Len(f.eles) : s[i] = f.eles[i]
    BY <1>2, <1>4, AppendProperties
  <2>5. DOMAIN s = 1 .. Len(f.eles) + 1
    BY <2>3
  <2> QED
    BY <2>2, <2>3, <2>4, <2>5
<1>9. g = [f EXCEPT !.eles = s, !.open = NoTree, !.neg = FALSE, !.expected = FALSE]
  BY <1>2 DEF Frame
<1> HIDE DEF s, g
<1>6. /\ g \in Frame /\ g.eles = s /\ g.open = NoTree /\ ~g.expected /\ g.ops = f.ops
  BY <1>2, <1>5, <1>9, NoTreeType DEF Frame
<1>7. Shaped(g)
  BY <1>5, <1>6 DEF Shaped, Roomy
<1>8. NodesOf(g) = NodesOf(f) + tree.nodes
  <2>2. g.open.nodes = 0
    BY <1>6, NoTreeType
  <2>3. CASE Len(f.eles) = 0
    <3>1. g.eles[1] = e /\ 2 \notin DOMAIN g.eles /\ 1 \in DOMAIN g.eles
          /\ 1 \notin DOMAIN f.eles /\ 2 \notin DOMAIN f.eles
      BY <1>5, <1>6, <2>3
    <3> QED
      BY <1>2, <1>3, <1>4, <2>2, <3>1 DEF NodesOf, TreeType
  <2>4. CASE Len(f.eles) = 1
    <3>1. g.eles[1] = f.eles[1] /\ g.eles[2] = e /\ {1, 2} \subseteq DOMAIN g.eles
          /\ 1 \in DOMAIN f.eles /\ 2 \notin DOMAIN f.eles /\ f.eles[1] \in TreeType
      BY <1>2, <1>5, <1>6, <2>4
    <3> QED
      BY <1>2, <1>3, <1>4, <2>2, <3>1 DEF NodesOf, TreeType
  <2> QED
    BY <1>5, <2>3, <2>4
<1> QED
  BY <1>1, <1>6, <1>7, <1>8

(* The tree of a group has the nodes of its elements and of a branch.       *)
LEMMA ClosedType ==
  ASSUME NEW f, Shaped(f), f.open = NoTree, f.eles # <<>>, NEW neg \in BOOLEAN
  PROVE  /\ Closed(f, neg) \in TreeType
         /\ Closed(f, neg).nodes = NodesOf(f) + NewBranch(f)
<1>4. f \in Frame /\ f.eles \in Seq(TreeType) /\ Len(f.eles) <= 2
  BY DEF Shaped, Frame
<1>1. f \in Frame /\ Len(f.eles) \in {1, 2} /\ DOMAIN f.eles = 1 .. Len(f.eles)
  <2>1. Len(f.eles) \in Nat \ {0}
    BY <1>4, EmptySeq
  <2>2. DOMAIN f.eles = 1 .. Len(f.eles)
    BY <1>4
  <2>3. Len(f.eles) \in {1, 2}
    BY <1>4, <2>1, AtMost
  <2> QED
    BY <1>4, <2>2, <2>3
<1>2. CASE Len(f.eles) = 1
  <2>1. f.eles[1] \in TreeType /\ 1 \in DOMAIN f.eles /\ 2 \notin DOMAIN f.eles
    BY <1>1, <1>2 DEF Frame
  <2> QED
    BY <1>2, <2>1, NoTreeType DEF Closed, NodesOf, NewBranch, TreeType
<1>3. CASE Len(f.eles) = 2
  <2>1. /\ f.eles[1] \in TreeType /\ f.eles[2] \in TreeType
        /\ 1 \in DOMAIN f.eles /\ 2 \in DOMAIN f.eles
    BY <1>1, <1>3 DEF Frame
  <2>2. NodesOf(f) = f.eles[1].nodes + f.eles[2].nodes
    BY <2>1, NoTreeType DEF NodesOf, TreeType
  <2> QED
    BY <1>3, <2>1, <2>2, CombinedType DEF Closed, NewBranch
<1> QED
  BY <1>1, <1>2, <1>3

(* The innermost call is another, a call is made, or calls return.          *)
LEMMA StackTop ==
  ASSUME NEW fs, Stack(fs), fs # <<>>, NEW f, Shaped(f), NEW gs,
         gs = [fs EXCEPT ![Len(fs)] = f]
  PROVE  /\ Stack(gs) /\ Len(gs) = Len(fs) /\ gs # <<>> /\ gs[Len(gs)] = f
         /\ Len(fs) \in Nat \ {0}
         /\ \A i \in 1 .. Len(fs) - 1 : gs[i] = fs[i]
<1>1. fs \in Seq(Frame) /\ f \in Frame /\ Len(fs) \in Nat \ {0}
  BY EmptySeq DEF Stack, Shaped
<1>2. /\ gs \in Seq(Frame) /\ Len(gs) = Len(fs) /\ gs # <<>> /\ gs[Len(fs)] = f
      /\ \A i \in 1 .. Len(fs) : i # Len(fs) => gs[i] = fs[i]
  BY <1>1
<1>3. ASSUME NEW i \in 1 .. Len(fs) - 1 PROVE gs[i] = fs[i]
  <2>1. i \in 1 .. Len(fs) /\ i # Len(fs)
    BY <1>1
  <2> QED
    BY <1>2, <2>1
<1>4. \A i \in 1 .. Len(fs) : Shaped(gs[i])
  BY <1>1, <1>2 DEF Stack
<1> QED
  BY <1>1, <1>2, <1>3, <1>4 DEF Stack

LEMMA StackPush ==
  ASSUME NEW fs, Stack(fs), fs # <<>> => Roomy(fs[Len(fs)]), NEW f, Shaped(f)
  PROVE  /\ Stack(Append(fs, f)) /\ Len(Append(fs, f)) = Len(fs) + 1
         /\ Append(fs, f) # <<>> /\ Append(fs, f)[Len(fs) + 1] = f
         /\ \A i \in 1 .. Len(fs) : Append(fs, f)[i] = fs[i]
         /\ Len(fs) \in Nat
<1> DEFINE gs == Append(fs, f)
<1>1. fs \in Seq(Frame) /\ f \in Frame /\ Len(fs) \in Nat
  BY DEF Stack, Shaped
<1>2. /\ gs \in Seq(Frame) /\ Len(gs) = Len(fs) + 1 /\ gs # <<>> /\ gs[Len(fs) + 1] = f
      /\ \A i \in 1 .. Len(fs) : gs[i] = fs[i]
  BY <1>1, AppendProperties
<1> HIDE DEF gs
<1>3. \A i \in 1 .. Len(gs) : i \in 1 .. Len(fs) \/ i = Len(fs) + 1
  BY <1>1, <1>2
<1>4. \A i \in 1 .. Len(gs) : Shaped(gs[i])
  BY <1>2, <1>3 DEF Stack
<1>5. \A i \in 1 .. Len(gs) - 1 : Roomy(gs[i])
  <2> SUFFICES ASSUME NEW i \in 1 .. Len(gs) - 1 PROVE Roomy(gs[i])
    OBVIOUS
  <2>1. i \in 1 .. Len(fs) - 1 \/ (i = Len(fs) /\ Len(fs) # 0)
    BY <1>1, <1>2
  <2>2. Len(fs) # 0 => fs # <<>>
    BY EmptySeq
  <2>3. i \in 1 .. Len(fs)
    BY <1>1, <1>2
  <2> QED
    BY <1>2, <2>1, <2>2, <2>3 DEF Stack
<1> QED
  BY <1>1, <1>2, <1>4, <1>5 DEF Stack, gs

LEMMA StackTake ==
  ASSUME NEW fs, Stack(fs), NEW m \in 0 .. Len(fs)
  PROVE  /\ Stack(SubSeq(fs, 1, m)) /\ Len(SubSeq(fs, 1, m)) = m
         /\ \A i \in 1 .. m : SubSeq(fs, 1, m)[i] = fs[i]
<1> DEFINE gs == SubSeq(fs, 1, m)
<1>1. fs \in Seq(Frame) /\ Len(fs) \in Nat
  BY DEF Stack
<1>2. gs \in Seq(Frame) /\ Len(gs) = m /\ \A i \in 1 .. m : gs[i] = fs[i]
  BY <1>1
<1> HIDE DEF gs
<1>3. 1 .. m \subseteq 1 .. Len(fs) /\ 1 .. m - 1 \subseteq 1 .. Len(fs) - 1
      /\ 1 .. m - 1 \subseteq 1 .. m
  BY <1>1
<1> QED
  BY <1>2, <1>3 DEF Stack, gs

LEMMA SumTake ==
  ASSUME NEW fs, Stack(fs), NEW sum, SumOf(sum, fs), NEW m \in 0 .. Len(fs)
  PROVE  \E s : SumOf(s, SubSeq(fs, 1, m)) /\ s[m] = sum[m]
<1> DEFINE gs == SubSeq(fs, 1, m)
           s == [i \in 0 .. m |-> sum[i]]
<1>1. Len(gs) = m /\ \A i \in 1 .. m : gs[i] = fs[i]
  BY StackTake
<1>2. Len(fs) \in Nat /\ 0 .. m \subseteq 0 .. Len(fs) /\ 1 .. m \subseteq 1 .. Len(fs) /\ m \in Nat
  BY DEF Stack
<1> HIDE DEF gs
<1>3. s \in [0 .. m -> Nat] /\ s[0] = 0 /\ s[m] = sum[m]
  BY <1>2 DEF SumOf
<1>4. \A i \in 1 .. m : s[i] = s[i - 1] + NodesOf(gs[i])
  BY <1>1, <1>2 DEF SumOf
<1>5. SumOf(s, gs)
  BY <1>1, <1>3, <1>4 DEF SumOf
<1> QED
  BY <1>3, <1>5 DEF gs

LEMMA SumPush ==
  ASSUME NEW fs, Stack(fs), fs # <<>> => Roomy(fs[Len(fs)]), NEW f, Shaped(f),
         NEW sum, SumOf(sum, fs)
  PROVE  \E s : SumOf(s, Append(fs, f)) /\ s[Len(fs) + 1] = sum[Len(fs)] + NodesOf(f)
<1> DEFINE gs == Append(fs, f)
           n == Len(fs)
           v == sum[n] + NodesOf(f)
           s == [i \in 0 .. n + 1 |-> IF i = n + 1 THEN v ELSE sum[i]]
<1>1. /\ Len(gs) = n + 1 /\ gs[n + 1] = f /\ n \in Nat
      /\ \A i \in 1 .. n : gs[i] = fs[i]
  BY StackPush
<1>2. sum \in [0 .. n -> Nat] /\ sum[n] \in Nat /\ NodesOf(f) \in Nat
  BY <1>1, NodesNat DEF SumOf
<1> HIDE DEF gs, n
<1>3. s \in [0 .. n + 1 -> Nat] /\ s[0] = 0 /\ s[n + 1] = v
  BY <1>1, <1>2 DEF SumOf
<1>4. \A i \in 1 .. n + 1 : s[i] = s[i - 1] + NodesOf(gs[i])
  <2> SUFFICES ASSUME NEW i \in 1 .. n + 1 PROVE s[i] = s[i - 1] + NodesOf(gs[i])
    OBVIOUS
  <2>1. CASE i = n + 1
    BY <1>1, <1>2, <2>1
  <2>2. CASE i # n + 1
    <3>1. i \in 1 .. n
      BY <1>1, <2>2
    <3>2. sum[i] = sum[i - 1] + NodesOf(gs[i])
      BY <1>1, <3>1 DEF SumOf, n
    <3>3. s[i] = sum[i] /\ s[i - 1] = sum[i - 1]
      BY <1>1, <3>1
    <3> QED
      BY <3>2, <3>3
  <2> QED
    BY <2>1, <2>2
<1>5. SumOf(s, gs)
  BY <1>1, <1>3, <1>4 DEF SumOf
<1> HIDE DEF s
<1> QED
  BY <1>3, <1>5 DEF gs, n

LEMMA SumTop ==
  ASSUME NEW fs, Stack(fs), fs # <<>>, NEW f, Shaped(f), NEW sum, SumOf(sum, fs), NEW gs,
         gs = [fs EXCEPT ![Len(fs)] = f]
  PROVE  /\ \E s : /\ SumOf(s, gs)
                   /\ s[Len(gs)] = sum[Len(fs)] - NodesOf(fs[Len(fs)]) + NodesOf(f)
         /\ NodesOf(fs[Len(fs)]) \in Nat /\ NodesOf(f) \in Nat /\ sum[Len(fs)] \in Nat
<1> DEFINE n == Len(fs)
           v == sum[n - 1] + NodesOf(f)
           s == [i \in 0 .. n |-> IF i = n THEN v ELSE sum[i]]
<1>1. /\ Len(gs) = n /\ gs[n] = f /\ n \in Nat \ {0}
      /\ \A i \in 1 .. n - 1 : gs[i] = fs[i]
  BY StackTop
<1>2. /\ sum \in [0 .. n -> Nat] /\ sum[n] \in Nat /\ sum[n - 1] \in Nat /\ NodesOf(f) \in Nat
      /\ sum[n] = sum[n - 1] + NodesOf(fs[n]) /\ NodesOf(fs[n]) \in Nat
  <2>3. \A k \in Nat \ {0} : k \in 1 .. k /\ k - 1 \in 0 .. k /\ k \in 0 .. k
    OBVIOUS
  <2>2. n \in 1 .. n /\ n - 1 \in 0 .. n /\ n \in 0 .. n
    BY <1>1, <2>3
  <2>1. Shaped(fs[n]) /\ n \in 1 .. n /\ n - 1 \in 0 .. n /\ n \in 0 .. n
    BY <2>2 DEF Stack
  <2> QED
    BY <2>1, NodesNat DEF SumOf
<1> HIDE DEF n
<1>3. s \in [0 .. n -> Nat] /\ s[0] = 0 /\ s[n] = v
  BY <1>1, <1>2 DEF SumOf
<1>4. \A i \in 1 .. n : s[i] = s[i - 1] + NodesOf(gs[i])
  <2> SUFFICES ASSUME NEW i \in 1 .. n PROVE s[i] = s[i - 1] + NodesOf(gs[i])
    OBVIOUS
  <2>1. CASE i = n
    BY <1>1, <1>2, <2>1
  <2>2. CASE i # n
    <3>1. i \in 1 .. n - 1
      BY <1>1, <2>2
    <3>2. sum[i] = sum[i - 1] + NodesOf(gs[i])
      BY <1>1, <3>1 DEF SumOf, n
    <3>3. s[i] = sum[i] /\ s[i - 1] = sum[i - 1]
      BY <1>1, <3>1
    <3> QED
      BY <3>2, <3>3
  <2> QED
    BY <2>1, <2>2
<1>5. SumOf(s, gs)
  BY <1>1, <1>3, <1>4 DEF SumOf
<1>6. s[Len(gs)] = sum[n] - NodesOf(fs[n]) + NodesOf(f)
  BY <1>1, <1>2, <1>3
<1> HIDE DEF s
<1> QED
  BY <1>2, <1>5, <1>6 DEF n

(* The nodes still add up when the innermost call changes, or nothing but   *)
(* the leaf in hand.                                                        *)
LEMMA TopKeeps ==
  ASSUME Stack(frames), HeapCounted, heap \in Nat, frames # <<>>,
         NEW f, Shaped(f), frames' = WithTop(f),
         heap' = heap - InHand + InHand' + NodesOf(f) - NodesOf(Top)
  PROVE  /\ Stack(frames') /\ HeapCounted' /\ heap' \in Nat
         /\ Len(frames') = Len(frames) /\ frames' # <<>> /\ frames'[Len(frames')] = f
<1>1. /\ Stack(frames') /\ Len(frames') = Len(frames) /\ frames' # <<>>
      /\ frames'[Len(frames')] = f /\ frames' = [frames EXCEPT ![Len(frames)] = f]
  <2>1. frames' = [frames EXCEPT ![Len(frames)] = f]
    BY DEF WithTop
  <2> QED
    <3>1. \A gs : gs = [frames EXCEPT ![Len(frames)] = f] =>
                   /\ Stack(gs) /\ Len(gs) = Len(frames) /\ gs # <<>>
                   /\ gs[Len(gs)] = f /\ Len(frames) \in Nat \ {0}
      <4> SUFFICES ASSUME NEW gs, gs = [frames EXCEPT ![Len(frames)] = f]
                   PROVE  /\ Stack(gs) /\ Len(gs) = Len(frames) /\ gs # <<>>
                          /\ gs[Len(gs)] = f /\ Len(frames) \in Nat \ {0}
        OBVIOUS
      <4>1. Stack(gs)
        BY StackTop
      <4>2. Len(gs) = Len(frames) /\ gs # <<>> /\ Len(frames) \in Nat \ {0}
        BY StackTop
      <4>3. gs[Len(gs)] = f
        BY StackTop
      <4> QED
        BY <4>1, <4>2, <4>3
    <3> QED
      BY <2>1, <3>1
<1>2. PICK sum : SumOf(sum, frames) /\ heap = sum[Len(frames)] + InHand
  BY DEF HeapCounted
<1>3. /\ NodesOf(Top) \in Nat /\ NodesOf(f) \in Nat /\ sum[Len(frames)] \in Nat
      /\ \E s : /\ SumOf(s, frames')
                /\ s[Len(frames')] = sum[Len(frames)] - NodesOf(Top) + NodesOf(f)
  BY <1>1, <1>2, SumTop DEF Top
<1>4. PICK s : /\ SumOf(s, frames')
               /\ s[Len(frames')] = sum[Len(frames)] - NodesOf(Top) + NodesOf(f)
  BY <1>3
<1>5. InHand \in {0, 1} /\ InHand' \in {0, 1}
  BY DEF InHand
<1> HIDE DEF InHand
<1>6. heap' = s[Len(frames')] + InHand'
  <2> DEFINE a == sum[Len(frames)]
             b == s[Len(frames')]
  <2>1. a \in Nat /\ b = a - NodesOf(Top) + NodesOf(f) /\ heap = a + InHand
    BY <1>2, <1>3, <1>4
  <2> HIDE DEF a, b
  <2>2. heap' = b + InHand'
    BY <1>3, <1>5, <2>1
  <2> QED
    BY <2>2 DEF b
<1>7. s[Len(frames')] \in Nat
  <2>1. Len(frames') \in 0 .. Len(frames')
    <3>1. Len(frames) \in Nat
      BY DEF Stack
    <3>2. Len(frames') \in Nat
      BY <1>1, <3>1
    <3> QED
      BY <3>2
  <2> QED
    BY <1>4, <2>1 DEF SumOf
<1> QED
  BY <1>1, <1>4, <1>5, <1>6, <1>7 DEF HeapCounted

LEMMA SameKeeps ==
  ASSUME Stack(frames), HeapCounted, heap \in Nat, frames' = frames,
         heap' = heap - InHand + InHand'
  PROVE  HeapCounted' /\ heap' \in Nat
<1>1. PICK sum : SumOf(sum, frames) /\ heap = sum[Len(frames)] + InHand
  BY DEF HeapCounted
<1>2. sum[Len(frames)] \in Nat
  <2>1. Len(frames) \in 0 .. Len(frames)
    BY DEF Stack
  <2> QED
    BY <1>1, <2>1 DEF SumOf
<1>3. InHand \in {0, 1} /\ InHand' \in {0, 1}
  BY DEF InHand
<1>4. heap' = sum[Len(frames')] + InHand'
  BY <1>1, <1>2, <1>3
<1> QED
  BY <1>1, <1>2, <1>3, <1>4 DEF HeapCounted

LEMMA TopShaped ==
  ASSUME Stack(frames), frames # <<>>
  PROVE  Shaped(Top) /\ Len(frames) \in Nat \ {0} /\ NodesOf(Top) \in Nat
<1>1. Len(frames) \in Nat \ {0}
  BY EmptySeq DEF Stack
<1>2. Len(frames) \in 1 .. Len(frames)
  BY <1>1
<1>3. Shaped(Top)
  BY <1>2 DEF Stack, Top
<1> QED
  BY <1>1, <1>3, NodesNat

LEMMA NoCalls == Stack(<<>>) /\ \A sum : SumOf(sum, <<>>) => sum[0] = 0
BY DEF Stack, SumOf

------------------------------------------------------------------------------
(* The leaf.                                                                *)
LEMMA LeafDefIn == LeafDef \in Leaf /\ LeafDef.predef = "none" /\ LeafDef.type = "none"
BY DEF LeafDef, Leaf, Types, Ops, Matches, Formats

LEMMA PredefTypes ==
  /\ Predef = {"id", "focused", "client", "window_type", "name"}
  /\ \A p \in Predef : PredefType[p] \in {"cardinal", "window", "string"}
  /\ \A p \in Predef : PredefType[p] = "string" <=> p \in StringSwitch
  /\ \A p \in Predef : p \notin StringSwitch => p \in IntSwitch
  /\ "none" \notin Predef
BY DEF Predef, PredefType, StringSwitch, IntSwitch

LEMMA TargetedTyped ==
  ASSUME NEW x \in Texts(TargetText, PlainTarget), TargetAccepted(x)
  PROVE  /\ Targeted(x) \in Leaf /\ Typed(Targeted(x)) /\ Targeted(x).op = "exists"
         /\ Targeted(x).ptntype = "none" /\ Plain(Targeted(x))
<1>1. x \in TargetText
  <2>1. PlainTarget \in TargetText
    BY PredefTypes DEF TargetText, PlainTarget, Formats
  <2> QED
    BY <2>1 DEF Texts
<1> DEFINE predef == x.name \in Predef
           type == IF predef THEN PredefType[x.name]
                   ELSE IF x.colon THEN x.type ELSE "none"
           default == IF x.colon THEN DefaultFormat(type) ELSE 0
           given == x.colon /\ x.given /\ ~predef /\ type # "string"
           p == IF predef THEN x.name ELSE "none"
           index == x.index = "good"
           f == IF given THEN x.format ELSE default
           l == [LeafDef EXCEPT !.predef = p, !.type = type, !.index = index, !.format = f]
<1>2. Targeted(x) = l
  BY DEF Targeted
<1>3. p \in Predef \cup {"none"} /\ index \in BOOLEAN
  OBVIOUS
<1>4. type \in Types \cup {"none", "bad"}
  BY <1>1, PredefTypes DEF TargetText, Types
<1>5. p # "none" => type = PredefType[p]
  OBVIOUS
<1> HIDE DEF p, index, f, type
<1>6. l.predef = p /\ l.type = type /\ l.index = index /\ l.format = f
      /\ l.op = "exists" /\ l.ptntype = "none" /\ Plain(l) /\ l.neg = FALSE
  BY DEF LeafDef, Plain
<1>7. type # "none" /\ f \in Formats
  BY <1>2, <1>6 DEF TargetAccepted
<1>8. type # "bad"
  <2>1. CASE predef
    BY <1>5, <2>1, PredefTypes DEF p
  <2>2. CASE ~predef
    <3>1. x.colon /\ type = x.type
      BY <1>7, <2>2 DEF type
    <3> QED
      BY <3>1 DEF TargetAccepted
  <2> QED
    BY <2>1, <2>2
<1>9. l \in Leaf
  BY <1>3, <1>4, <1>7, <1>8, LeafDefIn DEF Leaf, LeafDef, Ops, Matches, Types
<1>10. Typed(l)
  BY <1>5, <1>6, <1>7 DEF Typed
<1> HIDE DEF l
<1> QED
  BY <1>2, <1>6, <1>9, <1>10

LEMMA OperatedOp ==
  ASSUME NEW l \in Leaf, NEW x \in Texts(OpText, PlainOp)
  PROVE  /\ Operated(l, x) \in Leaf /\ Operated(l, x).type = l.type
         /\ Operated(l, x).predef = l.predef /\ Operated(l, x).ptntype = l.ptntype
<1>1. x \in OpText
  <2>1. PlainOp \in OpText
    BY DEF OpText, PlainOp
  <2> QED
    BY <2>1 DEF Texts
<1> DEFINE op == OpChar(OpChar(OpChar("exists", x.op[1]), x.op[2]), x.op[3])
           m == [l EXCEPT !.neg = x.neg, !.match = x.match, !.icase = x.icase, !.op = op]
<1>2. \A o \in Ops : \A c : OpChar(o, c) \in Ops
  BY DEF OpChar, Ops
<1>3. op \in Ops
  <2>1. "exists" \in Ops
    BY DEF Ops
  <2> QED
    BY <1>2, <2>1
<1>4. x.neg \in BOOLEAN /\ x.match \in Matches /\ x.icase \in BOOLEAN
  BY <1>1 DEF OpText, Matches
<1>5. Operated(l, x) = m
  BY DEF Operated
<1> HIDE DEF op
<1>6. m \in Leaf /\ m.type = l.type /\ m.predef = l.predef /\ m.ptntype = l.ptntype
  BY <1>3, <1>4 DEF Leaf
<1> HIDE DEF m
<1> QED
  BY <1>5, <1>6
------------------------------------------------------------------------------
(* Each step keeps the invariant.                                           *)
LEMMA InitHolds ==
  ASSUME Init PROVE IInv
<1>1. FramesShaped
  <2>1. frames = <<>> /\ pc = "start" /\ Len(frames) = 0
    BY EmptySeq DEF Init
  <2> QED
    BY <2>1, NoCalls, C2Assumption DEF FramesShaped, InLeaf
<1>2. HeapCounted
  <2> DEFINE sum == [i \in 0 .. 0 |-> 0]
  <2>1. frames = <<>> /\ Len(frames) = 0 /\ heap = 0 /\ InHand = 0
    BY EmptySeq DEF Init, InHand, InLeaf
  <2>2. sum \in [0 .. 0 -> Nat] /\ sum[0] = 0
    OBVIOUS
  <2> HIDE DEF sum
  <2>3. SumOf(sum, frames)
    BY <2>1, <2>2 DEF SumOf
  <2> QED
    BY <2>1, <2>2, <2>3 DEF HeapCounted
<1>3. LeafRead
  BY LeafDefIn DEF Init, LeafRead, InLeaf
<1> QED
  BY <1>1, <1>2, <1>3 DEF Init, IInv

(* The leaf in hand is freed, and nothing else yet.                         *)
LEMMA ErrorKeeps ==
  ASSUME IInv, NEW cause, Error(cause) PROVE IInv'
<1>1. pc' = "failing" /\ leaf' = LeafDef /\ frames' = frames /\ ~InLeaf'
  BY DEF Error, InLeaf
<1>2. HeapCounted' /\ heap' \in Nat
  <2>1. heap' = heap - InHand + InHand'
    BY <1>1 DEF Error, InHand, IInv
  <2> QED
    BY <1>1, <2>1, SameKeeps DEF IInv, FramesShaped
<1>3. FramesShaped'
  BY <1>1 DEF IInv, FramesShaped
<1>4. LeafRead'
  BY <1>1, LeafDefIn DEF LeafRead
<1> QED
  BY <1>1, <1>2, <1>3, <1>4 DEF IInv, Error

LEMMA FailKeeps ==
  ASSUME IInv, NEW cause, Fail(cause) PROVE IInv'
BY ErrorKeeps DEF Fail

LEMMA FailGroupKeeps ==
  ASSUME IInv, FailGroup PROVE IInv'
<1>1. /\ pc = "failing" /\ leaf' = leaf /\ garbage' = garbage
      /\ ~InLeaf
  BY DEF FailGroup, InLeaf
<1>2. LeafRead' /\ pc' \in {"failing", "failed"} /\ ~InLeaf'
  BY <1>1 DEF IInv, LeafRead, FailGroup, InLeaf
<1>3. CASE frames = <<>>
  <2>1. frames' = frames /\ heap' = heap /\ pc' = "failed"
    BY <1>3 DEF FailGroup
  <2>2. HeapCounted' /\ heap' \in Nat
    BY <1>1, <1>2, <2>1 DEF IInv, HeapCounted, InHand
  <2>3. FramesShaped'
    BY <1>2, <1>3, <2>1 DEF IInv, FramesShaped
  <2> QED
    BY <1>1, <1>2, <2>2, <2>3 DEF IInv
<1>4. CASE frames # <<>>
  <2> DEFINE n == Len(frames)
  <2>1. Stack(frames) /\ n \in Nat \ {0} /\ NodesOf(Top) \in Nat /\ n <= MaxLevels + 1
    BY <1>4, TopShaped DEF IInv, FramesShaped
  <2>2. frames' = SubSeq(frames, 1, n - 1) /\ heap' = heap - NodesOf(Top) /\ pc' = pc
    BY <1>4 DEF FailGroup, Front
  <2>3. n - 1 \in 0 .. n /\ n \in 1 .. n
    BY <2>1
  <2>4. Stack(frames') /\ Len(frames') = n - 1
    BY <2>1, <2>2, <2>3, StackTake
  <2>5. PICK sum : SumOf(sum, frames) /\ heap = sum[n] + InHand
    BY DEF IInv, HeapCounted
  <2>6. PICK s : SumOf(s, SubSeq(frames, 1, n - 1)) /\ s[n - 1] = sum[n - 1]
    BY <2>1, <2>3, <2>5, SumTake
  <2>7. sum[n] = sum[n - 1] + NodesOf(Top) /\ sum[n - 1] \in Nat
    BY <2>3, <2>5 DEF SumOf, Top
  <2>8. heap' = s[n - 1] /\ heap' \in Nat
    BY <1>1, <2>1, <2>2, <2>5, <2>6, <2>7 DEF InHand
  <2>9. HeapCounted'
    <3>1. SumOf(s, frames')
      BY <2>2, <2>6
    <3>2. heap' = s[Len(frames')] + InHand'
      BY <1>2, <2>4, <2>6, <2>8 DEF InHand
    <3> QED
      BY <3>1, <3>2 DEF HeapCounted
  <2>10. FramesShaped'
    BY <1>1, <1>2, <2>1, <2>2, <2>4, C2Assumption DEF FramesShaped
  <2> QED
    BY <1>1, <1>2, <2>8, <2>9, <2>10 DEF IInv
<1> QED
  BY <1>3, <1>4

(* In a group, the innermost call changes, by no node or by a branch.       *)
LEMMA GroupKeeps ==
  ASSUME IInv, pc = "grp", pc' = "grp", leaf' = leaf, garbage' \in BOOLEAN,
         NEW f, Shaped(f), f.open = NoTree, frames' = WithTop(f),
         heap' = heap + NodesOf(f) - NodesOf(Top)
  PROVE  IInv'
<1>1. Stack(frames) /\ frames # <<>> /\ ~InLeaf /\ ~InLeaf' /\ heap \in Nat
  BY DEF IInv, FramesShaped, InLeaf
<1>2. heap' = heap - InHand + InHand' + NodesOf(f) - NodesOf(Top)
  BY <1>1 DEF InHand
<1>3. /\ Stack(frames') /\ HeapCounted' /\ heap' \in Nat
      /\ Len(frames') = Len(frames) /\ frames' # <<>> /\ frames'[Len(frames')] = f
  BY <1>1, <1>2, TopKeeps DEF IInv
<1>4. FramesShaped'
  BY <1>1, <1>3 DEF IInv, FramesShaped, Top
<1>5. LeafRead'
  BY <1>1 DEF IInv, LeafRead
<1> QED
  BY <1>3, <1>4, <1>5 DEF IInv

LEMMA NotKeeps ==
  ASSUME IInv, Not PROVE IInv'
<1>1. CASE Top.expected
  <2> DEFINE f == [Top EXCEPT !.neg = ~@]
  <2>1. /\ pc = "grp" /\ pc' = "grp" /\ leaf' = leaf
        /\ garbage' = garbage /\ heap' = heap /\ frames' = WithTop(f)
    BY <1>1 DEF Not, Token, Keep
  <2>2. Shaped(Top) /\ Top.open = NoTree /\ NodesOf(Top) \in Nat
    BY <2>1, TopShaped DEF IInv, FramesShaped
  <2>3. /\ f \in Frame /\ f.eles = Top.eles /\ f.ops = Top.ops /\ f.open = Top.open
        /\ f.expected = Top.expected
    BY <2>2 DEF Shaped, Frame
  <2> HIDE DEF f
  <2>4. Shaped(f) /\ NodesOf(f) = NodesOf(Top)
    BY <2>2, <2>3 DEF Shaped, NodesOf
  <2>5. heap' = heap + NodesOf(f) - NodesOf(Top)
    BY <2>1, <2>2, <2>4 DEF IInv
  <2> QED
    BY <2>1, <2>2, <2>3, <2>4, <2>5, GroupKeeps DEF IInv
<1>2. CASE ~Top.expected
  BY <1>2, FailKeeps DEF Not
<1> QED
  BY <1>1, <1>2

LEMMA LogicalKeeps ==
  ASSUME IInv, NEW op \in {"and", "or", "&"}, Logical(op) PROVE IInv'
<1>1. CASE ~Top.expected /\ op # "&"
  <2> DEFINE n == Len(Top.eles)
             ops == [Top.ops EXCEPT ![n] = op]
             f == [Top EXCEPT !.expected = TRUE, !.ops = ops]
  <2>1. /\ pc = "grp" /\ pc' = "grp" /\ leaf' = leaf
        /\ garbage' = garbage /\ heap' = heap
        /\ frames' = WithTop([Top EXCEPT !.expected = TRUE, !.ops[Len(Top.eles)] = op])
    BY <1>1 DEF Logical, Token, Keep
  <2>2. Shaped(Top) /\ Top.open = NoTree /\ NodesOf(Top) \in Nat
    BY <2>1, TopShaped DEF IInv, FramesShaped
  <2>3. frames' = WithTop(f)
    BY <2>1, <2>2 DEF Shaped, Frame
  <2>4. ops \in Seq(Operators) /\ Len(ops) = 2
    <3>1. Top.ops \in Seq(Operators) /\ Len(Top.ops) = 2 /\ op \in Operators
      BY <1>1, <2>2 DEF Shaped, Frame, Operators
    <3>2. Len(Top.eles) \in {1, 2}
      <4>1. Top.eles \in Seq(TreeType) /\ Top.eles # <<>> /\ Len(Top.eles) <= 2
        BY <1>1, <2>2 DEF Shaped, Frame
      <4>2. Len(Top.eles) \in Nat \ {0}
        BY <4>1, EmptySeq
      <4> QED
        BY <4>1, <4>2, AtMost
    <3>3. n \in 1 .. Len(Top.ops)
      BY <3>1, <3>2
    <3> HIDE DEF n
    <3> QED
      <4> DEFINE s == Top.ops
      <4>1. s \in Seq(Operators) /\ Len(s) = 2 /\ op \in Operators /\ n \in 1 .. Len(s)
        BY <3>1, <3>3
      <4>2. ops = [s EXCEPT ![n] = op]
        OBVIOUS
      <4> HIDE DEF s, ops
      <4>3. [s EXCEPT ![n] = op] \in Seq(Operators) /\ Len([s EXCEPT ![n] = op]) = Len(s)
        BY <4>1, ExceptSeq
      <4> QED
        BY <4>1, <4>2, <4>3
  <2> HIDE DEF ops
  <2>5. /\ f \in Frame /\ f.eles = Top.eles /\ f.ops = ops /\ f.open = Top.open /\ f.expected
    BY <2>2, <2>4 DEF Shaped, Frame
  <2> HIDE DEF f
  <2>6. Shaped(f) /\ NodesOf(f) = NodesOf(Top)
    BY <2>2, <2>4, <2>5 DEF Shaped, NodesOf
  <2>7. heap' = heap + NodesOf(f) - NodesOf(Top)
    BY <2>1, <2>2, <2>6 DEF IInv
  <2> QED
    BY <2>1, <2>2, <2>3, <2>5, <2>6, <2>7, GroupKeeps DEF IInv
<1>2. CASE ~(~Top.expected /\ op # "&")
  BY <1>2, FailKeeps DEF Logical
<1> QED
  BY <1>1, <1>2

(* Room is made in the innermost call, and a leaf is begun.                 *)
LEMMA ParseTargetKeeps ==
  ASSUME IInv, ParseTarget PROVE IInv'
<1>1. CASE \E cause : Fail(cause)
  BY <1>1, FailKeeps
<1>2. ASSUME NEW x \in Texts(TargetText, PlainTarget), NEW neg \in FreshNeg(Joins(Top)),
             TargetAccepted(x), pc' = "op", leaf' = Targeted(x),
             frames' = WithTop(MadeRoom(Top, neg)), heap' = heap + NewBranch(Top) + 1,
             garbage' = (garbage \/ neg), UNCHANGED <<tracked, why>>
      PROVE  IInv'
  <2> DEFINE f == MadeRoom(Top, neg)
  <2>1. pc = "grp" /\ ~InLeaf /\ InLeaf' /\ neg \in BOOLEAN
    BY <1>2 DEF ParseTarget, InLeaf, FreshNeg
  <2>2. Stack(frames) /\ frames # <<>> /\ Top.open = NoTree /\ heap \in Nat
    BY <2>1 DEF IInv, FramesShaped
  <2>3. Shaped(Top) /\ NodesOf(Top) \in Nat
    BY <2>2, TopShaped
  <2>4. Roomy(f) /\ NodesOf(f) = NodesOf(Top) + NewBranch(Top)
    BY <2>1, <2>2, <2>3, MadeRoomShaped
  <2> HIDE DEF f
  <2>5. heap' = heap - InHand + InHand' + NodesOf(f) - NodesOf(Top)
    <3>1. NewBranch(Top) \in Nat /\ InHand = 0 /\ InHand' = 1
      BY <2>1 DEF NewBranch, InHand
    <3> QED
      BY <1>2, <2>2, <2>3, <2>4, <3>1
  <2>6. frames' = WithTop(f) /\ Shaped(f)
    BY <1>2, <2>4 DEF f, Roomy
  <2>7. /\ Stack(frames') /\ HeapCounted' /\ heap' \in Nat
        /\ Len(frames') = Len(frames) /\ frames' # <<>> /\ frames'[Len(frames')] = f
    BY <2>2, <2>5, <2>6, TopKeeps DEF IInv
  <2>8. FramesShaped'
    BY <1>2, <2>4, <2>7 DEF IInv, FramesShaped, Top
  <2>9. LeafRead'
    BY <1>2, <2>1, TargetedTyped DEF LeafRead
  <2> QED
    BY <1>2, <2>1, <2>7, <2>8, <2>9 DEF IInv
<1> QED
  BY <1>1, <1>2 DEF ParseTarget
(* The leaf is read on: the calls and the nodes stay.                       *)
LEMMA LeafKeeps ==
  ASSUME IInv, InLeaf, InLeaf', UNCHANGED <<frames, heap, garbage>>, LeafRead'
  PROVE  IInv'
<1>1. HeapCounted' /\ heap' \in Nat
  BY DEF IInv, HeapCounted, InHand
<1>2. FramesShaped'
  <2>1. pc' \notin {"start", "failed", "grp", "accepted"}
    BY DEF InLeaf
  <2> QED
    BY <2>1 DEF IInv, FramesShaped, Top
<1> QED
  BY <1>1, <1>2 DEF IInv, InLeaf

LEMMA ParseOpKeeps ==
  ASSUME IInv, ParseOp PROVE IInv'
<1>1. PICK x \in Texts(OpText, PlainOp) :
        IF OpAccepted(Operated(leaf, x))
        THEN /\ pc' = "pattern" /\ leaf' = Operated(leaf, x)
             /\ UNCHANGED <<frames, heap, tracked, why, garbage>>
        ELSE Fail("leaf")
  BY DEF ParseOp
<1>2. CASE ~OpAccepted(Operated(leaf, x))
  BY <1>1, <1>2, FailKeeps
<1>3. CASE OpAccepted(Operated(leaf, x))
  <2>1. /\ leaf \in Leaf /\ Typed(leaf) /\ leaf.ptntype = "none" /\ InLeaf /\ InLeaf'
        /\ leaf' = Operated(leaf, x) /\ pc' = "pattern"
    BY <1>1, <1>3 DEF ParseOp, IInv, LeafRead, InLeaf
  <2>2. leaf' \in Leaf /\ Typed(leaf') /\ leaf'.ptntype = "none"
    BY <2>1, OperatedOp DEF Typed
  <2>3. leaf'.op # "duplicate" /\ (leaf'.op = "eq" \/ Plain(leaf'))
    BY <1>3, <2>1 DEF OpAccepted, Plain
  <2>4. LeafRead'
    BY <2>1, <2>2, <2>3 DEF LeafRead
  <2> QED
    BY <1>1, <1>3, <2>1, <2>4, LeafKeeps DEF IInv
<1> QED
  BY <1>2, <1>3

LEMMA ParsePatternKeeps ==
  ASSUME IInv, ParsePattern PROVE IInv'
<1>1. /\ leaf \in Leaf /\ Typed(leaf) /\ leaf.ptntype = "none" /\ InLeaf /\ pc = "pattern"
      /\ leaf.op # "duplicate" /\ (leaf.op = "eq" \/ Plain(leaf))
  BY DEF ParsePattern, IInv, LeafRead, InLeaf
<1>2. CASE leaf.op = "exists"
  <2>1. pc' = "post" /\ UNCHANGED <<frames, leaf, heap, tracked, why, garbage>>
    BY <1>2 DEF ParsePattern
  <2>2. LeafRead' /\ InLeaf'
    BY <1>1, <1>2, <2>1 DEF LeafRead, InLeaf
  <2> QED
    BY <1>1, <2>1, <2>2, LeafKeeps DEF IInv
<1>3. CASE leaf.op # "exists"
  <2>1. PICK x \in Texts(PatternText, "string") :
          LET l == [leaf EXCEPT !.ptntype = x]
          IN  IF x # "broken" /\ Compatible(l)
              THEN /\ pc' = "post" /\ leaf' = l
                   /\ UNCHANGED <<frames, heap, tracked, why, garbage>>
              ELSE Fail("leaf")
    BY <1>3 DEF ParsePattern
  <2> DEFINE l == [leaf EXCEPT !.ptntype = x]
  <2>2. CASE ~(x # "broken" /\ Compatible(l))
    BY <2>1, <2>2, FailKeeps
  <2>3. CASE x # "broken" /\ Compatible(l)
    <3>1. pc' = "post" /\ leaf' = l /\ UNCHANGED <<frames, heap, tracked, why, garbage>>
      BY <2>1, <2>3
    <3>2. x \in {"int", "string"}
      BY <2>3 DEF Texts, PatternText
    <3>3. /\ l \in Leaf /\ l.type = leaf.type /\ l.predef = leaf.predef /\ l.op = leaf.op
          /\ l.ptntype = x
      BY <1>1, <3>2 DEF Leaf
    <3>4. Compatible(l)
      BY <2>3
    <3> HIDE DEF l
    <3>5. LeafRead' /\ InLeaf'
      BY <1>1, <3>1, <3>2, <3>3, <3>4 DEF LeafRead, InLeaf, Typed
    <3> QED
      BY <1>1, <3>1, <3>5, LeafKeeps DEF IInv
  <2> QED
    BY <2>2, <2>3
<1> QED
  BY <1>2, <1>3

(* A leaf that was read is one c2_match_once_leaf knows.                    *)
LEMMA PostprocessedAsserts ==
  ASSUME NEW l \in Leaf, Typed(l), l.op # "duplicate",
         \/ l.ptntype = "none" /\ l.op = "exists" /\ Plain(l)
         \/ l.ptntype # "none" /\ Compatible(l),
         IsPcre(Postprocessed(l)) => RegexPcre
  PROVE  /\ Postprocessed(l) \in Leaf /\ Asserts(Postprocessed(l))
         /\ Typed(Postprocessed(l)) /\ Postprocessed(l).op = l.op
<1> DEFINE t == IF l.type = "string" THEN "string" ELSE "int"
           m == [l EXCEPT !.ptntype = t]
           p == Postprocessed(l)
<1>1. /\ m \in Leaf /\ m.type = l.type /\ m.predef = l.predef /\ m.op = l.op
      /\ m.match = l.match /\ m.ptntype = t
  BY DEF Leaf
<1>2. CASE l.ptntype = "none" /\ l.op = "exists" /\ Plain(l)
  <2>1. p = m
    BY <1>2 DEF Postprocessed
  <2> HIDE DEF p
  <2> HIDE DEF m
  <2>2. m.ptntype = "string" <=> l.type = "string"
    BY <1>1
  <2>3. m.predef # "none" => m.predef \in IF m.ptntype = "int" THEN IntSwitch ELSE StringSwitch
    BY <1>1, PredefTypes DEF Typed, Leaf
  <2>4. m.ptntype \in {"int", "string"} /\ m.op = "exists" /\ Typed(m)
    BY <1>1, <1>2 DEF Typed
  <2>5. m.predef = "none" => m.type # "none"
    BY <1>1 DEF Typed
  <2>6. Asserts(m)
    BY <2>3, <2>4, <2>5 DEF Asserts
  <2> QED
    BY <1>1, <2>1, <2>4, <2>6 DEF p
<1>3. CASE l.ptntype # "none" /\ Compatible(l)
  <2>1. p = l
    BY <1>3 DEF Postprocessed
  <2> HIDE DEF p
  <2>2. l.ptntype \in {"int", "string"}
    BY <1>3 DEF Leaf
  <2>3. l.predef # "none" => l.predef \in IF l.ptntype = "int" THEN IntSwitch ELSE StringSwitch
    <3>1. l.ptntype = "int" => l.type # "string"
      BY <1>3 DEF Compatible, IntTypes
    <3>2. l.ptntype = "string" => l.type \in {"string", "atom"}
      BY <1>3, <2>2 DEF Compatible
    <3>3. l.predef # "none" => l.predef \in Predef /\ l.type = PredefType[l.predef]
      BY DEF Typed, Leaf
    <3> QED
      BY <2>2, <3>1, <3>2, <3>3, PredefTypes
  <2>4. l.predef = "none" => l.type # "none"
    BY DEF Typed
  <2>5. l.ptntype = "string" => l.op = "eq"
    BY <1>3 DEF Compatible
  <2>6. IsPcre(l) => RegexPcre
    BY <2>1 DEF p
  <2>7. Asserts(l)
    BY <2>2, <2>3, <2>4, <2>5, <2>6 DEF Asserts
  <2> QED
    BY <2>1, <2>7 DEF p
<1> QED
  BY <1>2, <1>3

LEMMA PostprocessKeeps ==
  ASSUME IInv, Postprocess PROVE IInv'
<1> DEFINE l == Postprocessed(leaf)
<1>1. CASE Fail("leaf") \/ Error("leaf")
  BY <1>1, FailKeeps, ErrorKeeps
<1>2. CASE /\ IsPcre(l) => RegexPcre
           /\ pc' = "store" /\ leaf' = l
           /\ UNCHANGED <<frames, heap, why, garbage>>
  <2>1. /\ pc = "post" /\ InLeaf /\ InLeaf' /\ leaf \in Leaf /\ Typed(leaf)
        /\ leaf.op # "duplicate"
        /\ \/ leaf.ptntype = "none" /\ leaf.op = "exists" /\ Plain(leaf)
           \/ leaf.ptntype # "none" /\ Compatible(leaf)
    BY <1>2 DEF Postprocess, IInv, LeafRead, InLeaf
  <2>2. l \in Leaf /\ Asserts(l) /\ Typed(l) /\ l.op = leaf.op
    BY <1>2, <2>1, PostprocessedAsserts
  <2>3. LeafRead'
    BY <1>2, <2>1, <2>2 DEF LeafRead
  <2> QED
    BY <1>2, <2>1, <2>3, LeafKeeps
<1> QED
  BY <1>1, <1>2 DEF Postprocess
LEMMA ParseLegacyKeeps ==
  ASSUME IInv, ParseLegacy PROVE IInv'
<1>1. /\ pc = "start" /\ ~InLeaf /\ frames = <<>> /\ Stack(frames) /\ leaf = LeafDef
      /\ Len(frames) = 0
      /\ UNCHANGED <<frames, tracked, garbage>>
  BY EmptySeq DEF ParseLegacy, IInv, FramesShaped, LeafRead, InLeaf
<1>2. CASE pc' = "failed" /\ UNCHANGED <<leaf, heap>>
  <2>1. ~InLeaf'
    BY <1>2 DEF InLeaf
  <2>2. HeapCounted' /\ heap' \in Nat
    BY <1>1, <1>2, <2>1 DEF IInv, HeapCounted, InHand
  <2>3. FramesShaped'
    BY <1>1, <1>2, <2>1 DEF IInv, FramesShaped
  <2>4. LeafRead'
    BY <1>1, <1>2, <2>1, LeafDefIn DEF LeafRead
  <2> QED
    BY <1>1, <1>2, <2>2, <2>3, <2>4 DEF IInv
<1>3. ASSUME NEW x \in LegacyText,
             leaf' = [LeafDef EXCEPT !.predef = "name", !.type = "string",
                         !.op = "eq", !.ptntype = "string",
                         !.match = x.match, !.icase = x.icase],
             pc' = "post", heap' = heap + 1
      PROVE  IInv'
  <2>1. InLeaf'
    BY <1>3 DEF InLeaf
  <2>2. HeapCounted' /\ heap' \in Nat
    <3>1. heap' = heap - InHand + InHand'
      BY <1>1, <1>3, <2>1 DEF InHand, IInv
    <3> QED
      BY <1>1, <3>1, SameKeeps DEF IInv
  <2>3. FramesShaped'
    BY <1>1, <1>3, <2>1 DEF IInv, FramesShaped
  <2>4. LeafRead'
    <3>1. /\ leaf' \in Leaf /\ leaf'.predef = "name" /\ leaf'.type = "string"
          /\ leaf'.op = "eq" /\ leaf'.ptntype = "string"
      BY <1>3, LeafDefIn, PredefTypes DEF Leaf, LeafDef, LegacyText, Types, Ops, Matches
    <3>2. Typed(leaf') /\ Compatible(leaf')
      BY <3>1, PredefTypes DEF Typed, Compatible, PredefType
    <3> QED
      BY <1>3, <2>1, <3>1, <3>2 DEF LeafRead
  <2> QED
    BY <1>1, <1>3, <2>2, <2>3, <2>4 DEF IInv
<1> QED
  BY <1>2, <1>3 DEF ParseLegacy

(* A call without elements but one.                                         *)
LEMMA ResultShaped ==
  ASSUME NEW tree \in TreeType
  PROVE  \E f : /\ <<[NewFrame EXCEPT !.eles = <<tree>>]>> = <<f>> /\ Shaped(f)
                /\ NodesOf(f) = tree.nodes
<1> DEFINE s == <<tree>>
           f == [NewFrame EXCEPT !.eles = s]
<1>1. s \in Seq(TreeType) /\ Len(s) = 1 /\ s[1] = tree /\ DOMAIN s = {1} /\ s # <<>>
  OBVIOUS
<1>2. NewFrame \in Frame /\ Len(NewFrame.ops) = 2 /\ NewFrame.open = NoTree /\ NewFrame.expected
  BY NewFrameShaped DEF Roomy, Shaped, NewFrame
<1> HIDE DEF s
<1>3. f \in Frame /\ f.eles = s /\ f.ops = NewFrame.ops /\ f.open = NoTree /\ f.expected
  BY <1>1, <1>2 DEF Frame
<1>4. <<[NewFrame EXCEPT !.eles = <<tree>>]>> = <<f>>
  BY DEF s
<1> HIDE DEF f
<1>7. Len(f.eles) = 1 /\ Len(f.ops) = 2 /\ f.open = NoTree /\ f.expected
  BY <1>1, <1>2, <1>3
<1>5. Shaped(f)
  <2>1. Len(f.eles) <= 2
    BY <1>7
  <2> QED
    BY <1>3, <1>7, <2>1 DEF Shaped
<1>6. NodesOf(f) = tree.nodes
  BY <1>1, <1>3, NoTreeType DEF NodesOf, TreeType
<1> QED
  BY <1>4, <1>5, <1>6

(* The parser is done: what is left is the tree.                            *)
LEMMA AcceptedKeeps ==
  ASSUME IInv, pc' = "accepted", leaf' = LeafDef, garbage' \in BOOLEAN,
         NEW tree \in TreeType, Result(tree), heap' = tree.nodes
  PROVE  IInv'
<1>1. PICK f : frames' = <<f>> /\ Shaped(f) /\ NodesOf(f) = tree.nodes
  BY ResultShaped DEF Result
<1>2. ~InLeaf' /\ tree.nodes \in Nat /\ f \in Frame
  BY <1>1 DEF InLeaf, TreeType, Shaped
<1>3. Len(frames') = 1 /\ frames'[1] = f /\ frames' \in Seq(Frame)
  BY <1>1, <1>2
<1>4. Stack(frames')
  BY <1>1, <1>3 DEF Stack
<1>5. FramesShaped'
  BY <1>2, <1>3, <1>4, C2Assumption DEF FramesShaped
<1>6. HeapCounted'
  <2> DEFINE s == [i \in 0 .. 1 |-> IF i = 0 THEN 0 ELSE tree.nodes]
  <2>1. s \in [0 .. 1 -> Nat] /\ s[0] = 0 /\ s[1] = tree.nodes
    BY <1>2
  <2> HIDE DEF s
  <2>2. \A i \in 1 .. 1 : s[i] = s[i - 1] + NodesOf(frames'[i])
    BY <1>1, <1>2, <1>3, <2>1
  <2>3. SumOf(s, frames')
    BY <1>3, <2>1, <2>2 DEF SumOf
  <2>4. heap' = s[Len(frames')] + InHand'
    BY <1>2, <1>3, <2>1 DEF InHand
  <2> QED
    BY <2>3, <2>4 DEF HeapCounted
<1>7. LeafRead'
  BY <1>2, LeafDefIn DEF LeafRead
<1> QED
  BY <1>2, <1>5, <1>6, <1>7 DEF IInv

LEMMA StoreKeeps ==
  ASSUME IInv, Store PROVE IInv'
<1> DEFINE tree == Tree(Holds(LeafCount(tokens'), leaf.neg), 1)
<1>1. /\ pc = "store" /\ InLeaf /\ leaf' = LeafDef /\ UNCHANGED <<heap, tracked, why>>
      /\ heap \in Nat /\ Stack(frames) /\ (frames # <<>> => Roomy(Top))
  BY DEF Store, InLeaf, IInv, FramesShaped
<1>2. tree \in TreeType /\ tree.nodes = 1
  BY DEF Tree, TreeType, Holds
<1>3. CASE frames = <<>>
  <2>1. pc' = "accepted" /\ Result(tree) /\ garbage' = garbage
    BY <1>3 DEF Store
  <2>2. heap' = tree.nodes
    <3>1. PICK sum : SumOf(sum, frames) /\ heap = sum[Len(frames)] + InHand
      BY DEF IInv, HeapCounted
    <3>2. Len(frames) = 0 /\ sum[0] = 0 /\ InHand = 1
      BY <1>1, <1>3, <3>1, EmptySeq DEF SumOf, InHand
    <3> QED
      BY <1>1, <1>2, <3>1, <3>2
  <2> HIDE DEF tree
  <2> QED
    BY <1>1, <1>2, <2>1, <2>2, AcceptedKeeps DEF IInv
<1>4. CASE frames # <<>>
  <2>1. PICK neg \in FreshNeg(Top.open # NoTree) :
          /\ pc' = "grp" /\ frames' = WithTop(WithElement(Top, tree, neg))
          /\ garbage' = (garbage \/ neg)
    BY <1>4 DEF Store
  <2> DEFINE f == WithElement(Top, tree, neg)
  <2>2. neg \in BOOLEAN
    BY <2>1 DEF FreshNeg
  <2> HIDE DEF tree
  <2>3. Shaped(f) /\ f.open = NoTree /\ NodesOf(f) = NodesOf(Top) + 1 /\ NodesOf(Top) \in Nat
    <3>1. Roomy(Top) /\ NodesOf(Top) \in Nat
      BY <1>1, <1>4, TopShaped
    <3> QED
      BY <1>2, <2>2, <3>1, WithElementShaped
  <2>4. frames' = WithTop(f)
    BY <2>1
  <2> HIDE DEF f
  <2>5. ~InLeaf' /\ heap' = heap - InHand + InHand' + NodesOf(f) - NodesOf(Top)
    <3>1. ~InLeaf' /\ InHand = 1 /\ InHand' = 0
      BY <1>1, <2>1 DEF InLeaf, InHand
    <3> QED
      BY <1>1, <2>3, <3>1
  <2>6. /\ Stack(frames') /\ HeapCounted' /\ heap' \in Nat
        /\ Len(frames') = Len(frames) /\ frames' # <<>> /\ frames'[Len(frames')] = f
    BY <1>1, <1>4, <2>3, <2>4, <2>5, TopKeeps DEF IInv
  <2>7. FramesShaped'
    BY <2>1, <2>3, <2>5, <2>6 DEF IInv, FramesShaped, Top
  <2>8. LeafRead'
    BY <1>1, <2>1, <2>5, LeafDefIn DEF LeafRead
  <2> QED
    BY <1>1, <2>1, <2>2, <2>6, <2>7, <2>8 DEF IInv
<1> QED
  BY <1>3, <1>4

LEMMA OpenKeeps ==
  ASSUME IInv, Open PROVE IInv'
<1>1. CASE Top.expected /\ ~TooDeep
  <2>1. PICK neg \in FreshNeg(Joins(Top)) :
          /\ frames' = Append(WithTop(MadeRoom(Top, neg)), NewFrame)
          /\ heap' = heap + NewBranch(Top)
          /\ garbage' = (garbage \/ neg)
          /\ Keep /\ UNCHANGED pc
    BY <1>1 DEF Open
  <2> DEFINE f == MadeRoom(Top, neg)
             fs == WithTop(f)
             n == Len(frames)
  <2>2. /\ pc = "grp" /\ pc' = "grp" /\ neg \in BOOLEAN /\ ~InLeaf /\ ~InLeaf'
        /\ InHand = 0 /\ InHand' = 0
    BY <2>1 DEF Open, Token, FreshNeg, InLeaf, InHand
  <2>3. Stack(frames) /\ frames # <<>> /\ Top.open = NoTree /\ heap \in Nat
    BY <2>2 DEF IInv, FramesShaped
  <2>4. Shaped(Top) /\ NodesOf(Top) \in Nat /\ n \in Nat \ {0} /\ n <= MaxLevels
    BY <1>1, <2>3, TopShaped, C2Assumption DEF TooDeep
  <2>5. Roomy(f) /\ NodesOf(f) = NodesOf(Top) + NewBranch(Top) /\ NewBranch(Top) \in Nat
    BY <2>2, <2>3, <2>4, MadeRoomShaped DEF NewBranch
  <2> HIDE DEF f
  <2>6. fs = [frames EXCEPT ![n] = f] /\ Shaped(f)
    BY <2>5 DEF WithTop, Roomy
  <2> HIDE DEF fs
  <2>7. Stack(fs) /\ Len(fs) = n /\ fs # <<>> /\ fs[n] = f
    <3>1. Stack(fs)
      BY <2>3, <2>6, StackTop
    <3>2. Len(fs) = Len(frames) /\ fs # <<>>
      BY <2>3, <2>6, StackTop
    <3>3. fs[Len(fs)] = f
      BY <2>3, <2>6, StackTop
    <3> QED
      BY <3>1, <3>2, <3>3
  <2>8. PICK sum : SumOf(sum, frames) /\ heap = sum[n] + InHand
    BY DEF IInv, HeapCounted
  <2>9. PICK s : SumOf(s, fs) /\ s[n] = sum[n] - NodesOf(Top) + NodesOf(f)
    <3>1. \E s : SumOf(s, fs) /\ s[Len(fs)] = sum[n] - NodesOf(frames[n]) + NodesOf(f)
      BY <2>3, <2>6, <2>8, SumTop
    <3> QED
      BY <2>7, <3>1 DEF Top
  <2> DEFINE gs == Append(fs, NewFrame)
  <2>10. Shaped(NewFrame) /\ NodesOf(NewFrame) = 0 /\ NewFrame.open = NoTree
    BY NewFrameShaped DEF Roomy
  <2>11. fs # <<>> => Roomy(fs[Len(fs)])
    BY <2>5, <2>7
  <2>12. Stack(gs) /\ Len(gs) = n + 1 /\ gs # <<>> /\ gs[n + 1] = NewFrame
    <3>1. Stack(gs)
      BY <2>7, <2>10, <2>11, StackPush
    <3>2. Len(gs) = Len(fs) + 1 /\ gs # <<>>
      BY <2>7, <2>10, <2>11, StackPush
    <3>3. gs[Len(fs) + 1] = NewFrame
      BY <2>7, <2>10, <2>11, StackPush
    <3> QED
      BY <2>7, <3>1, <3>2, <3>3
  <2>13. PICK r : SumOf(r, gs) /\ r[n + 1] = s[n] + 0
    <3>1. \E r : SumOf(r, gs) /\ r[Len(fs) + 1] = s[Len(fs)] + NodesOf(NewFrame)
      BY <2>7, <2>9, <2>10, <2>11, SumPush
    <3> QED
      BY <2>7, <2>10, <3>1
  <2>14. frames' = gs
    BY <2>1 DEF fs, f
  <2> HIDE DEF gs
  <2>15. heap' = r[n + 1] /\ heap' \in Nat
    <3>1. s[n] \in Nat /\ sum[n] \in Nat
      <4>1. n \in 0 .. n
        BY <2>4
      <4> QED
        BY <2>7, <2>8, <2>9, <4>1 DEF SumOf
    <3>2. heap' = heap + NewBranch(Top)
      BY <2>1
    <3> HIDE DEF n
    <3> QED
      BY <2>2, <2>3, <2>4, <2>5, <2>8, <2>9, <2>13, <3>1, <3>2
  <2>16. HeapCounted'
    <3>1. heap' = r[Len(frames')] + InHand'
      BY <2>2, <2>12, <2>14, <2>15
    <3>2. SumOf(r, frames')
      BY <2>13, <2>14
    <3> QED
      BY <3>1, <3>2 DEF HeapCounted
  <2>17. FramesShaped'
    <3>1. Len(frames') <= MaxLevels + 1
      BY <2>4, <2>12, <2>14, C2Assumption
    <3> QED
      BY <2>2, <2>10, <2>12, <2>14, <3>1 DEF FramesShaped, Top
  <2>18. LeafRead'
    BY <2>1, <2>2 DEF IInv, LeafRead, Keep
  <2> QED
    BY <2>1, <2>2, <2>15, <2>16, <2>17, <2>18 DEF IInv, Keep
<1>2. CASE ~(Top.expected /\ ~TooDeep)
  <2>1. \E cause : Fail(cause)
    BY <1>2 DEF Open
  <2> QED
    BY <2>1, FailKeeps
<1> QED
  BY <1>1, <1>2

LEMMA EndStringKeeps ==
  ASSUME IInv, EndString PROVE IInv'
<1>1. CASE Len(frames) = 1 /\ Complete(Top)
  <2>1. PICK neg \in FreshNeg(Len(Top.eles) = 2) :
          /\ pc' = "accepted" /\ Result(Closed(Top, neg))
          /\ heap' = heap + NewBranch(Top)
          /\ garbage' = (garbage \/ neg)
          /\ Keep
    BY <1>1 DEF EndString
  <2> DEFINE tree == Closed(Top, neg)
  <2>2. neg \in BOOLEAN /\ pc = "grp" /\ ~InLeaf /\ InHand = 0
    BY <2>1 DEF EndString, FreshNeg, InLeaf, InHand
  <2>3. Stack(frames) /\ frames # <<>> /\ Top.open = NoTree /\ leaf = LeafDef
    BY <2>2 DEF IInv, FramesShaped, LeafRead
  <2>4. Shaped(Top) /\ NodesOf(Top) \in Nat /\ NewBranch(Top) \in Nat /\ Top.eles # <<>>
    BY <1>1, <2>3, TopShaped DEF Complete, NewBranch
  <2>5. tree \in TreeType /\ tree.nodes = NodesOf(Top) + NewBranch(Top)
    BY <2>2, <2>3, <2>4, ClosedType
  <2>6. Result(tree)
    BY <2>1
  <2> HIDE DEF tree
  <2>7. heap = NodesOf(Top)
    <3>1. PICK sum : SumOf(sum, frames) /\ heap = sum[Len(frames)] + InHand
      BY DEF IInv, HeapCounted
    <3>2. sum[0] = 0 /\ sum[1] = sum[0] + NodesOf(Top)
      BY <1>1, <3>1 DEF SumOf, Top
    <3> QED
      BY <1>1, <2>2, <2>4, <3>1, <3>2
  <2>8. heap' = tree.nodes
    BY <2>1, <2>5, <2>7
  <2> QED
    BY <2>1, <2>2, <2>3, <2>5, <2>6, <2>8, AcceptedKeeps DEF IInv, Keep
<1>2. CASE ~(Len(frames) = 1 /\ Complete(Top))
  <2>1. Fail("syntax")
    BY <1>2 DEF EndString
  <2> QED
    BY <2>1, FailKeeps
<1> QED
  BY <1>1, <1>2

LEMMA ParseGroupKeeps ==
  ASSUME IInv, ParseGroup PROVE IInv'
<1>1. /\ pc = "start" /\ pc' = "grp" /\ frames = <<>> /\ leaf' = leaf
      /\ frames' = <<NewFrame>> /\ ~InLeaf /\ ~InLeaf' /\ InHand = 0 /\ InHand' = 0
      /\ UNCHANGED <<heap, tracked, garbage>>
  BY DEF ParseGroup, IInv, FramesShaped, InLeaf, InHand
<1>2. Shaped(NewFrame) /\ NodesOf(NewFrame) = 0 /\ NewFrame.open = NoTree /\ NewFrame \in Frame
  BY NewFrameShaped DEF Roomy, Shaped
<1>3. Len(frames') = 1 /\ frames'[1] = NewFrame /\ frames' \in Seq(Frame) /\ frames' # <<>>
  BY <1>1, <1>2
<1>4. Stack(frames')
  BY <1>2, <1>3 DEF Stack
<1>5. FramesShaped'
  BY <1>1, <1>2, <1>3, <1>4, C2Assumption DEF FramesShaped, Top
<1>6. heap = 0
  <2>1. PICK sum : SumOf(sum, frames) /\ heap = sum[Len(frames)] + InHand
    BY DEF IInv, HeapCounted
  <2>2. Len(frames) = 0 /\ sum[0] = 0
    BY <1>1, <2>1, EmptySeq DEF SumOf
  <2> QED
    BY <1>1, <2>1, <2>2
<1>7. HeapCounted'
  <2> DEFINE s == [i \in 0 .. 1 |-> 0]
  <2>1. s \in [0 .. 1 -> Nat] /\ s[0] = 0 /\ s[1] = 0
    OBVIOUS
  <2> HIDE DEF s
  <2>2. \A i \in 1 .. 1 : s[i] = s[i - 1] + NodesOf(frames'[i])
    BY <1>2, <1>3, <2>1
  <2>3. SumOf(s, frames')
    BY <1>3, <2>1, <2>2 DEF SumOf
  <2>4. heap' = s[Len(frames')] + InHand'
    BY <1>1, <1>3, <1>6, <2>1
  <2> QED
    BY <2>3, <2>4 DEF HeapCounted
<1>8. LeafRead'
  BY <1>1 DEF IInv, LeafRead
<1> QED
  BY <1>1, <1>5, <1>7, <1>8 DEF IInv

LEMMA EndGroupKeeps ==
  ASSUME IInv, EndGroup PROVE IInv'
<1>1. CASE Len(frames) > 1 /\ Complete(Top)
  <2>1. PICK n1 \in FreshNeg(Len(Top.eles) = 2), n2 \in FreshNeg(Caller.open # NoTree) :
          /\ frames' = Append(SubSeq(frames, 1, Len(frames) - 2),
                              WithElement(Caller, Closed(Top, n1), n2))
          /\ heap' = heap + NewBranch(Top)
          /\ garbage' = (garbage \/ n1 \/ n2)
          /\ Keep /\ UNCHANGED pc
    BY <1>1 DEF EndGroup
  <2> DEFINE n == Len(frames)
             tree == Closed(Top, n1)
             f == WithElement(Caller, tree, n2)
             fs == SubSeq(frames, 1, n - 2)
  <2>2. /\ pc = "grp" /\ pc' = "grp" /\ n1 \in BOOLEAN /\ n2 \in BOOLEAN
        /\ ~InLeaf /\ ~InLeaf' /\ InHand = 0 /\ InHand' = 0
    BY <2>1 DEF EndGroup, Token, FreshNeg, InLeaf, InHand
  <2>3. /\ Stack(frames) /\ frames # <<>> /\ Top.open = NoTree /\ heap \in Nat
        /\ n <= MaxLevels + 1
    BY <2>2 DEF IInv, FramesShaped
  <2>4. Shaped(Top) /\ NodesOf(Top) \in Nat /\ NewBranch(Top) \in Nat /\ Top.eles # <<>>
    BY <1>1, <2>3, TopShaped DEF Complete, NewBranch
  <2>5. n \in Nat /\ n - 1 \in 1 .. n - 1 /\ n - 1 \in 1 .. n /\ n \in 1 .. n /\ n - 2 \in 0 .. n
    <3>1. n \in Nat /\ n > 1
      BY <1>1, <2>3 DEF Stack
    <3> HIDE DEF n
    <3> QED
      BY <3>1
  <2>6. Roomy(Caller) /\ NodesOf(Caller) \in Nat
    <3>1. Roomy(frames[n - 1])
      BY <2>3, <2>5 DEF Stack
    <3> QED
      BY <3>1, NodesNat DEF Caller, Roomy
  <2>7. tree \in TreeType /\ tree.nodes = NodesOf(Top) + NewBranch(Top)
    BY <2>2, <2>3, <2>4, ClosedType
  <2>16. frames' = Append(fs, f)
    BY <2>1
  <2> HIDE DEF tree
  <2>8. Shaped(f) /\ f.open = NoTree /\ NodesOf(f) = NodesOf(Caller) + tree.nodes
    BY <2>2, <2>6, <2>7, WithElementShaped
  <2> HIDE DEF f
  <2>9. PICK sum : SumOf(sum, frames) /\ heap = sum[n] + InHand
    BY DEF IInv, HeapCounted
  <2>10. /\ sum[n] = sum[n - 1] + NodesOf(Top) /\ sum[n - 1] = sum[n - 2] + NodesOf(Caller)
         /\ sum[n - 2] \in Nat
    <3>1. sum[n] = sum[n - 1] + NodesOf(Top)
      BY <2>5, <2>9 DEF SumOf, Top
    <3>2. (n - 1) - 1 = n - 2
      <4> HIDE DEF n
      <4> QED
        BY <2>5
    <3>3. sum[n - 1] = sum[(n - 1) - 1] + NodesOf(Caller)
      BY <2>5, <2>9 DEF SumOf, Caller
    <3>4. sum[n - 2] \in Nat
      BY <2>5, <2>9 DEF SumOf
    <3> QED
      BY <3>1, <3>2, <3>3, <3>4
  <2>11. Stack(fs) /\ Len(fs) = n - 2 /\ (fs # <<>> => Roomy(fs[Len(fs)]))
    <3>1. Stack(fs) /\ Len(fs) = n - 2 /\ \A i \in 1 .. n - 2 : fs[i] = frames[i]
      BY <2>3, <2>5, StackTake
    <3>2. fs # <<>> => n - 2 \in 1 .. n - 2 /\ n - 2 \in 1 .. n - 1
      <4>1. fs # <<>> => Len(fs) # 0
        BY <3>1, EmptySeq DEF Stack
      <4> HIDE DEF n, fs
      <4> QED
        BY <2>5, <3>1, <4>1
    <3> QED
      BY <2>3, <3>1, <3>2 DEF Stack
  <2>12. PICK s : SumOf(s, fs) /\ s[n - 2] = sum[n - 2]
    <3>1. \E s : SumOf(s, SubSeq(frames, 1, n - 2)) /\ s[n - 2] = sum[n - 2]
      BY <2>3, <2>5, <2>9, SumTake
    <3> QED
      BY <3>1
  <2> DEFINE gs == Append(fs, f)
  <2> HIDE DEF fs
  <2>13. Stack(gs) /\ Len(gs) = n - 1 /\ gs # <<>> /\ gs[n - 1] = f
    <3>1. Stack(gs)
      BY <2>8, <2>11, StackPush
    <3>2. Len(gs) = Len(fs) + 1 /\ gs # <<>>
      BY <2>8, <2>11, StackPush
    <3>3. gs[Len(fs) + 1] = f
      BY <2>8, <2>11, StackPush
    <3>4. Len(fs) + 1 = n - 1
      <4> HIDE DEF n
      <4> QED
        BY <2>5, <2>11
    <3> QED
      BY <3>1, <3>2, <3>3, <3>4
  <2>14. PICK r : SumOf(r, gs) /\ r[Len(gs)] = s[n - 2] + NodesOf(f)
    <3>1. \E r : SumOf(r, gs) /\ r[Len(fs) + 1] = s[Len(fs)] + NodesOf(f)
      BY <2>8, <2>11, <2>12, SumPush
    <3>2. Len(gs) = Len(fs) + 1
      BY <2>8, <2>11, StackPush
    <3> QED
      BY <2>11, <3>1, <3>2
  <2> HIDE DEF gs
  <2>15. heap' = r[Len(gs)] /\ heap' \in Nat
    <3>1. heap' = heap + NewBranch(Top)
      BY <2>1
    <3>2. heap = sum[n] + 0
      BY <2>2, <2>9
    <3> HIDE DEF n
    <3> QED
      BY <2>4, <2>6, <2>7, <2>8, <2>10, <2>12, <2>14, <3>1, <3>2
  <2>17. HeapCounted'
    <3>1. heap' = r[Len(frames')] + InHand'
      BY <2>2, <2>15, <2>16 DEF gs
    <3>2. SumOf(r, frames')
      BY <2>14, <2>16 DEF gs
    <3> QED
      BY <3>1, <3>2 DEF HeapCounted
  <2>18. FramesShaped'
    <3>1. Stack(frames') /\ Len(frames') = n - 1 /\ frames' # <<>> /\ frames'[Len(frames')] = f
      BY <2>13, <2>16 DEF gs
    <3>2. Len(frames') <= MaxLevels + 1
      <4> HIDE DEF n
      <4> QED
        BY <2>3, <2>5, <3>1, C2Assumption
    <3> QED
      BY <2>2, <2>8, <3>1, <3>2 DEF FramesShaped, Top
  <2>19. LeafRead'
    BY <2>1, <2>2 DEF IInv, LeafRead, Keep
  <2>20. garbage' \in BOOLEAN
    BY <2>1, <2>2 DEF IInv
  <2> QED
    BY <2>1, <2>2, <2>15, <2>17, <2>18, <2>19, <2>20 DEF IInv, Keep
<1>2. CASE ~(Len(frames) > 1 /\ Complete(Top))
  <2>1. Fail("syntax")
    BY <1>2 DEF EndGroup
  <2> QED
    BY <2>1, FailKeeps
<1> QED
  BY <1>1, <1>2

LEMMA StutterKeeps ==
  ASSUME IInv, UNCHANGED vars PROVE IInv'
<1>1. InHand' = InHand /\ InLeaf' = InLeaf
  BY DEF InHand, InLeaf, vars
<1>2. HeapCounted'
  BY <1>1 DEF IInv, HeapCounted, vars
<1>3. FramesShaped'
  BY <1>1 DEF IInv, FramesShaped, vars, Top
<1>4. LeafRead'
  BY <1>1 DEF IInv, LeafRead, vars
<1> QED
  BY <1>2, <1>3, <1>4 DEF IInv, vars

LEMMA StepKeeps ==
  ASSUME IInv, [Next]_vars PROVE IInv'
<1>1. CASE ParseGroup
  BY <1>1, ParseGroupKeeps
<1>2. CASE ParseLegacy
  BY <1>2, ParseLegacyKeeps
<1>3. CASE Not
  BY <1>3, NotKeeps
<1>4. CASE Open
  BY <1>4, OpenKeeps
<1>5. CASE EndGroup
  BY <1>5, EndGroupKeeps
<1>6. CASE EndString
  BY <1>6, EndStringKeeps
<1>7. CASE Unexpected
  BY <1>7, FailKeeps DEF Unexpected
<1>8. CASE \E op \in {"and", "or", "&"} : Logical(op)
  BY <1>8, LogicalKeeps
<1>9. CASE FailGroup
  BY <1>9, FailGroupKeeps
<1>10. CASE ParseTarget
  BY <1>10, ParseTargetKeeps
<1>11. CASE ParseOp
  BY <1>11, ParseOpKeeps
<1>12. CASE ParsePattern
  BY <1>12, ParsePatternKeeps
<1>13. CASE Postprocess
  BY <1>13, PostprocessKeeps
<1>14. CASE Store
  BY <1>14, StoreKeeps
<1>15. CASE UNCHANGED vars
  BY <1>15, StutterKeeps
<1> QED
  BY <1>1, <1>2, <1>3, <1>4, <1>5, <1>6, <1>7, <1>8, <1>9, <1>10, <1>11, <1>12,
     <1>13, <1>14, <1>15 DEF Next

LEMMA Inductive == Spec => []IInv
<1>1. Init => IInv
  BY InitHolds
<1>2. IInv /\ [Next]_vars => IInv'
  BY StepKeeps
<1> QED
  BY <1>1, <1>2, PTL DEF Spec

------------------------------------------------------------------------------
(* The parser is always in a state its types allow: no call deeper than     *)
(* C2_MAX_LEVELS + 1, no third element, no node freed that was not made.    *)
THEOREM TypesKept == Spec => []TypeOK
<1>1. IInv => TypeOK
  <2> SUFFICES ASSUME IInv PROVE TypeOK
    OBVIOUS
  <2>1. /\ Len(frames) <= MaxLevels + 1
        /\ \A i \in DOMAIN frames :
             Len(frames[i].eles) <= 2 /\ (frames[i].open # NoTree => Len(frames[i].eles) = 1)
    <3>1. Stack(frames) /\ Len(frames) <= MaxLevels + 1
      BY DEF IInv, FramesShaped
    <3>2. DOMAIN frames = 1 .. Len(frames)
      BY <3>1 DEF Stack
    <3> QED
      BY <3>1, <3>2 DEF Stack, Shaped
  <2>2. leaf.type = "none" => leaf = LeafDef
    BY PredefTypes DEF IInv, LeafRead, Typed, Leaf
  <2> QED
    BY <2>1, <2>2 DEF IInv, TypeOK
<1> QED
  BY <1>1, Inductive, PTL

(* Wherever c2_parsed fails, all the nodes it allocated are freed, by its   *)
(* calls one after another; what is left otherwise are those of the tree.   *)
THEOREM NothingLeaks == Spec => []NoLeak
<1>1. IInv => NoLeak
  <2> SUFFICES ASSUME IInv PROVE NoLeak
    OBVIOUS
  <2>1. PICK sum : SumOf(sum, frames) /\ heap = sum[Len(frames)] + InHand
    BY DEF IInv, HeapCounted
  <2>2. CASE pc = "failed"
    <3>1. frames = <<>> /\ InHand = 0 /\ Len(frames) = 0
      BY <2>2, EmptySeq DEF IInv, FramesShaped, InHand, InLeaf
    <3>2. heap = 0
      BY <2>1, <3>1 DEF SumOf
    <3> QED
      BY <2>2, <3>2 DEF NoLeak
  <2>3. CASE pc = "accepted"
    <3>1. Stack(frames) /\ InHand = 0 /\ Len(frames) = 1
      BY <2>3 DEF IInv, FramesShaped, InHand, InLeaf
    <3>2. Shaped(frames[1])
      BY <3>1 DEF Stack
    <3>3. sum[0] = 0 /\ sum[1] = sum[0] + NodesOf(frames[1])
      BY <2>1, <3>1 DEF SumOf
    <3>4. heap = NodesOf(frames[1])
      BY <2>1, <3>1, <3>2, <3>3, NodesNat
    <3> QED
      BY <2>3, <3>4 DEF NoLeak
  <2> QED
    BY <2>2, <2>3 DEF NoLeak
<1> QED
  BY <1>1, Inductive, PTL

(* A leaf turned round matches what it did not.                             *)
LEMMA Opposite ==
  ASSUME NEW l \in Leaf, NEW d \in Datum
  PROVE  MatchOnce(l, d) # MatchOnce([l EXCEPT !.neg = ~@], d)
<1> DEFINE m == [l EXCEPT !.neg = ~@]
<1>1. /\ m.neg = ~l.neg /\ m.op = l.op /\ m.predef = l.predef /\ m.ptntype = l.ptntype
      /\ l.neg \in BOOLEAN /\ m.neg \in BOOLEAN
  BY DEF Leaf
<1> HIDE DEF m
<1>2. Compares(m, d) = Compares(l, d)
  BY <1>1 DEF Compares
<1>3. MatchOnce(m, d) # MatchOnce(l, d)
  BY <1>1, <1>2 DEF MatchOnce
<1> QED
  BY <1>3 DEF m

(* No leaf that c2_parsed accepts, of whatever text, reaches an assert(0)   *)
(* of c2_match_once_leaf, and its negation is one.                          *)
THEOREM MatchesDefined == Spec => []MatchDefined
<1>1. IInv => MatchDefined
  BY Opposite DEF IInv, LeafRead, MatchDefined
<1> QED
  BY <1>1, Inductive, PTL
==============================================================================
