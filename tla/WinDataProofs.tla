---------------------------- MODULE WinDataProofs ----------------------------
(****************************************************************************)
(* Theorems about WinData, for any windows, clients, leaders, lists of      *)
(* conditions and number of events that wait.  A handler is a composition   *)
(* of functions, and each of them has a lemma that says what it leaves as   *)
(* it was (Changes, Still, SameButWin); the invariants need no more of it.  *)
(****************************************************************************)
EXTENDS WinData, SequenceTheorems, WellFoundedInduction, TLAPS
------------------------------------------------------------------------------
(* Chains of leaders.                                                       *)

(* A set of numbers has a first one.                                        *)
LEMMA FirstIs ==
  ASSUME NEW A, A \subseteq Nat, A # {}
  PROVE  \E i \in A : \A j \in A : i <= j
<1> DEFINE R == OpToRel(<, Nat)
<1>1. IsWellFoundedOn(R, Nat)
  BY NatLessThanWellFounded
<1>2. \A i, j \in Nat : j < i => <<j, i>> \in R
  BY DEF OpToRel
<1> HIDE DEF R
<1>3. PICK i \in A : \A j \in A : ~(<<j, i>> \in R)
  BY <1>1, WFMin
<1>4. ASSUME NEW j \in A PROVE i <= j
  <2>1. i \in Nat /\ j \in Nat
    OBVIOUS
  <2>2. ~(j < i)
    BY <2>1, <1>2, <1>3
  <2> QED
    BY <2>1, <2>2
<1> QED
  BY <1>4

(* The first n values of the function that starts with a and goes on with   *)
(* f, which Chain defines by recursion.                                     *)
Begins(f, a, n, g) == g = [i \in 0 .. n |-> IF i = 0 THEN a ELSE f[g[i - 1]]]

LEMMA Beginning ==
  ASSUME NEW f, NEW a, NEW n \in Nat
  PROVE  \E g : Begins(f, a, n, g)
<1> DEFINE A == {m \in Nat : ~ \E g : Begins(f, a, m, g)}
<1>1. ASSUME A # {} PROVE FALSE
  <2>1. PICK m \in A : \A j \in A : m <= j
    BY <1>1, FirstIs
  <2>2. m # 0
    <3>1. PICK g : g = [i \in 0 .. 0 |-> a]
      OBVIOUS
    <3>2. g = [i \in 0 .. 0 |-> IF i = 0 THEN a ELSE f[g[i - 1]]]
      BY <3>1
    <3> QED
      BY <3>2 DEF Begins
  <2>3. m \in Nat /\ m - 1 \in Nat /\ m - 1 \notin A
    BY <2>1, <2>2
  <2>4. PICK g : Begins(f, a, m - 1, g)
    BY <2>3
  <2>5. PICK h : h = [i \in 0 .. m |-> IF i = 0 THEN a ELSE f[g[i - 1]]]
    OBVIOUS
  <2>6. ASSUME NEW i \in 0 .. m, i # 0 PROVE g[i - 1] = h[i - 1]
    <3>1. i - 1 \in 0 .. m - 1 /\ i - 1 \in 0 .. m
      BY <2>3, <2>6
    <3>2. g[i - 1] = IF i - 1 = 0 THEN a ELSE f[g[(i - 1) - 1]]
      BY <3>1, <2>4 DEF Begins
    <3>3. h[i - 1] = IF i - 1 = 0 THEN a ELSE f[g[(i - 1) - 1]]
      BY <3>1, <2>5
    <3> QED
      BY <3>2, <3>3
  <2>7. h = [i \in 0 .. m |-> IF i = 0 THEN a ELSE f[h[i - 1]]]
    BY <2>5, <2>6
  <2> QED
    BY <2>1, <2>7 DEF Begins
<1> QED
  BY <1>1

LEMMA BeginningsAgree ==
  ASSUME NEW f, NEW a, NEW n \in Nat, NEW m \in Nat, NEW g, NEW h,
         Begins(f, a, n, g), Begins(f, a, m, h), NEW k \in Nat, k <= n, k <= m
  PROVE  g[k] = h[k]
<1> DEFINE A == {i \in Nat : i <= n /\ i <= m /\ g[i] # h[i]}
<1>1. ASSUME A # {} PROVE FALSE
  <2>1. PICK i \in A : \A j \in A : i <= j
    BY <1>1, FirstIs
  <2>2. i \in 0 .. n /\ i \in 0 .. m /\ i \in Nat
    BY <2>1
  <2>3. /\ g[i] = IF i = 0 THEN a ELSE f[g[i - 1]]
        /\ h[i] = IF i = 0 THEN a ELSE f[h[i - 1]]
    BY <2>2 DEF Begins
  <2>4. CASE i = 0
    BY <2>1, <2>3, <2>4
  <2>5. CASE i # 0
    <3>1. i - 1 \in Nat /\ i - 1 <= n /\ i - 1 <= m /\ ~(i <= i - 1)
      BY <2>2, <2>5
    <3>2. i - 1 \notin A
      BY <3>1, <2>1
    <3>3. g[i - 1] = h[i - 1]
      BY <3>1, <3>2
    <3> QED
      BY <2>1, <2>3, <2>5, <3>3
  <2> QED
    BY <2>4, <2>5
<1> QED
  BY <1>1

Follows(f, a, c) == c = [n \in Nat |-> IF n = 0 THEN a ELSE f[c[n - 1]]]

LEMMA ChainExists ==
  ASSUME NEW f, NEW a
  PROVE  \E c : Follows(f, a, c)
<1> DEFINE g(n) == CHOOSE h : Begins(f, a, n, h)
<1>1. \A n \in Nat : Begins(f, a, n, g(n))
  BY Beginning
<1> HIDE DEF g
<1>2. PICK c : c = [n \in Nat |-> g(n)[n]]
  OBVIOUS
<1>3. ASSUME NEW n \in Nat PROVE c[n] = IF n = 0 THEN a ELSE f[c[n - 1]]
  <2>1. g(n)[n] = IF n = 0 THEN a ELSE f[g(n)[n - 1]]
    BY <1>1 DEF Begins
  <2>2. CASE n = 0
    BY <2>1, <2>2, <1>2
  <2>3. CASE n # 0
    <3>1. n - 1 \in Nat /\ n - 1 <= n /\ n - 1 <= n - 1
      BY <2>3
    <3>2. g(n)[n - 1] = g(n - 1)[n - 1]
      BY <3>1, <1>1, BeginningsAgree
    <3> QED
      BY <2>1, <2>3, <3>1, <3>2, <1>2
  <2> QED
    BY <2>2, <2>3
<1>4. c = [n \in Nat |-> IF n = 0 THEN a ELSE f[c[n - 1]]]
  BY <1>2, <1>3
<1> QED
  BY <1>4 DEF Follows

(* Each window of a chain is the one that is asked by the one before it.    *)
LEMMA ChainGoes ==
  ASSUME NEW win, NEW w \in Win
  PROVE  /\ Chain(win, w)[0] = w
         /\ \A n \in Nat : Chain(win, w)[n] \in Win =>
              Chain(win, w)[n + 1] = CHOOSE u \in Above(win, Chain(win, w)[n]) : TRUE
<1> DEFINE asked == [v \in Win |-> CHOOSE u \in Above(win, v) : TRUE]
           chain == CHOOSE c : c = [n \in Nat |-> IF n = 0 THEN w ELSE asked[c[n - 1]]]
<1>1. Chain(win, w) = chain
  BY DEF Chain
<1>2. \E c : c = [n \in Nat |-> IF n = 0 THEN w ELSE asked[c[n - 1]]]
  <2>1. PICK f : f = asked
    OBVIOUS
  <2>2. PICK c : Follows(f, w, c)
    BY ChainExists
  <2>3. c = [n \in Nat |-> IF n = 0 THEN w ELSE f[c[n - 1]]]
    BY <2>2 DEF Follows
  <2>4. c = [n \in Nat |-> IF n = 0 THEN w ELSE asked[c[n - 1]]]
    BY <2>1, <2>3
  <2> QED
    BY <2>4
<1>3. chain = [n \in Nat |-> IF n = 0 THEN w ELSE asked[chain[n - 1]]]
  <2> HIDE DEF asked
  <2> QED
    BY <1>2
<1> HIDE DEF chain
<1>4. chain[0] = w
  BY <1>3
<1>5. ASSUME NEW n \in Nat, chain[n] \in Win
      PROVE  chain[n + 1] = CHOOSE u \in Above(win, chain[n]) : TRUE
  <2>1. n + 1 \in Nat /\ n + 1 # 0 /\ (n + 1) - 1 = n
    OBVIOUS
  <2>2. chain[n + 1] = asked[chain[n]]
    <3> HIDE DEF asked
    <3> QED
      BY <1>3, <2>1
  <2> QED
    BY <2>2, <1>5
<1> QED
  BY <1>1, <1>4, <1>5

------------------------------------------------------------------------------
(* The session.                                                             *)

Props ==
  [name : {"n0", "n1"}, type : {"none", "normal", "dialog"}, transient : Leaders,
   leader : Leaders, opacity : Level, state : BOOLEAN, other : BOOLEAN,
   noShadow : BOOLEAN, shaped : BOOLEAN]

Event ==
  {e \in [atom : Property \cup {"map", "unmap", "focus"}, x : Xid] :
     /\ e.atom \in {"map", "unmap", "focus", "shaped", "noShadow"} => e.x \in Win
     /\ e.atom = "state" => e.x \in Kid}

Session ==
  [o : Config, win : [Win -> WinType], activeWin : Win \cup {None},
   activeLeader : Leaders, srv : [Xid -> Props], mask : [Xid -> BOOLEAN],
   mapped : [Win -> BOOLEAN], focus : Win \cup {None}, queue : Seq(Event),
   openclose : BOOLEAN]

LEMMA UpType ==
  ASSUME NEW v \in WinType
  PROVE  Up(v) \in Leaders
BY DEF Up, WinType, Leaders

(* win_get_leader_raw changes nothing but caches.                           *)
OnlyCaches(win, new) ==
  /\ new \in [Win -> WinType]
  /\ \A v \in Win : \E c \in Leaders : new[v] = [win[v] EXCEPT !.cache = c]

LEMMA CacheType ==
  ASSUME NEW v \in WinType, NEW c \in Leaders
  PROVE  [v EXCEPT !.cache = c] \in WinType
BY DEF WinType

LEMMA SameCache ==
  ASSUME NEW v \in WinType
  PROVE  v = [v EXCEPT !.cache = v.cache] /\ v.cache \in Leaders
BY DEF WinType

LEMMA CachesSame ==
  ASSUME NEW win \in [Win -> WinType]
  PROVE  OnlyCaches(win, win)
<1>1. ASSUME NEW v \in Win PROVE \E c \in Leaders : win[v] = [win[v] EXCEPT !.cache = c]
  <2>1. win[v] \in WinType
    OBVIOUS
  <2> QED
    BY <2>1, SameCache
<1> QED
  BY <1>1 DEF OnlyCaches

(* A chain stays among the windows until it ends.                           *)
LEMMA ChainInWin ==
  ASSUME NEW win, NEW w \in Win, NEW k \in Nat,
         \A m \in 0 .. k - 1 : ~Ends(win, Chain(win, w), m)
  PROVE  \A i \in 0 .. k : Chain(win, w)[i] \in Win
<1>1. PICK c : c = Chain(win, w)
  OBVIOUS
<1>2. c[0] = w
  BY <1>1, ChainGoes
<1>3. ASSUME NEW n \in Nat, c[n] \in Win PROVE c[n + 1] = CHOOSE u \in Above(win, c[n]) : TRUE
  BY <1>1, <1>3, ChainGoes
<1> DEFINE A == {i \in Nat : i <= k /\ c[i] \notin Win}
<1>4. ASSUME A # {} PROVE FALSE
  <2>1. PICK i \in A : \A j \in A : i <= j
    BY <1>4, FirstIs
  <2>2. i \in Nat /\ i # 0 /\ i <= k /\ c[i] \notin Win
    BY <2>1, <1>2
  <2>3. i - 1 \in Nat /\ i - 1 \in 0 .. k - 1 /\ i - 1 \notin A
    BY <2>1, <2>2
  <2>4. c[i - 1] \in Win
    BY <2>3
  <2>5. c[i] = CHOOSE u \in Above(win, c[i - 1]) : TRUE
    BY <2>2, <2>3, <2>4, <1>3
  <2>6. Asks(win, c[i - 1])
    BY <2>3, <1>1 DEF Ends
  <2>7. Above(win, c[i - 1]) # {} /\ Above(win, c[i - 1]) \subseteq Win
    BY <2>6 DEF Asks, Above
  <2> QED
    BY <2>2, <2>5, <2>7
<1> QED
  BY <1>4, <1>1

(* What Cached names, outside of it.                                        *)
End(win, w) == Final(win, Chain(win, w))
Last(win, w) == win[Chain(win, w)[End(win, w)]]
Top(win, w) == IF Last(win, w).cache # None THEN Last(win, w).cache ELSE Up(Last(win, w))
Members(win, w) == {Chain(win, w)[i] : i \in 0 .. End(win, w)}
Deepest(win, w) == Chain(win, w)[MaxRecursion + 1]

LEMMA CachedIs ==
  ASSUME NEW win, NEW w
  PROVE  Cached(win, w) =
           IF win[w].cache # None \/ Up(win[w]) = None THEN win
           ELSE IF \E n \in Calls : Ends(win, Chain(win, w), n)
           THEN [v \in Win |-> IF v \in Members(win, w)
                               THEN [win[v] EXCEPT !.cache = Top(win, w)] ELSE win[v]]
           ELSE [win EXCEPT ![Deepest(win, w)].cache = Up(win[Deepest(win, w)])]
BY Zenon DEF Cached, CachedAlong, Filled, End, Last, Top, Members, Deepest

LEMMA CachedOnly ==
  ASSUME NEW win \in [Win -> WinType], NEW w \in Win
  PROVE  OnlyCaches(win, Cached(win, w))
<1>1. PICK chain : chain = Chain(win, w)
  OBVIOUS
<1>2. PICK end : end = End(win, w)
  OBVIOUS
<1>3. PICK top : top = Top(win, w)
  OBVIOUS
<1>4. PICK members : members = Members(win, w)
  OBVIOUS
<1>5. PICK deepest : deepest = Deepest(win, w)
  OBVIOUS
<1>6. Cached(win, w) =
        IF win[w].cache # None \/ Up(win[w]) = None THEN win
        ELSE IF \E n \in Calls : Ends(win, chain, n)
        THEN [v \in Win |-> IF v \in members THEN [win[v] EXCEPT !.cache = top] ELSE win[v]]
        ELSE [win EXCEPT ![deepest].cache = Up(win[deepest])]
  BY <1>1, <1>2, <1>3, <1>4, <1>5, CachedIs, Zenon
<1>61. /\ end = CHOOSE n \in Calls : /\ Ends(win, chain, n)
                                      /\ \A m \in 0 .. n - 1 : ~Ends(win, chain, m)
       /\ members = {chain[i] : i \in 0 .. end}
       /\ deepest = chain[MaxRecursion + 1]
  BY <1>1, <1>2, <1>4, <1>5, Zenon DEF End, Final, Members, Deepest
<1>62. top = IF win[chain[end]].cache # None THEN win[chain[end]].cache
             ELSE Up(win[chain[end]])
  BY <1>1, <1>2, <1>3, Zenon DEF Top, Last
<1>7. Calls \subseteq Nat /\ MaxRecursion + 1 \in Calls
  BY WinDataAssumption DEF Calls
<1>8. ASSUME NEW n \in Nat, \A m \in 0 .. n - 1 : ~Ends(win, chain, m)
      PROVE  chain[n] \in Win
  BY <1>1, <1>8, ChainInWin
<1>9. CASE win[w].cache # None \/ Up(win[w]) = None
  BY <1>6, <1>9, CachesSame
<1>10. CASE /\ ~(win[w].cache # None \/ Up(win[w]) = None)
            /\ \E n \in Calls : Ends(win, chain, n)
  <2> DEFINE A == {n \in Calls : Ends(win, chain, n)}
  <2>1. PICK n \in A : \A m \in A : n <= m
    BY <1>7, <1>10, FirstIs
  <2>2. \A m \in 0 .. n - 1 : m \in Calls
    BY <2>1, WinDataAssumption DEF Calls
  <2>3. \A m \in 0 .. n - 1 : ~Ends(win, chain, m)
    <3>1. ASSUME NEW m \in 0 .. n - 1 PROVE ~Ends(win, chain, m)
      <4>1. m \in Calls /\ ~(n <= m)
        BY <2>1, <2>2, <1>7
      <4> QED
        BY <4>1, <2>1
    <3> QED
      BY <3>1
  <2>4. end \in Calls /\ \A m \in 0 .. end - 1 : ~Ends(win, chain, m)
    <3>1. n \in Calls /\ Ends(win, chain, n)
      BY <2>1
    <3> QED
      BY <3>1, <2>3, <1>61, Zenon
  <2>5. chain[end] \in Win
    BY <2>4, <1>7, <1>8
  <2>6. top \in Leaders
    <3>1. win[chain[end]] \in WinType
      BY <2>5
    <3> QED
      BY <3>1, <1>62, UpType, SameCache
  <2>7. PICK new : new = [v \in Win |-> IF v \in members THEN [win[v] EXCEPT !.cache = top]
                                        ELSE win[v]]
    OBVIOUS
  <2>8. ASSUME NEW v \in Win
        PROVE  new[v] \in WinType /\ \E c \in Leaders : new[v] = [win[v] EXCEPT !.cache = c]
    <3>1. win[v] \in WinType
      OBVIOUS
    <3>2. new[v] = IF v \in members THEN [win[v] EXCEPT !.cache = top] ELSE win[v]
      BY <2>7
    <3>3. CASE v \in members
      BY <3>1, <3>2, <3>3, <2>6, CacheType
    <3>4. CASE v \notin members
      BY <3>1, <3>2, <3>4, SameCache
    <3> QED
      BY <3>3, <3>4
  <2>9. new \in [Win -> WinType]
    BY <2>7, <2>8
  <2>10. Cached(win, w) = new
    BY <1>6, <1>10, <2>7
  <2> QED
    BY <2>8, <2>9, <2>10 DEF OnlyCaches
<1>11. CASE /\ ~(win[w].cache # None \/ Up(win[w]) = None)
            /\ ~ \E n \in Calls : Ends(win, chain, n)
  <2>1. \A m \in 0 .. (MaxRecursion + 1) - 1 : m \in Calls
    BY WinDataAssumption DEF Calls
  <2>2. deepest \in Win
    <3>1. \A m \in 0 .. (MaxRecursion + 1) - 1 : ~Ends(win, chain, m)
      BY <2>1, <1>11
    <3> QED
      BY <3>1, <1>61, <1>7, <1>8
  <2>3. PICK new : new = [win EXCEPT ![deepest].cache = Up(win[deepest])]
    OBVIOUS
  <2>4. ASSUME NEW v \in Win
        PROVE  new[v] \in WinType /\ \E c \in Leaders : new[v] = [win[v] EXCEPT !.cache = c]
    <3>1. win[v] \in WinType /\ win[deepest] \in WinType
      BY <2>2
    <3>2. CASE v = deepest
      <4>1. new[v] = [win[v] EXCEPT !.cache = Up(win[deepest])]
        BY <2>3, <3>2
      <4> QED
        BY <4>1, <3>1, UpType, CacheType
    <3>3. CASE v # deepest
      <4>1. new[v] = win[v]
        BY <2>3, <3>3
      <4> QED
        BY <4>1, <3>1, SameCache
    <3> QED
      BY <3>2, <3>3
  <2>5. new \in [Win -> WinType]
    BY <2>3, <2>4
  <2>6. Cached(win, w) = new
    BY <1>6, <1>11, <2>3
  <2> QED
    BY <2>4, <2>5, <2>6 DEF OnlyCaches
<1> QED
  BY <1>9, <1>10, <1>11

(* Where whoever is asked leads itself, the top of a chain is the leader, or*)
(* else the client, of its first window, and what is cached is right.       *)
Grounded(win) ==
  /\ \A v \in Win : win[v].cache \in {None, Up(win[v])}
  /\ \A u, v \in Win : Up(win[v]) # None /\ win[u].client = Up(win[v]) =>
       Up(win[u]) = win[u].client

LEMMA CachedGrounded ==
  ASSUME NEW win \in [Win -> WinType], NEW w \in Win, Grounded(win)
  PROVE  /\ Cached(win, w)[w].cache = Up(win[w])
         /\ \A v \in Win : Cached(win, w)[v].cache \in {win[v].cache, Up(win[v])}
<1>1. PICK chain : chain = Chain(win, w)
  OBVIOUS
<1>2. PICK end : end = End(win, w)
  OBVIOUS
<1>3. PICK top : top = Top(win, w)
  OBVIOUS
<1>4. PICK members : members = Members(win, w)
  OBVIOUS
<1>5. PICK deepest : deepest = Deepest(win, w)
  OBVIOUS
<1>6. Cached(win, w) =
        IF win[w].cache # None \/ Up(win[w]) = None THEN win
        ELSE IF \E n \in Calls : Ends(win, chain, n)
        THEN [v \in Win |-> IF v \in members THEN [win[v] EXCEPT !.cache = top] ELSE win[v]]
        ELSE [win EXCEPT ![deepest].cache = Up(win[deepest])]
  BY <1>1, <1>2, <1>3, <1>4, <1>5, CachedIs, Zenon
<1>61. /\ end = CHOOSE n \in Calls : /\ Ends(win, chain, n)
                                      /\ \A m \in 0 .. n - 1 : ~Ends(win, chain, m)
       /\ members = {chain[i] : i \in 0 .. end}
       /\ deepest = chain[MaxRecursion + 1]
  BY <1>1, <1>2, <1>4, <1>5, Zenon DEF End, Final, Members, Deepest
<1>62. top = IF win[chain[end]].cache # None THEN win[chain[end]].cache
             ELSE Up(win[chain[end]])
  BY <1>1, <1>2, <1>3, Zenon DEF Top, Last
<1>7. 0 \in Calls /\ 1 \in Calls /\ Calls \subseteq Nat
  BY WinDataAssumption DEF Calls
<1>8. chain[0] = w
  BY <1>1, ChainGoes
<1>9. CASE win[w].cache # None \/ Up(win[w]) = None
  BY <1>6, <1>9 DEF Grounded
<1>10. CASE ~(win[w].cache # None \/ Up(win[w]) = None)
  <2>1. /\ end \in Calls
        /\ \A v \in members : v \in Win => Up(win[v]) = Up(win[w])
        /\ w \in members /\ top = Up(win[w])
        /\ \E n \in Calls : Ends(win, chain, n)
    <3>1. CASE ~Asks(win, w)
      <4>1. Ends(win, chain, 0)
        BY <3>1, <1>8 DEF Ends
      <4>2. \A n \in Calls : (\A m \in 0 .. n - 1 : ~Ends(win, chain, m)) => n = 0
        <5>1. \A n \in Calls : n # 0 => 0 \in 0 .. n - 1
          BY <1>7
        <5> QED
          BY <5>1, <4>1
      <4>3. \A m \in 0 .. 0 - 1 : ~Ends(win, chain, m)
        OBVIOUS
      <4>4. end = 0
        BY <4>1, <4>2, <4>3, <1>61, <1>7
      <4>5. members = {w}
        <5>1. 0 .. end = {0}
          BY <4>4
        <5> QED
          BY <5>1, <1>61, <1>8
      <4> QED
        BY <4>1, <4>4, <4>5, <1>62, <1>7, <1>8, <1>10
    <3>2. CASE Asks(win, w)
      <4>1. PICK v : v = CHOOSE u \in Above(win, w) : TRUE
        OBVIOUS
      <4>2. v \in Win /\ win[v].client = Up(win[w])
        BY <4>1, <3>2 DEF Asks, Above
      <4>3. chain[1] = v
        <5>1. \A n \in Nat : Chain(win, w)[n] \in Win =>
                Chain(win, w)[n + 1] = CHOOSE u \in Above(win, Chain(win, w)[n]) : TRUE
          BY ChainGoes
        <5>2. chain[0 + 1] = CHOOSE u \in Above(win, chain[0]) : TRUE
          BY <5>1, <1>1, <1>8
        <5> QED
          BY <5>2, <4>1, <1>8
      <4>4. Up(win[v]) = win[v].client
        BY <4>2, <1>10 DEF Grounded
      <4>5. ~Asks(win, v)
        BY <4>4 DEF Asks
      <4>6. Ends(win, chain, 1)
        BY <4>3, <4>5 DEF Ends
      <4>7. \A m \in 0 .. 1 - 1 : ~Ends(win, chain, m)
        <5>1. ~Ends(win, chain, 0)
          BY <3>2, <1>8 DEF Ends
        <5>2. \A m \in 0 .. 1 - 1 : m = 0
          OBVIOUS
        <5> QED
          BY <5>1, <5>2
      <4>8. \A n \in Calls : Ends(win, chain, n) /\ (\A m \in 0 .. n - 1 : ~Ends(win, chain, m))
                               => n = 1
        <5>1. \A n \in Calls : n # 0 /\ n # 1 => 1 \in 0 .. n - 1
          BY <1>7
        <5>2. ~Ends(win, chain, 0)
          BY <3>2, <1>8 DEF Ends
        <5> QED
          BY <5>1, <5>2, <4>6
      <4>9. end = 1
        BY <4>6, <4>7, <4>8, <1>61, <1>7
      <4>10. members = {w, v}
        <5>1. 0 .. end = {0, 1}
          BY <4>9
        <5> QED
          BY <5>1, <1>61, <1>8, <4>3
      <4>11. top = Up(win[w])
        <5>1. win[v].cache \in {None, Up(win[v])}
          BY <4>2 DEF Grounded
        <5> QED
          BY <5>1, <1>62, <4>9, <4>3, <4>4, <4>2
      <4> QED
        BY <4>2, <4>4, <4>6, <4>9, <4>10, <4>11, <1>7
    <3> QED
      BY <3>1, <3>2
  <2>2. Cached(win, w) = [v \in Win |-> IF v \in members THEN [win[v] EXCEPT !.cache = top]
                                        ELSE win[v]]
    BY <1>6, <1>10, <2>1
  <2>3. ASSUME NEW v \in Win
        PROVE  Cached(win, w)[v].cache = IF v \in members THEN top ELSE win[v].cache
    <3>1. win[v] \in WinType
      OBVIOUS
    <3>2. [win[v] EXCEPT !.cache = top].cache = top
      BY <3>1 DEF WinType
    <3> QED
      BY <2>2, <3>2
  <2> QED
    BY <2>1, <2>3
<1> QED
  BY <1>9, <1>10

LEMMA WinIn ==
  ASSUME NEW st \in Session, NEW w \in Win
  PROVE  st.win[w] \in WinType
BY DEF Session

------------------------------------------------------------------------------
(* What a handler leaves alone.                                             *)

Pending(st) == {st.queue[i] : i \in DOMAIN st.queue}

Of(atom, x) == [atom |-> atom, x |-> x]

Kept == {"viewable", "client", "wmwin", "type", "name", "leader", "opacityProp",
         "opacityClient", "noShadow", "shaped", "inOpenclose", "callback",
         "force", "opacityTgt", "dimmed"}

(* The window v of a session became new: apart from the fields in F, only   *)
(* its decisions, its cache, its opacity rule and its flag changed, and the *)
(* flag is not reset and tells of a new focus decision.                     *)
Touched(v, new, F) ==
  /\ \A f \in Kept : f \notin F => new[f] = v[f]
  /\ v.opctChange => new.opctChange
  /\ new.dec["focus"] # v.dec["focus"] => new.opctChange

(* A frame whose opacity is written is told of it.                          *)
SameProps(a, b, x) ==
  /\ \A f \in Property \ {"opacity"} : b.srv[x][f] = a.srv[x][f]
  /\ \/ b.srv[x]["opacity"] = a.srv[x]["opacity"]
     \/ x \in Win /\ (a.mask[x] => Of("opacity", x) \in Pending(b))

(* Where whoever is asked leads itself, the caches stay right.              *)
CachesRight(a, b) ==
  Grounded(a.win) => \A v \in Win : b.win[v].cache \in {a.win[v].cache, Up(a.win[v])}

(* What no list of conditions is about and nothing else decides keeps the   *)
(* value a new window has.                                                  *)
Idle(o, v) ==
  /\ o.lists["opacity"] = {} => v.opacitySet = Opaque
  /\ o.lists["paint"] = {} => ~v.dec["paint"]
  /\ o.lists["unredir"] = {} => ~v.dec["unredir"]
  /\ o.lists["invert"] = {} /\ "invert" \notin o.offered =>
       ~v.dec["invert"] /\ ~v.last["invert"] /\ v.force["invert"] = "unset"

StaysIdle(a, b) == \A u \in Win : Idle(a.o, a.win[u]) => Idle(a.o, b.win[u])

Changes(a, b, w, F) ==
  /\ b \in Session
  /\ b.o = a.o /\ b.mask = a.mask /\ b.mapped = a.mapped /\ b.focus = a.focus
  /\ b.openclose = a.openclose
  /\ \A v \in Win : Touched(a.win[v], b.win[v], IF v = w THEN F ELSE {})
  /\ Pending(a) \subseteq Pending(b)
  /\ \A e \in Pending(b) : e \in Pending(a) \/ e.atom = "opacity"
  /\ \A x \in Xid : SameProps(a, b, x)
  /\ F \cap {"leader", "client"} = {} => CachesRight(a, b)
  /\ "force" \notin F => StaysIdle(a, b)

LEMMA ChangesNothing ==
  ASSUME NEW st \in Session, NEW w, NEW F
  PROVE  Changes(st, st, w, F)
BY DEF Changes, Touched, SameProps, CachesRight, StaysIdle

LEMMA TouchedTwice ==
  ASSUME NEW v, NEW new, NEW newer, NEW F, NEW G, Touched(v, new, F), Touched(new, newer, G)
  PROVE  Touched(v, newer, F \cup G)
BY DEF Touched

LEMMA TouchedMore ==
  ASSUME NEW v, NEW new, NEW F, NEW G, Touched(v, new, F), F \subseteq G
  PROVE  Touched(v, new, G)
BY DEF Touched

LEMMA ChangesMore ==
  ASSUME NEW a, NEW b, NEW w, NEW F, NEW G, Changes(a, b, w, F), F \subseteq G
  PROVE  Changes(a, b, w, G)
<1>1. ASSUME NEW v \in Win
      PROVE  Touched(a.win[v], b.win[v], IF v = w THEN G ELSE {})
  BY TouchedMore DEF Changes
<1> QED
  BY <1>1 DEF Changes

LEMMA ChangesOf ==
  ASSUME NEW a, NEW b, NEW v, NEW w, NEW F, Changes(a, b, v, {})
  PROVE  Changes(a, b, w, F)
<1>1. ASSUME NEW u \in Win
      PROVE  Touched(a.win[u], b.win[u], IF u = w THEN F ELSE {})
  <2>1. Touched(a.win[u], b.win[u], {})
    BY DEF Changes
  <2> QED
    BY <2>1, TouchedMore
<1> QED
  BY <1>1 DEF Changes

LEMMA UpKept ==
  ASSUME NEW a, NEW b, NEW w, NEW F, Changes(a, b, w, F), F \cap {"leader", "client"} = {}
  PROVE  /\ \A v \in Win : /\ Up(b.win[v]) = Up(a.win[v])
                           /\ b.win[v].client = a.win[v].client
         /\ Grounded(a.win) => Grounded(b.win)
<1>1. ASSUME NEW v \in Win
      PROVE  b.win[v].leader = a.win[v].leader /\ b.win[v].client = a.win[v].client
  <2>1. Touched(a.win[v], b.win[v], IF v = w THEN F ELSE {})
    BY DEF Changes
  <2>2. "leader" \in Kept /\ "client" \in Kept
    BY DEF Kept
  <2>3. "leader" \notin F /\ "client" \notin F
    OBVIOUS
  <2> QED
    BY <2>1, <2>2, <2>3 DEF Touched
<1>2. \A v \in Win : Up(b.win[v]) = Up(a.win[v])
  BY <1>1 DEF Up
<1>3. CachesRight(a, b)
  BY DEF Changes
<1>4. ASSUME Grounded(a.win) PROVE Grounded(b.win)
  BY <1>1, <1>2, <1>3, <1>4 DEF CachesRight, Grounded
<1> QED
  BY <1>1, <1>2, <1>4

LEMMA ChangesTwice ==
  ASSUME NEW a, NEW b, NEW c, NEW w, NEW F, NEW G,
         Changes(a, b, w, F), Changes(b, c, w, G)
  PROVE  Changes(a, c, w, F \cup G)
<1>1. ASSUME NEW v \in Win
      PROVE  Touched(a.win[v], c.win[v], IF v = w THEN F \cup G ELSE {})
  <2>1. CASE v = w
    BY <2>1, TouchedTwice DEF Changes
  <2>2. CASE v # w
    <3>1. Touched(a.win[v], b.win[v], {}) /\ Touched(b.win[v], c.win[v], {})
      BY <2>2 DEF Changes
    <3>2. Touched(a.win[v], c.win[v], {} \cup {})
      BY <3>1, TouchedTwice
    <3> QED
      BY <3>2, <2>2
  <2> QED
    BY <2>1, <2>2
<1>2. ASSUME NEW x \in Xid PROVE SameProps(a, c, x)
  <2>1. SameProps(a, b, x) /\ SameProps(b, c, x) /\ b.mask = a.mask /\ Pending(b) \subseteq Pending(c)
    BY DEF Changes
  <2> QED
    BY <2>1 DEF SameProps
<1>3. /\ Pending(a) \subseteq Pending(c)
      /\ \A e \in Pending(c) : e \in Pending(a) \/ e.atom = "opacity"
  BY DEF Changes
<1>4. ASSUME (F \cup G) \cap {"leader", "client"} = {} PROVE CachesRight(a, c)
  <2>1. F \cap {"leader", "client"} = {} /\ G \cap {"leader", "client"} = {}
    BY <1>4
  <2>2. /\ \A v \in Win : Up(b.win[v]) = Up(a.win[v])
        /\ Grounded(a.win) => Grounded(b.win)
    BY <2>1, UpKept
  <2>3. CachesRight(a, b) /\ CachesRight(b, c)
    BY <2>1 DEF Changes
  <2> QED
    BY <2>2, <2>3 DEF CachesRight
<1>5. ASSUME "force" \notin F \cup G PROVE StaysIdle(a, c)
  <2>1. StaysIdle(a, b) /\ StaysIdle(b, c) /\ b.o = a.o
    BY <1>5 DEF Changes
  <2> QED
    BY <2>1 DEF StaysIdle
<1> QED
  BY <1>1, <1>2, <1>3, <1>4, <1>5 DEF Changes

(* The same of many changes of one kind.                                    *)
LEMMA ChangesAgain ==
  ASSUME NEW a, NEW b, NEW c, NEW w, NEW F, Changes(a, b, w, F), Changes(b, c, w, F)
  PROVE  Changes(a, c, w, F)
<1>1. F \cup F = F
  OBVIOUS
<1> QED
  BY <1>1, ChangesTwice

(* A session in which only one window changed.                              *)
LEMMA OneWindow ==
  ASSUME NEW st \in Session, NEW w \in Win, NEW new \in WinType
  PROVE  LET b == [st EXCEPT !.win[w] = new] IN
         /\ b \in Session /\ b.win[w] = new /\ Pending(b) = Pending(st)
         /\ \A v \in Win : v # w => b.win[v] = st.win[v]
         /\ b.o = st.o /\ b.mask = st.mask /\ b.mapped = st.mapped /\ b.focus = st.focus
         /\ b.openclose = st.openclose /\ b.srv = st.srv /\ b.queue = st.queue
         /\ b.activeWin = st.activeWin /\ b.activeLeader = st.activeLeader
BY DEF Session, Pending

LEMMA OneTouched ==
  ASSUME NEW st \in Session, NEW w \in Win, NEW new \in WinType, NEW F,
         Touched(st.win[w], new, F), new.cache = st.win[w].cache,
         "force" \notin F => (Idle(st.o, st.win[w]) => Idle(st.o, new))
  PROVE  Changes(st, [st EXCEPT !.win[w] = new], w, F)
<1>1. PICK b : b = [st EXCEPT !.win[w] = new]
  OBVIOUS
<1>2. /\ b \in Session /\ b.win[w] = new /\ Pending(b) = Pending(st)
      /\ \A v \in Win : v # w => b.win[v] = st.win[v]
      /\ b.o = st.o /\ b.mask = st.mask /\ b.mapped = st.mapped /\ b.focus = st.focus
      /\ b.openclose = st.openclose /\ b.srv = st.srv
  BY <1>1, OneWindow
<1>3. ASSUME NEW v \in Win
      PROVE  Touched(st.win[v], b.win[v], IF v = w THEN F ELSE {})
  <2>1. CASE v = w
    BY <2>1, <1>2
  <2>2. CASE v # w
    <3>1. b.win[v] = st.win[v]
      BY <2>2, <1>2
    <3> QED
      BY <3>1, <2>2 DEF Touched
  <2> QED
    BY <2>1, <2>2
<1>4. \A x \in Xid : SameProps(st, b, x)
  BY <1>2 DEF SameProps
<1>5. CachesRight(st, b)
  BY <1>2 DEF CachesRight
<1>7. "force" \notin F => StaysIdle(st, b)
  BY <1>2 DEF StaysIdle
<1>6. Changes(st, b, w, F)
  BY <1>2, <1>3, <1>4, <1>5, <1>7 DEF Changes
<1> QED
  BY <1>1, <1>6

(* Only windows changed, each as it may.                                    *)
LEMMA AllTouched ==
  ASSUME NEW st \in Session, NEW new \in [Win -> WinType],
         \A v \in Win : /\ Touched(st.win[v], new[v], {})
                        /\ Idle(st.o, st.win[v]) => Idle(st.o, new[v]),
         NEW w, NEW F,
         Grounded(st.win) => \A v \in Win : new[v].cache \in {st.win[v].cache, Up(st.win[v])}
  PROVE  Changes(st, [st EXCEPT !.win = new], w, F)
<1>1. PICK b : b = [st EXCEPT !.win = new]
  OBVIOUS
<1>2. /\ b \in Session /\ b.win = new /\ Pending(b) = Pending(st)
      /\ b.o = st.o /\ b.mask = st.mask /\ b.mapped = st.mapped /\ b.focus = st.focus
      /\ b.openclose = st.openclose /\ b.srv = st.srv
  BY <1>1 DEF Session, Pending
<1>3. \A x \in Xid : SameProps(st, b, x)
  BY <1>2 DEF SameProps
<1>4. Changes(st, b, w, {})
  BY <1>2, <1>3 DEF Changes, CachesRight, StaysIdle
<1> QED
  BY <1>1, <1>4, ChangesOf

------------------------------------------------------------------------------
(* What the determine functions leave alone.                                *)

LEMMA WindowTwice ==
  ASSUME NEW st \in Session, NEW w \in Win, NEW v, NEW new
  PROVE  [[st EXCEPT !.win[w] = v] EXCEPT !.win[w] = new] = [st EXCEPT !.win[w] = new]
BY DEF Session

LEMMA DecidedType ==
  ASSUME NEW st \in Session, NEW w \in Win, NEW d \in Decision
  PROVE  Decided(st, w, d) \in BOOLEAN
<1>1. Wanted(st, w, d) \in BOOLEAN
  <2>1. Matches(st, w, d) \in BOOLEAN
    BY Zenon DEF Matches
  <2>2. PICK v : v = st.win[w]
    OBVIOUS
  <2>3. v \in WinType
    BY <2>2 DEF Session
  <2>4. PICK listed \in BOOLEAN : listed = Matches(st, w, d)
    BY <2>1
  <2>5. WantedOf(st, w, d, v, listed) \in BOOLEAN
    BY <2>4, Zenon DEF WantedOf
  <2> QED
    BY <2>2, <2>4, <2>5 DEF Wanted
<1>2. st.win[w].dec[d] \in BOOLEAN
  BY DEF Session, WinType
<1> QED
  BY <1>1, <1>2 DEF Decided

(* A window v whose decisions ds are taken again, where new is the result.  *)
Redecided(st, w, ds, v, new) ==
  \E D \in [Decision -> BOOLEAN], L \in [Looks -> BOOLEAN] :
    /\ D = [d \in Decision |-> IF d \in ds THEN Decided(st, w, d) ELSE v.dec[d]]
    /\ L["invert"] = v.last["invert"]
    /\ new = [v EXCEPT !.dec = D, !.last = L]

LEMMA DetermineIs ==
  ASSUME NEW st \in Session, NEW w \in Win, NEW ds
  PROVE  \E new : /\ Redecided(st, w, ds, st.win[w], new)
                  /\ Determine(st, w, ds) = [st EXCEPT !.win[w] = new]
<1>1. PICK v : v = st.win[w]
  OBVIOUS
<1>2. v \in WinType
  BY <1>1 DEF Session
<1>3. PICK D : D = [d \in Decision |-> IF d \in ds THEN Decided(st, w, d) ELSE v.dec[d]]
  OBVIOUS
<1>4. D \in [Decision -> BOOLEAN]
  <2>1. ASSUME NEW d \in Decision
        PROVE  (IF d \in ds THEN Decided(st, w, d) ELSE v.dec[d]) \in BOOLEAN
    BY <1>2, DecidedType DEF WinType
  <2> QED
    BY <2>1, <1>3
<1>5. PICK v1 : v1 = [v EXCEPT !.dec = D]
  OBVIOUS
<1>6. v1 \in WinType
  BY <1>2, <1>4, <1>5 DEF WinType
<1>7. PICK st1 : st1 = [st EXCEPT !.win[w] = v1]
  OBVIOUS
<1>8. Taken(st, w, ds) = st1
  BY <1>1, <1>3, <1>5, <1>7, Zenon DEF Taken
<1>9. st1 \in Session /\ st1.win[w] = v1
  BY <1>6, <1>7, OneWindow
<1>10. \E L \in [Looks -> BOOLEAN] :
         /\ L["invert"] = v.last["invert"]
         /\ Recorded(st1, w, ds) = [st1 EXCEPT !.win[w] = [v1 EXCEPT !.last = L]]
  <2>1. PICK kept \in BOOLEAN :
          kept = (v1.force["fade"] # "unset" \/ (st1.openclose /\ v1.inOpenclose))
    BY Zenon
  <2>2. PICK last \in BOOLEAN :
          last = IF "fade" \in ds /\ kept THEN v1.dec["fade"] ELSE v1.last["fade"]
    <3>1. v1.dec["fade"] \in BOOLEAN /\ v1.last["fade"] \in BOOLEAN
      BY <1>6 DEF WinType, Decision, Looks
    <3> QED
      BY <3>1
  <2>3. PICK L : L = [v1.last EXCEPT !["fade"] = last]
    OBVIOUS
  <2>4. L \in [Looks -> BOOLEAN]
    BY <1>6, <2>2, <2>3 DEF WinType
  <2>5. Recorded(st1, w, ds) = [st1 EXCEPT !.win[w] = [v1 EXCEPT !.last = L]]
    BY <1>9, <2>1, <2>2, <2>3, Zenon DEF Recorded
  <2>6. L["invert"] = v.last["invert"]
    <3>1. v1.last = v.last /\ "invert" \in Looks
      BY <1>2, <1>5 DEF WinType, Looks
    <3>2. v.last \in [Looks -> BOOLEAN]
      BY <1>2 DEF WinType
    <3> QED
      BY <3>1, <3>2, <2>3
  <2> QED
    BY <2>4, <2>5, <2>6
<1>11. PICK L \in [Looks -> BOOLEAN] :
         /\ L["invert"] = v.last["invert"]
         /\ Recorded(st1, w, ds) = [st1 EXCEPT !.win[w] = [v1 EXCEPT !.last = L]]
  BY <1>10
<1>12. PICK new : new = [v1 EXCEPT !.last = L]
  OBVIOUS
<1>14. Determine(st, w, ds) = [st1 EXCEPT !.win[w] = new]
  BY <1>8, <1>11, <1>12, Zenon DEF Determine
<1>15. [st1 EXCEPT !.win[w] = new] = [st EXCEPT !.win[w] = new]
  BY <1>7, WindowTwice
<1>13. [v1 EXCEPT !.last = L] = [v EXCEPT !.dec = D, !.last = L]
  BY <1>5
<1> QED
  <2>1. Redecided(st, w, ds, v, new)
    BY <1>3, <1>4, <1>11, <1>12, <1>13, Zenon DEF Redecided
  <2> QED
    BY <2>1, <1>1, <1>14, <1>15, Zenon

LEMMA RedecidedType ==
  ASSUME NEW st, NEW w, NEW ds, NEW v \in WinType, NEW new, Redecided(st, w, ds, v, new)
  PROVE  /\ new \in WinType /\ new.opctChange = v.opctChange
         /\ \A f \in Kept : new[f] = v[f]
         /\ new.cache = v.cache /\ new.opacitySet = v.opacitySet
         /\ new.last["invert"] = v.last["invert"]
         /\ \A d \in Decision : new.dec[d] = IF d \in ds THEN Decided(st, w, d) ELSE v.dec[d]
<1>1. PICK D \in [Decision -> BOOLEAN], L \in [Looks -> BOOLEAN] :
        /\ D = [d \in Decision |-> IF d \in ds THEN Decided(st, w, d) ELSE v.dec[d]]
        /\ L["invert"] = v.last["invert"]
        /\ new = [v EXCEPT !.dec = D, !.last = L]
  BY Zenon DEF Redecided
<1>2. /\ new \in WinType /\ new.dec = D /\ new.opctChange = v.opctChange
      /\ \A f \in Kept : new[f] = v[f]
      /\ new.cache = v.cache /\ new.opacitySet = v.opacitySet
  BY <1>1 DEF WinType, Kept
<1>3. new.last = L
  BY <1>1 DEF WinType
<1>4. new.last["invert"] = v.last["invert"]
  BY <1>1, <1>3, Zenon
<1>5. \A d \in Decision : new.dec[d] = IF d \in ds THEN Decided(st, w, d) ELSE v.dec[d]
  <2>1. new.dec = [d \in Decision |-> IF d \in ds THEN Decided(st, w, d) ELSE v.dec[d]]
    BY <1>1, <1>2, Zenon
  <2> QED
    BY <2>1, Zenon
<1> QED
  BY <1>2, <1>4, <1>5, Zenon

LEMMA RedecidedIdle ==
  ASSUME NEW st \in Session, NEW w \in Win, NEW ds, NEW v, v = st.win[w], NEW new,
         Redecided(st, w, ds, v, new), Idle(st.o, v)
  PROVE  Idle(st.o, new)
<1>1. v \in WinType
  BY WinIn
<1>6. ASSUME NEW x \in WinType, Redecided(st, w, ds, x, new)
       PROVE  /\ \A f \in Kept : new[f] = x[f]
              /\ new.opacitySet = x.opacitySet /\ new.last["invert"] = x.last["invert"]
              /\ \A d \in Decision : new.dec[d] = IF d \in ds THEN Decided(st, w, d) ELSE x.dec[d]
  <2>3. \A f \in Kept : new[f] = x[f]
    BY <1>6, RedecidedType
  <2>4. new.last["invert"] = x.last["invert"]
    BY <1>6, RedecidedType
  <2>5. \A d \in Decision : new.dec[d] = IF d \in ds THEN Decided(st, w, d) ELSE x.dec[d]
    BY <1>6, RedecidedType
  <2>6. new.opacitySet = x.opacitySet
    BY <1>6, RedecidedType
  <2> QED
    BY <2>3, <2>4, <2>5, <2>6
<1>2. /\ \A f \in Kept : new[f] = v[f]
      /\ new.opacitySet = v.opacitySet /\ new.last["invert"] = v.last["invert"]
      /\ \A d \in Decision : new.dec[d] = IF d \in ds THEN Decided(st, w, d) ELSE v.dec[d]
  BY <1>1, <1>6
<1>3. new.force = v.force
  BY <1>2 DEF Kept
<1>4. ASSUME NEW d \in {"paint", "unredir", "invert"}, st.o.lists[d] = {},
             d = "invert" => v.force[d] = "unset", ~v.dec[d]
      PROVE  ~new.dec[d]
  <2>1. ~Matches(st, w, d)
    BY <1>4 DEF Matches
  <2>2. ~Wanted(st, w, d)
    <3>1. CASE d = "paint"
      BY <3>1, <2>1, Zenon DEF Wanted, WantedOf
    <3>2. CASE d = "unredir"
      BY <3>2, <2>1, Zenon DEF Wanted, WantedOf
    <3>3. CASE d = "invert"
      BY <3>3, <2>1, Zenon DEF Wanted, WantedOf
    <3> QED
      BY <1>4, <3>1, <3>2, <3>3
  <2>3. ~Decided(st, w, d)
    BY <1>4, <2>2 DEF Decided, Forced
  <2> QED
    BY <1>2, <1>4, <2>3 DEF Decision
<1>5. /\ st.o.lists["paint"] = {} => ~new.dec["paint"]
      /\ st.o.lists["unredir"] = {} => ~new.dec["unredir"]
      /\ st.o.lists["invert"] = {} /\ "invert" \notin st.o.offered => ~new.dec["invert"]
  BY <1>4 DEF Idle
<1> QED
  BY <1>2, <1>3, <1>5 DEF Idle

(* Nothing that keeps a window idle changes.                                *)
LEMMA IdleSame ==
  ASSUME NEW o, NEW v, NEW new, Idle(o, v),
         new.dec = v.dec, new.last = v.last, new.force = v.force, new.opacitySet = v.opacitySet
  PROVE  Idle(o, new)
BY DEF Idle

LEMMA DetermineChanges ==
  ASSUME NEW st \in Session, NEW w \in Win, NEW ds, "focus" \notin ds
  PROVE  Changes(st, Determine(st, w, ds), w, {})
<1>1. PICK v : v = st.win[w]
  OBVIOUS
<1>2. v \in WinType
  BY <1>1 DEF Session
<1>3. PICK new : Redecided(st, w, ds, v, new) /\ Determine(st, w, ds) = [st EXCEPT !.win[w] = new]
  <2>1. \E n : /\ Redecided(st, w, ds, st.win[w], n)
               /\ Determine(st, w, ds) = [st EXCEPT !.win[w] = n]
    BY DetermineIs, Zenon
  <2> QED
    BY <2>1, <1>1, Zenon
<1>4. /\ new \in WinType /\ new.opctChange = v.opctChange
      /\ \A f \in Kept : new[f] = v[f]
      /\ new.cache = v.cache
      /\ \A d \in Decision : new.dec[d] = IF d \in ds THEN Decided(st, w, d) ELSE v.dec[d]
  BY <1>2, <1>3, RedecidedType
<1>5. "focus" \in Decision
  BY DEF Decision
<1>6. Touched(v, new, {})
  BY <1>4, <1>5 DEF Touched
<1>7. Idle(st.o, v) => Idle(st.o, new)
  BY <1>1, <1>3, RedecidedIdle
<1>8. /\ new \in WinType /\ Touched(st.win[w], new, {}) /\ new.cache = st.win[w].cache
      /\ "force" \notin {} => (Idle(st.o, st.win[w]) => Idle(st.o, new))
  BY <1>1, <1>4, <1>6, <1>7, Zenon
<1>9. Changes(st, [st EXCEPT !.win[w] = new], w, {})
  BY <1>8, OneTouched, Zenon
<1> QED
  BY <1>3, <1>9, Zenon

LEMMA CacheTouched ==
  ASSUME NEW v \in WinType, NEW c, NEW new, new = [v EXCEPT !.cache = c]
  PROVE  /\ Touched(v, new, {}) /\ new.dec = v.dec /\ new.opacitySet = v.opacitySet
         /\ new.last = v.last /\ new.force = v.force
BY DEF WinType, Touched, Kept

LEMMA OnlyCachesTouch ==
  ASSUME NEW win \in [Win -> WinType], NEW new, OnlyCaches(win, new), NEW v \in Win
  PROVE  /\ Touched(win[v], new[v], {}) /\ new[v] \in WinType
         /\ new[v].dec = win[v].dec /\ new[v].opacitySet = win[v].opacitySet
         /\ \A o : Idle(o, win[v]) => Idle(o, new[v])
<1>1. PICK c : new[v] = [win[v] EXCEPT !.cache = c]
  BY DEF OnlyCaches
<1>2. win[v] \in WinType /\ new[v] \in WinType
  BY DEF OnlyCaches
<1>3. /\ Touched(win[v], new[v], {}) /\ new[v].dec = win[v].dec
      /\ new[v].opacitySet = win[v].opacitySet
      /\ new[v].last = win[v].last /\ new[v].force = win[v].force
  BY <1>1, <1>2, CacheTouched
<1> QED
  BY <1>2, <1>3, IdleSame

LEMMA GotLeaderChanges ==
  ASSUME NEW st \in Session, NEW w \in Win
  PROVE  Changes(st, GotLeader(st, w), w, {})
<1>1. st.win \in [Win -> WinType]
  BY DEF Session
<1>2. PICK new : new = Cached(st.win, w)
  OBVIOUS
<1>3. OnlyCaches(st.win, new)
  BY <1>1, <1>2, CachedOnly
<1>4. new \in [Win -> WinType]
  BY <1>3 DEF OnlyCaches
<1>5. ASSUME NEW v \in Win
      PROVE  /\ Touched(st.win[v], new[v], {})
             /\ Idle(st.o, st.win[v]) => Idle(st.o, new[v])
  BY <1>1, <1>3, OnlyCachesTouch
<1>8. Grounded(st.win) => \A v \in Win : new[v].cache \in {st.win[v].cache, Up(st.win[v])}
  BY <1>1, <1>2, CachedGrounded
<1>9. ASSUME NEW F PROVE Changes(st, [st EXCEPT !.win = new], w, F)
  BY <1>4, <1>5, <1>8, AllTouched
<1>6. Changes(st, [st EXCEPT !.win = new], w, {})
  BY <1>9
<1>7. GotLeader(st, w) = [st EXCEPT !.win = new]
  BY <1>2 DEF GotLeader
<1> QED
  BY <1>6, <1>7

LEMMA LeaderType ==
  ASSUME NEW st \in Session, NEW w \in Win
  PROVE  Leader(st, w) \in Leaders
<1>1. st.win \in [Win -> WinType]
  BY DEF Session
<1>2. OnlyCaches(st.win, Cached(st.win, w))
  BY <1>1, CachedOnly
<1>3. Cached(st.win, w)[w] \in WinType
  BY <1>2 DEF OnlyCaches
<1> QED
  BY <1>3 DEF WinType, Leader

LEMMA GotLeadersChanges ==
  ASSUME NEW st \in Session, NEW w, NEW F
  PROVE  Changes(st, GotLeaders(st), w, F)
<1>1. st.win \in [Win -> WinType]
  BY DEF Session
<1>2. PICK new : new = [v \in Win |-> Cached(st.win, v)[v]]
  OBVIOUS
<1>3. ASSUME NEW v \in Win
      PROVE  /\ new[v] \in WinType /\ Touched(st.win[v], new[v], {})
             /\ Idle(st.o, st.win[v]) => Idle(st.o, new[v])
  <2>1. OnlyCaches(st.win, Cached(st.win, v))
    BY <1>1, CachedOnly
  <2>2. new[v] = Cached(st.win, v)[v]
    BY <1>2
  <2>3. PICK got : got = Cached(st.win, v)
    OBVIOUS
  <2>4. /\ Touched(st.win[v], got[v], {}) /\ got[v] \in WinType
        /\ Idle(st.o, st.win[v]) => Idle(st.o, got[v])
    BY <1>1, <2>1, <2>3, OnlyCachesTouch, Zenon
  <2> QED
    BY <2>2, <2>3, <2>4, Zenon
<1>4. new \in [Win -> WinType]
  BY <1>2, <1>3
<1>7. Grounded(st.win) => \A v \in Win : new[v].cache \in {st.win[v].cache, Up(st.win[v])}
  BY <1>1, <1>2, CachedGrounded
<1>5. Changes(st, [st EXCEPT !.win = new], w, F)
  BY <1>3, <1>4, <1>7, AllTouched
<1>6. GotLeaders(st) = [st EXCEPT !.win = new]
  BY <1>2 DEF GotLeaders
<1> QED
  BY <1>5, <1>6

(* win_update_focused, apart from asking for the leader first.              *)
FocusTaken(st, w) == [Determine(st, w, {"focus"}) EXCEPT !.win[w].opctChange = TRUE]
LooksAtLeader(st, w) ==
  st.win[w].force["focus"] = "unset" /\ TrackLeader(st) /\ st.activeLeader # None

LEMMA UpdateFocusedIs ==
  ASSUME NEW st, NEW w
  PROVE  UpdateFocused(st, w) =
           FocusTaken(IF LooksAtLeader(st, w) THEN GotLeader(st, w) ELSE st, w)
BY Zenon DEF UpdateFocused, FocusTaken, LooksAtLeader

LEMMA FlagTouches ==
  ASSUME NEW v \in WinType, NEW new, new = [v EXCEPT !.opctChange = TRUE]
  PROVE  /\ new \in WinType /\ new.opctChange /\ new.dec = v.dec /\ new.cache = v.cache
         /\ \A f \in Kept : new[f] = v[f]
         /\ new.opacitySet = v.opacitySet /\ new.last = v.last
BY DEF WinType, Kept

(* The window that FocusTaken makes of v.                                   *)
Refocused(st, w, v, new) ==
  /\ new \in WinType /\ new.opctChange /\ new.cache = v.cache /\ new.opacitySet = v.opacitySet
  /\ \A f \in Kept : new[f] = v[f]
  /\ new.dec["focus"] = Decided(st, w, "focus")
  /\ \A d \in Decision : d # "focus" => new.dec[d] = v.dec[d]
  /\ new.last["invert"] = v.last["invert"]

LEMMA FocusTakenIs ==
  ASSUME NEW st \in Session, NEW w \in Win
  PROVE  \E new : /\ Refocused(st, w, st.win[w], new)
                  /\ FocusTaken(st, w) = [st EXCEPT !.win[w] = new]
<1>1. PICK v : v = st.win[w]
  OBVIOUS
<1>2. v \in WinType
  BY <1>1 DEF Session
<1>3. PICK v1 : /\ Redecided(st, w, {"focus"}, v, v1)
                /\ Determine(st, w, {"focus"}) = [st EXCEPT !.win[w] = v1]
  <2>1. \E n : /\ Redecided(st, w, {"focus"}, st.win[w], n)
               /\ Determine(st, w, {"focus"}) = [st EXCEPT !.win[w] = n]
    BY DetermineIs, Zenon
  <2> QED
    BY <2>1, <1>1, Zenon
<1>4. /\ v1 \in WinType /\ v1.opctChange = v.opctChange
      /\ \A f \in Kept : v1[f] = v[f]
      /\ v1.cache = v.cache /\ v1.opacitySet = v.opacitySet
      /\ v1.last["invert"] = v.last["invert"]
      /\ \A d \in Decision : v1.dec[d] = IF d \in {"focus"} THEN Decided(st, w, d) ELSE v.dec[d]
  BY <1>2, <1>3, RedecidedType
<1>5. PICK new : new = [v1 EXCEPT !.opctChange = TRUE]
  OBVIOUS
<1>6. /\ new \in WinType /\ new.opctChange /\ new.dec = v1.dec /\ new.cache = v1.cache
      /\ \A f \in Kept : new[f] = v1[f]
      /\ new.opacitySet = v1.opacitySet /\ new.last = v1.last
  BY <1>4, <1>5, FlagTouches
<1>7. "focus" \in Decision
  BY DEF Decision
<1>8. Refocused(st, w, v, new)
  BY <1>4, <1>6, <1>7 DEF Refocused
<1>9. PICK st1 : st1 = [st EXCEPT !.win[w] = v1]
  OBVIOUS
<1>10. st1 \in Session /\ st1.win[w] = v1
  BY <1>4, <1>9, OneWindow
<1>11. FocusTaken(st, w) = [st1 EXCEPT !.win[w] = new]
  BY <1>3, <1>5, <1>9, <1>10, Zenon DEF FocusTaken
<1>12. [st1 EXCEPT !.win[w] = new] = [st EXCEPT !.win[w] = new]
  BY <1>9, WindowTwice
<1> QED
  BY <1>1, <1>8, <1>11, <1>12, Zenon

LEMMA FocusTakenChanges ==
  ASSUME NEW st \in Session, NEW w \in Win
  PROVE  Changes(st, FocusTaken(st, w), w, {})
<1>1. PICK v : v = st.win[w]
  OBVIOUS
<1>2. PICK new : Refocused(st, w, v, new) /\ FocusTaken(st, w) = [st EXCEPT !.win[w] = new]
  <2>1. \E n : Refocused(st, w, st.win[w], n) /\ FocusTaken(st, w) = [st EXCEPT !.win[w] = n]
    BY FocusTakenIs, Zenon
  <2> QED
    BY <2>1, <1>1, Zenon
<1>3. new \in WinType /\ Touched(v, new, {}) /\ new.cache = v.cache
  BY <1>2 DEF Refocused, Touched
<1>4. Idle(st.o, v) => Idle(st.o, new)
  <2>1. new.force = v.force
    BY <1>2 DEF Refocused, Kept
  <2>2. \A d \in {"paint", "unredir", "invert"} : new.dec[d] = v.dec[d]
    BY <1>2 DEF Refocused, Decision
  <2> QED
    BY <1>2, <2>1, <2>2 DEF Refocused, Idle
<1> QED
  BY <1>1, <1>2, <1>3, <1>4, OneTouched

LEMMA UpdateFocusedChanges ==
  ASSUME NEW st \in Session, NEW w \in Win
  PROVE  Changes(st, UpdateFocused(st, w), w, {})
<1>1. PICK got : got = IF LooksAtLeader(st, w) THEN GotLeader(st, w) ELSE st
  OBVIOUS
<1>2. Changes(st, got, w, {})
  BY <1>1, GotLeaderChanges, ChangesNothing
<1>3. got \in Session
  BY <1>2 DEF Changes
<1>4. Changes(got, FocusTaken(got, w), w, {})
  BY <1>3, FocusTakenChanges
<1>5. UpdateFocused(st, w) = FocusTaken(got, w)
  BY <1>1, UpdateFocusedIs
<1> QED
  BY <1>2, <1>4, <1>5, ChangesAgain

(* The session b is a but for the queue and the properties.                 *)
SameBut(a, b) ==
  /\ b \in Session
  /\ b.o = a.o /\ b.win = a.win /\ b.activeWin = a.activeWin /\ b.activeLeader = a.activeLeader
  /\ b.mask = a.mask /\ b.mapped = a.mapped /\ b.focus = a.focus /\ b.openclose = a.openclose

LEMMA NotifiedIs ==
  ASSUME NEW st \in Session, NEW x \in Xid, NEW atom, Of(atom, x) \in Event,
         NEW b, b = Notified(st, x, atom)
  PROVE  /\ SameBut(st, b) /\ b.srv = st.srv
         /\ Pending(st) \subseteq Pending(b)
         /\ Pending(b) \subseteq Pending(st) \cup {Of(atom, x)}
         /\ st.mask[x] => Of(atom, x) \in Pending(b)
<1>1. CASE ~st.mask[x]
  <2>1. b = st
    BY <1>1 DEF Notified
  <2> QED
    BY <1>1, <2>1 DEF SameBut
<1>2. CASE st.mask[x]
  <2>1. PICK e : e = Of(atom, x)
    OBVIOUS
  <2>2. PICK q : q = Append(st.queue, e)
    OBVIOUS
  <2>3. b = [st EXCEPT !.queue = q]
    BY <1>2, <2>1, <2>2, Zenon DEF Notified, Of
  <2>4. st.queue \in Seq(Event) /\ e \in Event
    BY <2>1 DEF Session
  <2>5. /\ q \in Seq(Event) /\ Len(q) = Len(st.queue) + 1
        /\ \A i \in 1 .. Len(st.queue) : q[i] = st.queue[i]
        /\ q[Len(st.queue) + 1] = e
    BY <2>2, <2>4
  <2>6. /\ SameBut(st, b) /\ b.srv = st.srv /\ b.queue = q
    BY <2>3, <2>5 DEF Session, SameBut
  <2>7. DOMAIN q = 1 .. Len(st.queue) + 1 /\ DOMAIN st.queue = 1 .. Len(st.queue)
        /\ Len(st.queue) \in Nat
    BY <2>4, <2>5
  <2>8. Pending(b) = Pending(st) \cup {e}
    BY <2>5, <2>6, <2>7 DEF Pending
  <2> QED
    BY <2>1, <2>6, <2>8
<1> QED
  BY <1>1, <1>2

LEMMA XSetIs ==
  ASSUME NEW st \in Session, NEW x \in Xid, NEW atom, Of(atom, x) \in Event, NEW value,
         NEW props, props = [st.srv[x] EXCEPT ![atom] = value], props \in Props,
         NEW b, b = XSet(st, x, atom, value)
  PROVE  /\ SameBut(st, b)
         /\ b.srv[x] = props /\ \A y \in Xid : y # x => b.srv[y] = st.srv[y]
         /\ Pending(st) \subseteq Pending(b)
         /\ Pending(b) \subseteq Pending(st) \cup {Of(atom, x)}
         /\ st.mask[x] => Of(atom, x) \in Pending(b)
<1>1. PICK a : a = [st EXCEPT !.srv[x] = props]
  OBVIOUS
<1>2. a = [st EXCEPT !.srv[x][atom] = value]
  BY <1>1, Zenon
<1>3. /\ a \in Session /\ SameBut(st, a) /\ Pending(a) = Pending(st) /\ a.srv[x] = props
      /\ \A y \in Xid : y # x => a.srv[y] = st.srv[y]
  BY <1>1 DEF Session, SameBut, Pending
<1>4. b = Notified(a, x, atom)
  BY <1>2, Zenon DEF XSet
<1>5. /\ SameBut(a, b) /\ b.srv = a.srv
      /\ Pending(a) \subseteq Pending(b)
      /\ Pending(b) \subseteq Pending(a) \cup {Of(atom, x)}
      /\ a.mask[x] => Of(atom, x) \in Pending(b)
  BY <1>3, <1>4, NotifiedIs
<1> QED
  BY <1>3, <1>5 DEF SameBut

(* win_update_opacity_rule by way of a, which the rule is written in; new   *)
(* is the window then.                                                      *)
RuleSet(st, w, rule, a, new) ==
  /\ UpdateOpacityRule(st, w) = [a EXCEPT !.win[w] = new]
  /\ SameBut(st, a) /\ Pending(st) \subseteq Pending(a)
  /\ Pending(a) \subseteq Pending(st) \cup {Of("opacity", w)}
  /\ st.mask[w] => Of("opacity", w) \in Pending(a)
  /\ \A x \in Xid : \A f \in Property : x # w \/ f # "opacity" => a.srv[x][f] = st.srv[x][f]
  /\ new \in WinType /\ Touched(st.win[w], new, {}) /\ new.dec = st.win[w].dec
  /\ new.opacitySet = rule /\ new.cache = st.win[w].cache /\ new.last = st.win[w].last

LEMMA UpdateOpacityRuleIs ==
  ASSUME NEW st \in Session, NEW w \in Win,
         NEW rule, rule = IF Matches(st, w, "opacity") THEN 2 ELSE Opaque,
         st.win[w].viewable, rule # st.win[w].opacitySet
  PROVE  \E a, new : RuleSet(st, w, rule, a, new)
<1>1. PICK a : a = XSet(st, w, "opacity", rule)
  OBVIOUS
<1>2. rule \in Level
  BY DEF Level, Opaque
<1>3. Of("opacity", w) \in Event
  BY DEF Of, Event, Property, Xid
<1>4. PICK props : props = [st.srv[w] EXCEPT !["opacity"] = rule]
  OBVIOUS
<1>5. st.srv[w] \in Props
  BY DEF Session, Xid
<1>6. props \in Props /\ \A f \in Property : f # "opacity" => props[f] = st.srv[w][f]
  BY <1>2, <1>4, <1>5 DEF Props, Property
<1>7. w \in Xid
  BY DEF Xid
<1>8. /\ SameBut(st, a)
      /\ a.srv[w] = props /\ \A y \in Xid : y # w => a.srv[y] = st.srv[y]
      /\ Pending(st) \subseteq Pending(a)
      /\ Pending(a) \subseteq Pending(st) \cup {Of("opacity", w)}
      /\ st.mask[w] => Of("opacity", w) \in Pending(a)
  BY <1>1, <1>3, <1>4, <1>6, <1>7, XSetIs
<1>9. PICK v : v = st.win[w]
  OBVIOUS
<1>10. PICK new : new = [v EXCEPT !.opacitySet = rule]
  OBVIOUS
<1>11. v \in WinType
  BY <1>9 DEF Session
<1>12. /\ new \in WinType /\ new.dec = v.dec /\ new.opacitySet = rule /\ new.cache = v.cache
       /\ \A f \in Kept : new[f] = v[f]
       /\ new.opctChange = v.opctChange /\ new.last = v.last
  BY <1>2, <1>10, <1>11 DEF WinType, Kept
<1>13. Touched(v, new, {})
  BY <1>12 DEF Touched
<1>14. a.win[w] = v
  BY <1>8, <1>9 DEF SameBut
<1>15. UpdateOpacityRule(st, w) = [a EXCEPT !.win[w] = new]
  BY <1>1, <1>10, <1>14, Zenon DEF UpdateOpacityRule
<1>16. \A x \in Xid : \A f \in Property : x # w \/ f # "opacity" => a.srv[x][f] = st.srv[x][f]
  BY <1>6, <1>8
<1> QED
  <2>1. /\ new \in WinType /\ Touched(st.win[w], new, {}) /\ new.dec = st.win[w].dec
        /\ new.opacitySet = rule /\ new.cache = st.win[w].cache /\ new.last = st.win[w].last
    BY <1>9, <1>12, <1>13
  <2>2. RuleSet(st, w, rule, a, new)
    BY <2>1, <1>8, <1>15, <1>16, Zenon DEF RuleSet
  <2> QED
    BY <2>2

LEMMA UpdateOpacityRuleChanges ==
  ASSUME NEW st \in Session, NEW w \in Win
  PROVE  Changes(st, UpdateOpacityRule(st, w), w, {})
<1>1. PICK rule : rule = IF Matches(st, w, "opacity") THEN 2 ELSE Opaque
  OBVIOUS
<1>2. CASE ~st.win[w].viewable \/ rule = st.win[w].opacitySet
  <2>1. UpdateOpacityRule(st, w) = st
    BY <1>1, <1>2, Zenon DEF UpdateOpacityRule
  <2> QED
    BY <2>1, ChangesNothing
<1>3. CASE st.win[w].viewable /\ rule # st.win[w].opacitySet
  <2>0. PICK a, new : RuleSet(st, w, rule, a, new)
    BY <1>1, <1>3, UpdateOpacityRuleIs
  <2>1. /\ UpdateOpacityRule(st, w) = [a EXCEPT !.win[w] = new]
        /\ SameBut(st, a) /\ Pending(st) \subseteq Pending(a)
        /\ Pending(a) \subseteq Pending(st) \cup {Of("opacity", w)}
        /\ st.mask[w] => Of("opacity", w) \in Pending(a)
        /\ \A x \in Xid : \A f \in Property : x # w \/ f # "opacity" => a.srv[x][f] = st.srv[x][f]
        /\ new \in WinType /\ Touched(st.win[w], new, {}) /\ new.cache = st.win[w].cache
        /\ new.dec = st.win[w].dec /\ new.last = st.win[w].last /\ new.opacitySet = rule
    BY <2>0, Zenon DEF RuleSet
  <2>2. a \in Session /\ a.win = st.win /\ a.o = st.o
    BY <2>1 DEF SameBut
  <2>5. Idle(st.o, st.win[w]) => Idle(st.o, new)
    <3>1. new.force = st.win[w].force
      BY <2>1 DEF Touched, Kept
    <3>2. st.o.lists["opacity"] = {} => rule = Opaque
      BY <1>1 DEF Matches
    <3> QED
      BY <2>1, <3>1, <3>2 DEF Idle
  <2>3. Changes(a, UpdateOpacityRule(st, w), w, {})
    BY <2>1, <2>2, <2>5, OneTouched
  <2>4. Changes(st, a, w, {})
    <3>1. \A x \in Xid : SameProps(st, a, x)
      BY <2>1 DEF SameProps, Property
    <3>2. \A e \in Pending(a) : e \in Pending(st) \/ e.atom = "opacity"
      BY <2>1 DEF Of
    <3> QED
      BY <2>1, <3>1, <3>2 DEF Changes, SameBut, Touched, CachesRight, StaysIdle
  <2> QED
    BY <2>3, <2>4, ChangesAgain
<1> QED
  BY <1>2, <1>3, <1>1

------------------------------------------------------------------------------
(* What a decision depends on.                                              *)

LeadsFocus(st, u) ==
  TrackLeader(st) /\ st.activeLeader # None /\ Leader(st, u) = st.activeLeader

(* For a viewable window u, decision d has the same causes in a and in b.   *)
SameCauses(a, b, u, d) ==
  /\ a.o = b.o /\ a.win[u].viewable /\ b.win[u].viewable
  /\ \A f \in a.o.lists[d] : Has(a, u, f) <=> Has(b, u, f)
  /\ d \in Forced => a.win[u].force[d] = b.win[u].force[d]
  /\ d = "fade" => (a.openclose /\ a.win[u].inOpenclose <=> b.openclose /\ b.win[u].inOpenclose)
  /\ d \in {"shadow", "fade", "focus"} => (Plain(a, a.win[u].type) <=> Plain(b, b.win[u].type))
  /\ d = "shadow" => /\ a.o.ignoreShaped => (a.win[u].shaped <=> b.win[u].shaped)
                     /\ a.o.respectShadow => (a.win[u].noShadow <=> b.win[u].noShadow)
  /\ d = "focus" => /\ a.activeWin = u <=> b.activeWin = u
                    /\ a.o.markWmwin => (a.win[u].wmwin <=> b.win[u].wmwin)
                    /\ LeadsFocus(a, u) <=> LeadsFocus(b, u)

LEMMA MatchesSame ==
  ASSUME NEW a, NEW b, NEW u, NEW l, a.o = b.o, \A f \in a.o.lists[l] : Has(a, u, f) <=> Has(b, u, f)
  PROVE  Matches(a, u, l) <=> Matches(b, u, l)
BY Zenon DEF Matches

LEMMA WantedSame ==
  ASSUME NEW a, NEW b, NEW u \in Win, NEW d \in Decision, SameCauses(a, b, u, d)
  PROVE  Wanted(a, u, d) <=> Wanted(b, u, d)
<1>1. PICK v : v = a.win[u]
  OBVIOUS
<1>2. PICK new : new = b.win[u]
  OBVIOUS
<1>3. Matches(a, u, d) <=> Matches(b, u, d)
  BY MatchesSame DEF SameCauses
<1>4. PICK la \in BOOLEAN : la = Matches(a, u, d)
  BY Zenon DEF Matches
<1>5. PICK lb \in BOOLEAN : lb = Matches(b, u, d)
  BY Zenon DEF Matches
<1>6. la <=> lb
  BY <1>3, <1>4, <1>5
<1>7. /\ a.o = b.o /\ v.viewable /\ new.viewable
      /\ d \in {"shadow", "fade", "focus"} => (Plain(a, v.type) <=> Plain(b, new.type))
      /\ d = "shadow" => /\ a.o.ignoreShaped => (v.shaped <=> new.shaped)
                         /\ a.o.respectShadow => (v.noShadow <=> new.noShadow)
      /\ d = "focus" => /\ a.activeWin = u <=> b.activeWin = u
                        /\ a.o.markWmwin => (v.wmwin <=> new.wmwin)
                        /\ LeadsFocus(a, u) <=> LeadsFocus(b, u)
  BY <1>1, <1>2, Zenon DEF SameCauses
<1>8. WantedOf(a, u, d, v, la) <=> WantedOf(b, u, d, new, lb)
  <2>1. CASE d = "shadow"
    BY <1>6, <1>7, <2>1, Zenon DEF WantedOf
  <2>2. CASE d = "fade"
    BY <1>6, <1>7, <2>2 DEF WantedOf
  <2>3. CASE d = "focus"
    <3>1. /\ WantedOf(a, u, "focus", v, la) <=>
               \/ a.activeWin = u
               \/ ~Plain(a, v.type)
               \/ a.o.markWmwin /\ v.wmwin
               \/ v.viewable /\ la
               \/ LeadsFocus(a, u)
          /\ WantedOf(b, u, "focus", new, lb) <=>
               \/ b.activeWin = u
               \/ ~Plain(b, new.type)
               \/ b.o.markWmwin /\ new.wmwin
               \/ new.viewable /\ lb
               \/ LeadsFocus(b, u)
      BY DEF WantedOf, LeadsFocus
    <3>2. /\ a.o = b.o /\ v.viewable /\ new.viewable
          /\ Plain(a, v.type) <=> Plain(b, new.type)
          /\ a.activeWin = u <=> b.activeWin = u
          /\ a.o.markWmwin => (v.wmwin <=> new.wmwin)
          /\ LeadsFocus(a, u) <=> LeadsFocus(b, u)
      BY <1>7, <2>3
    <3> QED
      BY <1>6, <2>3, <3>1, <3>2, Zenon
  <2>4. CASE d \in {"blur", "invert", "paint", "unredir"}
    BY <1>6, <2>4 DEF WantedOf
  <2> QED
    BY <2>1, <2>2, <2>3, <2>4 DEF Decision
<1> QED
  BY <1>1, <1>2, <1>4, <1>5, <1>8, Zenon DEF Wanted

LEMMA DecidedSame ==
  ASSUME NEW a \in Session, NEW b \in Session, NEW u \in Win, NEW d \in Decision,
         SameCauses(a, b, u, d)
  PROVE  Decided(b, u, d) = Decided(a, u, d)
<1>1. Wanted(a, u, d) <=> Wanted(b, u, d)
  BY WantedSame
<1>2. Decided(a, u, d) \in BOOLEAN /\ Decided(b, u, d) \in BOOLEAN
  BY DecidedType
<1>3. /\ a.win[u].viewable /\ b.win[u].viewable
      /\ d \in Forced => a.win[u].force[d] = b.win[u].force[d]
      /\ d = "fade" => (a.openclose /\ a.win[u].inOpenclose <=> b.openclose /\ b.win[u].inOpenclose)
  BY Zenon DEF SameCauses
<1>4. ASSUME NEW st, NEW forced, forced <=> (d \in Forced /\ st.win[u].force[d] # "unset"),
             NEW kept, kept <=> d = "fade" /\ st.openclose /\ st.win[u].inOpenclose,
             st.win[u].viewable
      PROVE  Decided(st, u, d) <=> IF forced THEN st.win[u].force[d] = "on"
                                   ELSE ~kept /\ Wanted(st, u, d)
  BY <1>4, Zenon DEF Decided
<1>5. Decided(a, u, d) <=> IF d \in Forced /\ a.win[u].force[d] # "unset" THEN a.win[u].force[d] = "on"
                           ELSE ~(d = "fade" /\ a.openclose /\ a.win[u].inOpenclose) /\ Wanted(a, u, d)
  BY <1>3, <1>4, Zenon
<1>6. Decided(b, u, d) <=> IF d \in Forced /\ b.win[u].force[d] # "unset" THEN b.win[u].force[d] = "on"
                           ELSE ~(d = "fade" /\ b.openclose /\ b.win[u].inOpenclose) /\ Wanted(b, u, d)
  BY <1>3, <1>4, Zenon
<1>7. Decided(a, u, d) <=> Decided(b, u, d)
  BY <1>1, <1>3, <1>5, <1>6, Zenon
<1> QED
  BY <1>2, <1>7

(* win_update_opacity_rule.                                                 *)
Rule(st, w) == IF Matches(st, w, "opacity") THEN 2 ELSE Opaque

LEMMA RuleSame ==
  ASSUME NEW a, NEW b, NEW u, a.o = b.o, \A f \in a.o.lists["opacity"] : Has(a, u, f) <=> Has(b, u, f)
  PROVE  Rule(a, u) = Rule(b, u)
BY MatchesSame DEF Rule

(* Decision d can be told from the window and the active one alone.         *)
Good(st, d) == d = "focus" /\ TrackLeader(st) => Grounded(st.win)

(* The decisions about a viewable window are kept or taken.                 *)
Calm(a, b) ==
  \A u \in Win : a.win[u].viewable =>
    /\ \A d \in Decision : Good(a, d) =>
         b.win[u].dec[d] \in {a.win[u].dec[d], Decided(a, u, d)}
    /\ b.win[u].opacitySet \in {a.win[u].opacitySet, Rule(a, u)}

LEMMA KeptSame ==
  ASSUME NEW a, NEW b, NEW w, Changes(a, b, w, {}), NEW u \in Win, NEW f \in Kept
  PROVE  b.win[u][f] = a.win[u][f]
<1>1. Touched(a.win[u], b.win[u], {})
  BY DEF Changes
<1> QED
  BY <1>1 DEF Touched

LEMMA GroundedLeader ==
  ASSUME NEW st \in Session, Grounded(st.win), NEW u \in Win
  PROVE  Leader(st, u) = Up(st.win[u])
<1>1. st.win \in [Win -> WinType]
  BY DEF Session
<1> QED
  BY <1>1, CachedGrounded DEF Leader

(* Without a change of the focus the causes of no decision change.          *)
LEMMA StillCauses ==
  ASSUME NEW a \in Session, NEW b, Changes(a, b, None, {}),
         b.activeWin = a.activeWin, b.activeLeader = a.activeLeader,
         NEW u \in Win, a.win[u].viewable, NEW d \in Decision, Good(a, d)
  PROVE  SameCauses(a, b, u, d)
<1>1. \A f \in Kept : b.win[u][f] = a.win[u][f]
  BY KeptSame
<1>2. /\ b.win[u].viewable = a.win[u].viewable /\ b.win[u].type = a.win[u].type
      /\ b.win[u].name = a.win[u].name /\ b.win[u].shaped = a.win[u].shaped
      /\ b.win[u].noShadow = a.win[u].noShadow /\ b.win[u].wmwin = a.win[u].wmwin
      /\ b.win[u].force = a.win[u].force /\ b.win[u].inOpenclose = a.win[u].inOpenclose
  BY <1>1 DEF Kept
<1>3. a.o = b.o /\ a.openclose = b.openclose /\ b \in Session
  BY DEF Changes
<1>4. b.srv[u].other = a.srv[u].other
  <2>1. SameProps(a, b, u)
    BY DEF Changes, Xid
  <2>2. "other" \in Property \ {"opacity"}
    BY DEF Property
  <2> QED
    BY <2>1, <2>2 DEF SameProps
<1>5. \A f : Has(a, u, f) <=> Has(b, u, f)
  BY <1>2, <1>4, Zenon DEF Has
<1>6. ASSUME d = "focus" PROVE LeadsFocus(a, u) <=> LeadsFocus(b, u)
  <2>1. TrackLeader(a) <=> TrackLeader(b)
    BY <1>3 DEF TrackLeader
  <2>2. CASE TrackLeader(a)
    <3>1. Grounded(a.win)
      BY <1>6, <2>2 DEF Good
    <3>2. Up(b.win[u]) = Up(a.win[u]) /\ Grounded(b.win)
      BY <3>1, UpKept
    <3> QED
      BY <2>1, <3>1, <3>2, <1>3, GroundedLeader DEF LeadsFocus
  <2>3. CASE ~TrackLeader(a)
    BY <2>1, <2>3 DEF LeadsFocus
  <2> QED
    BY <2>2, <2>3
<1>7. Plain(a, a.win[u].type) <=> Plain(b, b.win[u].type)
  BY <1>2, <1>3 DEF Plain
<1> QED
  BY <1>2, <1>3, <1>5, <1>6, <1>7, Zenon DEF SameCauses

(* Decisions are taken again and nobody gets or loses the focus.            *)
Quiet(a, b) == Changes(a, b, None, {})
Still(a, b) ==
  /\ a \in Session /\ Quiet(a, b) /\ Calm(a, b)
  /\ b.activeWin = a.activeWin /\ b.activeLeader = a.activeLeader

LEMMA QuietSession ==
  ASSUME NEW a, NEW b, Quiet(a, b)
  PROVE  b \in Session
BY DEF Quiet, Changes

LEMMA StillSession ==
  ASSUME NEW a, NEW b, Still(a, b)
  PROVE  b \in Session
BY QuietSession DEF Still

LEMMA QuietTwice ==
  ASSUME NEW a, NEW b, NEW c, Quiet(a, b), Quiet(b, c)
  PROVE  Quiet(a, c)
BY ChangesAgain DEF Quiet

LEMMA StillNothing ==
  ASSUME NEW st \in Session
  PROVE  Still(st, st) /\ Quiet(st, st)
<1>1. Calm(st, st)
  BY DEF Calm
<1> QED
  BY <1>1, ChangesNothing DEF Quiet, Still

(* A decision is right, or the opacity rule is.                             *)
Fresh(st, u, d) == st.win[u].dec[d] = Decided(st, u, d)
RuleFresh(st, u) == st.win[u].opacitySet = Rule(st, u)

LEMMA StillDecided ==
  ASSUME NEW a, NEW b, Still(a, b), NEW u \in Win, a.win[u].viewable
  PROVE  /\ \A d \in Decision : Good(a, d) =>
              Decided(b, u, d) = Decided(a, u, d) /\ Good(b, d)
         /\ Rule(b, u) = Rule(a, u)
         /\ b.win[u].viewable
<1>1. a \in Session /\ b \in Session /\ Changes(a, b, None, {}) /\ a.o = b.o
      /\ b.activeWin = a.activeWin /\ b.activeLeader = a.activeLeader
  BY DEF Still, Quiet, Changes
<1>2. ASSUME NEW d \in Decision, Good(a, d) PROVE Decided(b, u, d) = Decided(a, u, d)
  <2>1. SameCauses(a, b, u, d)
    BY <1>1, <1>2, StillCauses
  <2> QED
    BY <1>1, <2>1, DecidedSame
<1>3. ASSUME NEW d \in Decision, Good(a, d) PROVE Good(b, d)
  <2>1. Grounded(a.win) => Grounded(b.win)
    BY <1>1, UpKept
  <2>2. TrackLeader(a) <=> TrackLeader(b)
    BY <1>1 DEF TrackLeader
  <2> QED
    BY <1>3, <2>1, <2>2 DEF Good
<1>4. \A f \in Kept : b.win[u][f] = a.win[u][f]
  BY <1>1, KeptSame
<1>5. /\ b.win[u].viewable = a.win[u].viewable /\ b.win[u].type = a.win[u].type
      /\ b.win[u].name = a.win[u].name /\ b.win[u].shaped = a.win[u].shaped
  BY <1>4 DEF Kept
<1>6. b.srv[u].other = a.srv[u].other
  <2>1. SameProps(a, b, u)
    BY <1>1 DEF Changes, Xid
  <2>2. "other" \in Property \ {"opacity"}
    BY DEF Property
  <2> QED
    BY <2>1, <2>2 DEF SameProps
<1>7. \A f : Has(a, u, f) <=> Has(b, u, f)
  BY <1>1, <1>5, <1>6, Zenon DEF Has
<1>8. Rule(a, u) = Rule(b, u)
  BY <1>1, <1>7, RuleSame
<1> QED
  BY <1>2, <1>3, <1>5, <1>8

LEMMA CalmTwice ==
  ASSUME NEW a, NEW b, NEW c, Still(a, b), Calm(b, c)
  PROVE  Calm(a, c)
<1>1. ASSUME NEW u \in Win, a.win[u].viewable
      PROVE  /\ \A d \in Decision : Good(a, d) =>
                  c.win[u].dec[d] \in {a.win[u].dec[d], Decided(a, u, d)}
             /\ c.win[u].opacitySet \in {a.win[u].opacitySet, Rule(a, u)}
  <2>1. /\ \A d \in Decision : Good(a, d) =>
              Decided(b, u, d) = Decided(a, u, d) /\ Good(b, d)
        /\ Rule(b, u) = Rule(a, u)
        /\ b.win[u].viewable
    BY <1>1, StillDecided
  <2>2. Calm(a, b)
    BY DEF Still
  <2>3. ASSUME NEW d \in Decision, Good(a, d)
        PROVE  c.win[u].dec[d] \in {a.win[u].dec[d], Decided(a, u, d)}
    BY <1>1, <2>1, <2>2, <2>3 DEF Calm
  <2>4. c.win[u].opacitySet \in {a.win[u].opacitySet, Rule(a, u)}
    BY <1>1, <2>1, <2>2 DEF Calm
  <2> QED
    BY <2>3, <2>4
<1> QED
  BY <1>1 DEF Calm

LEMMA StillTwice ==
  ASSUME NEW a, NEW b, NEW c, Still(a, b), Still(b, c)
  PROVE  Still(a, c)
<1>1. Calm(a, c)
  BY CalmTwice DEF Still
<1> QED
  BY <1>1, QuietTwice DEF Still

(* A window that changed in its decisions alone.                            *)
LEMMA OneCalm ==
  ASSUME NEW st \in Session, NEW w \in Win, NEW new \in WinType,
         \A d \in Decision : Good(st, d) => new.dec[d] \in {st.win[w].dec[d], Decided(st, w, d)},
         new.opacitySet = st.win[w].opacitySet
  PROVE  LET b == [st EXCEPT !.win[w] = new] IN
         Calm(st, b) /\ b.activeWin = st.activeWin /\ b.activeLeader = st.activeLeader
<1>1. PICK b : b = [st EXCEPT !.win[w] = new]
  OBVIOUS
<1>2. /\ b.win[w] = new /\ b.activeWin = st.activeWin /\ b.activeLeader = st.activeLeader
      /\ \A v \in Win : v # w => b.win[v] = st.win[v]
  BY <1>1, OneWindow
<1>3. Calm(st, b)
  BY <1>2 DEF Calm
<1> QED
  BY <1>1, <1>2, <1>3

(* Windows that changed in their caches alone.                              *)
LEMMA CachesCalm ==
  ASSUME NEW st \in Session, NEW new \in [Win -> WinType],
         \A v \in Win : new[v].dec = st.win[v].dec /\ new[v].opacitySet = st.win[v].opacitySet
  PROVE  LET b == [st EXCEPT !.win = new] IN
         Calm(st, b) /\ b.activeWin = st.activeWin /\ b.activeLeader = st.activeLeader
<1>1. PICK b : b = [st EXCEPT !.win = new]
  OBVIOUS
<1>2. /\ b.win = new /\ b.activeWin = st.activeWin /\ b.activeLeader = st.activeLeader
  BY <1>1 DEF Session
<1>3. Calm(st, b)
  BY <1>2 DEF Calm
<1> QED
  BY <1>1, <1>2, <1>3

LEMMA DetermineStill ==
  ASSUME NEW st \in Session, NEW w \in Win, NEW ds, "focus" \notin ds
  PROVE  Still(st, Determine(st, w, ds))
<1>0. PICK v : v = st.win[w]
  OBVIOUS
<1>1. PICK new : /\ Redecided(st, w, ds, v, new)
                 /\ Determine(st, w, ds) = [st EXCEPT !.win[w] = new]
  <2>1. \E n : /\ Redecided(st, w, ds, st.win[w], n)
               /\ Determine(st, w, ds) = [st EXCEPT !.win[w] = n]
    BY DetermineIs, Zenon
  <2> QED
    BY <2>1, <1>0, Zenon
<1>2. v \in WinType
  BY <1>0 DEF Session
<1>3. /\ new \in WinType /\ new.opacitySet = v.opacitySet
      /\ \A d \in Decision :
           new.dec[d] = IF d \in ds THEN Decided(st, w, d) ELSE v.dec[d]
  BY <1>1, <1>2, RedecidedType
<1>4. PICK b : b = Determine(st, w, ds)
  OBVIOUS
<1>5. Calm(st, b) /\ b.activeWin = st.activeWin /\ b.activeLeader = st.activeLeader
  BY <1>0, <1>1, <1>3, <1>4, OneCalm
<1>6. Changes(st, b, w, {})
  BY <1>4, DetermineChanges
<1> QED
  BY <1>4, <1>5, <1>6, ChangesOf DEF Still, Quiet

LEMMA GotLeaderStill ==
  ASSUME NEW st \in Session, NEW w \in Win
  PROVE  Still(st, GotLeader(st, w))
<1>1. st.win \in [Win -> WinType]
  BY DEF Session
<1>2. PICK new : new = Cached(st.win, w)
  OBVIOUS
<1>3. OnlyCaches(st.win, new)
  BY <1>1, <1>2, CachedOnly
<1>4. new \in [Win -> WinType]
  BY <1>3 DEF OnlyCaches
<1>5. \A v \in Win : new[v].dec = st.win[v].dec /\ new[v].opacitySet = st.win[v].opacitySet
  BY <1>1, <1>3, OnlyCachesTouch
<1>6. PICK b : b = GotLeader(st, w)
  OBVIOUS
<1>7. b = [st EXCEPT !.win = new]
  BY <1>2, <1>6 DEF GotLeader
<1>8. Calm(st, b) /\ b.activeWin = st.activeWin /\ b.activeLeader = st.activeLeader
  BY <1>4, <1>5, <1>7, CachesCalm
<1>9. Changes(st, b, w, {})
  BY <1>6, GotLeaderChanges
<1> QED
  BY <1>6, <1>8, <1>9, ChangesOf DEF Still, Quiet

LEMMA GotLeadersStill ==
  ASSUME NEW st \in Session
  PROVE  Still(st, GotLeaders(st))
<1>1. st.win \in [Win -> WinType]
  BY DEF Session
<1>2. PICK new : new = [v \in Win |-> Cached(st.win, v)[v]]
  OBVIOUS
<1>3. ASSUME NEW v \in Win
      PROVE  /\ new[v] \in WinType /\ new[v].dec = st.win[v].dec
             /\ new[v].opacitySet = st.win[v].opacitySet
  <2>1. OnlyCaches(st.win, Cached(st.win, v))
    BY <1>1, CachedOnly
  <2>2. new[v] = Cached(st.win, v)[v]
    BY <1>2
  <2> QED
    BY <1>1, <2>1, <2>2, OnlyCachesTouch
<1>4. new \in [Win -> WinType]
  BY <1>2, <1>3
<1>5. PICK b : b = GotLeaders(st)
  OBVIOUS
<1>6. b = [st EXCEPT !.win = new]
  BY <1>2, <1>5 DEF GotLeaders
<1>7. Calm(st, b) /\ b.activeWin = st.activeWin /\ b.activeLeader = st.activeLeader
  BY <1>3, <1>4, <1>6, CachesCalm
<1> QED
  BY <1>5, <1>7, GotLeadersChanges DEF Still, Quiet

LEMMA FocusTakenStill ==
  ASSUME NEW st \in Session, NEW w \in Win
  PROVE  Still(st, FocusTaken(st, w))
<1>1. PICK new : Refocused(st, w, st.win[w], new) /\ FocusTaken(st, w) = [st EXCEPT !.win[w] = new]
  BY FocusTakenIs, Zenon
<1>2. PICK b : b = FocusTaken(st, w)
  OBVIOUS
<1>3. /\ new \in WinType /\ new.opacitySet = st.win[w].opacitySet
      /\ \A d \in Decision : new.dec[d] \in {st.win[w].dec[d], Decided(st, w, d)}
  BY <1>1 DEF Refocused
<1>4. Calm(st, b) /\ b.activeWin = st.activeWin /\ b.activeLeader = st.activeLeader
  BY <1>1, <1>2, <1>3, OneCalm
<1>5. Changes(st, b, w, {})
  BY <1>2, FocusTakenChanges
<1> QED
  BY <1>2, <1>4, <1>5, ChangesOf DEF Still, Quiet

LEMMA UpdateFocusedStill ==
  ASSUME NEW st \in Session, NEW w \in Win
  PROVE  Still(st, UpdateFocused(st, w))
<1>1. PICK got : got = IF LooksAtLeader(st, w) THEN GotLeader(st, w) ELSE st
  OBVIOUS
<1>2. Still(st, got)
  BY <1>1, GotLeaderStill, StillNothing
<1>3. got \in Session
  BY <1>2, StillSession
<1>4. Still(got, FocusTaken(got, w))
  BY <1>3, FocusTakenStill
<1>5. UpdateFocused(st, w) = FocusTaken(got, w)
  BY <1>1, UpdateFocusedIs
<1> QED
  BY <1>2, <1>4, <1>5, StillTwice

LEMMA UpdateOpacityRuleStill ==
  ASSUME NEW st \in Session, NEW w \in Win
  PROVE  Still(st, UpdateOpacityRule(st, w))
<1>1. PICK rule : rule = IF Matches(st, w, "opacity") THEN 2 ELSE Opaque
  OBVIOUS
<1>2. CASE ~st.win[w].viewable \/ rule = st.win[w].opacitySet
  <2>1. UpdateOpacityRule(st, w) = st
    BY <1>1, <1>2, Zenon DEF UpdateOpacityRule
  <2> QED
    BY <2>1, StillNothing
<1>3. CASE st.win[w].viewable /\ rule # st.win[w].opacitySet
  <2>1. PICK a, new : RuleSet(st, w, rule, a, new)
    BY <1>1, <1>3, UpdateOpacityRuleIs
  <2>2. UpdateOpacityRule(st, w) = [a EXCEPT !.win[w] = new] /\ SameBut(st, a)
    BY <2>1, Zenon DEF RuleSet
  <2>3. PICK b : b = UpdateOpacityRule(st, w)
    OBVIOUS
  <2>4. /\ a \in Session /\ a.win = st.win /\ a.activeWin = st.activeWin
        /\ a.activeLeader = st.activeLeader
    BY <2>2 DEF SameBut
  <2>5. new \in WinType /\ new.dec = st.win[w].dec /\ new.opacitySet = rule
    BY <2>1, Zenon DEF RuleSet
  <2>6. /\ b.win[w] = new /\ \A v \in Win : v # w => b.win[v] = a.win[v]
        /\ b.activeWin = a.activeWin /\ b.activeLeader = a.activeLeader
    BY <2>2, <2>3, <2>4, <2>5, OneWindow
  <2>7. Calm(st, b)
    BY <2>4, <2>5, <2>6, <1>1 DEF Calm, Rule
  <2>8. Changes(st, b, w, {})
    BY <2>3, UpdateOpacityRuleChanges
  <2> QED
    BY <2>3, <2>4, <2>6, <2>7, <2>8, ChangesOf DEF Still, Quiet
<1> QED
  BY <1>1, <1>2, <1>3

LEMMA ListedStill ==
  ASSUME NEW st \in Session, NEW w \in Win
  PROVE  Still(st, ListedFocus(st, w)) /\ Still(st, ListedOpacity(st, w))
BY UpdateFocusedStill, UpdateOpacityRuleStill, StillNothing DEF ListedFocus, ListedOpacity

LEMMA OnWtypeChangeStill ==
  ASSUME NEW st \in Session, NEW w \in Win
  PROVE  Still(st, OnWtypeChange(st, w))
<1>1. PICK a : a = Determine(st, w, {"shadow", "fade"})
  OBVIOUS
<1>2. PICK b : b = UpdateFocused(a, w)
  OBVIOUS
<1>3. PICK c : c = Determine(b, w, {"invert"} \cap Listed(st))
  OBVIOUS
<1>4. Still(st, a) /\ a \in Session
  <2>1. "focus" \notin {"shadow", "fade"}
    OBVIOUS
  <2>2. Still(st, a)
    BY <1>1, <2>1, DetermineStill
  <2> QED
    BY <2>2, StillSession
<1>5. Still(a, b) /\ b \in Session
  BY <1>2, <1>4, UpdateFocusedStill, StillSession
<1>6. Still(b, c) /\ c \in Session
  <2>1. "focus" \notin {"invert"} \cap Listed(st)
    OBVIOUS
  <2>2. Still(b, c)
    BY <1>3, <1>5, <2>1, DetermineStill
  <2> QED
    BY <2>2, StillSession
<1>7. Still(c, ListedOpacity(c, w))
  BY <1>6, ListedStill
<1>8. OnWtypeChange(st, w) = ListedOpacity(c, w)
  BY <1>1, <1>2, <1>3 DEF OnWtypeChange
<1> QED
  BY <1>4, <1>5, <1>6, <1>7, <1>8, StillTwice

LEMMA OnFactorChangeStill ==
  ASSUME NEW st \in Session, NEW w \in Win
  PROVE  Still(st, OnFactorChange(st, w))
<1>1. PICK ds : ds = (Decision \cap Listed(st)) \ {"focus"}
  OBVIOUS
<1>2. PICK a : a = Determine(st, w, ds)
  OBVIOUS
<1>3. Still(st, a) /\ a \in Session
  <2>1. Still(st, a)
    BY <1>1, <1>2, DetermineStill
  <2> QED
    BY <2>1, StillSession
<1>4. PICK b : b = ListedFocus(a, w)
  OBVIOUS
<1>5. Still(a, b) /\ b \in Session
  <2>1. Still(a, b)
    BY <1>3, <1>4, ListedStill
  <2> QED
    BY <2>1, StillSession
<1>6. Still(b, ListedOpacity(b, w))
  BY <1>5, ListedStill
<1>7. OnFactorChange(st, w) = ListedOpacity(b, w)
  BY <1>1, <1>2, <1>4 DEF OnFactorChange
<1> QED
  BY <1>3, <1>5, <1>6, <1>7, StillTwice

------------------------------------------------------------------------------
(* Groups.                                                                  *)

LEMMA MembersFocusedStill ==
  ASSUME NEW st \in Session, NEW leader
  PROVE  Still(st, MembersFocused(st, leader))
<1>1. PICK new : new = [w \in Win |-> IF st.win[w].cache = leader
                                      THEN UpdateFocused(st, w).win[w] ELSE st.win[w]]
  OBVIOUS
<1>2. ASSUME NEW w \in Win 
      PROVE  /\ new[w] \in WinType /\ Touched(st.win[w], new[w], {})
             /\ Idle(st.o, st.win[w]) => Idle(st.o, new[w])
             /\ Grounded(st.win) => new[w].cache \in {st.win[w].cache, Up(st.win[w])}
             /\ st.win[w].viewable =>
                  /\ \A d \in Decision : Good(st, d) =>
                       new[w].dec[d] \in {st.win[w].dec[d], Decided(st, w, d)}
                  /\ new[w].opacitySet \in {st.win[w].opacitySet, Rule(st, w)}
  <2>1. CASE st.win[w].cache = leader
    <3>1. PICK b : b = UpdateFocused(st, w)
      OBVIOUS
    <3>2. Changes(st, b, w, {})
      BY <3>1, UpdateFocusedChanges
    <3>3. /\ Touched(st.win[w], b.win[w], {}) /\ b \in Session /\ CachesRight(st, b)
          /\ StaysIdle(st, b)
      BY <3>2 DEF Changes
    <3>4. b.win[w] \in WinType
      BY <3>3 DEF Session
    <3>6. Calm(st, b)
      BY <3>1, UpdateFocusedStill DEF Still
    <3>5. new[w] = b.win[w]
      BY <1>1, <2>1, <3>1
    <3> QED
      BY <3>3, <3>4, <3>5, <3>6 DEF CachesRight, Calm, StaysIdle
  <2>2. CASE st.win[w].cache # leader
    <3>1. new[w] = st.win[w]
      BY <1>1, <2>2
    <3>2. st.win[w] \in WinType
      BY DEF Session
    <3> QED
      BY <3>1, <3>2 DEF Touched
  <2> QED
    BY <2>1, <2>2
<1>3. new \in [Win -> WinType]
  BY <1>1, <1>2
<1>4. Changes(st, [st EXCEPT !.win = new], None, {})
  BY <1>2, <1>3, AllTouched
<1>5. MembersFocused(st, leader) = [st EXCEPT !.win = new]
  BY <1>1 DEF MembersFocused
<1>6. [st EXCEPT !.win = new].activeWin = st.activeWin
      /\ [st EXCEPT !.win = new].activeLeader = st.activeLeader
  BY DEF Session
<1>7. Calm(st, [st EXCEPT !.win = new])
  <2>1. [st EXCEPT !.win = new].win = new
    BY DEF Session
  <2> QED
    BY <1>2, <2>1 DEF Calm
<1> QED
  BY <1>4, <1>5, <1>6, <1>7 DEF Still, Quiet

LEMMA GroupUpdateFocusedStill ==
  ASSUME NEW st \in Session, NEW leader
  PROVE  Still(st, GroupUpdateFocused(st, leader))
<1>1. PICK a : a = GotLeaders(st)
  OBVIOUS
<1>2. Still(st, a) /\ a \in Session
  BY <1>1, GotLeadersStill, StillSession
<1>3. Still(a, MembersFocused(a, leader))
  BY <1>2, MembersFocusedStill
<1>4. GroupUpdateFocused(st, leader) = IF leader = None THEN st ELSE MembersFocused(a, leader)
  BY <1>1 DEF GroupUpdateFocused
<1> QED
  BY <1>2, <1>3, <1>4, StillTwice, StillNothing

(* The same with another active group or another active window.             *)
LEMMA ActiveSet ==
  ASSUME NEW st \in Session
  PROVE  /\ \A leader \in Leaders : LET b == [st EXCEPT !.activeLeader = leader] IN
              Quiet(st, b) /\ b.activeWin = st.activeWin /\ b.activeLeader = leader
         /\ \A w \in Win \cup {None} : LET b == [st EXCEPT !.activeWin = w] IN
              Quiet(st, b) /\ b.activeWin = w /\ b.activeLeader = st.activeLeader
<1>1. ASSUME NEW b, b \in Session, b.win = st.win, b.srv = st.srv, b.queue = st.queue,
             b.o = st.o, b.mask = st.mask, b.mapped = st.mapped, b.focus = st.focus,
             b.openclose = st.openclose
      PROVE  Quiet(st, b)
  BY <1>1 DEF Quiet, Changes, Touched, SameProps, Pending, CachesRight, StaysIdle
<1>2. ASSUME NEW leader \in Leaders, NEW b, b = [st EXCEPT !.activeLeader = leader]
      PROVE  Quiet(st, b) /\ b.activeWin = st.activeWin /\ b.activeLeader = leader
  <2>1. /\ b \in Session /\ b.win = st.win /\ b.srv = st.srv /\ b.queue = st.queue
        /\ b.o = st.o /\ b.mask = st.mask /\ b.mapped = st.mapped /\ b.focus = st.focus
        /\ b.openclose = st.openclose /\ b.activeWin = st.activeWin /\ b.activeLeader = leader
    BY <1>2 DEF Session
  <2> QED
    BY <2>1, <1>1
<1>3. ASSUME NEW w \in Win \cup {None}, NEW b, b = [st EXCEPT !.activeWin = w]
      PROVE  Quiet(st, b) /\ b.activeWin = w /\ b.activeLeader = st.activeLeader
  <2>1. /\ b \in Session /\ b.win = st.win /\ b.srv = st.srv /\ b.queue = st.queue
        /\ b.o = st.o /\ b.mask = st.mask /\ b.mapped = st.mapped /\ b.focus = st.focus
        /\ b.openclose = st.openclose /\ b.activeWin = w /\ b.activeLeader = st.activeLeader
    BY <1>3 DEF Session
  <2> QED
    BY <2>1, <1>1
<1> QED
  BY <1>2, <1>3

LEMMA GroupMovedQuiet ==
  ASSUME NEW st \in Session, NEW old, NEW leader \in Leaders
  PROVE  LET b == GroupMoved(st, old, leader) IN
         Quiet(st, b) /\ b.activeWin = st.activeWin /\ b.activeLeader = leader
<1>1. PICK a : a = [st EXCEPT !.activeLeader = leader]
  OBVIOUS
<1>2. Quiet(st, a) /\ a.activeWin = st.activeWin /\ a.activeLeader = leader /\ a \in Session
  BY <1>1, ActiveSet, QuietSession
<1>3. PICK b : b = GroupUpdateFocused(a, old)
  OBVIOUS
<1>4. Still(a, b) /\ b \in Session
  BY <1>2, <1>3, GroupUpdateFocusedStill, StillSession
<1>5. Still(b, GroupUpdateFocused(b, leader))
  BY <1>4, GroupUpdateFocusedStill
<1>6. GroupMoved(st, old, leader) = GroupUpdateFocused(b, leader)
  BY <1>1, <1>3 DEF GroupMoved
<1> QED
  BY <1>2, <1>4, <1>5, <1>6, QuietTwice DEF Still

(* What win_on_focus_change makes of the active group.                      *)
NextLeader(st, w, leader) ==
  IF st.activeWin = w THEN leader
  ELSE IF leader # None /\ leader = st.activeLeader /\ ~GroupIsFocused(st, leader) THEN None
  ELSE st.activeLeader

LEMMA OnGroupFocusQuiet ==
  ASSUME NEW st \in Session, NEW w, NEW leader \in Leaders
  PROVE  LET b == OnGroupFocus(st, w, leader) IN
         Quiet(st, b) /\ b.activeWin = st.activeWin /\ b.activeLeader = NextLeader(st, w, leader)
<1>1. CASE st.activeWin = w /\ leader # st.activeLeader
  <2>1. OnGroupFocus(st, w, leader) = GroupMoved(st, st.activeLeader, leader)
    BY <1>1 DEF OnGroupFocus
  <2> QED
    BY <1>1, <2>1, GroupMovedQuiet DEF NextLeader
<1>2. CASE /\ st.activeWin # w /\ leader # None
           /\ leader = st.activeLeader /\ ~GroupIsFocused(st, leader)
  <2>1. PICK a : a = [st EXCEPT !.activeLeader = None]
    OBVIOUS
  <2>2. Quiet(st, a) /\ a.activeWin = st.activeWin /\ a.activeLeader = None /\ a \in Session
    BY <2>1, ActiveSet, QuietSession DEF Leaders
  <2>3. Still(a, GroupUpdateFocused(a, leader))
    BY <2>2, GroupUpdateFocusedStill
  <2>4. OnGroupFocus(st, w, leader) = GroupUpdateFocused(a, leader)
    BY <1>2, <2>1 DEF OnGroupFocus
  <2> QED
    BY <1>2, <2>2, <2>3, <2>4, QuietTwice DEF Still, NextLeader
<1>3. CASE /\ ~(st.activeWin = w /\ leader # st.activeLeader)
           /\ ~(/\ st.activeWin # w /\ leader # None
                /\ leader = st.activeLeader /\ ~GroupIsFocused(st, leader))
  <2>1. OnGroupFocus(st, w, leader) = st
    BY <1>3 DEF OnGroupFocus
  <2>2. NextLeader(st, w, leader) = st.activeLeader
    BY <1>3 DEF NextLeader
  <2> QED
    BY <2>1, <2>2, StillNothing
<1> QED
  BY <1>1, <1>2, <1>3

------------------------------------------------------------------------------
(* The focus.                                                               *)

(* The active group after a change of the focus of w.                       *)
FocusLeader(st, w) ==
  IF TrackLeader(st) THEN NextLeader(GotLeader(st, w), w, Leader(st, w)) ELSE st.activeLeader

FocusGroup(st, w) ==
  IF TrackLeader(st) THEN OnGroupFocus(GotLeader(st, w), w, Leader(st, w)) ELSE st

LEMMA FocusGroupQuiet ==
  ASSUME NEW st \in Session, NEW w \in Win, NEW b, b = FocusGroup(st, w)
  PROVE  Quiet(st, b) /\ b.activeWin = st.activeWin /\ b.activeLeader = FocusLeader(st, w)
<1>1. CASE TrackLeader(st)
  <2>1. PICK a : a = GotLeader(st, w)
    OBVIOUS
  <2>2. PICK leader : leader = Leader(st, w)
    OBVIOUS
  <2>3. leader \in Leaders
    BY <2>2, LeaderType
  <2>4. Still(st, a) /\ a \in Session
    BY <2>1, GotLeaderStill, StillSession
  <2>5. b = OnGroupFocus(a, w, leader)
    BY <1>1, <2>1, <2>2 DEF FocusGroup
  <2>6. Quiet(a, b) /\ b.activeWin = a.activeWin /\ b.activeLeader = NextLeader(a, w, leader)
    BY <2>3, <2>4, <2>5, OnGroupFocusQuiet
  <2>7. FocusLeader(st, w) = NextLeader(a, w, leader)
    BY <1>1, <2>1, <2>2 DEF FocusLeader
  <2> QED
    BY <2>4, <2>6, <2>7, QuietTwice DEF Still
<1>2. CASE ~TrackLeader(st)
  BY <1>2, StillNothing DEF FocusLeader, FocusGroup
<1> QED
  BY <1>1, <1>2

LEMMA OnFocusChangeQuiet ==
  ASSUME NEW st \in Session, NEW w \in Win, NEW b, b = OnFocusChange(st, w)
  PROVE  Quiet(st, b) /\ b.activeWin = st.activeWin /\ b.activeLeader = FocusLeader(st, w)
<1>1. PICK a : a = FocusGroup(st, w)
  OBVIOUS
<1>2. Quiet(st, a) /\ a.activeWin = st.activeWin /\ a.activeLeader = FocusLeader(st, w)
  BY <1>1, FocusGroupQuiet
<1>3. a \in Session
  BY <1>2, QuietSession
<1>4. PICK c : c = UpdateFocused(a, w)
  OBVIOUS
<1>5. Still(a, c) /\ c \in Session
  BY <1>3, <1>4, UpdateFocusedStill, StillSession
<1>6. b = OnFactorChange(c, w)
  BY <1>1, <1>4, Zenon DEF OnFocusChange, FocusGroup
<1>7. Still(c, b)
  BY <1>5, <1>6, OnFactorChangeStill
<1> QED
  BY <1>2, <1>5, <1>7, QuietTwice DEF Still

Active(st, w) == [st EXCEPT !.activeWin = w]

LEMMA LoseFocusQuiet ==
  ASSUME NEW st \in Session, NEW w \in Win, NEW b, b = LoseFocus(st, w)
  PROVE  /\ Quiet(st, b)
         /\ b.activeWin = IF st.activeWin # w \/ ~st.win[w].viewable THEN st.activeWin ELSE None
         /\ b.activeLeader = IF st.activeWin # w \/ ~st.win[w].viewable THEN st.activeLeader
                             ELSE FocusLeader(Active(st, None), w)
<1>1. CASE st.activeWin # w \/ ~st.win[w].viewable
  BY <1>1, StillNothing DEF LoseFocus
<1>2. CASE ~(st.activeWin # w \/ ~st.win[w].viewable)
  <2>1. PICK a : a = [st EXCEPT !.activeWin = None]
    OBVIOUS
  <2>2. Quiet(st, a) /\ a.activeWin = None /\ a \in Session
    BY <2>1, ActiveSet, QuietSession
  <2>3. b = OnFocusChange(a, w)
    BY <1>2, <2>1 DEF LoseFocus
  <2>4. Quiet(a, b) /\ b.activeWin = a.activeWin /\ b.activeLeader = FocusLeader(a, w)
    BY <2>2, <2>3, OnFocusChangeQuiet
  <2> QED
    BY <1>2, <2>1, <2>2, <2>4, QuietTwice DEF Active
<1> QED
  BY <1>1, <1>2

(* The window that has the focus loses it before w gains it.                *)
Unfocused(st) == IF st.activeWin = None THEN st ELSE LoseFocus(st, st.activeWin)

LEMMA UnfocusedQuiet ==
  ASSUME NEW st \in Session
  PROVE  Quiet(st, Unfocused(st))
<1>1. CASE st.activeWin = None
  BY <1>1, StillNothing DEF Unfocused
<1>2. CASE st.activeWin # None
  <2>1. st.activeWin \in Win
    BY <1>2 DEF Session
  <2> QED
    BY <1>2, <2>1, LoseFocusQuiet DEF Unfocused
<1> QED
  BY <1>1, <1>2

LEMMA GainFocusQuiet ==
  ASSUME NEW st \in Session, NEW w \in Win, NEW b, b = GainFocus(st, w)
  PROVE  /\ Quiet(st, b)
         /\ b.activeWin = IF st.activeWin = w \/ ~st.win[w].viewable THEN st.activeWin ELSE w
         /\ b.activeLeader = IF st.activeWin = w \/ ~st.win[w].viewable THEN st.activeLeader
                             ELSE FocusLeader(Active(Unfocused(st), w), w)
<1>1. CASE st.activeWin = w \/ ~st.win[w].viewable
  <2>1. b = st
    BY <1>1, Zenon DEF GainFocus
  <2> QED
    BY <1>1, <2>1, StillNothing
<1>2. CASE ~(st.activeWin = w \/ ~st.win[w].viewable)
  <2>1. PICK a : a = Unfocused(st)
    OBVIOUS
  <2>2. Quiet(st, a) /\ a \in Session
    BY <2>1, UnfocusedQuiet, QuietSession
  <2>3. PICK c : c = [a EXCEPT !.activeWin = w]
    OBVIOUS
  <2>4. Quiet(a, c) /\ c.activeWin = w /\ c \in Session
    BY <2>2, <2>3, ActiveSet, QuietSession
  <2>5. b = OnFocusChange(c, w)
    BY <1>2, <2>1, <2>3, Zenon DEF GainFocus, Unfocused
  <2>6. Quiet(c, b) /\ b.activeWin = c.activeWin /\ b.activeLeader = FocusLeader(c, w)
    BY <2>4, <2>5, OnFocusChangeQuiet
  <2> QED
    BY <1>2, <2>1, <2>2, <2>3, <2>4, <2>6, QuietTwice DEF Active
<1> QED
  BY <1>1, <1>2

LEMMA RecheckFocusQuiet ==
  ASSUME NEW st \in Session
  PROVE  /\ Quiet(st, RecheckFocus(st))
         /\ \/ RecheckFocus(st).activeWin = st.activeWin
            \/ st.focus \in Win /\ st.win[st.focus].viewable /\ RecheckFocus(st).activeWin = st.focus
<1>1. CASE st.focus = None
  BY <1>1, StillNothing DEF RecheckFocus
<1>2. CASE st.focus # None
  <2>1. PICK w \in Win : w = st.focus
    BY <1>2 DEF Session
  <2>2. PICK b : b = GainFocus(st, w)
    OBVIOUS
  <2>3. /\ Quiet(st, b)
        /\ b.activeWin = IF st.activeWin = w \/ ~st.win[w].viewable THEN st.activeWin ELSE w
    BY <2>2, GainFocusQuiet
  <2>4. RecheckFocus(st) = b
    BY <1>2, <2>1, <2>2 DEF RecheckFocus
  <2> QED
    BY <2>1, <2>3, <2>4
<1> QED
  BY <1>1, <1>2

------------------------------------------------------------------------------
(* The leader of a window.                                                  *)

Cleared(st, w, leader) ==
  [st EXCEPT !.win = [v \in Win |-> [@[v] EXCEPT !.cache = None]], !.win[w].leader = leader]

LEMMA ClearedWindows ==
  ASSUME NEW st \in Session, NEW w \in Win, NEW leader \in Leaders
  PROVE  /\ Changes(st, Cleared(st, w, leader), w, {"leader"})
         /\ Cleared(st, w, leader).activeWin = st.activeWin
         /\ Cleared(st, w, leader).activeLeader = st.activeLeader
         /\ Cleared(st, w, leader).win[w].leader = leader
         /\ \A v \in Win : /\ Cleared(st, w, leader).win[v].cache = None
                           /\ Cleared(st, w, leader).win[v].dec = st.win[v].dec
                           /\ Cleared(st, w, leader).win[v].opacitySet = st.win[v].opacitySet
<1>1. PICK b : b = Cleared(st, w, leader)
  OBVIOUS
<1>2. PICK cleared : cleared = [v \in Win |-> [st.win[v] EXCEPT !.cache = None]]
  OBVIOUS
<1>3. PICK win : win = [cleared EXCEPT ![w] = [cleared[w] EXCEPT !.leader = leader]]
  OBVIOUS
<1>4. b = [st EXCEPT !.win = win]
  <2>1. b = [[st EXCEPT !.win = cleared] EXCEPT !.win[w].leader = leader]
    BY <1>1, <1>2, Zenon DEF Cleared
  <2> QED
    BY <2>1, <1>3 DEF Session
<1>5. ASSUME NEW v \in Win
      PROVE  /\ cleared[v] \in WinType /\ cleared[v].cache = None
             /\ \A f \in Kept : cleared[v][f] = st.win[v][f]
             /\ cleared[v].dec = st.win[v].dec /\ cleared[v].opctChange = st.win[v].opctChange
             /\ cleared[v].opacitySet = st.win[v].opacitySet
             /\ cleared[v].last = st.win[v].last
  <2>1. st.win[v] \in WinType /\ cleared[v] = [st.win[v] EXCEPT !.cache = None]
    BY <1>2 DEF Session
  <2> QED
    BY <2>1 DEF WinType, Leaders, Kept
<1>6. ASSUME NEW v \in Win
      PROVE  /\ win[v] \in WinType /\ win[v].cache = None
             /\ \A f \in Kept : (v = w /\ f = "leader") \/ win[v][f] = st.win[v][f]
             /\ win[v].dec = st.win[v].dec /\ win[v].opctChange = st.win[v].opctChange
             /\ win[v].opacitySet = st.win[v].opacitySet
             /\ win[v].last = st.win[v].last
             /\ v = w => win[v].leader = leader
  <2>1. CASE v = w
    <3>1. win[v] = [cleared[v] EXCEPT !.leader = leader]
      BY <1>2, <1>3, <2>1
    <3>2. cleared[v] \in WinType
      BY <1>5
    <3>3. /\ win[v] \in WinType /\ win[v].cache = cleared[v].cache
          /\ \A f \in Kept : f = "leader" \/ win[v][f] = cleared[v][f]
          /\ win[v].dec = cleared[v].dec /\ win[v].opctChange = cleared[v].opctChange
          /\ win[v].opacitySet = cleared[v].opacitySet /\ win[v].last = cleared[v].last
          /\ win[v].leader = leader
      BY <3>1, <3>2 DEF WinType, Kept
    <3> QED
      BY <1>5, <2>1, <3>3
  <2>2. CASE v # w
    <3>1. win[v] = cleared[v]
      BY <1>2, <1>3, <2>2
    <3> QED
      BY <1>5, <2>2, <3>1
  <2> QED
    BY <2>1, <2>2
<1>7. win \in [Win -> WinType]
  BY <1>2, <1>3, <1>6
<1>8. /\ b \in Session /\ b.win = win /\ Pending(b) = Pending(st)
      /\ b.o = st.o /\ b.mask = st.mask /\ b.mapped = st.mapped /\ b.focus = st.focus
      /\ b.openclose = st.openclose /\ b.srv = st.srv
      /\ b.activeWin = st.activeWin /\ b.activeLeader = st.activeLeader
  BY <1>4, <1>7 DEF Session, Pending
<1>9. \A x \in Xid : SameProps(st, b, x)
  BY <1>8 DEF SameProps
<1>10. \A v \in Win : Touched(st.win[v], b.win[v], IF v = w THEN {"leader"} ELSE {})
  BY <1>6, <1>8 DEF Touched
<1>12. StaysIdle(st, b)
  <2>1. ASSUME NEW v \in Win PROVE b.win[v].force = st.win[v].force
    BY <1>6, <1>8 DEF Kept
  <2> QED
    BY <1>6, <1>8, <2>1, IdleSame DEF StaysIdle
<1>11. Changes(st, b, w, {"leader"})
  BY <1>8, <1>9, <1>10, <1>12 DEF Changes
<1> QED
  BY <1>1, <1>6, <1>8, <1>11

LEMMA LeaderMovedQuiet ==
  ASSUME NEW st \in Session, NEW w \in Win, NEW old, NEW new \in Leaders, NEW b,
         b = LeaderMoved(st, w, old, new)
  PROVE  /\ Quiet(st, b) /\ b.activeWin = st.activeWin
         /\ b.activeLeader = IF st.activeWin = w /\ old # new THEN new ELSE st.activeLeader
<1>1. CASE st.activeWin = w /\ old # new
  BY <1>1, GroupMovedQuiet DEF LeaderMoved
<1>2. CASE ~(st.activeWin = w /\ old # new)
  BY <1>2, UpdateFocusedStill DEF LeaderMoved, Still
<1> QED
  BY <1>1, <1>2

LEMMA SetLeaderIs ==
  ASSUME NEW st \in Session, NEW w \in Win, NEW leader \in Leaders, NEW b,
         b = SetLeader(st, w, leader)
  PROVE  /\ Changes(st, b, w, {"leader"}) /\ b.activeWin = st.activeWin
         /\ b.win[w].leader = leader
         /\ b.activeLeader =
              IF /\ leader # st.win[w].leader /\ st.activeWin = w
                 /\ Leader(st, w) # Leader(Cleared(st, w, leader), w)
              THEN Leader(Cleared(st, w, leader), w) ELSE st.activeLeader
         /\ Grounded(st.win) /\ Grounded(Cleared(st, w, leader).win) => Grounded(b.win)
<1>1. CASE leader = st.win[w].leader
  <2>1. b = st
    BY <1>1, Zenon DEF SetLeader
  <2> QED
    BY <1>1, <2>1, ChangesNothing
<1>2. CASE leader # st.win[w].leader
  <2>1. PICK a : a = Cleared(st, w, leader)
    OBVIOUS
  <2>2. PICK old : old = Leader(st, w)
    OBVIOUS
  <2>3. PICK new : new = Leader(a, w)
    OBVIOUS
  <2>4. PICK c : c = GotLeader(a, w)
    OBVIOUS
  <2>5. PICK d : d = LeaderMoved(c, w, old, new)
    OBVIOUS
  <2>6. b = OnFactorChange(d, w)
    BY <1>2, <2>1, <2>2, <2>3, <2>4, <2>5, Zenon DEF SetLeader, Cleared
  <2>7. /\ Changes(st, a, w, {"leader"}) /\ a.activeWin = st.activeWin /\ a \in Session
        /\ a.activeLeader = st.activeLeader /\ a.win[w].leader = leader
    BY <2>1, ClearedWindows DEF Changes
  <2>8. new \in Leaders
    BY <2>3, <2>7, LeaderType
  <2>9. Still(a, c) /\ c \in Session
    BY <2>4, <2>7, GotLeaderStill, StillSession
  <2>10. /\ Quiet(c, d) /\ d.activeWin = c.activeWin /\ d \in Session
         /\ d.activeLeader = IF c.activeWin = w /\ old # new THEN new ELSE c.activeLeader
    BY <2>5, <2>8, <2>9, LeaderMovedQuiet, QuietSession
  <2>11. Still(d, b)
    BY <2>6, <2>10, OnFactorChangeStill
  <2>12. Quiet(a, b)
    BY <2>9, <2>10, <2>11, QuietTwice DEF Still
  <2>13. Changes(st, b, w, {"leader"})
    <3>1. Changes(a, b, w, {"leader"})
      BY <2>12, ChangesOf DEF Quiet
    <3> QED
      BY <3>1, <2>7, ChangesAgain
  <2>14. b.win[w].leader = leader
    BY <2>12, <2>7, KeptSame DEF Quiet, Kept
  <2>15. b.activeLeader = IF st.activeWin = w /\ old # new THEN new ELSE st.activeLeader
    BY <2>7, <2>9, <2>10, <2>11 DEF Still
  <2>16. Grounded(a.win) => Grounded(b.win)
    BY <2>12, UpKept DEF Quiet
  <2>17. b.activeWin = st.activeWin
    BY <2>7, <2>9, <2>10, <2>11 DEF Still
  <2> QED
    BY <1>2, <2>1, <2>2, <2>3, <2>13, <2>14, <2>15, <2>16, <2>17
<1> QED
  BY <1>1, <1>2

------------------------------------------------------------------------------
(* The handlers.                                                            *)

(* The session b is a but for the window w.                                 *)
SameButWin(a, b, w) ==
  /\ b \in Session /\ \A v \in Win : v # w => b.win[v] = a.win[v]
  /\ b.o = a.o /\ b.srv = a.srv /\ b.queue = a.queue /\ Pending(b) = Pending(a)
  /\ b.activeWin = a.activeWin /\ b.activeLeader = a.activeLeader
  /\ b.mapped = a.mapped /\ b.focus = a.focus /\ b.openclose = a.openclose

(* The fields F of a window are set.                                        *)
Rewritten(v, new, F) ==
  /\ new \in WinType /\ \A f \in Kept : f \notin F => new[f] = v[f]
  /\ new.dec = v.dec /\ new.cache = v.cache /\ new.opacitySet = v.opacitySet
  /\ new.last = v.last
  /\ v.opctChange => new.opctChange

WithWin(st, w, new) == [st EXCEPT !.win[w] = new]

LEMMA FieldsSet ==
  ASSUME NEW st \in Session, NEW w \in Win, NEW v, v = st.win[w], NEW new, NEW F,
         Rewritten(v, new, F), NEW b, b = WithWin(st, w, new)
  PROVE  /\ Changes(st, b, w, F) /\ b.win[w] = new /\ SameButWin(st, b, w) /\ b.mask = st.mask
<1>1. Touched(st.win[w], new, F) /\ new \in WinType /\ new.cache = st.win[w].cache
  BY DEF Rewritten, Touched
<1>2. "force" \notin F => (Idle(st.o, st.win[w]) => Idle(st.o, new))
  <2>1. "force" \notin F => new.force = v.force
    BY DEF Rewritten, Kept
  <2> QED
    BY <2>1, IdleSame DEF Rewritten
<1> QED
  BY <1>1, <1>2, OneTouched, OneWindow DEF SameButWin, WithWin

LEMMA SelectIs ==
  ASSUME NEW st \in Session, NEW x \in Xid, NEW mode, NEW b, b = Select(st, x, mode)
  PROVE  /\ b \in Session /\ b.win = st.win /\ b.srv = st.srv /\ b.queue = st.queue
         /\ Pending(b) = Pending(st)
         /\ b.o = st.o /\ b.activeWin = st.activeWin /\ b.activeLeader = st.activeLeader
         /\ b.mapped = st.mapped /\ b.focus = st.focus /\ b.openclose = st.openclose
         /\ b.mask[x] <=> Evmask(st, x, mode)
         /\ \A y \in Xid : y # x => b.mask[y] = st.mask[y]
<1>1. Evmask(st, x, mode) \in BOOLEAN
  BY Zenon DEF Evmask
<1>2. PICK m \in BOOLEAN : m = Evmask(st, x, mode)
  BY <1>1
<1>3. b = [st EXCEPT !.mask[x] = m]
  BY <1>2, Zenon DEF Select
<1>5. PICK mask : mask = [st.mask EXCEPT ![x] = m]
  OBVIOUS
<1>6. b = [st EXCEPT !.mask = mask]
  BY <1>3, <1>5, Zenon
<1>7. st.mask \in [Xid -> BOOLEAN]
  BY DEF Session
<1>8. mask \in [Xid -> BOOLEAN] /\ mask[x] = m /\ \A y \in Xid : y # x => mask[y] = st.mask[y]
  BY <1>5, <1>7
<1>4. /\ b \in Session /\ b.win = st.win /\ b.srv = st.srv /\ b.queue = st.queue
      /\ Pending(b) = Pending(st)
      /\ b.o = st.o /\ b.activeWin = st.activeWin /\ b.activeLeader = st.activeLeader
      /\ b.mapped = st.mapped /\ b.focus = st.focus /\ b.openclose = st.openclose
      /\ b.mask = mask
  <2>1. b \in Session /\ b.mask = mask
    BY <1>6, <1>8 DEF Session
  <2>2. /\ b.win = st.win /\ b.srv = st.srv /\ b.queue = st.queue
        /\ b.o = st.o /\ b.activeWin = st.activeWin /\ b.activeLeader = st.activeLeader
        /\ b.mapped = st.mapped /\ b.focus = st.focus /\ b.openclose = st.openclose
    BY <1>6 DEF Session
  <2> QED
    BY <2>1, <2>2 DEF Pending
<1> QED
  BY <1>2, <1>4, <1>8, Zenon

LEMMA PropsType ==
  ASSUME NEW st \in Session, NEW x \in Xid
  PROVE  /\ st.srv[x] \in Props /\ st.srv[x].name \in {"n0", "n1"}
         /\ st.srv[x].opacity \in Level /\ st.srv[x].shaped \in BOOLEAN
         /\ st.srv[x].noShadow \in BOOLEAN /\ st.srv[x].leader \in Leaders
         /\ st.srv[x].transient \in Leaders
BY DEF Session, Props

(* wid_get_prop_wintype and the leader of win_update_leader.                *)
TypeOf(st, x) ==
  IF st.srv[x].type # "none" THEN st.srv[x].type
  ELSE IF st.srv[x].transient = None THEN "normal" ELSE "dialog"
LeaderOf(st, x) ==
  LET transient == IF "transient" \in st.o.detect THEN st.srv[x].transient ELSE None
  IN  IF transient = None /\ "leader" \in st.o.detect THEN st.srv[x].leader ELSE transient

LEMMA TypeOfType ==
  ASSUME NEW st \in Session, NEW x \in Xid
  PROVE  TypeOf(st, x) \in {"normal", "dialog"} /\ LeaderOf(st, x) \in Leaders
<1>1. st.srv[x] \in Props
  BY PropsType
<1> QED
  BY <1>1 DEF TypeOf, LeaderOf, Props, Leaders

LEMMA GetNameIs ==
  ASSUME NEW st \in Session, NEW w \in Win, st.win[w].client \in Xid, NEW b, b = GetName(st, w)
  PROVE  /\ Changes(st, b, w, {"name"}) /\ b.activeWin = st.activeWin
         /\ b.activeLeader = st.activeLeader
         /\ b.win[w].name = st.srv[st.win[w].client].name
         /\ b.win[w].opacitySet = st.win[w].opacitySet /\ b.win[w].dec = st.win[w].dec
         /\ SameButWin(st, b, w) /\ b.mask = st.mask
<1>1. PICK v : v = st.win[w]
  OBVIOUS
<1>2. v \in WinType
  BY <1>1, WinIn
<1>3. PICK name : name = st.srv[v.client].name
  OBVIOUS
<1>4. name \in {"n0", "n1"}
  BY <1>1, <1>3, PropsType
<1>5. PICK new : new = [v EXCEPT !.name = name]
  OBVIOUS
<1>6. Rewritten(v, new, {"name"}) /\ new.name = name
  BY <1>2, <1>4, <1>5 DEF Rewritten, WinType, Kept
<1>7. b = WithWin(st, w, new)
  BY <1>1, <1>3, <1>5, Zenon DEF GetName, WithWin
<1>8. /\ Changes(st, b, w, {"name"}) /\ b.win[w] = new /\ SameButWin(st, b, w) /\ b.mask = st.mask
  BY <1>1, <1>6, <1>7, FieldsSet
<1> QED
  BY <1>1, <1>3, <1>6, <1>8 DEF SameButWin, Rewritten

(* The type alone, before win_on_wtype_change.                              *)
Typed(st, w, type) == [st EXCEPT !.win[w].type = type]

LEMMA TypedIs ==
  ASSUME NEW st \in Session, NEW w \in Win, NEW type \in {"normal", "dialog"},
         NEW b, b = Typed(st, w, type)
  PROVE  /\ Changes(st, b, w, {"type"}) /\ SameButWin(st, b, w) /\ b.mask = st.mask
         /\ b.win[w].type = type
         /\ b.win[w].opacitySet = st.win[w].opacitySet /\ b.win[w].dec = st.win[w].dec
<1>1. PICK v : v = st.win[w]
  OBVIOUS
<1>2. v \in WinType
  BY <1>1, WinIn
<1>3. PICK new : new = [v EXCEPT !.type = type]
  OBVIOUS
<1>4. Rewritten(v, new, {"type"}) /\ new.type = type
  BY <1>2, <1>3 DEF Rewritten, WinType, Kept
<1>5. b = WithWin(st, w, new)
  BY <1>1, <1>3, Zenon DEF Typed, WithWin
<1>6. Changes(st, b, w, {"type"}) /\ b.win[w] = new /\ SameButWin(st, b, w) /\ b.mask = st.mask
  BY <1>1, <1>4, <1>5, FieldsSet
<1> QED
  BY <1>1, <1>4, <1>6 DEF Rewritten

LEMMA UpdWintypeIs ==
  ASSUME NEW st \in Session, NEW w \in Win, st.win[w].client \in Xid, NEW b, b = UpdWintype(st, w)
  PROVE  /\ Changes(st, b, w, {"type"}) /\ b.activeWin = st.activeWin
         /\ b.activeLeader = st.activeLeader
         /\ b.win[w].type = TypeOf(st, st.win[w].client)
         /\ IF TypeOf(st, st.win[w].client) = st.win[w].type THEN b = st
            ELSE b = OnWtypeChange(Typed(st, w, TypeOf(st, st.win[w].client)), w)
<1>1. PICK type : type = TypeOf(st, st.win[w].client)
  OBVIOUS
<1>2. type \in {"normal", "dialog"}
  BY <1>1, TypeOfType
<1>3. PICK a : a = Typed(st, w, type)
  OBVIOUS
<1>4. IF type = st.win[w].type THEN b = st ELSE b = OnWtypeChange(a, w)
  BY <1>1, <1>3, Zenon DEF UpdWintype, TypeOf, Typed
<1>5. CASE type = st.win[w].type
  BY <1>1, <1>4, <1>5, ChangesNothing
<1>6. CASE type # st.win[w].type
  <2>1. Changes(st, a, w, {"type"}) /\ SameButWin(st, a, w) /\ a.win[w].type = type
    BY <1>2, <1>3, TypedIs
  <2>2. a \in Session
    BY <2>1 DEF Changes
  <2>3. Still(a, b)
    BY <1>4, <1>6, <2>2, OnWtypeChangeStill
  <2>4. Changes(a, b, w, {"type"})
    BY <2>3, ChangesOf DEF Still, Quiet
  <2>5. b.win[w].type = a.win[w].type
    BY <2>3, KeptSame DEF Still, Quiet, Kept
  <2> QED
    BY <1>1, <1>3, <1>4, <1>6, <2>1, <2>3, <2>4, <2>5, ChangesAgain DEF Still, SameButWin
<1> QED
  BY <1>5, <1>6

LEMMA UpdateLeaderIs ==
  ASSUME NEW st, NEW w
  PROVE  UpdateLeader(st, w) = SetLeader(st, w, LeaderOf(st, st.win[w].client))
BY Zenon DEF UpdateLeader, LeaderOf

LEMMA TrackedLeaderIs ==
  ASSUME NEW st \in Session, NEW w \in Win, st.win[w].client \in Xid,
         NEW b, b = TrackedLeader(st, w)
  PROVE  /\ Changes(st, b, w, {"leader"}) /\ b.activeWin = st.activeWin
         /\ TrackLeader(st) => b.win[w].leader = LeaderOf(st, st.win[w].client)
<1>1. PICK leader : leader = LeaderOf(st, st.win[w].client)
  OBVIOUS
<1>2. leader \in Leaders
  BY <1>1, TypeOfType
<1>3. b = IF TrackLeader(st) THEN SetLeader(st, w, leader) ELSE st
  BY <1>1, UpdateLeaderIs DEF TrackedLeader
<1>4. CASE TrackLeader(st)
  BY <1>1, <1>2, <1>3, <1>4, SetLeaderIs
<1>5. CASE ~TrackLeader(st)
  BY <1>3, <1>5, ChangesNothing
<1> QED
  BY <1>4, <1>5

LEMMA TrackedNameIs ==
  ASSUME NEW st \in Session, NEW w \in Win, st.win[w].client \in Xid, NEW b, b = TrackedName(st, w)
  PROVE  /\ Changes(st, b, w, {"name"}) /\ b.activeWin = st.activeWin
         /\ b.activeLeader = st.activeLeader
         /\ TrackWdata(st) => b.win[w].name = st.srv[st.win[w].client].name
         /\ b.win[w].opacitySet = st.win[w].opacitySet /\ b.win[w].dec = st.win[w].dec
<1>1. CASE TrackWdata(st)
  BY <1>1, GetNameIs DEF TrackedName
<1>2. CASE ~TrackWdata(st)
  BY <1>2, ChangesNothing DEF TrackedName
<1> QED
  BY <1>1, <1>2

LEMMA PropsKept ==
  ASSUME NEW a, NEW b, NEW w, NEW F, Changes(a, b, w, F), NEW x \in Xid
  PROVE  /\ TypeOf(b, x) = TypeOf(a, x) /\ LeaderOf(b, x) = LeaderOf(a, x)
         /\ b.srv[x].name = a.srv[x].name /\ b.srv[x].other = a.srv[x].other
         /\ b.srv[x].shaped = a.srv[x].shaped /\ b.srv[x].noShadow = a.srv[x].noShadow
         /\ b.srv[x].state = a.srv[x].state /\ b.srv[x].type = a.srv[x].type
         /\ b.srv[x].transient = a.srv[x].transient /\ b.srv[x].leader = a.srv[x].leader
<1>1. SameProps(a, b, x) /\ b.o = a.o
  BY DEF Changes
<1>2. \A f \in {"name", "type", "transient", "leader", "state", "other", "noShadow", "shaped"} :
        b.srv[x][f] = a.srv[x][f]
  BY <1>1 DEF SameProps, Property
<1>3. /\ b.srv[x].name = a.srv[x].name /\ b.srv[x].other = a.srv[x].other
      /\ b.srv[x].shaped = a.srv[x].shaped /\ b.srv[x].noShadow = a.srv[x].noShadow
      /\ b.srv[x].state = a.srv[x].state /\ b.srv[x].type = a.srv[x].type
      /\ b.srv[x].transient = a.srv[x].transient /\ b.srv[x].leader = a.srv[x].leader
  BY <1>2
<1> QED
  BY <1>1, <1>3 DEF TypeOf, LeaderOf

LEMMA FieldKept ==
  ASSUME NEW a, NEW b, NEW w, NEW F, Changes(a, b, w, F), NEW u \in Win, NEW f \in Kept,
         u # w \/ f \notin F
  PROVE  b.win[u][f] = a.win[u][f]
<1>1. Touched(a.win[u], b.win[u], IF u = w THEN F ELSE {})
  BY DEF Changes
<1> QED
  BY <1>1 DEF Touched

(* The client of w is known.                                                *)
ClientSet(st, w, client) == [st EXCEPT !.win[w].client = client]

LEMMA ClientSetIs ==
  ASSUME NEW st \in Session, NEW w \in Win, NEW client \in Xid, NEW b, b = ClientSet(st, w, client)
  PROVE  /\ Changes(st, b, w, {"client"}) /\ SameButWin(st, b, w) /\ b.mask = st.mask
         /\ b.win[w].client = client
         /\ Rewritten(st.win[w], b.win[w], {"client"})
<1>1. PICK v : v = st.win[w]
  OBVIOUS
<1>2. v \in WinType
  BY <1>1, WinIn
<1>3. PICK new : new = [v EXCEPT !.client = client]
  OBVIOUS
<1>4. Rewritten(v, new, {"client"}) /\ new.client = client
  BY <1>2, <1>3 DEF Rewritten, WinType, Kept
<1>5. b = WithWin(st, w, new)
  BY <1>1, <1>3, Zenon DEF ClientSet, WithWin
<1>6. Changes(st, b, w, {"client"}) /\ b.win[w] = new /\ SameButWin(st, b, w) /\ b.mask = st.mask
  BY <1>1, <1>4, <1>5, FieldsSet
<1> QED
  BY <1>1, <1>4, <1>6

(* win_mark_client up to where it reads the properties.                     *)
Marked(st, w, client) == Select(ClientSet(st, w, client), client, "client")

LEMMA MarkedIs ==
  ASSUME NEW st \in Session, NEW w \in Win, NEW client \in Xid, NEW b, b = Marked(st, w, client)
  PROVE  /\ SameButWin(st, b, w) /\ b.win[w].client = client
         /\ Rewritten(st.win[w], b.win[w], {"client"})
         /\ b.mask[client] <=> Evmask(ClientSet(st, w, client), client, "client")
         /\ \A y \in Xid : y # client => b.mask[y] = st.mask[y]
<1>1. PICK a : a = ClientSet(st, w, client)
  OBVIOUS
<1>2. /\ SameButWin(st, a, w) /\ a.mask = st.mask /\ a.win[w].client = client
      /\ Rewritten(st.win[w], a.win[w], {"client"}) /\ a \in Session
  BY <1>1, ClientSetIs DEF SameButWin
<1>3. /\ b \in Session /\ b.win = a.win /\ b.srv = a.srv /\ b.queue = a.queue
      /\ Pending(b) = Pending(a)
      /\ b.o = a.o /\ b.activeWin = a.activeWin /\ b.activeLeader = a.activeLeader
      /\ b.mapped = a.mapped /\ b.focus = a.focus /\ b.openclose = a.openclose
      /\ b.mask[client] <=> Evmask(a, client, "client")
      /\ \A y \in Xid : y # client => b.mask[y] = a.mask[y]
  BY <1>1, <1>2, SelectIs DEF Marked
<1> QED
  BY <1>1, <1>2, <1>3 DEF SameButWin

LEMMA MarkClientIs ==
  ASSUME NEW st \in Session, NEW w \in Win, NEW client \in Xid, NEW b, b = MarkClient(st, w, client)
  PROVE  IF st.win[w].viewable
         THEN /\ Changes(Marked(st, w, client), b, w, {"type", "leader", "name"})
              /\ b.activeWin = st.activeWin
              /\ b.win[w].type = TypeOf(st, client)
              /\ TrackLeader(st) => b.win[w].leader = LeaderOf(st, client)
              /\ TrackWdata(st) => b.win[w].name = st.srv[client].name
         ELSE b = ClientSet(st, w, client)
<1>1. CASE ~st.win[w].viewable
  BY <1>1, Zenon DEF MarkClient, ClientSet
<1>2. CASE st.win[w].viewable
  <2>1. PICK m : m = Marked(st, w, client)
    OBVIOUS
  <2>2. /\ m \in Session /\ m.win[w].client = client /\ m.o = st.o /\ m.srv = st.srv
        /\ m.activeWin = st.activeWin
    BY <2>1, MarkedIs DEF SameButWin
  <2>3. PICK t : t = UpdWintype(m, w)
    OBVIOUS
  <2>4. /\ Changes(m, t, w, {"type"}) /\ t.activeWin = m.activeWin /\ t \in Session
        /\ t.win[w].type = TypeOf(m, client) /\ t.o = m.o
    BY <2>2, <2>3, UpdWintypeIs DEF Changes
  <2>5. t.win[w].client = client
    BY <2>2, <2>4, FieldKept DEF Kept
  <2>6. PICK l : l = TrackedLeader(t, w)
    OBVIOUS
  <2>7. /\ Changes(t, l, w, {"leader"}) /\ l.activeWin = t.activeWin /\ l \in Session /\ l.o = t.o
        /\ TrackLeader(t) => l.win[w].leader = LeaderOf(t, client)
    BY <2>4, <2>5, <2>6, TrackedLeaderIs DEF Changes
  <2>8. l.win[w].client = client /\ l.win[w].type = t.win[w].type
    BY <2>5, <2>7, FieldKept DEF Kept
  <2>9. PICK n : n = TrackedName(l, w)
    OBVIOUS
  <2>10. /\ Changes(l, n, w, {"name"}) /\ n.activeWin = l.activeWin /\ n \in Session
         /\ TrackWdata(l) => n.win[w].name = l.srv[client].name
    BY <2>7, <2>8, <2>9, TrackedNameIs DEF Changes
  <2>11. n.win[w].type = l.win[w].type /\ n.win[w].leader = l.win[w].leader
    BY <2>10, FieldKept DEF Kept
  <2>12. PICK f : f = OnFactorChange(n, w)
    OBVIOUS
  <2>13. Still(n, f) /\ f \in Session
    BY <2>10, <2>12, OnFactorChangeStill, StillSession
  <2>14. Still(f, UpdateFocused(f, w))
    BY <2>13, UpdateFocusedStill
  <2>15. b = UpdateFocused(f, w)
    BY <1>2, <2>1, <2>3, <2>6, <2>9, <2>12, Zenon DEF MarkClient, Marked, ClientSet
  <2>16. Still(n, b)
    BY <2>13, <2>14, <2>15, StillTwice
  <2>17. /\ b.win[w].type = n.win[w].type /\ b.win[w].leader = n.win[w].leader
         /\ b.win[w].name = n.win[w].name
    BY <2>16, KeptSame DEF Still, Quiet, Kept
  <2>18. TypeOf(m, client) = TypeOf(st, client)
    BY <2>2 DEF TypeOf
  <2>19. LeaderOf(t, client) = LeaderOf(m, client) /\ LeaderOf(m, client) = LeaderOf(st, client)
    BY <2>2, <2>4, PropsKept DEF LeaderOf
  <2>20. l.srv[client].name = t.srv[client].name /\ t.srv[client].name = st.srv[client].name
    BY <2>2, <2>4, <2>7, PropsKept
  <2>21. Changes(m, b, w, {"type", "leader", "name"})
    <3>1. Changes(n, b, w, {"type", "leader", "name"})
      BY <2>16, ChangesOf DEF Still, Quiet
    <3>2. Changes(l, n, w, {"type", "leader", "name"})
      <4>1. {"name"} \subseteq {"type", "leader", "name"}
        OBVIOUS
      <4> QED
        BY <4>1, <2>10, ChangesMore
    <3>3. Changes(t, l, w, {"type", "leader", "name"})
      <4>1. {"leader"} \subseteq {"type", "leader", "name"}
        OBVIOUS
      <4> QED
        BY <4>1, <2>7, ChangesMore
    <3>4. Changes(m, t, w, {"type", "leader", "name"})
      <4>1. {"type"} \subseteq {"type", "leader", "name"}
        OBVIOUS
      <4> QED
        BY <4>1, <2>4, ChangesMore
    <3>5. Changes(m, l, w, {"type", "leader", "name"})
      BY <3>3, <3>4, ChangesAgain
    <3>6. Changes(m, n, w, {"type", "leader", "name"})
      BY <3>2, <3>5, ChangesAgain
    <3> QED
      BY <3>1, <3>6, ChangesAgain
  <2>22. b.activeWin = st.activeWin
    BY <2>2, <2>4, <2>7, <2>10, <2>16 DEF Still
  <2>23. (TrackLeader(t) <=> TrackLeader(st)) /\ (TrackWdata(l) <=> TrackWdata(st))
    BY <2>2, <2>4, <2>7 DEF TrackLeader, TrackWdata, Looked
  <2> QED
    BY <1>2, <2>1, <2>4, <2>7, <2>8, <2>10, <2>11, <2>17, <2>18, <2>19, <2>20, <2>21, <2>22, <2>23
<1> QED
  BY <1>1, <1>2

(* The reads of the frame.                                                  *)
LEMMA UpdateShapeIs ==
  ASSUME NEW st \in Session, NEW w \in Win, NEW b, b = UpdateShape(st, w)
  PROVE  /\ Changes(st, b, w, {"shaped"}) /\ SameButWin(st, b, w) /\ b.mask = st.mask
         /\ b.win[w].shaped = st.srv[w].shaped
         /\ Rewritten(st.win[w], b.win[w], {"shaped"})
<1>1. PICK v : v = st.win[w]
  OBVIOUS
<1>2. v \in WinType
  BY <1>1, WinIn
<1>3. PICK shaped : shaped = st.srv[w].shaped
  OBVIOUS
<1>4. shaped \in BOOLEAN
  BY <1>3, PropsType DEF Xid
<1>5. PICK new : new = [v EXCEPT !.shaped = shaped]
  OBVIOUS
<1>6. Rewritten(v, new, {"shaped"}) /\ new.shaped = shaped
  BY <1>2, <1>4, <1>5 DEF Rewritten, WinType, Kept
<1>7. b = WithWin(st, w, new)
  BY <1>1, <1>3, <1>5, Zenon DEF UpdateShape, WithWin
<1>8. Changes(st, b, w, {"shaped"}) /\ b.win[w] = new /\ SameButWin(st, b, w) /\ b.mask = st.mask
  BY <1>1, <1>6, <1>7, FieldsSet
<1> QED
  BY <1>1, <1>3, <1>6, <1>8

LEMMA UpdateNoShadowIs ==
  ASSUME NEW st \in Session, NEW w \in Win, NEW b, b = UpdateNoShadow(st, w)
  PROVE  /\ Changes(st, b, w, {"noShadow"}) /\ SameButWin(st, b, w) /\ b.mask = st.mask
         /\ b.win[w].noShadow = st.srv[w].noShadow
         /\ Rewritten(st.win[w], b.win[w], {"noShadow"})
<1>1. PICK v : v = st.win[w]
  OBVIOUS
<1>2. v \in WinType
  BY <1>1, WinIn
<1>3. PICK noShadow : noShadow = st.srv[w].noShadow
  OBVIOUS
<1>4. noShadow \in BOOLEAN
  BY <1>3, PropsType DEF Xid
<1>5. PICK new : new = [v EXCEPT !.noShadow = noShadow]
  OBVIOUS
<1>6. Rewritten(v, new, {"noShadow"}) /\ new.noShadow = noShadow
  BY <1>2, <1>4, <1>5 DEF Rewritten, WinType, Kept
<1>7. b = WithWin(st, w, new)
  BY <1>1, <1>3, <1>5, Zenon DEF UpdateNoShadow, WithWin
<1>8. Changes(st, b, w, {"noShadow"}) /\ b.win[w] = new /\ SameButWin(st, b, w) /\ b.mask = st.mask
  BY <1>1, <1>6, <1>7, FieldsSet
<1> QED
  BY <1>1, <1>3, <1>6, <1>8

LEMMA ClientOpacityType ==
  ASSUME NEW st \in Session, NEW w \in Win
  PROVE  ClientOpacity(st, w) \in Level
<1>1. st.win[w].client \in Xid \cup {None}
  BY WinIn DEF WinType
<1>2. Opaque \in Level
  BY DEF Opaque, Level
<1> QED
  BY <1>1, <1>2, PropsType DEF ClientOpacity

LEMMA UpdateOpacityPropIs ==
  ASSUME NEW st \in Session, NEW w \in Win, NEW b, b = UpdateOpacityProp(st, w)
  PROVE  /\ Changes(st, b, w, {"opacityProp", "opacityClient"}) /\ SameButWin(st, b, w)
         /\ b.mask = st.mask
         /\ b.win[w].opacityProp = st.srv[w].opacity
         /\ b.win[w].opacityClient = ClientOpacity(st, w)
         /\ Rewritten(st.win[w], b.win[w], {"opacityProp", "opacityClient"})
<1>1. PICK v : v = st.win[w]
  OBVIOUS
<1>2. v \in WinType
  BY <1>1, WinIn
<1>3. PICK p : p = st.srv[w].opacity
  OBVIOUS
<1>4. PICK c : c = ClientOpacity(st, w)
  OBVIOUS
<1>5. p \in Level /\ c \in Level
  BY <1>3, <1>4, PropsType, ClientOpacityType DEF Xid
<1>6. PICK new : new = [v EXCEPT !.opacityProp = p, !.opacityClient = c]
  OBVIOUS
<1>7. /\ Rewritten(v, new, {"opacityProp", "opacityClient"})
      /\ new.opacityProp = p /\ new.opacityClient = c
  BY <1>2, <1>5, <1>6 DEF Rewritten, WinType, Kept
<1>8. b = WithWin(st, w, new)
  <2>1. PICK x : x = [v EXCEPT !.opacityProp = p]
    OBVIOUS
  <2>2. new = [x EXCEPT !.opacityClient = c]
    BY <1>6, <2>1
  <2>3. PICK a : a = [st EXCEPT !.win[w].opacityProp = p]
    OBVIOUS
  <2>4. b = [a EXCEPT !.win[w].opacityClient = c]
    BY <1>3, <1>4, <2>3, Zenon DEF UpdateOpacityProp
  <2>5. a = [st EXCEPT !.win[w] = x]
    BY <1>1, <2>1, <2>3, Zenon
  <2>6. x \in WinType
    BY <1>2, <1>5, <2>1 DEF WinType
  <2>7. a.win[w] = x
    BY <2>5, <2>6, OneWindow
  <2>8. b = [a EXCEPT !.win[w] = new]
    BY <2>2, <2>4, <2>7, Zenon
  <2> QED
    BY <2>5, <2>8, WindowTwice DEF WithWin
<1>9. PICK F : F = {"opacityProp", "opacityClient"}
  OBVIOUS
<1>10. Changes(st, b, w, F) /\ b.win[w] = new /\ SameButWin(st, b, w) /\ b.mask = st.mask
  BY <1>1, <1>7, <1>8, <1>9, FieldsSet
<1> QED
  BY <1>1, <1>3, <1>4, <1>7, <1>9, <1>10

Family(w) == {w} \cup {k \in Kid : Parent[k] = w}

LEMMA FamilyXid ==
  ASSUME NEW w \in Win
  PROVE  Family(w) \subseteq Xid
BY DEF Family, Xid

(* The session a and the client c that win_mark_client is called with when  *)
(* w is mapped.                                                             *)
MapTarget(st, w, a, c) ==
  /\ c \in Family(w)
  /\ st.win[w].client # None => a = st /\ c = st.win[w].client
  /\ Changes(st, a, w, {"wmwin"}) /\ SameButWin(st, a, w) /\ a.mask = st.mask
  /\ Rewritten(st.win[w], a.win[w], {"wmwin"})

Wmwin(st, w, wmwin) == [st EXCEPT !.win[w].wmwin = wmwin]

LEMMA WmwinSet ==
  ASSUME NEW st \in Session, NEW w \in Win, NEW wmwin \in BOOLEAN,
         NEW b, b = Wmwin(st, w, wmwin)
  PROVE  /\ Changes(st, b, w, {"wmwin"}) /\ SameButWin(st, b, w) /\ b.mask = st.mask
         /\ Rewritten(st.win[w], b.win[w], {"wmwin"}) /\ b.win[w].wmwin = wmwin
<1>1. PICK v : v = st.win[w]
  OBVIOUS
<1>2. v \in WinType
  BY <1>1, WinIn
<1>3. PICK new : new = [v EXCEPT !.wmwin = wmwin]
  OBVIOUS
<1>4. Rewritten(v, new, {"wmwin"}) /\ new.wmwin = wmwin
  BY <1>2, <1>3 DEF Rewritten, WinType, Kept
<1>5. b = WithWin(st, w, new)
  BY <1>1, <1>3, Zenon DEF WithWin, Wmwin
<1>6. Changes(st, b, w, {"wmwin"}) /\ b.win[w] = new /\ SameButWin(st, b, w) /\ b.mask = st.mask
  BY <1>1, <1>4, <1>5, FieldsSet
<1> QED
  BY <1>1, <1>4, <1>6

LEMMA MapClientIs ==
  ASSUME NEW st \in Session, NEW w \in Win, st.win[w].client \in Family(w) \cup {None}
  PROVE  \E a, c : MapTarget(st, w, a, c) /\ MapClient(st, w) = MarkClient(a, w, c)
<1>1. CASE st.win[w].client = None
  <2>1. PICK found : found = ClientsOf(st, w)
    OBVIOUS
  <2>2. PICK c : c = IF found = {} THEN w ELSE CHOOSE k \in found : TRUE
    OBVIOUS
  <2>3. c \in Family(w)
    BY <2>1, <2>2 DEF ClientsOf, Family
  <2>4. PICK wmwin \in BOOLEAN : wmwin = (found = {})
    OBVIOUS
  <2>5. PICK a : a = Wmwin(st, w, wmwin)
    OBVIOUS
  <2>6. MapTarget(st, w, a, c)
    BY <1>1, <2>3, <2>5, WmwinSet DEF MapTarget
  <2>7. MapClient(st, w) = MarkClient(a, w, c)
    BY <1>1, <2>1, <2>2, <2>4, <2>5, Zenon DEF MapClient, RecheckClient, Wmwin
  <2> QED
    BY <2>6, <2>7
<1>2. CASE st.win[w].client # None
  <2>1. PICK c : c = st.win[w].client
    OBVIOUS
  <2>2. c \in Family(w)
    BY <1>2, <2>1
  <2>3. Rewritten(st.win[w], st.win[w], {"wmwin"}) /\ SameButWin(st, st, w)
    BY WinIn DEF Rewritten, SameButWin
  <2>4. MapTarget(st, w, st, c)
    BY <2>1, <2>2, <2>3, ChangesNothing DEF MapTarget
  <2>5. MapClient(st, w) = MarkClient(st, w, c)
    BY <1>2, <2>1 DEF MapClient
  <2> QED
    BY <2>4, <2>5
<1> QED
  BY <1>1, <1>2

(* The flag of a window and what comes with it.                             *)
Flagged(st, w) == [st EXCEPT !.win[w].opctChange = TRUE]
Opening(st, w) == [st EXCEPT !.win[w].inOpenclose = TRUE]
Calling(st, w) == [st EXCEPT !.win[w].callback = "map"]
Settling(st, w) == [st EXCEPT !.win[w].inOpenclose = FALSE, !.win[w].callback = "none"]

LEMMA FlaggedIs ==
  ASSUME NEW st \in Session, NEW w \in Win, NEW b, b = Flagged(st, w)
  PROVE  /\ Changes(st, b, w, {}) /\ SameButWin(st, b, w) /\ b.mask = st.mask
         /\ b.win[w].opctChange /\ Rewritten(st.win[w], b.win[w], {})
<1>1. PICK v : v = st.win[w]
  OBVIOUS
<1>2. v \in WinType
  BY <1>1, WinIn
<1>3. PICK new : new = [v EXCEPT !.opctChange = TRUE]
  OBVIOUS
<1>4. Rewritten(v, new, {}) /\ new.opctChange
  BY <1>2, <1>3 DEF Rewritten, WinType, Kept
<1>5. b = WithWin(st, w, new)
  BY <1>1, <1>3, Zenon DEF WithWin, Flagged
<1>7. PICK F : F = {}
  OBVIOUS
<1>6. Changes(st, b, w, F) /\ b.win[w] = new /\ SameButWin(st, b, w) /\ b.mask = st.mask
  BY <1>1, <1>4, <1>5, <1>7, FieldsSet
<1> QED
  BY <1>1, <1>4, <1>6, <1>7

LEMMA OpeningIs ==
  ASSUME NEW st \in Session, NEW w \in Win, NEW b, b = Opening(st, w)
  PROVE  /\ Changes(st, b, w, {"inOpenclose"}) /\ SameButWin(st, b, w) /\ b.mask = st.mask
         /\ Rewritten(st.win[w], b.win[w], {"inOpenclose"})
<1>1. PICK v : v = st.win[w]
  OBVIOUS
<1>2. v \in WinType
  BY <1>1, WinIn
<1>3. PICK new : new = [v EXCEPT !.inOpenclose = TRUE]
  OBVIOUS
<1>4. Rewritten(v, new, {"inOpenclose"})
  BY <1>2, <1>3 DEF Rewritten, WinType, Kept
<1>5. b = WithWin(st, w, new)
  BY <1>1, <1>3, Zenon DEF WithWin, Opening
<1>6. Changes(st, b, w, {"inOpenclose"}) /\ b.win[w] = new /\ SameButWin(st, b, w)
      /\ b.mask = st.mask
  BY <1>1, <1>4, <1>5, FieldsSet
<1> QED
  BY <1>1, <1>4, <1>6

LEMMA CallingIs ==
  ASSUME NEW st \in Session, NEW w \in Win, NEW b, b = Calling(st, w)
  PROVE  /\ Changes(st, b, w, {"callback"}) /\ SameButWin(st, b, w) /\ b.mask = st.mask
         /\ Rewritten(st.win[w], b.win[w], {"callback"}) /\ b.win[w].callback = "map"
<1>1. PICK v : v = st.win[w]
  OBVIOUS
<1>2. v \in WinType
  BY <1>1, WinIn
<1>3. PICK new : new = [v EXCEPT !.callback = "map"]
  OBVIOUS
<1>4. Rewritten(v, new, {"callback"}) /\ new.callback = "map"
  BY <1>2, <1>3 DEF Rewritten, WinType, Kept
<1>5. b = WithWin(st, w, new)
  BY <1>1, <1>3, Zenon DEF WithWin, Calling
<1>6. Changes(st, b, w, {"callback"}) /\ b.win[w] = new /\ SameButWin(st, b, w)
      /\ b.mask = st.mask
  BY <1>1, <1>4, <1>5, FieldsSet
<1> QED
  BY <1>1, <1>4, <1>6

(* Two fields of a window, one after the other.                             *)
LEMMA SettlingIs ==
  ASSUME NEW st \in Session, NEW w \in Win, NEW b, b = Settling(st, w)
  PROVE  /\ Changes(st, b, w, {"inOpenclose", "callback"}) /\ SameButWin(st, b, w)
         /\ b.mask = st.mask
         /\ Rewritten(st.win[w], b.win[w], {"inOpenclose", "callback"})
         /\ b.win[w].callback = "none" /\ ~b.win[w].inOpenclose
<1>1. PICK v : v = st.win[w]
  OBVIOUS
<1>2. v \in WinType
  BY <1>1, WinIn
<1>3. PICK x : x = [v EXCEPT !.inOpenclose = FALSE]
  OBVIOUS
<1>4. PICK new : new = [x EXCEPT !.callback = "none"]
  OBVIOUS
<1>5. /\ Rewritten(v, new, {"inOpenclose", "callback"}) /\ new.callback = "none"
      /\ ~new.inOpenclose /\ x \in WinType
  BY <1>2, <1>3, <1>4 DEF Rewritten, WinType, Kept
<1>6. PICK a : a = [st EXCEPT !.win[w].inOpenclose = FALSE]
  OBVIOUS
<1>7. b = [a EXCEPT !.win[w].callback = "none"]
  BY <1>6, Zenon DEF Settling
<1>8. a = [st EXCEPT !.win[w] = x]
  BY <1>1, <1>3, <1>6, Zenon
<1>9. a.win[w] = x
  BY <1>5, <1>8, OneWindow
<1>10. b = [a EXCEPT !.win[w] = new]
  BY <1>4, <1>7, <1>9, Zenon
<1>11. b = WithWin(st, w, new)
  BY <1>8, <1>10, WindowTwice DEF WithWin
<1>12. PICK F : F = {"inOpenclose", "callback"}
  OBVIOUS
<1>13. Changes(st, b, w, F) /\ b.win[w] = new /\ SameButWin(st, b, w) /\ b.mask = st.mask
  BY <1>1, <1>5, <1>11, <1>12, FieldsSet
<1> QED
  BY <1>1, <1>5, <1>12, <1>13

LEMMA FinishMapIs ==
  ASSUME NEW st \in Session, NEW w \in Win, NEW b, b = FinishMap(st, w)
  PROVE  /\ Changes(st, b, w, {"inOpenclose", "callback"}) /\ b.activeWin = st.activeWin
         /\ b.activeLeader = st.activeLeader
         /\ b.win[w].callback = "none"
<1>1. PICK a : a = Settling(st, w)
  OBVIOUS
<1>2. /\ Changes(st, a, w, {"inOpenclose", "callback"}) /\ SameButWin(st, a, w)
      /\ a.win[w].callback = "none"
  BY <1>1, SettlingIs
<1>3. a \in Session /\ a.activeWin = st.activeWin /\ a.activeLeader = st.activeLeader
  BY <1>2 DEF SameButWin
<1>4. CASE st.openclose
  <2>1. b = Determine(a, w, {"fade"})
    BY <1>1, <1>4, Zenon DEF FinishMap, Settling
  <2>2. "focus" \notin {"fade"}
    OBVIOUS
  <2>3. Still(a, b)
    BY <1>3, <2>1, <2>2, DetermineStill
  <2>4. Changes(a, b, w, {"inOpenclose", "callback"})
    BY <2>3, ChangesOf DEF Still, Quiet
  <2>5. b.win[w].callback = a.win[w].callback
    BY <2>3, KeptSame DEF Still, Quiet, Kept
  <2> QED
    BY <1>2, <1>3, <2>3, <2>4, <2>5, ChangesAgain DEF Still
<1>5. CASE ~st.openclose
  <2>1. b = a
    BY <1>1, <1>5, Zenon DEF FinishMap, Settling
  <2> QED
    BY <1>2, <1>3, <2>1
<1> QED
  BY <1>4, <1>5

LEMMA RunCallbackIs ==
  ASSUME NEW st \in Session, NEW w \in Win, NEW b, b = RunCallback(st, w)
  PROVE  /\ Changes(st, b, w, {"inOpenclose", "callback"}) /\ b.activeWin = st.activeWin
         /\ b.activeLeader = st.activeLeader
         /\ b.win[w].callback = "none"
<1>1. CASE st.win[w].callback = "map"
  <2>1. b = FinishMap(st, w)
    BY <1>1 DEF RunCallback
  <2> QED
    BY <2>1, FinishMapIs
<1>2. CASE st.win[w].callback = "unmap"
  <2>1. b = Settling(st, w)
    BY <1>2, Zenon DEF RunCallback, FinishUnmap, Settling
  <2> QED
    BY <2>1, SettlingIs DEF SameButWin
<1>3. CASE st.win[w].callback = "none"
  <2>1. b = st
    BY <1>3, Zenon DEF RunCallback
  <2> QED
    BY <1>3, <2>1, ChangesNothing
<1>4. st.win[w].callback \in {"none", "map", "unmap"}
  BY WinIn DEF WinType
<1> QED
  BY <1>1, <1>2, <1>3, <1>4

(* map_win after win_mark_client, in four parts.                            *)
MapFocus(st, w) == UpdateFocused(RecheckFocus(UpdateShape(st, w)), w)
MapProps(st, w) == RespectShadow(UpdateOpacityProp(Flagged(st, w), w), w)
MapShadow(st, w) == Opening(Determine(st, w, {"shadow"}), w)
MapFade(st, w) == Determine(Calling(RunCallback(st, w), w), w, {"fade", "blur"})

LEMMA MapReadIs ==
  ASSUME NEW st, NEW w
  PROVE  MapRead(st, w) =
           MapFade(MapShadow(MapProps(MapFocus(MapClient(st, w), w), w), w), w)
BY Zenon DEF MapRead, MapFade, MapShadow, MapProps, MapFocus, Flagged, Opening, Calling

(* Another window has the focus, or the same.                               *)
MaybeFocused(a, b) ==
  \/ b.activeWin = a.activeWin
  \/ a.focus \in Win /\ a.win[a.focus].viewable /\ b.activeWin = a.focus

LEMMA MapFocusIs ==
  ASSUME NEW st \in Session, NEW w \in Win, NEW b, b = MapFocus(st, w)
  PROVE  /\ Changes(st, b, w, {"shaped"}) /\ b.win[w].shaped = st.srv[w].shaped
         /\ MaybeFocused(st, b)
<1>1. PICK a : a = UpdateShape(st, w)
  OBVIOUS
<1>2. /\ Changes(st, a, w, {"shaped"}) /\ a.activeWin = st.activeWin /\ a.focus = st.focus
      /\ a.win[w].shaped = st.srv[w].shaped /\ a \in Session
  BY <1>1, UpdateShapeIs DEF SameButWin
<1>3. PICK c : c = RecheckFocus(a)
  OBVIOUS
<1>4. Quiet(a, c) /\ MaybeFocused(a, c) /\ c \in Session
  BY <1>2, <1>3, RecheckFocusQuiet, QuietSession DEF MaybeFocused
<1>5. Still(c, b)
  BY <1>3, <1>1, <1>4, UpdateFocusedStill DEF MapFocus
<1>6. Quiet(a, b)
  BY <1>4, <1>5, QuietTwice DEF Still
<1>7. Changes(a, b, w, {"shaped"})
  BY <1>6, ChangesOf DEF Quiet
<1>8. b.win[w].shaped = a.win[w].shaped
  BY <1>6, KeptSame DEF Quiet, Kept
<1>9. \A v \in Win : a.win[v].viewable = st.win[v].viewable
  BY <1>2, FieldKept DEF Kept
<1>10. MaybeFocused(st, b)
  BY <1>2, <1>4, <1>5, <1>9 DEF MaybeFocused, Still
<1> QED
  BY <1>2, <1>7, <1>8, <1>10, ChangesAgain

LEMMA RespectShadowIs ==
  ASSUME NEW st \in Session, NEW w \in Win, NEW b, b = RespectShadow(st, w)
  PROVE  /\ Changes(st, b, w, {"noShadow"}) /\ SameButWin(st, b, w) /\ b.mask = st.mask
         /\ st.o.respectShadow => b.win[w].noShadow = st.srv[w].noShadow
         /\ Rewritten(st.win[w], b.win[w], {"noShadow"})
<1>1. CASE st.o.respectShadow
  BY <1>1, UpdateNoShadowIs DEF RespectShadow
<1>2. CASE ~st.o.respectShadow
  <2>1. b = st
    BY <1>2 DEF RespectShadow
  <2>2. Rewritten(st.win[w], st.win[w], {"noShadow"}) /\ SameButWin(st, st, w)
    BY WinIn DEF Rewritten, SameButWin
  <2> QED
    BY <1>2, <2>1, <2>2, ChangesNothing
<1> QED
  BY <1>1, <1>2

PropFields == {"opacityProp", "opacityClient", "noShadow"}

LEMMA MapPropsIs ==
  ASSUME NEW st \in Session, NEW w \in Win, NEW b, b = MapProps(st, w)
  PROVE  /\ Changes(st, b, w, PropFields) /\ SameButWin(st, b, w) /\ b.mask = st.mask
         /\ Rewritten(st.win[w], b.win[w], PropFields)
         /\ b.win[w].opctChange
         /\ b.win[w].opacityProp = st.srv[w].opacity
         /\ b.win[w].opacityClient = ClientOpacity(st, w)
         /\ st.o.respectShadow => b.win[w].noShadow = st.srv[w].noShadow
<1>1. PICK a : a = Flagged(st, w)
  OBVIOUS
<1>2. /\ Changes(st, a, w, {}) /\ SameButWin(st, a, w) /\ a.mask = st.mask
      /\ a.win[w].opctChange /\ Rewritten(st.win[w], a.win[w], {}) /\ a \in Session
  BY <1>1, FlaggedIs DEF SameButWin
<1>3. PICK c : c = UpdateOpacityProp(a, w)
  OBVIOUS
<1>4. /\ Changes(a, c, w, {"opacityProp", "opacityClient"}) /\ SameButWin(a, c, w)
      /\ c.mask = a.mask
      /\ c.win[w].opacityProp = a.srv[w].opacity
      /\ c.win[w].opacityClient = ClientOpacity(a, w)
      /\ Rewritten(a.win[w], c.win[w], {"opacityProp", "opacityClient"}) /\ c \in Session
  BY <1>2, <1>3, UpdateOpacityPropIs DEF SameButWin
<1>5. /\ Changes(c, b, w, {"noShadow"}) /\ SameButWin(c, b, w) /\ b.mask = c.mask
      /\ c.o.respectShadow => b.win[w].noShadow = c.srv[w].noShadow
      /\ Rewritten(c.win[w], b.win[w], {"noShadow"})
  BY <1>1, <1>3, <1>4, RespectShadowIs DEF MapProps
<1>6. SameButWin(st, b, w) /\ b.mask = st.mask
  BY <1>2, <1>4, <1>5 DEF SameButWin
<1>7. Rewritten(st.win[w], b.win[w], PropFields)
  BY <1>2, <1>4, <1>5 DEF Rewritten, PropFields
<1>8. Changes(st, b, w, PropFields)
  <2>1. /\ {} \subseteq PropFields /\ {"noShadow"} \subseteq PropFields
        /\ {"opacityProp", "opacityClient"} \subseteq PropFields
    BY DEF PropFields
  <2>2. Changes(st, a, w, PropFields) /\ Changes(a, c, w, PropFields)
        /\ Changes(c, b, w, PropFields)
    BY <1>2, <1>4, <1>5, <2>1, ChangesMore
  <2> QED
    BY <2>2, ChangesAgain
<1>9. ClientOpacity(a, w) = ClientOpacity(st, w)
  <2>1. a.win[w].client = st.win[w].client
    BY <1>2, FieldKept DEF Kept
  <2> QED
    BY <2>1, <1>2 DEF ClientOpacity, SameButWin
<1>10. b.win[w].opacityProp = c.win[w].opacityProp /\ b.win[w].opacityClient = c.win[w].opacityClient
  BY <1>5, FieldKept DEF Kept
<1>11. b.win[w].opctChange
  BY <1>2, <1>4, <1>5 DEF Rewritten
<1> QED
  BY <1>2, <1>4, <1>5, <1>6, <1>7, <1>8, <1>9, <1>10, <1>11 DEF SameButWin

LEMMA MapShadowIs ==
  ASSUME NEW st \in Session, NEW w \in Win, NEW b, b = MapShadow(st, w)
  PROVE  Changes(st, b, w, {"inOpenclose"}) /\ b.activeWin = st.activeWin
         /\ b.activeLeader = st.activeLeader
<1>1. PICK a : a = Determine(st, w, {"shadow"})
  OBVIOUS
<1>2. "focus" \notin {"shadow"}
  OBVIOUS
<1>3. Still(st, a) /\ a \in Session
  BY <1>1, <1>2, DetermineStill, StillSession
<1>4. Changes(a, b, w, {"inOpenclose"}) /\ SameButWin(a, b, w)
  BY <1>1, <1>3, OpeningIs DEF MapShadow
<1>5. Changes(st, a, w, {"inOpenclose"})
  BY <1>3, ChangesOf DEF Still, Quiet
<1> QED
  BY <1>3, <1>4, <1>5, ChangesAgain DEF Still, SameButWin

LEMMA MapFadeIs ==
  ASSUME NEW st \in Session, NEW w \in Win, NEW b, b = MapFade(st, w)
  PROVE  /\ Changes(st, b, w, {"inOpenclose", "callback"}) /\ b.activeWin = st.activeWin
         /\ b.activeLeader = st.activeLeader /\ b.win[w].callback = "map"
<1>1. PICK a : a = RunCallback(st, w)
  OBVIOUS
<1>2. /\ Changes(st, a, w, {"inOpenclose", "callback"}) /\ a.activeWin = st.activeWin
      /\ a.activeLeader = st.activeLeader /\ a \in Session
  BY <1>1, RunCallbackIs DEF Changes
<1>3. PICK c : c = Calling(a, w)
  OBVIOUS
<1>4. /\ Changes(a, c, w, {"callback"}) /\ SameButWin(a, c, w) /\ c.win[w].callback = "map"
      /\ c \in Session
  BY <1>2, <1>3, CallingIs DEF SameButWin
<1>5. "focus" \notin {"fade", "blur"}
  OBVIOUS
<1>6. Still(c, b)
  BY <1>1, <1>3, <1>4, <1>5, DetermineStill DEF MapFade
<1>7. b.win[w].callback = c.win[w].callback
  BY <1>6, KeptSame DEF Still, Quiet, Kept
<1>8. Changes(a, c, w, {"inOpenclose", "callback"})
  <2>1. {"callback"} \subseteq {"inOpenclose", "callback"}
    OBVIOUS
  <2> QED
    BY <1>4, <2>1, ChangesMore
<1>9. Changes(c, b, w, {"inOpenclose", "callback"})
  BY <1>6, ChangesOf DEF Still, Quiet
<1>10. Changes(st, b, w, {"inOpenclose", "callback"})
  <2>1. Changes(st, c, w, {"inOpenclose", "callback"})
    BY <1>2, <1>8, ChangesAgain
  <2> QED
    BY <2>1, <1>9, ChangesAgain
<1> QED
  BY <1>2, <1>4, <1>6, <1>7, <1>10 DEF Still, SameButWin

ReadFields == {"type", "leader", "name", "shaped", "opacityProp", "opacityClient",
               "noShadow", "inOpenclose", "callback"}

(* The window w of b has been read, of the properties of a, with client c.  *)
Read(a, b, w, c) ==
  /\ b.win[w].type = TypeOf(a, c)
  /\ TrackLeader(a) => b.win[w].leader = LeaderOf(a, c)
  /\ TrackWdata(a) => b.win[w].name = a.srv[c].name
  /\ b.win[w].shaped = a.srv[w].shaped
  /\ a.o.respectShadow => b.win[w].noShadow = a.srv[w].noShadow
  /\ \/ b.win[w].opacityProp = b.srv[w].opacity
     \/ a.mask[w] => Of("opacity", w) \in Pending(b)
  /\ b.win[w].opacityClient = ClientOpacity(b, w)

LEMMA ClientOpacitySame ==
  ASSUME NEW a, NEW b, NEW w, NEW F, Changes(a, b, w, F), "client" \notin F,
         NEW u \in Win, a.win[u].client \in Family(u) \cup {None}
  PROVE  ClientOpacity(b, u) = ClientOpacity(a, u)
<1>1. b.o = a.o
  BY DEF Changes
<1>2. b.win[u].client = a.win[u].client
  BY FieldKept DEF Kept
<1>3. CASE a.win[u].client \in {None, u}
  BY <1>1, <1>2, <1>3 DEF ClientOpacity
<1>4. CASE a.win[u].client \notin {None, u}
  <2>1. PICK k : k = a.win[u].client /\ k \in Kid
    BY <1>4 DEF Family
  <2>2. k \notin Win /\ k \in Xid
    BY <2>1, ConfigAssumption DEF Xid
  <2>3. SameProps(a, b, k)
    BY <2>2 DEF Changes
  <2>4. b.srv[k].opacity = a.srv[k].opacity
    BY <2>2, <2>3 DEF SameProps
  <2> QED
    BY <1>1, <1>2, <2>1, <2>4 DEF ClientOpacity
<1> QED
  BY <1>3, <1>4

LEMMA MapReadAll ==
  ASSUME NEW st \in Session, NEW w \in Win, st.win[w].viewable,
         st.win[w].client \in Family(w) \cup {None}, NEW b, b = MapRead(st, w)
  PROVE  \E a, c : /\ MapTarget(st, w, a, c)
                   /\ Changes(Marked(a, w, c), b, w, ReadFields)
                   /\ MaybeFocused(st, b) /\ b.win[w].callback = "map"
                   /\ Read(Marked(a, w, c), b, w, c)
<1>1. PICK a, c : MapTarget(st, w, a, c) /\ MapClient(st, w) = MarkClient(a, w, c)
  BY MapClientIs
<1>2. PICK r1 : r1 = MarkClient(a, w, c)
  OBVIOUS
<1>3. PICK m : m = Marked(a, w, c)
  OBVIOUS
<1>4. /\ a \in Session /\ a.win[w].viewable /\ c \in Xid /\ c \in Family(w)
      /\ a.focus = st.focus /\ a.activeWin = st.activeWin
      /\ \A v \in Win : a.win[v].viewable = st.win[v].viewable
  <2>1. c \in Xid /\ Changes(st, a, w, {"wmwin"}) /\ a.activeWin = st.activeWin /\ c \in Family(w)
    BY <1>1, FamilyXid DEF MapTarget, SameButWin
  <2>2. \A v \in Win : a.win[v].viewable = st.win[v].viewable
    BY <2>1, FieldKept DEF Kept
  <2> QED
    BY <2>1, <2>2 DEF Changes
<1>5. /\ Changes(m, r1, w, {"type", "leader", "name"}) /\ r1.activeWin = a.activeWin
      /\ r1.win[w].type = TypeOf(a, c)
      /\ TrackLeader(a) => r1.win[w].leader = LeaderOf(a, c)
      /\ TrackWdata(a) => r1.win[w].name = a.srv[c].name
  BY <1>2, <1>3, <1>4, MarkClientIs
<1>6. /\ m \in Session /\ m.o = a.o /\ m.srv = a.srv /\ m.focus = a.focus
      /\ m.activeWin = a.activeWin /\ m.win[w].client = c
      /\ \A v \in Win : m.win[v].viewable = a.win[v].viewable
  <2>1. /\ SameButWin(a, m, w) /\ Rewritten(a.win[w], m.win[w], {"client"})
        /\ m.win[w].client = c
    BY <1>3, <1>4, MarkedIs
  <2>2. "viewable" \in Kept /\ "viewable" \notin {"client"}
    BY DEF Kept
  <2>3. m.win[w].viewable = a.win[w].viewable
    BY <2>1, <2>2 DEF Rewritten
  <2> QED
    BY <2>1, <2>3 DEF SameButWin
<1>7. PICK r2 : r2 = MapFocus(r1, w)
  OBVIOUS
<1>8. r1 \in Session
  BY <1>5 DEF Changes
<1>9. /\ Changes(r1, r2, w, {"shaped"}) /\ r2.win[w].shaped = r1.srv[w].shaped
      /\ MaybeFocused(r1, r2) /\ r2 \in Session
  BY <1>7, <1>8, MapFocusIs DEF Changes
<1>10. PICK r3 : r3 = MapProps(r2, w)
  OBVIOUS
<1>11. /\ Changes(r2, r3, w, PropFields) /\ SameButWin(r2, r3, w) /\ r3 \in Session
       /\ r3.win[w].opacityProp = r2.srv[w].opacity
       /\ r3.win[w].opacityClient = ClientOpacity(r2, w)
       /\ r2.o.respectShadow => r3.win[w].noShadow = r2.srv[w].noShadow
  BY <1>9, <1>10, MapPropsIs DEF SameButWin
<1>12. PICK r4 : r4 = MapShadow(r3, w)
  OBVIOUS
<1>13. Changes(r3, r4, w, {"inOpenclose"}) /\ r4.activeWin = r3.activeWin /\ r4 \in Session
  BY <1>11, <1>12, MapShadowIs DEF Changes
<1>14. /\ Changes(r4, b, w, {"inOpenclose", "callback"}) /\ b.activeWin = r4.activeWin
       /\ b.win[w].callback = "map"
  <2>1. b = MapFade(r4, w)
    BY <1>1, <1>2, <1>7, <1>10, <1>12, MapReadIs
  <2> QED
    BY <2>1, <1>13, MapFadeIs
<1>15. Changes(m, b, w, ReadFields)
  <2>1. {"type", "leader", "name"} \subseteq ReadFields /\ {"shaped"} \subseteq ReadFields
        /\ PropFields \subseteq ReadFields /\ {"inOpenclose"} \subseteq ReadFields
        /\ {"inOpenclose", "callback"} \subseteq ReadFields
    BY DEF ReadFields, PropFields
  <2>2. /\ Changes(m, r1, w, ReadFields) /\ Changes(r1, r2, w, ReadFields)
        /\ Changes(r2, r3, w, ReadFields) /\ Changes(r3, r4, w, ReadFields)
        /\ Changes(r4, b, w, ReadFields)
    BY <2>1, <1>5, <1>9, <1>11, <1>13, <1>14, ChangesMore
  <2>3. Changes(m, r3, w, ReadFields)
    BY <2>2, ChangesAgain
  <2>4. Changes(r3, b, w, ReadFields)
    BY <2>2, ChangesAgain
  <2> QED
    BY <2>3, <2>4, ChangesAgain
<1>16. MaybeFocused(st, b)
  <2>1. r1.focus = m.focus /\ \A v \in Win : r1.win[v].viewable = m.win[v].viewable
    <3>1. r1.focus = m.focus
      BY <1>5 DEF Changes
    <3>2. "viewable" \in Kept /\ "viewable" \notin {"type", "leader", "name"}
      BY DEF Kept
    <3>3. \A v \in Win : r1.win[v]["viewable"] = m.win[v]["viewable"]
      BY <1>5, <3>2, FieldKept
    <3> QED
      BY <3>1, <3>3
  <2> QED
    BY <2>1, <1>4, <1>5, <1>6, <1>9, <1>11, <1>13, <1>14 DEF MaybeFocused, SameButWin
<1>17. Changes(r3, b, w, {"inOpenclose", "callback"})
  <2>1. {"inOpenclose"} \subseteq {"inOpenclose", "callback"}
    OBVIOUS
  <2>2. Changes(r3, r4, w, {"inOpenclose", "callback"})
    BY <2>1, <1>13, ChangesMore
  <2> QED
    BY <2>2, <1>14, ChangesAgain
<1>18. Changes(r1, b, w, PropFields \cup {"shaped", "inOpenclose", "callback"})
  <2>1. PICK F : F = PropFields \cup {"shaped", "inOpenclose", "callback"}
    OBVIOUS
  <2>2. {"shaped"} \subseteq F /\ PropFields \subseteq F /\ {"inOpenclose", "callback"} \subseteq F
    BY <2>1
  <2>3. Changes(r1, r2, w, F) /\ Changes(r2, r3, w, F) /\ Changes(r3, b, w, F)
    BY <2>2, <1>9, <1>11, <1>17, ChangesMore
  <2>4. Changes(r1, r3, w, F)
    BY <2>3, ChangesAgain
  <2> QED
    BY <2>1, <2>3, <2>4, ChangesAgain
<1>19. /\ b.win[w].type = r1.win[w].type /\ b.win[w].leader = r1.win[w].leader
       /\ b.win[w].name = r1.win[w].name
  BY <1>18, FieldKept DEF Kept, PropFields
<1>20. b.win[w].shaped = r2.win[w].shaped
  <2>1. r3.win[w].shaped = r2.win[w].shaped
    BY <1>11, FieldKept DEF Kept, PropFields
  <2>2. b.win[w].shaped = r3.win[w].shaped
    BY <1>17, FieldKept DEF Kept
  <2> QED
    BY <2>1, <2>2
<1>21. /\ b.win[w].noShadow = r3.win[w].noShadow
       /\ b.win[w].opacityProp = r3.win[w].opacityProp
       /\ b.win[w].opacityClient = r3.win[w].opacityClient
  BY <1>17, FieldKept DEF Kept
<1>22. /\ r1.srv[w].shaped = m.srv[w].shaped /\ r2.srv[w].noShadow = r1.srv[w].noShadow
       /\ r1.srv[w].noShadow = m.srv[w].noShadow /\ r1.o = m.o /\ r2.o = r1.o
  <2>1. w \in Xid
    BY DEF Xid
  <2>2. r1.o = m.o /\ r2.o = r1.o
    BY <1>5, <1>9 DEF Changes
  <2> QED
    BY <2>1, <2>2, <1>5, <1>9, PropsKept
<1>23. \/ b.win[w].opacityProp = b.srv[w].opacity
       \/ m.mask[w] => Of("opacity", w) \in Pending(b)
  <2>1. SameProps(r3, b, w)
    BY <1>17 DEF Changes, Xid
  <2>2. r3.srv = r2.srv
    BY <1>11 DEF SameButWin
  <2>3. r3.mask = m.mask
    BY <1>5, <1>9, <1>11 DEF Changes
  <2> QED
    BY <2>1, <2>2, <2>3, <1>11, <1>21 DEF SameProps
<1>24. b.win[w].opacityClient = ClientOpacity(b, w)
  <2>1. "client" \notin PropFields /\ "client" \notin {"inOpenclose", "callback"}
    BY DEF PropFields
  <2>2. r1.win[w].client = c /\ r2.win[w].client = c /\ r3.win[w].client = c
    BY <1>5, <1>6, <1>9, <1>11, <2>1, FieldKept DEF Kept
  <2>3. ClientOpacity(r3, w) = ClientOpacity(r2, w)
    BY <1>4, <1>11, <2>1, <2>2, ClientOpacitySame
  <2>4. ClientOpacity(b, w) = ClientOpacity(r3, w)
    BY <1>4, <1>17, <2>1, <2>2, ClientOpacitySame
  <2> QED
    BY <2>3, <2>4, <1>11, <1>21
<1>25. Read(m, b, w, c)
  <2>1. TypeOf(m, c) = TypeOf(a, c) /\ LeaderOf(m, c) = LeaderOf(a, c)
        /\ (TrackLeader(m) <=> TrackLeader(a)) /\ (TrackWdata(m) <=> TrackWdata(a))
    BY <1>6 DEF TypeOf, LeaderOf, TrackLeader, TrackWdata, Looked
  <2>2. /\ b.win[w].type = TypeOf(m, c)
        /\ TrackLeader(m) => b.win[w].leader = LeaderOf(m, c)
        /\ TrackWdata(m) => b.win[w].name = m.srv[c].name
    BY <2>1, <1>5, <1>6, <1>19
  <2>3. /\ b.win[w].shaped = m.srv[w].shaped
        /\ m.o.respectShadow => b.win[w].noShadow = m.srv[w].noShadow
    BY <1>9, <1>11, <1>20, <1>21, <1>22
  <2> QED
    BY <2>2, <2>3, <1>23, <1>24, Zenon DEF Read
<1> QED
  BY <1>1, <1>3, <1>14, <1>15, <1>16, <1>25

(* unmap_win.                                                               *)
Dropped(st, w) ==
  [st EXCEPT !.win[w].viewable = FALSE, !.win[w].opctChange = TRUE,
             !.win[w].callback = "unmap", !.win[w].inOpenclose = TRUE]

UnmapFields == {"viewable", "callback", "inOpenclose"}

(* A second field of a window that is written after others.                 *)
LEMMA WindowAgain ==
  ASSUME NEW st \in Session, NEW w \in Win, NEW x, NEW a, a = [st EXCEPT !.win[w] = x]
  PROVE  a.win[w] = x /\ \A new : [a EXCEPT !.win[w] = new] = [st EXCEPT !.win[w] = new]
BY WindowTwice DEF Session

LEMMA DroppedIs ==
  ASSUME NEW st \in Session, NEW w \in Win, NEW b, b = Dropped(st, w)
  PROVE  /\ Changes(st, b, w, UnmapFields) /\ SameButWin(st, b, w) /\ b.mask = st.mask
         /\ Rewritten(st.win[w], b.win[w], UnmapFields)
         /\ b.win[w].viewable = FALSE /\ b.win[w].callback = "unmap" /\ b.win[w].opctChange
<1>1. PICK v : v = st.win[w]
  OBVIOUS
<1>2. v \in WinType
  BY <1>1, WinIn
<1>3. PICK v1 : v1 = [v EXCEPT !.viewable = FALSE]
  OBVIOUS
<1>4. PICK v2 : v2 = [v1 EXCEPT !.opctChange = TRUE]
  OBVIOUS
<1>5. PICK v3 : v3 = [v2 EXCEPT !.callback = "unmap"]
  OBVIOUS
<1>6. PICK new : new = [v3 EXCEPT !.inOpenclose = TRUE]
  OBVIOUS
<1>7. /\ v1 \in WinType /\ v2 \in WinType /\ v3 \in WinType /\ Rewritten(v, new, UnmapFields)
      /\ new.viewable = FALSE /\ new.callback = "unmap" /\ new.opctChange
  BY <1>2, <1>3, <1>4, <1>5, <1>6 DEF Rewritten, WinType, Kept, UnmapFields
<1>8. PICK a1 : a1 = [st EXCEPT !.win[w].viewable = FALSE]
  OBVIOUS
<1>9. PICK a2 : a2 = [a1 EXCEPT !.win[w].opctChange = TRUE]
  OBVIOUS
<1>10. PICK a3 : a3 = [a2 EXCEPT !.win[w].callback = "unmap"]
  OBVIOUS
<1>11. b = [a3 EXCEPT !.win[w].inOpenclose = TRUE]
  BY <1>8, <1>9, <1>10, Zenon DEF Dropped
<1>12. a1 = [st EXCEPT !.win[w] = v1]
  BY <1>1, <1>3, <1>8, Zenon
<1>13. a1.win[w] = v1
  BY <1>12, WindowAgain
<1>14. a2 = [a1 EXCEPT !.win[w] = v2]
  BY <1>4, <1>9, <1>13, Zenon
<1>15. a2 = [st EXCEPT !.win[w] = v2]
  BY <1>12, <1>14, WindowTwice
<1>16. a2.win[w] = v2
  BY <1>15, WindowAgain
<1>17. a3 = [a2 EXCEPT !.win[w] = v3]
  BY <1>5, <1>10, <1>16, Zenon
<1>18. a3 = [st EXCEPT !.win[w] = v3]
  BY <1>15, <1>17, WindowTwice
<1>19. a3.win[w] = v3
  BY <1>18, WindowAgain
<1>20. b = [a3 EXCEPT !.win[w] = new]
  BY <1>6, <1>11, <1>19, Zenon
<1>21. b = WithWin(st, w, new)
  BY <1>18, <1>20, WindowTwice DEF WithWin
<1>22. Changes(st, b, w, UnmapFields) /\ b.win[w] = new /\ SameButWin(st, b, w) /\ b.mask = st.mask
  BY <1>1, <1>7, <1>21, FieldsSet
<1> QED
  BY <1>1, <1>7, <1>22

(* The session b is a but for what it listens to.                           *)
SameButMask(a, b) ==
  /\ b \in Session /\ b.win = a.win /\ b.srv = a.srv /\ b.queue = a.queue
  /\ Pending(b) = Pending(a)
  /\ b.o = a.o /\ b.activeWin = a.activeWin /\ b.activeLeader = a.activeLeader
  /\ b.mapped = a.mapped /\ b.focus = a.focus /\ b.openclose = a.openclose

LEMMA EvStopIs ==
  ASSUME NEW st \in Session, NEW w \in Win, NEW b, b = EvStop(st, w)
  PROVE  /\ SameButMask(st, b)
         /\ \A x \in Xid : b.mask[x] <=> st.mask[x] /\ x \notin {w, st.win[w].client}
<1>1. PICK mask : mask = [x \in Xid |-> st.mask[x] /\ x \notin {w, st.win[w].client}]
  OBVIOUS
<1>2. b = [st EXCEPT !.mask = mask]
  BY <1>1, Zenon DEF EvStop
<1>3. mask \in [Xid -> BOOLEAN]
  <2>1. ASSUME NEW x \in Xid PROVE (st.mask[x] /\ x \notin {w, st.win[w].client}) \in BOOLEAN
    OBVIOUS
  <2> QED
    BY <1>1, <2>1, Zenon
<1>4. SameButMask(st, b) /\ b.mask = mask
  BY <1>2, <1>3 DEF SameButMask, Session, Pending
<1>5. ASSUME NEW x \in Xid
      PROVE  b.mask[x] <=> st.mask[x] /\ x \notin {w, st.win[w].client}
  BY <1>1, <1>4, Zenon
<1> QED
  BY <1>4, <1>5, Zenon

(* unmap_win up to where it ends the selection of events, of st.            *)
Unmapped(st, d, w) ==
  /\ Changes(st, d, w, UnmapFields)
  /\ d.win[w].viewable = FALSE /\ d.win[w].callback = "unmap"
  /\ d.activeWin = IF st.activeWin = w THEN None ELSE st.activeWin
  /\ d.activeLeader = LoseFocus(st, w).activeLeader

LEMMA UnmapWinIs ==
  ASSUME NEW st \in Session, NEW w \in Win, st.win[w].viewable, NEW b, b = UnmapWin(st, w)
  PROVE  \E d : b = EvStop(d, w) /\ Unmapped(st, d, w)
<1>1. PICK a : a = LoseFocus(st, w)
  OBVIOUS
<1>2. /\ Quiet(st, a) /\ a \in Session
      /\ a.activeWin = IF st.activeWin = w THEN None ELSE st.activeWin
  BY <1>1, LoseFocusQuiet, QuietSession
<1>3. PICK c : c = Dropped(a, w)
  OBVIOUS
<1>4. /\ Changes(a, c, w, UnmapFields) /\ SameButWin(a, c, w)
      /\ c.win[w].viewable = FALSE /\ c.win[w].callback = "unmap" /\ c \in Session
  <2>1. /\ Changes(a, c, w, UnmapFields) /\ SameButWin(a, c, w)
        /\ c.win[w].viewable = FALSE /\ c.win[w].callback = "unmap"
    BY <1>2, <1>3, DroppedIs, Zenon
  <2> QED
    BY <2>1 DEF SameButWin
<1>5. PICK d : d = Determine(c, w, {"fade"})
  OBVIOUS
<1>6. "focus" \notin {"fade"}
  OBVIOUS
<1>7. Still(c, d)
  BY <1>4, <1>5, <1>6, DetermineStill
<1>8. d.win[w].viewable = c.win[w].viewable /\ d.win[w].callback = c.win[w].callback
  BY <1>7, KeptSame DEF Still, Quiet, Kept
<1>9. b = EvStop(d, w)
  BY <1>1, <1>3, <1>5, Zenon DEF UnmapWin, Dropped
<1>10. Changes(st, d, w, UnmapFields)
  <2>1. Changes(st, a, w, UnmapFields) /\ Changes(c, d, w, UnmapFields)
    BY <1>2, <1>7, ChangesOf DEF Still, Quiet
  <2>2. Changes(st, c, w, UnmapFields)
    BY <1>4, <2>1, ChangesAgain
  <2> QED
    BY <2>1, <2>2, ChangesAgain
<1> QED
  BY <1>1, <1>2, <1>4, <1>7, <1>8, <1>9, <1>10 DEF Still, SameButWin, Unmapped

(* map_win up to where it reads the properties.                             *)
Viewed(st, w) == [st EXCEPT !.win[w].viewable = TRUE]

LEMMA ViewedIs ==
  ASSUME NEW st \in Session, NEW w \in Win, NEW b, b = Viewed(st, w)
  PROVE  /\ Changes(st, b, w, {"viewable"}) /\ SameButWin(st, b, w) /\ b.mask = st.mask
         /\ Rewritten(st.win[w], b.win[w], {"viewable"}) /\ b.win[w].viewable
<1>1. PICK v : v = st.win[w]
  OBVIOUS
<1>2. v \in WinType
  BY <1>1, WinIn
<1>3. PICK new : new = [v EXCEPT !.viewable = TRUE]
  OBVIOUS
<1>4. Rewritten(v, new, {"viewable"}) /\ new.viewable
  BY <1>2, <1>3 DEF Rewritten, WinType, Kept
<1>5. b = WithWin(st, w, new)
  BY <1>1, <1>3, Zenon DEF WithWin, Viewed
<1>6. Changes(st, b, w, {"viewable"}) /\ b.win[w] = new /\ SameButWin(st, b, w)
      /\ b.mask = st.mask
  BY <1>1, <1>4, <1>5, FieldsSet
<1> QED
  BY <1>1, <1>4, <1>6

LEMMA MapSelectIs ==
  ASSUME NEW st \in Session, NEW w \in Win, NEW b, b = MapSelect(st, w)
  PROVE  /\ SameButWin(st, b, w) /\ b.win[w].viewable
         /\ Rewritten(st.win[w], b.win[w], {"viewable"})
         /\ b.mask[w] /\ \A x \in Xid : x # w => b.mask[x] = st.mask[x]
<1>1. PICK a : a = Viewed(st, w)
  OBVIOUS
<1>2. /\ SameButWin(st, a, w) /\ a.mask = st.mask /\ a.win[w].viewable /\ a \in Session
      /\ Rewritten(st.win[w], a.win[w], {"viewable"})
  BY <1>1, ViewedIs DEF SameButWin
<1>3. b = Select(a, w, "frame")
  BY <1>1, Zenon DEF MapSelect, Viewed
<1>4. w \in Xid
  BY DEF Xid
<1>5. /\ b \in Session /\ b.win = a.win /\ b.srv = a.srv /\ b.queue = a.queue
      /\ Pending(b) = Pending(a)
      /\ b.o = a.o /\ b.activeWin = a.activeWin /\ b.activeLeader = a.activeLeader
      /\ b.mapped = a.mapped /\ b.focus = a.focus /\ b.openclose = a.openclose
      /\ b.mask[w] <=> Evmask(a, w, "frame")
      /\ \A y \in Xid : y # w => b.mask[y] = a.mask[y]
  BY <1>2, <1>3, <1>4, SelectIs
<1>6. Evmask(a, w, "frame")
  BY Zenon DEF Evmask
<1> QED
  BY <1>2, <1>5, <1>6 DEF SameButWin

(* win_unmark_client and the adoption of a client found later.              *)
Unmarked(st, w) == [st EXCEPT !.win[w].wmwin = FALSE, !.win[w].client = None]

LEMMA UnmarkedIs ==
  ASSUME NEW st \in Session, NEW w \in Win, NEW b, b = Unmarked(st, w)
  PROVE  /\ SameButWin(st, b, w) /\ b.mask = st.mask /\ b.win[w].client = None
         /\ Rewritten(st.win[w], b.win[w], {"wmwin", "client"})
<1>1. PICK v : v = st.win[w]
  OBVIOUS
<1>2. v \in WinType
  BY <1>1, WinIn
<1>3. PICK x : x = [v EXCEPT !.wmwin = FALSE]
  OBVIOUS
<1>4. PICK new : new = [x EXCEPT !.client = None]
  OBVIOUS
<1>5. Rewritten(v, new, {"wmwin", "client"}) /\ new.client = None
  BY <1>2, <1>3, <1>4 DEF Rewritten, WinType, Kept
<1>6. PICK a : a = [st EXCEPT !.win[w].wmwin = FALSE]
  OBVIOUS
<1>7. b = [a EXCEPT !.win[w].client = None]
  BY <1>6, Zenon DEF Unmarked
<1>8. a = [st EXCEPT !.win[w] = x]
  BY <1>1, <1>3, <1>6, Zenon
<1>9. a.win[w] = x
  BY <1>8, WindowAgain
<1>10. b = [a EXCEPT !.win[w] = new]
  BY <1>4, <1>7, <1>9, Zenon
<1>11. b = WithWin(st, w, new)
  BY <1>8, <1>10, WindowTwice DEF WithWin
<1>12. PICK F : F = {"wmwin", "client"}
  OBVIOUS
<1>13. Changes(st, b, w, F) /\ b.win[w] = new /\ SameButWin(st, b, w) /\ b.mask = st.mask
  BY <1>1, <1>5, <1>11, <1>12, FieldsSet
<1> QED
  BY <1>1, <1>5, <1>12, <1>13

LEMMA AdoptIs ==
  ASSUME NEW st \in Session, NEW w \in Win, NEW x,
         st.win[w].client \in {None, w}, NEW b, b = Adopt(st, w, x)
  PROVE  \E a : /\ b = MarkClient(a, w, x) /\ SameButWin(st, a, w)
                /\ Rewritten(st.win[w], a.win[w], {"wmwin", "client"})
                /\ \A y \in Xid : y # w => a.mask[y] = st.mask[y]
                /\ st.mask[w] /\ st.win[w].viewable => a.mask[w]
<1>1. PICK u : u = Unmarked(st, w)
  OBVIOUS
<1>2. /\ SameButWin(st, u, w) /\ u.mask = st.mask /\ u \in Session
      /\ Rewritten(st.win[w], u.win[w], {"wmwin", "client"})
  BY <1>1, UnmarkedIs DEF SameButWin
<1>3. CASE st.win[w].client = None
  <2>1. b = MarkClient(u, w, x)
    BY <1>1, <1>3, Zenon DEF Adopt, Unmarked
  <2> QED
    BY <1>2, <2>1
<1>4. CASE st.win[w].client = w /\ w # None
  <2>1. PICK a : a = Select(u, w, "unknown")
    OBVIOUS
  <2>2. b = MarkClient(a, w, x)
    BY <1>1, <1>4, <2>1, Zenon DEF Adopt, Unmarked
  <2>3. w \in Xid
    BY DEF Xid
  <2>4. /\ a \in Session /\ a.win = u.win /\ a.srv = u.srv /\ a.queue = u.queue
        /\ Pending(a) = Pending(u)
        /\ a.o = u.o /\ a.activeWin = u.activeWin /\ a.activeLeader = u.activeLeader
        /\ a.mapped = u.mapped /\ a.focus = u.focus /\ a.openclose = u.openclose
        /\ a.mask[w] <=> Evmask(u, w, "unknown")
        /\ \A y \in Xid : y # w => a.mask[y] = u.mask[y]
    BY <1>2, <2>1, <2>3, SelectIs
  <2>5. u.win[w].viewable = st.win[w].viewable
    BY <1>2 DEF Rewritten, Kept
  <2>6. st.win[w].viewable => Evmask(u, w, "unknown")
    BY <2>5, Zenon DEF Evmask, FindWin
  <2> QED
    BY <1>2, <2>2, <2>4, <2>6 DEF SameButWin
<1>5. w # None
  BY ConfigAssumption DEF Xid
<1> QED
  BY <1>3, <1>4, <1>5

(* The frame of a client is one window.                                     *)
Framed(st) == \A w \in Win : st.win[w].client \in Family(w) \cup {None}

LEMMA FamilyOne ==
  ASSUME NEW u \in Win, NEW v \in Win, NEW x, x \in Family(u), x \in Family(v)
  PROVE  u = v
<1>1. Win \cap Kid = {} /\ Parent \in [Kid -> Win]
  BY ConfigAssumption, WinDataAssumption
<1> QED
  BY <1>1 DEF Family

LEMMA ToplevelsOne ==
  ASSUME NEW st \in Session, Framed(st), NEW x \in Xid, NEW w \in Win, w \in Toplevels(st, x)
  PROVE  Toplevels(st, x) = {w} /\ st.win[w].client = x /\ x \in Family(w)
<1>1. x # None
  BY ConfigAssumption
<1>2. ASSUME NEW u \in Toplevels(st, x) PROVE u \in Win /\ st.win[u].client = x /\ x \in Family(u)
  BY <1>1 DEF Toplevels, Framed
<1> QED
  BY <1>2, FamilyOne

(* ev_property_notify of the opacity.                                       *)
Reflagged(st, w, op) == [st EXCEPT !.win[w].opacityProp = op, !.win[w].opctChange = TRUE]

LEMMA ReflaggedIs ==
  ASSUME NEW st \in Session, NEW w \in Win, NEW op \in Level, NEW b, b = Reflagged(st, w, op)
  PROVE  /\ Changes(st, b, w, {"opacityProp"}) /\ SameButWin(st, b, w) /\ b.mask = st.mask
         /\ Rewritten(st.win[w], b.win[w], {"opacityProp"})
         /\ b.win[w].opacityProp = op /\ b.win[w].opctChange
<1>1. PICK v : v = st.win[w]
  OBVIOUS
<1>2. v \in WinType
  BY <1>1, WinIn
<1>3. PICK x : x = [v EXCEPT !.opacityProp = op]
  OBVIOUS
<1>4. PICK new : new = [x EXCEPT !.opctChange = TRUE]
  OBVIOUS
<1>5. Rewritten(v, new, {"opacityProp"}) /\ new.opacityProp = op /\ new.opctChange
  BY <1>2, <1>3, <1>4 DEF Rewritten, WinType, Kept
<1>6. PICK a : a = [st EXCEPT !.win[w].opacityProp = op]
  OBVIOUS
<1>7. b = [a EXCEPT !.win[w].opctChange = TRUE]
  BY <1>6, Zenon DEF Reflagged
<1>8. a = [st EXCEPT !.win[w] = x]
  BY <1>1, <1>3, <1>6, Zenon
<1>9. a.win[w] = x
  BY <1>8 DEF Session
<1>10. b = [a EXCEPT !.win[w] = new]
  BY <1>4, <1>7, <1>9, Zenon
<1>11. b = WithWin(st, w, new)
  BY <1>8, <1>10, WindowTwice DEF WithWin
<1>12. PICK F : F = {"opacityProp"}
  OBVIOUS
<1>13. Changes(st, b, w, F) /\ b.win[w] = new /\ SameButWin(st, b, w) /\ b.mask = st.mask
  BY <1>1, <1>5, <1>11, <1>12, FieldsSet
<1> QED
  BY <1>1, <1>5, <1>12, <1>13

ClientFlagged(v, op) == [v EXCEPT !.opacityClient = op, !.opctChange = TRUE]

LEMMA ClientFlaggedIs ==
  ASSUME NEW v \in WinType, NEW op \in Level, NEW new, new = ClientFlagged(v, op)
  PROVE  Rewritten(v, new, {"opacityClient"}) /\ new.opacityClient = op /\ new.opctChange
BY DEF Rewritten, WinType, Kept, ClientFlagged

(* The windows of a set that holds w alone are rewritten.                   *)
LEMMA OneRewritten ==
  ASSUME NEW st \in Session, NEW w \in Win, NEW new, NEW b,
         b = [st EXCEPT !.win = [u \in Win |-> IF u \in {w} THEN new ELSE @[u]]]
  PROVE  b = WithWin(st, w, new)
<1>1. [u \in Win |-> IF u \in {w} THEN new ELSE st.win[u]] = [st.win EXCEPT ![w] = new]
  BY DEF Session
<1> QED
  BY <1>1 DEF WithWin, Session

LEMMA ClientOpacityIs ==
  ASSUME NEW st \in Session, Framed(st), NEW x \in Kid, st.o.clientOpacity,
         NEW w \in Win, w \in Toplevels(st, x), NEW b, b = OnOpacity(st, x)
  PROVE  /\ Changes(st, b, w, {"opacityClient"}) /\ SameButWin(st, b, w) /\ b.mask = st.mask
         /\ Rewritten(st.win[w], b.win[w], {"opacityClient"})
         /\ b.win[w].opacityClient = st.srv[x].opacity /\ b.win[w].opctChange
<1>1. x \in Xid /\ x \notin Win
  BY ConfigAssumption DEF Xid
<1>2. Toplevels(st, x) = {w}
  BY <1>1, ToplevelsOne
<1>3. PICK op : op = st.srv[x].opacity
  OBVIOUS
<1>4. op \in Level
  BY <1>1, <1>3, PropsType
<1>5. PICK v : v = st.win[w]
  OBVIOUS
<1>6. v \in WinType
  BY <1>5, WinIn
<1>7. PICK new : new = ClientFlagged(v, op)
  OBVIOUS
<1>8. b = [st EXCEPT !.win = [u \in Win |-> IF u \in {w} THEN ClientFlagged(@[u], op) ELSE @[u]]]
  BY <1>1, <1>2, <1>3, Zenon DEF OnOpacity, FindWin, ClientFlagged
<1>9. [u \in Win |-> IF u \in {w} THEN ClientFlagged(st.win[u], op) ELSE st.win[u]]
        = [u \in Win |-> IF u \in {w} THEN new ELSE st.win[u]]
  BY <1>5, <1>7
<1>10. b = WithWin(st, w, new)
  BY <1>8, <1>9, OneRewritten
<1>11. PICK F : F = {"opacityClient"}
  OBVIOUS
<1>12. Rewritten(v, new, F) /\ new.opacityClient = op /\ new.opctChange
  BY <1>4, <1>6, <1>7, <1>11, ClientFlaggedIs
<1>13. Changes(st, b, w, F) /\ b.win[w] = new /\ SameButWin(st, b, w) /\ b.mask = st.mask
  BY <1>5, <1>10, <1>12, FieldsSet
<1> QED
  BY <1>3, <1>5, <1>11, <1>12, <1>13

LEMMA OnOpacityIs ==
  ASSUME NEW st \in Session, Framed(st), NEW x \in Xid, NEW b, b = OnOpacity(st, x)
  PROVE  \/ /\ x \in Win
            /\ Changes(st, b, x, {"opacityProp"}) /\ SameButWin(st, b, x) /\ b.mask = st.mask
            /\ Rewritten(st.win[x], b.win[x], {"opacityProp"})
            /\ b.win[x].opacityProp = st.srv[x].opacity /\ b.win[x].opctChange
         \/ /\ x \in Kid /\ b = st
            /\ ~st.o.clientOpacity \/ Toplevels(st, x) = {}
         \/ /\ x \in Kid /\ st.o.clientOpacity
            /\ \E w \in Toplevels(st, x) :
                 /\ Changes(st, b, w, {"opacityClient"}) /\ SameButWin(st, b, w)
                 /\ b.mask = st.mask
                 /\ Rewritten(st.win[w], b.win[w], {"opacityClient"})
                 /\ b.win[w].opacityClient = st.srv[x].opacity /\ b.win[w].opctChange
<1>1. CASE x \in Win
  <2>1. PICK op : op = st.srv[x].opacity
    OBVIOUS
  <2>2. op \in Level
    BY <2>1, PropsType
  <2>3. b = Reflagged(st, x, op)
    BY <1>1, <2>1, Zenon DEF OnOpacity, FindWin, Reflagged
  <2> QED
    BY <1>1, <2>1, <2>2, <2>3, ReflaggedIs
<1>2. CASE x \in Kid /\ x \notin Win /\ st.o.clientOpacity /\ Toplevels(st, x) # {}
  <2>1. PICK w \in Win : w \in Toplevels(st, x)
    BY <1>2 DEF Toplevels
  <2> QED
    BY <1>2, <2>1, ClientOpacityIs
<1>3. CASE x \in Kid /\ x \notin Win /\ ~st.o.clientOpacity
  BY <1>3, Zenon DEF OnOpacity, FindWin
<1>4. CASE x \in Kid /\ x \notin Win /\ st.o.clientOpacity /\ Toplevels(st, x) = {}
  <2>1. [st EXCEPT !.win = [u \in Win |-> st.win[u]]] = st
    BY DEF Session
  <2>2. b = [st EXCEPT !.win = [u \in Win |-> @[u]]]
    BY <1>4, Zenon DEF OnOpacity, FindWin
  <2> QED
    BY <1>4, <2>1, <2>2
<1> QED
  BY <1>1, <1>2, <1>3, <1>4 DEF Xid

LEMMA StillChanges ==
  ASSUME NEW a, NEW b, NEW c, NEW w, NEW F, Changes(a, b, w, F), Still(b, c)
  PROVE  /\ Changes(a, c, w, F) /\ c.activeWin = b.activeWin
         /\ c.activeLeader = b.activeLeader
<1>1. /\ Changes(b, c, w, F) /\ c.activeWin = b.activeWin
      /\ c.activeLeader = b.activeLeader
  BY ChangesOf DEF Still, Quiet
<1> QED
  BY <1>1, ChangesAgain

LEMMA OnNoShadowIs ==
  ASSUME NEW st \in Session, NEW x \in Xid, NEW b, b = OnNoShadow(st, x)
  PROVE  IF ~st.o.respectShadow \/ x \notin Win THEN b = st
         ELSE /\ Changes(st, b, x, {"noShadow"}) /\ b.activeWin = st.activeWin
              /\ b.activeLeader = st.activeLeader
              /\ b.win[x].noShadow = st.srv[x].noShadow
<1>1. CASE ~st.o.respectShadow \/ x \notin Win
  BY <1>1, Zenon DEF OnNoShadow, FindWin
<1>2. CASE ~(~st.o.respectShadow \/ x \notin Win)
  <2>1. PICK a : a = UpdateNoShadow(st, x)
    OBVIOUS
  <2>2. /\ Changes(st, a, x, {"noShadow"}) /\ SameButWin(st, a, x)
        /\ a.win[x].noShadow = st.srv[x].noShadow
    BY <1>2, <2>1, UpdateNoShadowIs
  <2>3. CASE a = st
    <3>1. b = st
      BY <2>1, <2>3, Zenon DEF OnNoShadow
    <3> QED
      BY <1>2, <2>2, <2>3, <3>1 DEF SameButWin
  <2>4. CASE a # st
    <3>1. b = Determine(a, x, {"shadow"})
      BY <1>2, <2>1, <2>4, Zenon DEF OnNoShadow, FindWin
    <3>2. /\ "focus" \notin {"shadow"} /\ a \in Session /\ a.activeWin = st.activeWin
          /\ a.activeLeader = st.activeLeader
      BY <2>2 DEF SameButWin
    <3>3. Still(a, b)
      BY <1>2, <3>1, <3>2, DetermineStill
    <3>4. /\ Changes(st, b, x, {"noShadow"}) /\ b.activeWin = a.activeWin
          /\ b.activeLeader = a.activeLeader
      BY <2>2, <3>3, StillChanges
    <3>5. b.win[x].noShadow = a.win[x].noShadow
      BY <1>2, <3>3, KeptSame DEF Still, Quiet, Kept
    <3> QED
      BY <1>2, <2>2, <3>2, <3>4, <3>5
  <2> QED
    BY <2>3, <2>4
<1> QED
  BY <1>1, <1>2

(* The field of the copy that an event of the client is about.              *)
CopyOf(atom) == IF atom \in {"type", "name"} THEN atom ELSE "leader"

LEMMA OnNameIs ==
  ASSUME NEW st \in Session, NEW w \in Win, st.win[w].client \in Xid,
         NEW b, b = OnClientProperty(st, w, "name")
  PROVE  /\ Changes(st, b, w, {"name"}) /\ b.activeWin = st.activeWin
         /\ b.activeLeader = st.activeLeader
         /\ TrackWdata(st) => b.win[w].name = st.srv[st.win[w].client].name
<1>1. PICK a : a = GetName(st, w)
  OBVIOUS
<1>2. /\ Changes(st, a, w, {"name"}) /\ a.activeWin = st.activeWin /\ a \in Session
      /\ a.activeLeader = st.activeLeader
      /\ a.win[w].name = st.srv[st.win[w].client].name
  BY <1>1, GetNameIs DEF Changes
<1>3. CASE TrackWdata(st) /\ a # st
  <2>1. b = OnFactorChange(a, w)
    BY <1>1, <1>3, Zenon DEF OnClientProperty
  <2>2. Still(a, b)
    BY <1>2, <2>1, OnFactorChangeStill
  <2>3. /\ Changes(st, b, w, {"name"}) /\ b.activeWin = a.activeWin
        /\ b.activeLeader = a.activeLeader
    BY <1>2, <2>2, StillChanges
  <2>4. b.win[w].name = a.win[w].name
    BY <2>2, KeptSame DEF Still, Quiet, Kept
  <2> QED
    BY <1>2, <2>3, <2>4
<1>4. CASE ~(TrackWdata(st) /\ a # st)
  <2>1. b = st
    BY <1>1, <1>4, Zenon DEF OnClientProperty
  <2>2. Changes(st, b, w, {"name"})
    BY <2>1, ChangesNothing
  <2> QED
    BY <1>2, <1>4, <2>1, <2>2
<1> QED
  BY <1>3, <1>4

ClientRead(st, b, w, atom) ==
  /\ Changes(st, b, w, {CopyOf(atom)}) /\ b.activeWin = st.activeWin
  /\ atom = "type" => b.win[w].type = TypeOf(st, st.win[w].client)
  /\ atom = "name" /\ TrackWdata(st) => b.win[w].name = st.srv[st.win[w].client].name
  /\ atom \in st.o.detect => b.win[w].leader = LeaderOf(st, st.win[w].client)
  /\ atom \in {"transient", "leader"} /\ atom \notin st.o.detect => b = st

LEMMA OnClientPropertyIs ==
  ASSUME NEW st \in Session, NEW w \in Win, st.win[w].client \in Xid,
         NEW atom \in {"type", "name", "transient", "leader"},
         NEW b, b = OnClientProperty(st, w, atom)
  PROVE  ClientRead(st, b, w, atom)
<1>1. st.o.detect \subseteq {"transient", "leader"}
  BY DEF Session, Config
<1>2. CASE atom = "type"
  <2>1. b = UpdWintype(st, w)
    BY <1>2 DEF OnClientProperty
  <2> QED
    BY <1>1, <1>2, <2>1, UpdWintypeIs DEF CopyOf, ClientRead
<1>3. CASE atom = "name"
  BY <1>1, <1>3, OnNameIs DEF CopyOf, ClientRead
<1>4. CASE atom \in {"transient", "leader"} /\ atom \in st.o.detect
  <2>1. b = UpdateLeader(st, w)
    BY <1>4 DEF OnClientProperty
  <2>2. PICK leader : leader = LeaderOf(st, st.win[w].client)
    OBVIOUS
  <2>3. leader \in Leaders
    BY <2>2, TypeOfType
  <2>4. b = SetLeader(st, w, leader)
    BY <2>1, <2>2, UpdateLeaderIs
  <2> QED
    <3>1. CopyOf(atom) = "leader"
      BY <1>4 DEF CopyOf
    <3>2. Changes(st, b, w, {"leader"}) /\ b.activeWin = st.activeWin /\ b.win[w].leader = leader
      BY <2>3, <2>4, SetLeaderIs
    <3> QED
      BY <1>4, <2>2, <3>1, <3>2 DEF ClientRead
<1>5. CASE atom \in {"transient", "leader"} /\ atom \notin st.o.detect
  <2>1. b = st
    BY <1>5 DEF OnClientProperty
  <2> QED
    BY <1>5, <2>1, ChangesNothing DEF ClientRead
<1> QED
  BY <1>2, <1>3, <1>4, <1>5

LEMMA OnTrackedIs ==
  ASSUME NEW st \in Session, NEW x \in Xid, NEW b, b = OnTracked(st, x)
  PROVE  Still(st, b)
<1>1. PICK found : found = IF FindWin(x) THEN {x} ELSE Toplevels(st, x)
  OBVIOUS
<1>2. found \subseteq Win
  BY <1>1 DEF FindWin, Toplevels
<1>3. b = IF TrackAtoms(st) /\ found # {} THEN OnFactorChange(st, CHOOSE w \in found : TRUE) ELSE st
  BY <1>1 DEF OnTracked
<1>4. CASE TrackAtoms(st) /\ found # {}
  <2>1. PICK w \in Win : w = CHOOSE v \in found : TRUE
    BY <1>2, <1>4
  <2> QED
    BY <1>3, <1>4, <2>1, OnFactorChangeStill
<1>5. CASE ~(TrackAtoms(st) /\ found # {})
  BY <1>3, <1>5, StillNothing
<1> QED
  BY <1>4, <1>5

LEMMA EvShapeNotifyIs ==
  ASSUME NEW st \in Session, NEW w \in Win, NEW b, b = EvShapeNotify(st, w)
  PROVE  /\ Changes(st, b, w, {"shaped"}) /\ b.activeWin = st.activeWin
         /\ b.activeLeader = st.activeLeader
         /\ st.win[w].viewable => b.win[w].shaped = st.srv[w].shaped
<1>1. CASE ~st.win[w].viewable
  BY <1>1, ChangesNothing DEF EvShapeNotify
<1>2. CASE st.win[w].viewable
  <2>1. PICK a : a = UpdateShape(st, w)
    OBVIOUS
  <2>2. Changes(st, a, w, {"shaped"}) /\ SameButWin(st, a, w) /\ a.win[w].shaped = st.srv[w].shaped
    BY <2>1, UpdateShapeIs
  <2>3. a \in Session /\ a.activeWin = st.activeWin /\ a.activeLeader = st.activeLeader
    BY <2>2 DEF SameButWin
  <2>4. b = OnFactorChange(a, w)
    BY <1>2, <2>1 DEF EvShapeNotify
  <2>5. Still(a, b)
    BY <2>3, <2>4, OnFactorChangeStill
  <2>6. /\ Changes(st, b, w, {"shaped"}) /\ b.activeWin = a.activeWin
        /\ b.activeLeader = a.activeLeader
    BY <2>2, <2>5, StillChanges
  <2>7. b.win[w].shaped = a.win[w].shaped
    BY <2>5, KeptSame DEF Still, Quiet, Kept
  <2> QED
    BY <2>2, <2>3, <2>6, <2>7
<1> QED
  BY <1>1, <1>2

(* win_mark_client of c, from st up to where it reads the properties.       *)
Tracks(st) == TrackWdata(st) \/ TrackAtoms(st) \/ st.o.clientOpacity

Marking(st, m, w, c) ==
  /\ SameButWin(st, m, w) /\ m.win[w].client = c
  /\ Rewritten(st.win[w], m.win[w], {"wmwin", "client"})
  /\ \A y \in Xid : y \notin {c, w} => m.mask[y] = st.mask[y]
  /\ st.win[w].viewable /\ st.mask[w] => m.mask[w]
  /\ st.win[w].viewable /\ Tracks(st) => m.mask[c]

LEMMA RewrittenTwice ==
  ASSUME NEW u, NEW v, NEW new, NEW F, NEW G, Rewritten(u, v, F), Rewritten(v, new, G)
  PROVE  Rewritten(u, new, F \cup G)
BY DEF Rewritten

LEMMA SameButWinTwice ==
  ASSUME NEW a, NEW b, NEW c, NEW w, SameButWin(a, b, w), SameButWin(b, c, w)
  PROVE  SameButWin(a, c, w)
BY DEF SameButWin

LEMMA MarkedMarks ==
  ASSUME NEW st \in Session, NEW w \in Win, NEW c \in Xid, NEW a,
         SameButWin(st, a, w), Rewritten(st.win[w], a.win[w], {"wmwin", "client"}),
         \A y \in Xid : y # w => a.mask[y] = st.mask[y],
         st.win[w].viewable /\ st.mask[w] => a.mask[w],
         NEW m, m = Marked(a, w, c)
  PROVE  Marking(st, m, w, c)
<1>1. a \in Session
  BY DEF SameButWin
<1>2. PICK s1 : s1 = ClientSet(a, w, c)
  OBVIOUS
<1>3. /\ SameButWin(a, m, w) /\ m.win[w].client = c
      /\ Rewritten(a.win[w], m.win[w], {"client"})
      /\ m.mask[c] <=> Evmask(s1, c, "client")
      /\ \A y \in Xid : y # c => m.mask[y] = a.mask[y]
  BY <1>1, <1>2, MarkedIs
<1>4. Rewritten(st.win[w], m.win[w], {"wmwin", "client"})
  <2>1. Rewritten(st.win[w], m.win[w], {"wmwin", "client"} \cup {"client"})
    BY <1>3, RewrittenTwice
  <2>2. {"wmwin", "client"} \cup {"client"} = {"wmwin", "client"}
    OBVIOUS
  <2> QED
    BY <2>1, <2>2
<1>5. SameButWin(s1, s1, w) /\ SameButWin(a, s1, w) /\ Rewritten(a.win[w], s1.win[w], {"client"})
  <2>1. SameButWin(a, s1, w) /\ Rewritten(a.win[w], s1.win[w], {"client"})
    BY <1>1, <1>2, ClientSetIs
  <2> QED
    BY <2>1 DEF SameButWin
<1>6. s1.o = st.o /\ s1.win[w].viewable = st.win[w].viewable
  <2>1. s1.o = st.o
    BY <1>5 DEF SameButWin
  <2>2. "viewable" \in Kept
    BY DEF Kept
  <2>3. a.win[w]["viewable"] = st.win[w]["viewable"] /\ s1.win[w]["viewable"] = a.win[w]["viewable"]
    BY <1>5, <2>2 DEF Rewritten
  <2> QED
    BY <2>1, <2>3
<1>7. Tracks(st) => Evmask(s1, c, "client")
  <2>1. TrackWdata(s1) <=> TrackWdata(st)
    BY <1>6, Zenon DEF TrackWdata, Looked
  <2>2. TrackAtoms(s1) <=> TrackAtoms(st)
    BY <1>6, Zenon DEF TrackAtoms, Looked
  <2> QED
    BY <1>6, <2>1, <2>2, Zenon DEF Tracks, Evmask
<1>8. st.win[w].viewable => Evmask(s1, w, "client")
  BY <1>6, Zenon DEF Evmask, FindWin
<1>9. SameButWin(st, m, w)
  BY <1>3, SameButWinTwice
<1>10. w \in Xid
  BY DEF Xid
<1>11. st.win[w].viewable /\ st.mask[w] => m.mask[w]
  <2>1. CASE c = w
    BY <1>3, <1>8, <2>1
  <2>2. CASE c # w
    BY <1>3, <1>10, <2>2
  <2> QED
    BY <2>1, <2>2
<1>12. \A y \in Xid : y \notin {c, w} => m.mask[y] = st.mask[y]
  BY <1>3
<1>13. Tracks(st) => m.mask[c]
  BY <1>3, <1>7
<1> QED
  BY <1>3, <1>4, <1>9, <1>11, <1>12, <1>13 DEF Marking

LEMMA MapTargetMarks ==
  ASSUME NEW st \in Session, NEW w \in Win, NEW a, NEW c, MapTarget(st, w, a, c)
  PROVE  Marking(st, Marked(a, w, c), w, c) /\ c \in Xid /\ c \in Family(w)
<1>1. c \in Xid /\ c \in Family(w)
  BY FamilyXid DEF MapTarget
<1>2. SameButWin(st, a, w) /\ a.mask = st.mask
  BY DEF MapTarget
<1>3. Rewritten(st.win[w], a.win[w], {"wmwin", "client"})
  BY DEF MapTarget, Rewritten
<1>4. PICK m : m = Marked(a, w, c)
  OBVIOUS
<1> QED
  BY <1>1, <1>2, <1>3, <1>4, MarkedMarks

(* ev_property_notify of WM_STATE: x became the client of w.                *)
CopiedAll(a, b, w, c) ==
  /\ b.win[w].type = TypeOf(a, c)
  /\ TrackLeader(a) => b.win[w].leader = LeaderOf(a, c)
  /\ TrackWdata(a) => b.win[w].name = a.srv[c].name

Adopted(st, b, w, x) ==
  \E m : /\ Marking(st, m, w, x) /\ b.activeWin = st.activeWin
         /\ IF st.win[w].viewable
            THEN Changes(m, b, w, {"type", "leader", "name"}) /\ CopiedAll(m, b, w, x)
            ELSE b = m

LEMMA AdoptAdopted ==
  ASSUME NEW st \in Session, NEW w \in Win, NEW x \in Xid, x # w,
         st.win[w].client \in {None, w}, NEW b, b = Adopt(st, w, x)
  PROVE  Adopted(st, b, w, x)
<1>1. PICK a : /\ b = MarkClient(a, w, x) /\ SameButWin(st, a, w)
               /\ Rewritten(st.win[w], a.win[w], {"wmwin", "client"})
               /\ \A y \in Xid : y # w => a.mask[y] = st.mask[y]
               /\ st.mask[w] /\ st.win[w].viewable => a.mask[w]
  BY AdoptIs
<1>2. a \in Session /\ a.activeWin = st.activeWin /\ a.srv = st.srv /\ a.o = st.o
  BY <1>1 DEF SameButWin
<1>3. a.win[w].viewable = st.win[w].viewable
  BY <1>1 DEF Rewritten, Kept
<1>4. PICK m : m = Marked(a, w, x)
  OBVIOUS
<1>5. Marking(st, m, w, x)
  BY <1>1, <1>4, MarkedMarks
<1>6. m.srv = st.srv /\ m.o = st.o /\ m.activeWin = st.activeWin
  BY <1>5 DEF Marking, SameButWin
<1>7. CASE st.win[w].viewable
  <2>1. /\ Changes(m, b, w, {"type", "leader", "name"})
        /\ b.activeWin = a.activeWin
        /\ b.win[w].type = TypeOf(a, x)
        /\ TrackLeader(a) => b.win[w].leader = LeaderOf(a, x)
        /\ TrackWdata(a) => b.win[w].name = a.srv[x].name
    <3>1. a.win[w].viewable /\ b = MarkClient(a, w, x) /\ a \in Session
      BY <1>1, <1>2, <1>3, <1>7
    <3>2. /\ Changes(Marked(a, w, x), b, w, {"type", "leader", "name"})
          /\ b.activeWin = a.activeWin
          /\ b.win[w].type = TypeOf(a, x)
          /\ TrackLeader(a) => b.win[w].leader = LeaderOf(a, x)
          /\ TrackWdata(a) => b.win[w].name = a.srv[x].name
      <4>1. IF a.win[w].viewable
            THEN /\ Changes(Marked(a, w, x), b, w, {"type", "leader", "name"})
                 /\ b.activeWin = a.activeWin
                 /\ b.win[w].type = TypeOf(a, x)
                 /\ TrackLeader(a) => b.win[w].leader = LeaderOf(a, x)
                 /\ TrackWdata(a) => b.win[w].name = a.srv[x].name
            ELSE b = ClientSet(a, w, x)
        BY <3>1, MarkClientIs
      <4> QED
        BY <3>1, <4>1
    <3> QED
      BY <1>4, <3>2
  <2>2. TypeOf(m, x) = TypeOf(a, x) /\ LeaderOf(m, x) = LeaderOf(a, x)
    BY <1>2, <1>6 DEF TypeOf, LeaderOf
  <2>3. (TrackLeader(a) <=> TrackLeader(m)) /\ (TrackWdata(a) <=> TrackWdata(m))
    BY <1>2, <1>6 DEF TrackLeader, TrackWdata, Looked
  <2>4. CopiedAll(m, b, w, x)
    BY <1>2, <1>6, <2>1, <2>2, <2>3 DEF CopiedAll
  <2> QED
    BY <1>2, <1>5, <1>7, <2>1, <2>4 DEF Adopted
<1>8. CASE ~st.win[w].viewable
  <2>1. b = ClientSet(a, w, x)
    BY <1>1, <1>2, <1>3, <1>8, MarkClientIs
  <2>2. /\ SameButWin(a, b, w) /\ b.mask = a.mask /\ b.win[w].client = x
        /\ Rewritten(a.win[w], b.win[w], {"client"})
    BY <1>2, <2>1, ClientSetIs
  <2>3. SameButWin(st, b, w) /\ b.activeWin = st.activeWin
    BY <1>1, <1>2, <2>2, SameButWinTwice DEF SameButWin
  <2>4. Rewritten(st.win[w], b.win[w], {"wmwin", "client"} \cup {"client"})
    BY <1>1, <2>2, RewrittenTwice
  <2>5. {"wmwin", "client"} \cup {"client"} = {"wmwin", "client"}
    OBVIOUS
  <2>6. \A y \in Xid : y \notin {x, w} => b.mask[y] = st.mask[y]
    BY <1>1, <2>2
  <2>7. Marking(st, b, w, x)
    BY <1>8, <2>2, <2>3, <2>4, <2>5, <2>6 DEF Marking
  <2> QED
    BY <1>8, <2>3, <2>7 DEF Adopted
<1> QED
  BY <1>7, <1>8

LEMMA OnStateIs ==
  ASSUME NEW st \in Session, NEW x \in Kid, NEW w, w = Parent[x], NEW b, b = OnState(st, x)
  PROVE  IF Toplevels(st, x) # {} THEN b = st
         ELSE \E a : /\ SameButMask(st, a) /\ \A y \in Xid : y # x => a.mask[y] = st.mask[y]
                     /\ b = a \/ (a.win[w].client \in {None, w} /\ Adopted(a, b, w, x))
<1>1. CASE Toplevels(st, x) # {}
  BY <1>1, Zenon DEF OnState
<1>2. CASE Toplevels(st, x) = {}
  <2>1. w \in Win /\ x \in Xid /\ x # w
    BY WinDataAssumption, ConfigAssumption DEF Xid
  <2>2. PICK a : a = Select(st, x, "unknown")
    OBVIOUS
  <2>3. SameButMask(st, a) /\ (\A y \in Xid : y # x => a.mask[y] = st.mask[y])
        /\ a \in Session /\ a.win = st.win
    BY <2>1, <2>2, SelectIs DEF SameButMask
  <2>4. CASE st.win[w].client \in {None, w} /\ st.srv[x].state
    <3>1. b = Adopt(a, w, x)
      BY <1>2, <2>2, <2>4, Zenon DEF OnState
    <3>2. a.win[w].client \in {None, w}
      BY <2>3, <2>4
    <3>3. Adopted(a, b, w, x)
      BY <2>1, <2>3, <3>1, <3>2, AdoptAdopted
    <3> QED
      BY <1>2, <2>3, <3>2, <3>3
  <2>5. CASE ~(st.win[w].client \in {None, w} /\ st.srv[x].state)
    <3>1. b = a
      BY <1>2, <2>2, <2>5, Zenon DEF OnState
    <3> QED
      BY <1>2, <2>3, <3>1
  <2> QED
    BY <2>4, <2>5
<1> QED
  BY <1>1, <1>2

(* paint_preprocess.                                                        *)
LEMMA CalcType ==
  ASSUME NEW st \in Session, NEW w \in Win
  PROVE  CalcOpacity(st, w) \in Level /\ CalcDim(st, w) \in BOOLEAN
<1>1. PICK v \in WinType : v = st.win[w]
  BY WinIn
<1>2. v.opacityProp \in Level /\ v.opacityClient \in Level /\ v.dimmed \in BOOLEAN
  BY <1>1 DEF WinType
<1>3. st.o.inactive \in Level /\ st.o.active \in Level /\ st.o.dim \in BOOLEAN
  BY DEF Session, Config
<1>4. 0 \in Level /\ 2 \in Level /\ Opaque \in Level
  BY DEF Level, Opaque
<1>5. CalcOpacity(st, w) \in Level
  BY <1>1, <1>2, <1>3, <1>4 DEF CalcOpacity
<1>6. CalcDim(st, w) \in BOOLEAN
  BY <1>1, <1>2, <1>3 DEF CalcDim
<1> QED
  BY <1>5, <1>6

Restored(v) ==
  [v EXCEPT !.dec = [d \in Decision |-> IF ~v.viewable /\ d \in Looks THEN v.last[d] ELSE @[d]]]
Updated(st, w, v) ==
  IF ~v.opctChange THEN v
  ELSE [v EXCEPT !.opacityTgt = CalcOpacity(st, w), !.dimmed = CalcDim(st, w)]
Saved(v) == [v EXCEPT !.opctChange = FALSE, !.last = [d \in Looks |-> v.dec[d]]]

(* The window v became new in a paint cycle.                                *)
Shown(v, new) ==
  /\ new \in WinType
  /\ \A f \in Kept \ {"opacityTgt", "dimmed"} : new[f] = v[f]
  /\ new.cache = v.cache /\ new.opacitySet = v.opacitySet
  /\ v.viewable => new.dec = v.dec
  /\ new.dec["focus"] = v.dec["focus"]

Calculated(st, w, new) ==
  IF st.win[w].opctChange
  THEN new.opacityTgt = CalcOpacity(st, w) /\ new.dimmed = CalcDim(st, w)
  ELSE new.opacityTgt = st.win[w].opacityTgt /\ new.dimmed = st.win[w].dimmed /\ ~new.opctChange

LEMMA ShownTwice ==
  ASSUME NEW u, NEW v, NEW new, Shown(u, v), Shown(v, new)
  PROVE  Shown(u, new)
<1>1. \A f \in Kept \ {"opacityTgt", "dimmed"} : new[f] = u[f]
  BY DEF Shown
<1>2. v.viewable = u.viewable
  BY DEF Shown, Kept
<1> QED
  BY <1>1, <1>2 DEF Shown

LEMMA RestoredShown ==
  ASSUME NEW v \in WinType, NEW new, new = Restored(v)
  PROVE  /\ Shown(v, new) /\ new.opctChange = v.opctChange
         /\ new.opacityTgt = v.opacityTgt /\ new.dimmed = v.dimmed
<1>1. PICK dec : dec = [d \in Decision |-> IF ~v.viewable /\ d \in Looks THEN v.last[d] ELSE v.dec[d]]
  OBVIOUS
<1>2. new = [v EXCEPT !.dec = dec]
  BY <1>1, Zenon DEF Restored
<1>3. v.dec \in [Decision -> BOOLEAN] /\ v.last \in [Looks -> BOOLEAN]
  BY DEF WinType
<1>4. dec \in [Decision -> BOOLEAN]
  BY <1>1, <1>3
<1>5. v.viewable => dec = v.dec
  BY <1>1, <1>3
<1>6. dec["focus"] = v.dec["focus"]
  BY <1>1 DEF Decision, Looks
<1>7. new \in WinType /\ new.dec = dec
  BY <1>2, <1>4 DEF WinType
<1> QED
  BY <1>2, <1>5, <1>6, <1>7 DEF Shown, Kept, WinType

LEMMA UpdatedShown ==
  ASSUME NEW st \in Session, NEW w \in Win, NEW v \in WinType, NEW new, new = Updated(st, w, v)
  PROVE  /\ Shown(v, new) /\ new.opctChange = v.opctChange
         /\ IF v.opctChange
            THEN new.opacityTgt = CalcOpacity(st, w) /\ new.dimmed = CalcDim(st, w)
            ELSE new.opacityTgt = v.opacityTgt /\ new.dimmed = v.dimmed
<1>1. CASE ~v.opctChange
  <2>1. new = v
    BY <1>1, Zenon DEF Updated
  <2> QED
    BY <1>1, <2>1 DEF Shown
<1>2. CASE v.opctChange
  <2>1. PICK op \in Level : op = CalcOpacity(st, w)
    BY CalcType
  <2>2. PICK dim \in BOOLEAN : dim = CalcDim(st, w)
    BY CalcType
  <2>3. PICK u : u = [v EXCEPT !.opacityTgt = op]
    OBVIOUS
  <2>4. new = [u EXCEPT !.dimmed = dim]
    BY <1>2, <2>1, <2>2, <2>3, Zenon DEF Updated
  <2>5. Shown(v, u) /\ u.opctChange = v.opctChange /\ u.opacityTgt = op
    BY <2>3 DEF Shown, Kept, WinType
  <2>6. u \in WinType
    BY <2>5 DEF Shown
  <2>7. /\ Shown(u, new) /\ new.opctChange = u.opctChange /\ new.dimmed = dim
        /\ new.opacityTgt = u.opacityTgt
    BY <2>4, <2>6 DEF Shown, Kept, WinType
  <2> QED
    BY <1>2, <2>1, <2>2, <2>5, <2>7, ShownTwice
<1> QED
  BY <1>1, <1>2

LEMMA SavedShown ==
  ASSUME NEW v \in WinType, NEW new, new = Saved(v)
  PROVE  /\ Shown(v, new) /\ ~new.opctChange
         /\ new.opacityTgt = v.opacityTgt /\ new.dimmed = v.dimmed
<1>1. PICK last : last = [d \in Looks |-> v.dec[d]]
  OBVIOUS
<1>2. last \in [Looks -> BOOLEAN]
  BY <1>1 DEF WinType, Looks, Decision
<1>3. new = [v EXCEPT !.opctChange = FALSE, !.last = last]
  BY <1>1, Zenon DEF Saved
<1> QED
  BY <1>2, <1>3 DEF Shown, Kept, WinType

LEMMA WinsSet ==
  ASSUME NEW st \in Session, NEW new \in [Win -> WinType], NEW b, b = [st EXCEPT !.win = new]
  PROVE  /\ b \in Session /\ b.srv = st.srv /\ b.queue = st.queue /\ b.mask = st.mask
         /\ Pending(b) = Pending(st)
         /\ b.o = st.o /\ b.activeWin = st.activeWin /\ b.activeLeader = st.activeLeader
         /\ b.mapped = st.mapped /\ b.focus = st.focus /\ b.openclose = st.openclose
         /\ b.win = new
BY DEF Session, Pending

LEMMA PaintedIs ==
  ASSUME NEW st \in Session, NEW shown, NEW b, b = Painted(st, shown)
  PROVE  /\ b \in Session /\ b.srv = st.srv /\ b.queue = st.queue /\ b.mask = st.mask
         /\ Pending(b) = Pending(st)
         /\ b.o = st.o /\ b.activeWin = st.activeWin /\ b.activeLeader = st.activeLeader
         /\ b.mapped = st.mapped /\ b.focus = st.focus /\ b.openclose = st.openclose
         /\ \A w \in Win : Shown(st.win[w], b.win[w]) /\ Calculated(st, w, b.win[w])
<1> DEFINE after(w) == Updated(st, w, Restored(st.win[w]))
           final(w) == IF w \in shown THEN Saved(after(w)) ELSE after(w)
<1>1. PICK new : new = [w \in Win |-> final(w)]
  OBVIOUS
<1>2. b = [st EXCEPT !.win = new]
  BY <1>1, Zenon DEF Painted, Restored, Updated, Saved
<1>3. ASSUME NEW w \in Win PROVE Shown(st.win[w], new[w]) /\ Calculated(st, w, new[w])
  <2>1. PICK v \in WinType : v = st.win[w]
    BY WinIn
  <2>2. PICK v1 : v1 = Restored(v)
    OBVIOUS
  <2>3. /\ Shown(v, v1) /\ v1 \in WinType /\ v1.opctChange = v.opctChange
        /\ v1.opacityTgt = v.opacityTgt /\ v1.dimmed = v.dimmed
    BY <2>2, RestoredShown DEF Shown
  <2>4. PICK v2 : v2 = Updated(st, w, v1)
    OBVIOUS
  <2>5. /\ Shown(v1, v2) /\ v2.opctChange = v1.opctChange
        /\ IF v1.opctChange
           THEN v2.opacityTgt = CalcOpacity(st, w) /\ v2.dimmed = CalcDim(st, w)
           ELSE v2.opacityTgt = v1.opacityTgt /\ v2.dimmed = v1.dimmed
    BY <2>3, <2>4, UpdatedShown
  <2>6. v2 \in WinType /\ Shown(v, v2)
    BY <2>3, <2>5, ShownTwice DEF Shown
  <2>7. new[w] = IF w \in shown THEN Saved(v2) ELSE v2
    BY <1>1, <2>1, <2>2, <2>4
  <2>8. CASE w \in shown
    <3>1. PICK v3 : v3 = Saved(v2)
      OBVIOUS
    <3>2. /\ Shown(v2, v3) /\ ~v3.opctChange
          /\ v3.opacityTgt = v2.opacityTgt /\ v3.dimmed = v2.dimmed
      BY <2>6, <3>1, SavedShown
    <3>3. Shown(v, v3) /\ new[w] = v3
      BY <2>6, <2>7, <2>8, <3>1, <3>2, ShownTwice
    <3> QED
      BY <2>1, <2>3, <2>5, <3>2, <3>3 DEF Calculated
  <2>9. CASE w \notin shown
    BY <2>1, <2>3, <2>5, <2>6, <2>7, <2>9 DEF Calculated
  <2> QED
    BY <2>8, <2>9
<1> HIDE DEF final, after
<1>4. new \in [Win -> WinType]
  BY <1>1, <1>3 DEF Shown
<1>5. /\ b \in Session /\ b.srv = st.srv /\ b.queue = st.queue /\ b.mask = st.mask
      /\ Pending(b) = Pending(st)
      /\ b.o = st.o /\ b.activeWin = st.activeWin /\ b.activeLeader = st.activeLeader
      /\ b.mapped = st.mapped /\ b.focus = st.focus /\ b.openclose = st.openclose
      /\ b.win = new
  BY <1>2, <1>4, WinsSet
<1> QED
  BY <1>3, <1>5

(* win_set_*_force and opts_set_no_fading_openclose.                        *)
WithForce(st, w, d, value) == [st EXCEPT !.win[w].force[d] = value]

LEMMA WithForceIs ==
  ASSUME NEW st \in Session, NEW w \in Win, NEW d \in Forced, NEW value \in Switch,
         NEW b, b = WithForce(st, w, d, value)
  PROVE  /\ Changes(st, b, w, {"force"}) /\ SameButWin(st, b, w) /\ b.mask = st.mask
         /\ Rewritten(st.win[w], b.win[w], {"force"})
         /\ \A g \in Forced : g # d => b.win[w].force[g] = st.win[w].force[g]
<1>1. PICK v : v = st.win[w]
  OBVIOUS
<1>2. v \in WinType
  BY <1>1, WinIn
<1>3. PICK force : force = [v.force EXCEPT ![d] = value]
  OBVIOUS
<1>4. PICK new : new = [v EXCEPT !.force = force]
  OBVIOUS
<1>5. force \in [Forced -> Switch] /\ \A g \in Forced : g # d => force[g] = v.force[g]
  BY <1>2, <1>3 DEF WinType
<1>6. Rewritten(v, new, {"force"}) /\ new.force = force
  BY <1>2, <1>4, <1>5 DEF Rewritten, WinType, Kept
<1>7. b = WithWin(st, w, new)
  <2>1. [v EXCEPT !.force[d] = value] = new
    BY <1>3, <1>4, Zenon
  <2>2. b = [st EXCEPT !.win[w] = [v EXCEPT !.force[d] = value]]
    BY <1>1, Zenon DEF WithForce
  <2> QED
    BY <2>1, <2>2, Zenon DEF WithWin
<1>8. PICK F : F = {"force"}
  OBVIOUS
<1>9. Changes(st, b, w, F) /\ b.win[w] = new /\ SameButWin(st, b, w) /\ b.mask = st.mask
  BY <1>1, <1>6, <1>7, <1>8, FieldsSet
<1> QED
  BY <1>1, <1>5, <1>6, <1>8, <1>9

LEMMA SetForceIs ==
  ASSUME NEW st \in Session, NEW w \in Win, NEW d \in Forced, NEW value \in Switch,
         NEW b, b = SetForce(st, w, d, value)
  PROVE  /\ Changes(st, b, w, {"force"}) /\ b.activeWin = st.activeWin
         /\ b.activeLeader = st.activeLeader
<1>1. PICK a : a = WithForce(st, w, d, value)
  OBVIOUS
<1>2. /\ Changes(st, a, w, {"force"}) /\ a \in Session /\ a.activeWin = st.activeWin
      /\ a.activeLeader = st.activeLeader
  BY <1>1, WithForceIs DEF SameButWin
<1>3. b = IF d = "focus" THEN UpdateFocused(a, w) ELSE Determine(a, w, {d})
  BY <1>1, Zenon DEF SetForce, WithForce
<1>4. Still(a, b)
  <2>1. CASE d = "focus"
    BY <1>2, <1>3, <2>1, UpdateFocusedStill
  <2>2. CASE d # "focus"
    BY <1>2, <1>3, <2>2, DetermineStill
  <2> QED
    BY <2>1, <2>2
<1> QED
  BY <1>2, <1>4, StillChanges

Reopened(st) == [st EXCEPT !.openclose = ~@]

LEMMA ReopenedIs ==
  ASSUME NEW st \in Session, NEW b, b = Reopened(st)
  PROVE  /\ b \in Session /\ b.win = st.win /\ b.srv = st.srv /\ b.queue = st.queue
         /\ b.mask = st.mask /\ Pending(b) = Pending(st)
         /\ b.o = st.o /\ b.activeWin = st.activeWin /\ b.activeLeader = st.activeLeader
         /\ b.mapped = st.mapped /\ b.focus = st.focus
<1>1. PICK c \in BOOLEAN : c = ~st.openclose
  OBVIOUS
<1>2. b = [st EXCEPT !.openclose = c]
  BY <1>1, Zenon DEF Reopened
<1> QED
  BY <1>2 DEF Session, Pending

LEMMA SetOpencloseIs ==
  ASSUME NEW st \in Session, NEW b, b = SetOpenclose(st)
  PROVE  \E a : /\ a = Reopened(st) /\ Still(a, b)
                /\ \A w \in Win : b.win[w] = Determine(a, w, {"fade"}).win[w]
<1>1. PICK a : a = Reopened(st)
  OBVIOUS
<1>2. a \in Session
  BY <1>1, ReopenedIs
<1>3. PICK new : new = [w \in Win |-> Determine(a, w, {"fade"}).win[w]]
  OBVIOUS
<1>4. b = [a EXCEPT !.win = new]
  BY <1>1, <1>3, Zenon DEF SetOpenclose, Reopened
<1>5. ASSUME NEW w \in Win
      PROVE  Still(a, Determine(a, w, {"fade"}))
  BY <1>2, DetermineStill
<1>6. ASSUME NEW w \in Win
      PROVE  /\ new[w] \in WinType /\ Touched(a.win[w], new[w], {})
             /\ Idle(a.o, a.win[w]) => Idle(a.o, new[w])
             /\ Grounded(a.win) => new[w].cache \in {a.win[w].cache, Up(a.win[w])}
             /\ a.win[w].viewable =>
                  /\ \A d \in Decision : Good(a, d) =>
                       new[w].dec[d] \in {a.win[w].dec[d], Decided(a, w, d)}
                  /\ new[w].opacitySet \in {a.win[w].opacitySet, Rule(a, w)}
  <2>1. PICK c : c = Determine(a, w, {"fade"})
    OBVIOUS
  <2>2. /\ c \in Session /\ Calm(a, c) /\ CachesRight(a, c) /\ Touched(a.win[w], c.win[w], {})
        /\ StaysIdle(a, c)
    BY <1>5, <2>1 DEF Still, Quiet, Changes
  <2>3. new[w] = c.win[w]
    BY <1>3, <2>1
  <2> QED
    BY <2>2, <2>3, WinIn DEF CachesRight, Calm, StaysIdle
<1>7. new \in [Win -> WinType]
  BY <1>3, <1>6
<1>8. Quiet(a, b)
  BY <1>2, <1>4, <1>6, <1>7, AllTouched DEF Quiet
<1>9. b.win = new /\ b.activeWin = a.activeWin /\ b.activeLeader = a.activeLeader
  BY <1>2, <1>4 DEF Session
<1>10. Calm(a, b)
  BY <1>6, <1>9 DEF Calm
<1>11. Still(a, b)
  BY <1>2, <1>8, <1>9, <1>10 DEF Still
<1> QED
  BY <1>1, <1>3, <1>9, <1>11

(* An event taken from the queue.                                           *)
Rest(st) == [st EXCEPT !.queue = Tail(@)]

LEMMA RestIs ==
  ASSUME NEW st \in Session, st.queue # <<>>, NEW b, b = Rest(st)
  PROVE  /\ SameBut(st, b) /\ b.srv = st.srv /\ Head(st.queue) \in Event
         /\ Head(st.queue) \in Pending(st)
         /\ Pending(b) \subseteq Pending(st)
         /\ Pending(st) \subseteq Pending(b) \cup {Head(st.queue)}
<1>1. PICK q \in Seq(Event) : q = st.queue
  BY DEF Session
<1>2. PICK r : r = Tail(q)
  OBVIOUS
<1>3. /\ r \in Seq(Event) /\ Head(q) \in Event /\ Len(q) \in Nat /\ Len(q) # 0
      /\ Len(r) = Len(q) - 1 /\ \A i \in 1 .. Len(r) : r[i] = q[i + 1]
      /\ Head(q) = q[1] /\ DOMAIN q = 1 .. Len(q) /\ DOMAIN r = 1 .. Len(r)
  BY <1>1, <1>2
<1>4. b = [st EXCEPT !.queue = r]
  BY <1>1, <1>2, Zenon DEF Rest
<1>5. SameBut(st, b) /\ b.srv = st.srv /\ b.queue = r
  BY <1>3, <1>4 DEF SameBut, Session
<1>6. Head(q) \in Pending(st)
  BY <1>1, <1>3 DEF Pending
<1>7. Pending(b) \subseteq Pending(st)
  <2>1. ASSUME NEW i \in DOMAIN r PROVE r[i] \in Pending(st)
    <3>1. i + 1 \in DOMAIN q /\ r[i] = q[i + 1]
      BY <1>3
    <3> QED
      BY <1>1, <3>1 DEF Pending
  <2> QED
    BY <1>5, <2>1 DEF Pending
<1>8. Pending(st) \subseteq Pending(b) \cup {Head(q)}
  <2>1. ASSUME NEW i \in DOMAIN q, i # 1 PROVE q[i] \in Pending(b)
    <3>1. i - 1 \in DOMAIN r /\ r[i - 1] = q[i]
      BY <1>3, <2>1
    <3> QED
      BY <1>5, <3>1 DEF Pending
  <2> QED
    BY <1>1, <1>3, <2>1 DEF Pending
<1> QED
  BY <1>1, <1>3, <1>5, <1>6, <1>7, <1>8

------------------------------------------------------------------------------
(* What the clients, the user and the server do.                            *)

Outside(a, b) ==
  /\ b \in Session /\ b.o = a.o /\ b.win = a.win /\ b.mask = a.mask
  /\ b.activeWin = a.activeWin /\ b.activeLeader = a.activeLeader /\ b.openclose = a.openclose
  /\ Pending(a) \subseteq Pending(b)

LEMMA ValuesType ==
  ASSUME s \in Session, NEW x \in Xid, NEW atom \in Property, NEW v \in Values(x, atom)
  PROVE  Of(atom, x) \in Event /\ [s.srv[x] EXCEPT ![atom] = v] \in Props
<1>1. PICK p \in Props : p = s.srv[x]
  BY PropsType
<1>2. s.o.groups[x] \subseteq Leaders
  BY DEF Session, Config
<1>3. atom = "state" => x \in Kid /\ v = TRUE
  BY DEF Values
<1>4. atom \in {"noShadow", "shaped"} => x \in Win /\ v \in BOOLEAN
  BY DEF Values
<1>5. /\ atom = "name" => v \in {"n0", "n1"}
      /\ atom = "type" => v \in {"none", "normal", "dialog"}
      /\ atom \in {"transient", "leader"} => v \in Leaders
      /\ atom = "opacity" => v \in Level
      /\ atom = "other" => v \in BOOLEAN
  <2>1. atom = "name" => v \in {"n0", "n1"}
    BY DEF Values
  <2>2. atom = "type" => v \in {"none", "normal", "dialog"}
    BY DEF Values
  <2>3. atom \in {"transient", "leader"} => v \in Leaders
    BY <1>2 DEF Values
  <2>4. atom = "opacity" => v \in {1, Opaque}
    BY DEF Values
  <2>5. 1 \in Level /\ Opaque \in Level
    BY DEF Level, Opaque
  <2>6. atom = "other" => v \in BOOLEAN
    BY DEF Values
  <2> QED
    BY <2>1, <2>2, <2>3, <2>4, <2>5, <2>6
<1>6. Of(atom, x) \in Event
  <2>1. Of(atom, x) \in [atom : Property \cup {"map", "unmap", "focus"}, x : Xid]
    BY DEF Of
  <2>2. Of(atom, x).atom = atom /\ Of(atom, x).x = x
    BY DEF Of
  <2>3. atom \notin {"map", "unmap", "focus"}
    BY DEF Property
  <2> QED
    BY <1>3, <1>4, <2>1, <2>2, <2>3 DEF Event
<1>7. [p EXCEPT ![atom] = v] \in Props
  <2>1. CASE atom = "name"
    BY <1>5, <2>1 DEF Props
  <2>2. CASE atom = "type"
    BY <1>5, <2>2 DEF Props
  <2>3. CASE atom = "transient"
    BY <1>5, <2>3 DEF Props
  <2>4. CASE atom = "leader"
    BY <1>5, <2>4 DEF Props
  <2>5. CASE atom = "opacity"
    BY <1>5, <2>5 DEF Props
  <2>6. CASE atom = "state"
    BY <1>3, <2>6 DEF Props
  <2>7. CASE atom = "other"
    BY <1>5, <2>7 DEF Props
  <2>8. CASE atom = "noShadow"
    BY <1>4, <2>8 DEF Props
  <2>9. CASE atom = "shaped"
    BY <1>4, <2>9 DEF Props
  <2> QED
    BY <2>1, <2>2, <2>3, <2>4, <2>5, <2>6, <2>7, <2>8, <2>9 DEF Property
<1> QED
  BY <1>1, <1>6, <1>7

(* A property of x is written, for the value v.                             *)
Written(a, b, x, atom, v) ==
  /\ SameBut(a, b) /\ Outside(a, b)
  /\ b.srv[x] = [a.srv[x] EXCEPT ![atom] = v]
  /\ \A y \in Xid : y # x => b.srv[y] = a.srv[y]
  /\ Pending(b) \subseteq Pending(a) \cup {Of(atom, x)}
  /\ a.mask[x] => Of(atom, x) \in Pending(b)

LEMMA SetPropertyIs ==
  ASSUME s \in Session, NEW x \in Xid, NEW atom \in Property, SetProperty(x, atom)
  PROVE  /\ \E v \in Values(x, atom) : Written(s, s', x, atom, v)
         /\ atom \in s.o.offered /\ mapping' = mapping
<1>1. PICK v \in Values(x, atom) : s' = XSet(s, x, atom, v)
  BY DEF SetProperty
<1>2. PICK props : props = [s.srv[x] EXCEPT ![atom] = v]
  OBVIOUS
<1>3. props \in Props /\ Of(atom, x) \in Event
  BY <1>2, ValuesType
<1>4. PICK st : st = s
  OBVIOUS
<1>5. PICK b : b = s'
  OBVIOUS
<1>6. /\ SameBut(st, b)
      /\ b.srv[x] = props /\ \A y \in Xid : y # x => b.srv[y] = st.srv[y]
      /\ Pending(st) \subseteq Pending(b)
      /\ Pending(b) \subseteq Pending(st) \cup {Of(atom, x)}
      /\ st.mask[x] => Of(atom, x) \in Pending(b)
  BY <1>1, <1>2, <1>3, <1>4, <1>5, XSetIs
<1>7. Written(st, b, x, atom, v)
  BY <1>2, <1>4, <1>6 DEF Written, Outside, SameBut
<1> QED
  BY <1>4, <1>5, <1>7 DEF SetProperty

LEMMA AppendedIs ==
  ASSUME NEW q \in Seq(Event), NEW e \in Event, NEW r, r = Append(q, e)
  PROVE  r \in Seq(Event) /\ {r[i] : i \in DOMAIN r} = {q[i] : i \in DOMAIN q} \cup {e}
<1>1. /\ r \in Seq(Event) /\ Len(r) = Len(q) + 1 /\ Len(q) \in Nat
      /\ \A i \in 1 .. Len(q) : r[i] = q[i]
      /\ r[Len(q) + 1] = e /\ DOMAIN r = 1 .. Len(q) + 1 /\ DOMAIN q = 1 .. Len(q)
  OBVIOUS
<1> QED
  BY <1>1

LEMMA SetMappedIs ==
  ASSUME s \in Session, NEW w \in Win, SetMapped(w)
  PROVE  /\ Outside(s, s') /\ s'.srv = s.srv /\ mapping' = mapping
         /\ \A e \in Pending(s') : e \in Pending(s) \/ e.atom \in {"map", "unmap"}
<1>1. PICK st \in Session : st = s
  OBVIOUS
<1>2. PICK b : b = s'
  OBVIOUS
<1>3. PICK atom \in {"map", "unmap"} : atom = IF st.mapped[w] THEN "unmap" ELSE "map"
  OBVIOUS
<1>4. PICK e : e = Of(atom, w)
  OBVIOUS
<1>5. e \in Event /\ e.atom = atom
  BY <1>3, <1>4 DEF Event, Of, Xid
<1>6. PICK focus : focus = IF st.focus = w THEN None ELSE st.focus
  OBVIOUS
<1>7. focus \in Win \cup {None}
  BY <1>6 DEF Session
<1>8. PICK mapped : mapped = [st.mapped EXCEPT ![w] = ~@]
  OBVIOUS
<1>9. mapped \in [Win -> BOOLEAN]
  BY <1>8 DEF Session
<1>10. PICK q : q = Append(st.queue, e)
  OBVIOUS
<1>11. st.queue \in Seq(Event)
  BY DEF Session
<1>12. q \in Seq(Event) /\ {q[i] : i \in DOMAIN q} = Pending(st) \cup {e}
  BY <1>5, <1>10, <1>11, AppendedIs DEF Pending
<1>13. b = [st EXCEPT !.mapped = mapped, !.focus = focus, !.queue = q]
  <2>1. b = [st EXCEPT !.mapped[w] = ~@, !.focus = IF @ = w THEN None ELSE @,
                       !.queue = Append(@, [atom |-> IF st.mapped[w] THEN "unmap" ELSE "map",
                                            x |-> w])]
    BY <1>1, <1>2, Zenon DEF SetMapped
  <2>2. e = [atom |-> IF st.mapped[w] THEN "unmap" ELSE "map", x |-> w]
    BY <1>3, <1>4, Zenon DEF Of
  <2>3. mapped = [st.mapped EXCEPT ![w] = ~st.mapped[w]]
    BY <1>8, Zenon
  <2> QED
    BY <1>6, <1>10, <2>1, <2>2, <2>3, Zenon
<1>14. /\ b \in Session /\ b.queue = q /\ b.srv = st.srv
       /\ b.o = st.o /\ b.win = st.win /\ b.mask = st.mask
       /\ b.activeWin = st.activeWin /\ b.activeLeader = st.activeLeader
       /\ b.openclose = st.openclose
  BY <1>7, <1>9, <1>12, <1>13 DEF Session
<1>15. Pending(b) = Pending(st) \cup {e}
  BY <1>12, <1>14 DEF Pending
<1>16. Outside(st, b) /\ b.srv = st.srv
  BY <1>14, <1>15 DEF Outside
<1> QED
  BY <1>1, <1>2, <1>3, <1>5, <1>15, <1>16 DEF SetMapped

LEMMA SetFocusIs ==
  ASSUME s \in Session, NEW w \in Win, SetFocus(w)
  PROVE  /\ Outside(s, s') /\ s'.srv = s.srv /\ mapping' = mapping
         /\ \A e \in Pending(s') : e \in Pending(s) \/ e.atom = "focus"
<1>1. PICK st \in Session : st = s
  OBVIOUS
<1>2. PICK b : b = s'
  OBVIOUS
<1>3. PICK a : a = [st EXCEPT !.focus = w]
  OBVIOUS
<1>4. PICK told : told = {x \in {w, st.focus} \ {None} : st.mask[x]}
  OBVIOUS
<1>5. b = IF told = {} THEN a ELSE Notified(a, CHOOSE x \in told : TRUE, "focus")
  BY <1>1, <1>2, <1>3, <1>4 DEF SetFocus
<1>6. /\ a \in Session /\ a.queue = st.queue /\ a.srv = st.srv /\ Pending(a) = Pending(st)
      /\ a.o = st.o /\ a.win = st.win /\ a.mask = st.mask
      /\ a.activeWin = st.activeWin /\ a.activeLeader = st.activeLeader
      /\ a.openclose = st.openclose
  BY <1>3 DEF Session, Pending
<1>7. CASE told = {}
  BY <1>1, <1>2, <1>5, <1>6, <1>7 DEF Outside, SetFocus
<1>8. CASE told # {}
  <2>1. PICK x : x = CHOOSE y \in told : TRUE
    OBVIOUS
  <2>2. x \in told
    BY <1>8, <2>1
  <2>3. x \in Win
    BY <1>4, <2>2 DEF Session
  <2>4. x \in Xid /\ Of("focus", x) \in Event /\ Of("focus", x).atom = "focus"
    BY <2>3 DEF Xid, Event, Of
  <2>5. b = Notified(a, x, "focus")
    BY <1>5, <1>8, <2>1
  <2>6. /\ SameBut(a, b) /\ b.srv = a.srv /\ Pending(a) \subseteq Pending(b)
        /\ Pending(b) \subseteq Pending(a) \cup {Of("focus", x)}
    BY <1>6, <2>4, <2>5, NotifiedIs
  <2> QED
    BY <1>1, <1>2, <1>6, <2>4, <2>6 DEF Outside, SameBut, SetFocus
<1> QED
  BY <1>7, <1>8

------------------------------------------------------------------------------
(* The session is of its types.                                             *)

FitWin(v) ==
  /\ v.callback = "map" => v.viewable
  /\ v.callback = "unmap" => ~v.viewable
  /\ v.viewable => v.client # None

(* A client is in its frame; a window is mapped or not as its callback says *)
(* and has a client when mapped, but for the window m that has not been read*)
(* yet; and the active window is mapped and read.                           *)
Fit(st, m) ==
  /\ st \in Session /\ m \in Win \cup {None}
  /\ st.activeWin # None => st.win[st.activeWin].viewable /\ st.activeWin # m
  /\ m # None => st.win[m].viewable
  /\ Framed(st)
  /\ \A w \in Win : w # m => FitWin(st.win[w])

LEMMA FitOutside ==
  ASSUME NEW a, NEW b, NEW m, Fit(a, m), Outside(a, b)
  PROVE  Fit(b, m)
BY DEF Fit, Outside, Framed

LEMMA FitFields ==
  ASSUME NEW a, NEW b, NEW w, NEW F, Changes(a, b, w, F), NEW u \in Win,
         u # w \/ F \cap {"viewable", "client", "callback"} = {}
  PROVE  /\ b.win[u].viewable = a.win[u].viewable /\ b.win[u].client = a.win[u].client
         /\ b.win[u].callback = a.win[u].callback
<1>1. ASSUME NEW f \in {"viewable", "client", "callback"} PROVE b.win[u][f] = a.win[u][f]
  <2>1. f \in Kept /\ (u # w \/ f \notin F)
    BY DEF Kept
  <2> QED
    BY <2>1, FieldKept
<1> QED
  BY <1>1

LEMMA FitChanges ==
  ASSUME NEW a, NEW b, NEW w, NEW F, Fit(a, None), Changes(a, b, w, F),
         F \cap {"viewable", "client", "callback"} = {}, MaybeFocused(a, b)
  PROVE  Fit(b, None)
<1>1. \A u \in Win : /\ b.win[u].viewable = a.win[u].viewable
                     /\ b.win[u].client = a.win[u].client
                     /\ b.win[u].callback = a.win[u].callback
  BY FitFields
<1>2. b \in Session /\ a \in Session
  BY DEF Changes, Fit
<1>3. b.activeWin # None => b.activeWin \in Win /\ a.win[b.activeWin].viewable
  BY <1>2 DEF MaybeFocused, Fit, Session
<1>4. None \notin Win
  BY ConfigAssumption DEF Xid
<1> QED
  BY <1>1, <1>2, <1>3, <1>4 DEF Fit, Framed, FitWin

(* The window w became what it is in b, where its map request or its unmap  *)
(* request is done with.                                                    *)
LEMMA FitWindow ==
  ASSUME NEW a, NEW b, NEW w \in Win, NEW m \in {None, w}, Fit(a, m),
         b \in Session,
         \A u \in Win : u # w =>
           /\ b.win[u].viewable = a.win[u].viewable /\ b.win[u].client = a.win[u].client
           /\ b.win[u].callback = a.win[u].callback,
         b.win[w].client \in Family(w) \cup {None}, FitWin(b.win[w]),
         b.activeWin # None => b.win[b.activeWin].viewable
  PROVE  Fit(b, None)
<1>1. None \notin Win
  BY ConfigAssumption DEF Xid
<1>2. Framed(b)
  BY DEF Fit, Framed
<1>3. ASSUME NEW u \in Win PROVE FitWin(b.win[u])
  <2>1. CASE u = w
    BY <2>1
  <2>2. CASE u # w
    BY <1>1, <2>2 DEF Fit, FitWin
  <2> QED
    BY <2>1, <2>2
<1> QED
  BY <1>1, <1>2, <1>3 DEF Fit, Session

LEMMA FitMapSelect ==
  ASSUME NEW a, Fit(a, None), NEW w \in Win, ~a.win[w].viewable, NEW b, b = MapSelect(a, w)
  PROVE  Fit(b, w)
<1>1. a \in Session
  BY DEF Fit
<1>2. /\ SameButWin(a, b, w) /\ b.win[w].viewable
      /\ Rewritten(a.win[w], b.win[w], {"viewable"})
  BY <1>1, MapSelectIs
<1>3. b.win[w].client = a.win[w].client
  BY <1>2 DEF Rewritten, Kept
<1>4. /\ b \in Session /\ b.activeWin = a.activeWin
      /\ \A u \in Win : u # w => b.win[u] = a.win[u]
  BY <1>2 DEF SameButWin
<1>5. None \notin Win
  BY ConfigAssumption DEF Xid
<1>6. b.activeWin # None => b.win[b.activeWin].viewable /\ b.activeWin # w
  <2>1. SUFFICES ASSUME b.activeWin # None PROVE b.win[b.activeWin].viewable /\ b.activeWin # w
    OBVIOUS
  <2>2. a.win[b.activeWin].viewable /\ b.activeWin \in Win
    BY <1>1, <1>4, <2>1 DEF Fit, Session
  <2> QED
    BY <1>4, <2>2
<1>7. Framed(b)
  BY <1>3, <1>4 DEF Fit, Framed
<1>8. \A u \in Win : u # w => FitWin(b.win[u])
  BY <1>4, <1>5 DEF Fit
<1> QED
  BY <1>2, <1>4, <1>6, <1>7, <1>8 DEF Fit

LEMMA FitMapRead ==
  ASSUME NEW a, NEW w \in Win, Fit(a, w), NEW b, b = MapRead(a, w)
  PROVE  Fit(b, None)
<1>1. /\ a \in Session /\ a.win[w].viewable /\ a.win[w].client \in Family(w) \cup {None}
      /\ None \notin Win
  BY ConfigAssumption DEF Fit, Framed, Xid
<1>2. PICK t, c : /\ MapTarget(a, w, t, c)
                  /\ Changes(Marked(t, w, c), b, w, ReadFields)
                  /\ MaybeFocused(a, b) /\ b.win[w].callback = "map"
  BY <1>1, MapReadAll
<1>3. PICK k : k = Marked(t, w, c)
  OBVIOUS
<1>4. Marking(a, k, w, c) /\ c \in Xid /\ c \in Family(w)
  BY <1>1, <1>2, <1>3, MapTargetMarks
<1>5. Changes(k, b, w, ReadFields)
  BY <1>2, <1>3
<1>6. ASSUME NEW u \in Win, u # w
      PROVE  /\ b.win[u].viewable = a.win[u].viewable /\ b.win[u].client = a.win[u].client
             /\ b.win[u].callback = a.win[u].callback
  <2>1. k.win[u] = a.win[u]
    BY <1>4, <1>6 DEF Marking, SameButWin
  <2> QED
    BY <1>5, <1>6, <2>1, FitFields
<1>7. b.win[w].client = c /\ b.win[w].viewable
  <2>1. k.win[w].client = c /\ k.win[w].viewable
    BY <1>1, <1>4 DEF Marking, Rewritten, Kept
  <2>2. "client" \in Kept \ ReadFields /\ "viewable" \in Kept \ ReadFields
    BY DEF Kept, ReadFields
  <2>3. b.win[w]["client"] = k.win[w]["client"] /\ b.win[w]["viewable"] = k.win[w]["viewable"]
    BY <1>5, <2>2, FieldKept
  <2> QED
    BY <2>1, <2>3
<1>8. c # None
  BY <1>4, ConfigAssumption
<1>9. FitWin(b.win[w])
  BY <1>2, <1>7, <1>8 DEF FitWin
<1>10. b \in Session
  BY <1>5 DEF Changes
<1>11. b.activeWin # None => b.win[b.activeWin].viewable
  <2>1. SUFFICES ASSUME b.activeWin # None PROVE b.win[b.activeWin].viewable
    OBVIOUS
  <2>2. b.activeWin \in Win /\ a.win[b.activeWin].viewable
    BY <1>1, <1>2, <1>10, <2>1 DEF MaybeFocused, Fit, Session
  <2> QED
    BY <1>6, <1>7, <2>2
<1> QED
  BY <1>4, <1>6, <1>7, <1>9, <1>10, <1>11, FitWindow

LEMMA FitUnmapWin ==
  ASSUME NEW a, NEW w \in Win, Fit(a, None), NEW b, b = UnmapWin(a, w)
  PROVE  Fit(b, None)
<1>1. CASE ~a.win[w].viewable
  <2>1. b = a
    BY <1>1, Zenon DEF UnmapWin
  <2> QED
    BY <2>1
<1>2. CASE a.win[w].viewable
  <2>1. a \in Session
    BY DEF Fit
  <2>2. PICK d : b = EvStop(d, w) /\ Unmapped(a, d, w)
    BY <1>2, <2>1, UnmapWinIs
  <2>21. /\ Changes(a, d, w, UnmapFields)
         /\ d.win[w].viewable = FALSE /\ d.win[w].callback = "unmap"
         /\ d.activeWin = IF a.activeWin = w THEN None ELSE a.activeWin
    BY <2>2 DEF Unmapped
  <2>3. SameButMask(d, b)
    <3>1. d \in Session
      BY <2>21 DEF Changes
    <3> QED
      BY <2>2, <3>1, EvStopIs
  <2>4. b \in Session /\ b.win = d.win /\ b.activeWin = d.activeWin
    BY <2>3 DEF SameButMask
  <2>5. \A u \in Win : u # w =>
          /\ b.win[u].viewable = a.win[u].viewable /\ b.win[u].client = a.win[u].client
          /\ b.win[u].callback = a.win[u].callback
    BY <2>21, <2>4, FitFields
  <2>6. b.win[w].client = a.win[w].client
    <3>1. "client" \in Kept \ UnmapFields
      BY DEF Kept, UnmapFields
    <3>2. d.win[w]["client"] = a.win[w]["client"]
      BY <2>21, <3>1, FieldKept
    <3> QED
      BY <2>4, <3>2
  <2>7. FitWin(b.win[w]) /\ b.win[w].client \in Family(w) \cup {None}
    BY <2>21, <2>4, <2>6 DEF FitWin, Fit, Framed
  <2>8. b.activeWin # None => b.win[b.activeWin].viewable
    BY <2>1, <2>21, <2>4, <2>5 DEF Fit, Session
  <2> QED
    BY <2>4, <2>5, <2>7, <2>8, FitWindow
<1> QED
  BY <1>1, <1>2

LEMMA FitOnState ==
  ASSUME NEW a, NEW x \in Kid, Fit(a, None), NEW b, b = OnState(a, x)
  PROVE  Fit(b, None)
<1>1. PICK w \in Win : w = Parent[x]
  BY WinDataAssumption
<1>2. a \in Session /\ x \in Family(w) /\ x # None
  BY <1>1, ConfigAssumption DEF Fit, Family, Xid
<1>3. CASE Toplevels(a, x) # {}
  BY <1>1, <1>2, <1>3, OnStateIs
<1>4. CASE Toplevels(a, x) = {}
  <2>1. PICK t : /\ SameButMask(a, t)
                 /\ b = t \/ (t.win[w].client \in {None, w} /\ Adopted(t, b, w, x))
    BY <1>1, <1>2, <1>4, OnStateIs
  <2>2. Fit(t, None)
    BY <2>1 DEF Fit, SameButMask, Framed
  <2>3. CASE Adopted(t, b, w, x)
    <3>1. PICK m : /\ Marking(t, m, w, x) /\ b.activeWin = t.activeWin
                   /\ IF t.win[w].viewable
                      THEN Changes(m, b, w, {"type", "leader", "name"})
                      ELSE b = m
      BY <2>3 DEF Adopted
    <3>2. /\ m \in Session /\ m.win[w].client = x
          /\ m.win[w].viewable = t.win[w].viewable /\ m.win[w].callback = t.win[w].callback
          /\ \A u \in Win : u # w => m.win[u] = t.win[u]
      BY <3>1 DEF Marking, SameButWin, Rewritten, Kept
    <3>3. \A u \in Win :
            /\ b.win[u].viewable = m.win[u].viewable /\ b.win[u].client = m.win[u].client
            /\ b.win[u].callback = m.win[u].callback
      <4>1. CASE t.win[w].viewable
        BY <3>1, <4>1, FitFields
      <4>2. CASE ~t.win[w].viewable
        BY <3>1, <4>2
      <4> QED
        BY <4>1, <4>2
    <3>4. b \in Session
      BY <3>1, <3>2 DEF Changes
    <3>5. FitWin(b.win[w]) /\ b.win[w].client \in Family(w) \cup {None}
      <4>1. FitWin(t.win[w])
        BY <2>2, ConfigAssumption DEF Fit, Xid
      <4> QED
        BY <1>2, <3>2, <3>3, <4>1 DEF FitWin
    <3>6. b.activeWin # None => b.win[b.activeWin].viewable
      BY <2>2, <3>1, <3>2, <3>3 DEF Fit, Session
    <3> QED
      BY <2>2, <3>2, <3>3, <3>4, <3>5, <3>6, FitWindow
  <2> QED
    BY <2>1, <2>2, <2>3
<1> QED
  BY <1>3, <1>4

LEMMA FitKeptFocus ==
  ASSUME NEW a, NEW b, NEW w, NEW F, Fit(a, None), Changes(a, b, w, F),
         F \cap {"viewable", "client", "callback"} = {}, b.activeWin = a.activeWin
  PROVE  Fit(b, None)
BY FitChanges DEF MaybeFocused

LEMMA FitStill ==
  ASSUME NEW a, NEW b, Fit(a, None), Still(a, b)
  PROVE  Fit(b, None)
BY FitKeptFocus DEF Still, Quiet

LEMMA FitRecheckFocus ==
  ASSUME NEW a, Fit(a, None), NEW b, b = RecheckFocus(a)
  PROVE  Fit(b, None)
<1>1. a \in Session
  BY DEF Fit
<1>2. Changes(a, b, None, {}) /\ MaybeFocused(a, b)
  BY <1>1, RecheckFocusQuiet DEF Quiet, MaybeFocused
<1> QED
  BY <1>2, FitChanges

LEMMA FitProperty ==
  ASSUME NEW a, NEW x \in Xid, NEW atom \in Property, atom = "state" => x \in Kid,
         Fit(a, None), NEW b, b = EvPropertyNotify(a, x, atom)
  PROVE  Fit(b, None)
<1>1. a \in Session /\ Framed(a)
  BY DEF Fit
<1>2. CASE atom = "state"
  BY <1>2, FitOnState DEF EvPropertyNotify
<1>3. CASE atom = "opacity"
  <2>1. b = OnOpacity(a, x)
    BY <1>3 DEF EvPropertyNotify
  <2>2. \/ b = a
        \/ \E w, F : /\ Changes(a, b, w, F) /\ SameButWin(a, b, w)
                     /\ F \cap {"viewable", "client", "callback"} = {}
    <3>1. {"opacityProp"} \cap {"viewable", "client", "callback"} = {}
          /\ {"opacityClient"} \cap {"viewable", "client", "callback"} = {}
      OBVIOUS
    <3> QED
      BY <1>1, <2>1, <3>1, OnOpacityIs
  <2>3. CASE b = a
    BY <2>3
  <2>4. ASSUME NEW w, NEW F, Changes(a, b, w, F), SameButWin(a, b, w),
               F \cap {"viewable", "client", "callback"} = {}
        PROVE  Fit(b, None)
    BY <2>4, FitKeptFocus DEF SameButWin
  <2> QED
    BY <2>2, <2>3, <2>4
<1>4. CASE atom = "noShadow"
  <2>1. b = OnNoShadow(a, x)
    BY <1>4 DEF EvPropertyNotify
  <2>2. b = a \/ (Changes(a, b, x, {"noShadow"}) /\ b.activeWin = a.activeWin)
    BY <1>1, <2>1, OnNoShadowIs
  <2> QED
    BY <2>2, FitKeptFocus
<1>5. CASE atom = "other"
  BY <1>1, <1>5, OnTrackedIs, FitStill DEF EvPropertyNotify
<1>6. CASE atom \notin {"state", "opacity", "noShadow", "other"}
  <2>1. PICK top : top = Toplevels(a, x)
    OBVIOUS
  <2>2. b = IF top = {} THEN a ELSE OnClientProperty(a, CHOOSE w \in top : TRUE, atom)
    BY <1>6, <2>1 DEF EvPropertyNotify
  <2>3. CASE top = {}
    BY <2>2, <2>3
  <2>4. CASE top # {}
    <3>1. PICK w \in top : w = CHOOSE v \in top : TRUE
      BY <2>4
    <3>2. w \in Win /\ a.win[w].client \in Xid
      BY <2>1, <3>1 DEF Toplevels
    <3>3. b = OnClientProperty(a, w, atom)
      BY <2>2, <2>4, <3>1
    <3>4. CASE atom = "shaped"
      <4>1. a.o.detect \subseteq {"transient", "leader"}
        BY <1>1 DEF Session, Config
      <4>2. b = a
        BY <3>3, <3>4, <4>1 DEF OnClientProperty
      <4> QED
        BY <4>2
    <3>5. CASE atom # "shaped"
      <4>1. atom \in {"type", "name", "transient", "leader"}
        BY <1>6, <3>5 DEF Property
      <4>2. Changes(a, b, w, {CopyOf(atom)}) /\ b.activeWin = a.activeWin
        <5>1. ClientRead(a, b, w, atom)
          BY <1>1, <3>2, <3>3, <4>1, OnClientPropertyIs
        <5> QED
          BY <5>1 DEF ClientRead
      <4>3. {CopyOf(atom)} \cap {"viewable", "client", "callback"} = {}
        BY <4>1 DEF CopyOf
      <4> QED
        BY <4>2, <4>3, FitKeptFocus
    <3> QED
      BY <3>4, <3>5
  <2> QED
    BY <2>3, <2>4
<1> QED
  BY <1>2, <1>3, <1>4, <1>5, <1>6

LEMMA FitHandle ==
  ASSUME NEW a, Fit(a, None), NEW e \in Event, NEW b, b = Handle(a, e)
  PROVE  Fit(b, None)
<1>1. e.x \in Xid /\ e.atom \in Property \cup {"map", "unmap", "focus"}
      /\ (e.atom \in {"map", "unmap", "focus", "shaped", "noShadow"} => e.x \in Win)
      /\ (e.atom = "state" => e.x \in Kid)
  BY DEF Event
<1>2. a \in Session
  BY DEF Fit
<1>3. CASE e.atom = "map"
  BY <1>3 DEF Handle
<1>4. CASE e.atom = "unmap"
  BY <1>1, <1>4, FitUnmapWin DEF Handle
<1>5. CASE e.atom = "focus"
  BY <1>5, FitRecheckFocus DEF Handle
<1>6. CASE e.atom = "shaped"
  <2>1. b = EvShapeNotify(a, e.x) /\ e.x \in Win
    BY <1>1, <1>6 DEF Handle
  <2>2. Changes(a, b, e.x, {"shaped"}) /\ b.activeWin = a.activeWin
    BY <1>2, <2>1, EvShapeNotifyIs
  <2> QED
    BY <2>2, FitKeptFocus
<1>7. CASE e.atom \notin {"map", "unmap", "focus", "shaped"}
  <2>1. b = EvPropertyNotify(a, e.x, e.atom)
    BY <1>7 DEF Handle
  <2>2. e.atom \in Property
    BY <1>1, <1>7
  <2> QED
    BY <1>1, <2>1, <2>2, FitProperty
<1> QED
  BY <1>3, <1>4, <1>5, <1>6, <1>7

LEMMA FitPainted ==
  ASSUME NEW a, Fit(a, None), NEW shown, NEW b, b = Painted(a, shown)
  PROVE  Fit(b, None)
<1>1. a \in Session
  BY DEF Fit
<1>2. /\ b \in Session /\ b.activeWin = a.activeWin
      /\ \A w \in Win : Shown(a.win[w], b.win[w])
  BY <1>1, PaintedIs
<1>3. ASSUME NEW w \in Win
      PROVE  /\ b.win[w].viewable = a.win[w].viewable /\ b.win[w].client = a.win[w].client
             /\ b.win[w].callback = a.win[w].callback
  BY <1>2 DEF Shown, Kept
<1> QED
  BY <1>1, <1>2, <1>3 DEF Fit, Framed, FitWin, Session

LEMMA FitCallback ==
  ASSUME NEW a, NEW w \in Win, Fit(a, None), NEW b, b = RunCallback(a, w)
  PROVE  Fit(b, None)
<1>1. a \in Session
  BY DEF Fit
<1>2. /\ Changes(a, b, w, {"inOpenclose", "callback"}) /\ b.activeWin = a.activeWin
      /\ b.win[w].callback = "none"
  BY <1>1, RunCallbackIs
<1>3. b \in Session
  BY <1>2 DEF Changes
<1>4. \A u \in Win : u # w =>
        /\ b.win[u].viewable = a.win[u].viewable /\ b.win[u].client = a.win[u].client
        /\ b.win[u].callback = a.win[u].callback
  BY <1>2, FitFields
<1>5. b.win[w].viewable = a.win[w].viewable /\ b.win[w].client = a.win[w].client
  <2>1. "viewable" \in Kept /\ "client" \in Kept /\ "viewable" \notin {"inOpenclose", "callback"}
        /\ "client" \notin {"inOpenclose", "callback"}
    BY DEF Kept
  <2>2. b.win[w]["viewable"] = a.win[w]["viewable"] /\ b.win[w]["client"] = a.win[w]["client"]
    BY <1>2, <2>1, FieldKept
  <2> QED
    BY <2>2
<1>6. FitWin(b.win[w]) /\ b.win[w].client \in Family(w) \cup {None}
  <2>1. FitWin(a.win[w])
    BY ConfigAssumption DEF Fit, Xid
  <2> QED
    BY <1>2, <1>5, <2>1 DEF FitWin, Fit, Framed
<1>7. b.activeWin # None => b.win[b.activeWin].viewable
  BY <1>1, <1>2, <1>4, <1>5 DEF Fit, Session
<1> QED
  BY <1>3, <1>4, <1>6, <1>7, FitWindow

LEMMA FitDBus ==
  ASSUME Fit(s, mapping), DBus
  PROVE  Fit(s', mapping')
<1>1. mapping = None /\ mapping' = None /\ s \in Session /\ Fit(s, None)
  BY DEF DBus, Fit
<1>2. PICK b : b = s'
  OBVIOUS
<1>3. PICK a \in Session : a = s
  BY <1>1
<1>4. ASSUME NEW w \in Win, NEW d \in Forced, NEW value \in Switch, b = SetForce(a, w, d, value)
      PROVE  Fit(b, None)
  <2>1. Changes(a, b, w, {"force"}) /\ b.activeWin = a.activeWin
    BY <1>4, SetForceIs
  <2> QED
    BY <1>1, <1>3, <2>1, FitKeptFocus
<1>5. ASSUME b = SetOpenclose(a)
      PROVE  Fit(b, None)
  <2>1. PICK c : c = Reopened(a) /\ Still(c, b)
    BY <1>5, SetOpencloseIs
  <2>2. c \in Session /\ c.win = a.win /\ c.activeWin = a.activeWin
    BY <2>1, ReopenedIs
  <2>3. Fit(c, None)
    BY <1>1, <1>3, <2>2 DEF Fit, Framed
  <2> QED
    BY <2>1, <2>3, FitStill
<1>6. s.o.shown \subseteq Win
  BY <1>1 DEF Session, Config
<1> QED
  BY <1>1, <1>2, <1>3, <1>4, <1>5, <1>6 DEF DBus

LEMMA FitInit ==
  ASSUME Init
  PROVE  Fit(s, mapping)
<1>1. PICK o \in Configs, late \in SUBSET Kid :
        s = [o |-> o, win |-> [w \in Win |-> NewWin], activeWin |-> None, activeLeader |-> None,
             srv |-> [x \in Xid |-> NewProps(x, x \in Kid \ late)],
             mask |-> [x \in Xid |-> x \in late], mapped |-> [w \in Win |-> FALSE],
             focus |-> None, queue |-> <<>>, openclose |-> o.openclose]
  BY DEF Init
<1>2. o \in Config /\ o.openclose \in BOOLEAN
  BY ConfigAssumption DEF Config
<1>3. NewWin \in WinType /\ ~NewWin.viewable /\ NewWin.client = None /\ NewWin.callback = "none"
  BY DEF NewWin, WinType, Opaque, Level, Leaders, Switch
<1>4. ASSUME NEW x \in Xid, NEW state \in BOOLEAN PROVE NewProps(x, state) \in Props
  BY DEF NewProps, Props, Leaders, Level, Opaque
<1>5. [x \in Xid |-> NewProps(x, x \in Kid \ late)] \in [Xid -> Props]
  <2>1. ASSUME NEW x \in Xid PROVE NewProps(x, x \in Kid \ late) \in Props
    <3>1. (x \in Kid \ late) \in BOOLEAN
      OBVIOUS
    <3> QED
      BY <1>4, <3>1, Zenon
  <2> QED
    BY <2>1
<1>6. <<>> \in Seq(Event) /\ None \in Leaders
  BY DEF Leaders
<1>7. s \in Session
  <2>1. [x \in Xid |-> x \in late] \in [Xid -> BOOLEAN]
    OBVIOUS
  <2>2. [w \in Win |-> FALSE] \in [Win -> BOOLEAN] /\ [w \in Win |-> NewWin] \in [Win -> WinType]
    BY <1>3
  <2> QED
    BY <1>1, <1>2, <1>5, <1>6, <2>1, <2>2 DEF Session
<1> QED
  BY <1>1, <1>3, <1>7 DEF Fit, Framed, FitWin, Init

LEMMA FitNext ==
  ASSUME Fit(s, mapping), [Next]_vars
  PROVE  Fit(s', mapping')
<1>1. s \in Session
  BY DEF Fit
<1>2. CASE HandleEvent
  <2>1. PICK e : e = Head(s.queue)
    OBVIOUS
  <2>2. PICK a : a = Rest(s)
    OBVIOUS
  <2>3. mapping = None /\ s.queue # <<>>
    BY <1>2 DEF HandleEvent
  <2>4. e \in Event /\ Fit(a, None) /\ a.win = s.win
    BY <1>1, <2>1, <2>2, <2>3, RestIs DEF Fit, SameBut, Framed
  <2>5. \/ e.atom = "map" /\ ~a.win[e.x].viewable /\ s' = MapSelect(a, e.x) /\ mapping' = e.x
        \/ s' = Handle(a, e) /\ mapping' = None
    BY <1>2, <2>1, <2>2, <2>4, Zenon DEF HandleEvent, Received, Rest
  <2>6. CASE e.atom = "map" /\ ~a.win[e.x].viewable /\ s' = MapSelect(a, e.x) /\ mapping' = e.x
    <3>1. e.x \in Win
      BY <2>4, <2>6 DEF Event
    <3> QED
      BY <2>4, <2>6, <3>1, FitMapSelect
  <2>7. CASE s' = Handle(a, e) /\ mapping' = None
    BY <2>4, <2>7, FitHandle
  <2> QED
    BY <2>5, <2>6, <2>7
<1>3. CASE FinishMapWin
  <2>1. mapping \in Win /\ s' = MapRead(s, mapping) /\ mapping' = None
    BY <1>3 DEF FinishMapWin, Fit
  <2> QED
    BY <2>1, FitMapRead
<1>4. CASE Paint
  <2>1. mapping = None /\ mapping' = None /\ \E shown : s' = Painted(s, shown)
    BY <1>4 DEF Paint
  <2> QED
    BY <2>1, FitPainted
<1>5. CASE DBus
  BY <1>5, FitDBus
<1>6. ASSUME NEW w \in Win, FadeDone(w)
      PROVE  Fit(s', mapping')
  BY <1>6, FitCallback DEF FadeDone
<1>7. ASSUME NEW w \in Win, SetMapped(w)
      PROVE  Fit(s', mapping')
  BY <1>1, <1>7, SetMappedIs, FitOutside
<1>8. ASSUME NEW w \in Win, SetFocus(w)
      PROVE  Fit(s', mapping')
  BY <1>1, <1>8, SetFocusIs, FitOutside
<1>9. ASSUME NEW x \in Xid, NEW atom \in Property, SetProperty(x, atom)
      PROVE  Fit(s', mapping')
  BY <1>1, <1>9, SetPropertyIs, FitOutside DEF Written
<1>10. CASE UNCHANGED vars
  BY <1>10 DEF vars
<1> QED
  BY <1>2, <1>3, <1>4, <1>5, <1>6, <1>7, <1>8, <1>9, <1>10 DEF Next

(* The session keeps to its types, and a callback is pending only for a     *)
(* window in the matching map state (map_win, unmap_win, finish_map_win).   *)
THEOREM TypesHold == Spec => []TypeOK
<1>1. Init => Fit(s, mapping)
  BY FitInit
<1>2. Fit(s, mapping) /\ [Next]_vars => Fit(s, mapping)'
  BY FitNext
<1>3. Fit(s, mapping) => TypeOK
  BY DEF Fit, FitWin, Session, TypeOK
<1> QED
  BY <1>1, <1>2, <1>3, PTL DEF Spec

------------------------------------------------------------------------------
(* The copies of the properties.                                            *)

Copies == {"opacityProp", "shaped", "noShadow", "name", "opacityClient", "type", "leader"}

(* The type was guessed of a property that compton does not listen for.     *)
Guessed(st, x) == st.srv[x].type = "none" /\ "transient" \in st.o.offered

(* The copy f of a window is what the server has.                           *)
Exact(st, u, f) ==
  LET v == st.win[u]
      c == v.client
  IN  CASE f = "opacityProp"   -> v.opacityProp = st.srv[u].opacity
        [] f = "shaped"        -> v.shaped = st.srv[u].shaped
        [] f = "noShadow"      -> st.o.respectShadow => v.noShadow = st.srv[u].noShadow
        [] f = "name"          -> TrackWdata(st) => v.name = st.srv[c].name
        [] f = "opacityClient" -> EarlyClients(st) => v.opacityClient = ClientOpacity(st, u)
        [] f = "type"          -> st.mask[c] => v.type = TypeOf(st, c) \/ Guessed(st, c)
        [] OTHER               -> st.mask[c] /\ TrackLeader(st) => v.leader = LeaderOf(st, c)

(* The events that tell compton to read it again.                           *)
Waits(st, u, f) ==
  LET c == st.win[u].client
  IN  CASE f = "opacityProp"   -> {Of("opacity", u)}
        [] f = "opacityClient" -> IF st.o.clientOpacity /\ c \in Kid THEN {Of("opacity", c)} ELSE {}
        [] f \in {"shaped", "noShadow"} -> {Of(f, u)}
        [] f \in {"name", "type"} -> {Of(f, c)}
        [] OTHER -> {Of(atom, c) : atom \in st.o.detect}

Right(st, u, f) == Exact(st, u, f) \/ Waits(st, u, f) \cap Pending(st) # {}

Copied(st, m) == \A u \in Win, f \in Copies : st.win[u].viewable /\ u # m => Right(st, u, f)

(* compton listens to each window that is mapped, and to its client if a    *)
(* property of it matters.                                                  *)
Listening(st, m) ==
  \A u \in Win : st.win[u].viewable =>
    st.mask[u] /\ (u # m /\ Tracks(st) => st.mask[st.win[u].client])

(* Where no client gets its WM_STATE late, no event tells of it.            *)
Offered(st) == EarlyClients(st) => \A e \in Pending(st) : e.atom # "state"

(* Nothing changed that the copies of u are of.                             *)
Steady(a, b, u) ==
  /\ \A f \in Copies \cup {"client"} : b.win[u][f] = a.win[u][f]
  /\ b.o = a.o /\ b.srv = a.srv /\ Pending(a) \subseteq Pending(b)
  /\ b.mask[a.win[u].client] => a.mask[a.win[u].client]

LEMMA RightSteady ==
  ASSUME NEW a, NEW b, NEW u, Steady(a, b, u), NEW f \in Copies, Right(a, u, f)
  PROVE  Right(b, u, f)
<1>1. b.win[u].client = a.win[u].client /\ b.win[u][f] = a.win[u][f]
  BY DEF Steady
<1>2. PICK c : c = a.win[u].client
  OBVIOUS
<1>3. Waits(b, u, f) = Waits(a, u, f)
  BY <1>1 DEF Waits, Steady
<1>4. ASSUME Exact(a, u, f) PROVE Exact(b, u, f)
  <2>1. ClientOpacity(b, u) = ClientOpacity(a, u)
    BY <1>1 DEF ClientOpacity, Steady
  <2>2. /\ TrackWdata(b) <=> TrackWdata(a)
        /\ TrackLeader(b) <=> TrackLeader(a)
        /\ EarlyClients(b) <=> EarlyClients(a)
    BY DEF TrackWdata, Looked, TrackLeader, EarlyClients, Steady
  <2>3. /\ TypeOf(b, c) = TypeOf(a, c) /\ LeaderOf(b, c) = LeaderOf(a, c)
        /\ Guessed(b, c) <=> Guessed(a, c)
    BY DEF TypeOf, LeaderOf, Guessed, Steady
  <2>4. b.o = a.o /\ b.srv = a.srv /\ (b.mask[c] => a.mask[c])
    BY <1>2 DEF Steady
  <2>5. CASE f = "opacityProp"
    BY <1>1, <1>4, <2>4, <2>5 DEF Exact
  <2>6. CASE f = "shaped"
    BY <1>1, <1>4, <2>4, <2>6 DEF Exact
  <2>7. CASE f = "noShadow"
    BY <1>1, <1>4, <2>4, <2>7 DEF Exact
  <2>8. CASE f = "name"
    BY <1>1, <1>4, <2>2, <2>4, <2>8 DEF Exact
  <2>9. CASE f = "opacityClient"
    BY <1>1, <1>4, <2>1, <2>2, <2>9 DEF Exact
  <2>10. CASE f = "type"
    BY <1>1, <1>2, <1>4, <2>3, <2>4, <2>10 DEF Exact
  <2>11. CASE f = "leader"
    BY <1>1, <1>2, <1>4, <2>2, <2>3, <2>4, <2>11 DEF Exact
  <2> QED
    BY <2>5, <2>6, <2>7, <2>8, <2>9, <2>10, <2>11 DEF Copies
<1> QED
  BY <1>3, <1>4 DEF Right, Steady

LEMMA SameTracking ==
  ASSUME NEW a, NEW b, b.o = a.o
  PROVE  /\ TrackWdata(b) <=> TrackWdata(a)
         /\ TrackLeader(b) <=> TrackLeader(a)
         /\ TrackAtoms(b) <=> TrackAtoms(a)
         /\ EarlyClients(b) <=> EarlyClients(a)
         /\ Tracks(b) <=> Tracks(a)
BY DEF TrackWdata, TrackAtoms, Tracks, Looked, TrackLeader, EarlyClients

(* Exactness does not depend on more than this.                             *)
LEMMA ExactSame ==
  ASSUME NEW a, NEW b, NEW w, NEW F, Changes(a, b, w, F), NEW u \in Win,
         a.win[u].client \in Family(u), "client" \notin F,
         NEW f \in Copies \ {"opacityProp"}, b.win[u][f] = a.win[u][f], Exact(a, u, f)
  PROVE  Exact(b, u, f)
<1>1. b.o = a.o /\ b.mask = a.mask
  BY DEF Changes
<1>2. b.win[u].client = a.win[u].client
  BY FieldKept DEF Kept
<1>3. PICK c \in Xid : c = a.win[u].client
  BY FamilyXid
<1>4. ClientOpacity(b, u) = ClientOpacity(a, u)
  BY ClientOpacitySame
<1>5. /\ TrackWdata(b) <=> TrackWdata(a)
      /\ TrackLeader(b) <=> TrackLeader(a)
      /\ EarlyClients(b) <=> EarlyClients(a)
  BY <1>1, SameTracking
<1>6. /\ TypeOf(b, c) = TypeOf(a, c) /\ LeaderOf(b, c) = LeaderOf(a, c)
      /\ b.srv[c].name = a.srv[c].name /\ b.srv[c].type = a.srv[c].type
  BY PropsKept
<1>7. u \in Xid
  BY DEF Xid
<1>8. b.srv[u].shaped = a.srv[u].shaped /\ b.srv[u].noShadow = a.srv[u].noShadow
  BY <1>7, PropsKept
<1>9. Guessed(b, c) <=> Guessed(a, c)
  BY <1>1, <1>6 DEF Guessed
<1>10. CASE f = "shaped"
  BY <1>8, <1>10 DEF Exact
<1>11. CASE f = "noShadow"
  BY <1>1, <1>8, <1>11 DEF Exact
<1>12. CASE f = "name"
  BY <1>2, <1>3, <1>5, <1>6, <1>12 DEF Exact
<1>13. CASE f = "opacityClient"
  BY <1>4, <1>5, <1>13 DEF Exact
<1>14. CASE f = "type"
  BY <1>1, <1>2, <1>3, <1>6, <1>9, <1>14 DEF Exact
<1>15. CASE f = "leader"
  BY <1>1, <1>2, <1>3, <1>5, <1>6, <1>15 DEF Exact
<1> QED
  BY <1>10, <1>11, <1>12, <1>13, <1>14, <1>15 DEF Copies

LEMMA WaitsSame ==
  ASSUME NEW a, NEW b, NEW u, b.o = a.o, b.win[u].client = a.win[u].client, NEW f
  PROVE  Waits(b, u, f) = Waits(a, u, f)
BY DEF Waits

LEMMA RightChanges ==
  ASSUME NEW a, NEW b, NEW w, NEW F, Changes(a, b, w, F), NEW u \in Win,
         a.win[u].client \in Family(u), a.mask[u], "client" \notin F,
         NEW f \in Copies, b.win[u][f] = a.win[u][f], Right(a, u, f)
  PROVE  Right(b, u, f)
<1>1. b.o = a.o /\ Pending(a) \subseteq Pending(b)
  BY DEF Changes
<1>2. b.win[u].client = a.win[u].client
  BY FieldKept DEF Kept
<1>3. Waits(b, u, f) = Waits(a, u, f)
  BY <1>1, <1>2, WaitsSame
<1>4. CASE Waits(a, u, f) \cap Pending(a) # {}
  BY <1>1, <1>3, <1>4 DEF Right
<1>5. CASE Exact(a, u, f) /\ f # "opacityProp"
  BY <1>5, ExactSame DEF Right
<1>6. CASE Exact(a, u, f) /\ f = "opacityProp"
  <2>1. SameProps(a, b, u)
    BY DEF Changes, Xid
  <2>2. b.srv[u].opacity = a.srv[u].opacity \/ Of("opacity", u) \in Pending(b)
    BY <2>1 DEF SameProps
  <2>3. Of("opacity", u) \in Waits(b, u, f)
    BY <1>6 DEF Waits
  <2>4. a.win[u].opacityProp = a.srv[u].opacity
    BY <1>6 DEF Exact
  <2>5. CASE b.srv[u].opacity = a.srv[u].opacity
    <3>1. Exact(b, u, f)
      BY <1>6, <2>4, <2>5 DEF Exact
    <3> QED
      BY <3>1 DEF Right
  <2> QED
    BY <2>2, <2>3, <2>5 DEF Right
<1> QED
  BY <1>4, <1>5, <1>6 DEF Right

(* A handler read what the event e told of, and no copy became wrong.       *)
EventRead(a, b, e) ==
  /\ \E w, F : Changes(a, b, w, F) /\ F \cap {"viewable", "client", "callback", "force"} = {}
  /\ \A u \in Win, f \in Copies : a.win[u].viewable =>
       \/ Exact(b, u, f)
       \/ b.win[u][f] = a.win[u][f] /\ e \notin Waits(a, u, f)

LEMMA ReadOne ==
  ASSUME NEW a, NEW b, NEW w, NEW F, Changes(a, b, w, F),
         F \cap {"viewable", "client", "callback", "force"} = {}, NEW e,
         \A u \in Win, f \in Copies :
           a.win[u].viewable /\ ((u = w /\ f \in F) \/ e \in Waits(a, u, f)) => Exact(b, u, f)
  PROVE  EventRead(a, b, e)
<1>1. ASSUME NEW u \in Win, NEW f \in Copies, a.win[u].viewable, ~(u = w /\ f \in F),
             e \notin Waits(a, u, f)
      PROVE  b.win[u][f] = a.win[u][f] /\ e \notin Waits(a, u, f)
  <2>1. f \in Kept
    BY DEF Kept, Copies
  <2> QED
    BY <1>1, <2>1, FieldKept
<1> QED
  BY <1>1 DEF EventRead

(* Which event tells of what.                                               *)
LEMMA WaitsFor ==
  ASSUME NEW st \in Session, NEW u \in Win, NEW f \in Copies, NEW atom, NEW x,
         Of(atom, x) \in Waits(st, u, f)
  PROVE  \/ f = "opacityProp" /\ atom = "opacity" /\ x = u
         \/ f = "opacityClient" /\ atom = "opacity" /\ x = st.win[u].client /\ x \in Kid
            /\ st.o.clientOpacity
         \/ f \in {"shaped", "noShadow"} /\ atom = f /\ x = u
         \/ f \in {"name", "type"} /\ atom = f /\ x = st.win[u].client
         \/ f = "leader" /\ atom \in st.o.detect /\ x = st.win[u].client
<1>1. \A p, y : Of(atom, x) = Of(p, y) => p = atom /\ y = x
  BY DEF Of
<1>2. CASE f = "opacityProp"
  BY <1>1, <1>2 DEF Waits
<1>3. CASE f = "opacityClient"
  BY <1>1, <1>3 DEF Waits
<1>4. CASE f \in {"shaped", "noShadow"}
  BY <1>1, <1>4 DEF Waits
<1>5. CASE f \in {"name", "type"}
  BY <1>1, <1>5 DEF Waits
<1>6. CASE f = "leader"
  <2>1. Of(atom, x) \in {Of(p, st.win[u].client) : p \in st.o.detect}
    BY <1>6 DEF Waits
  <2> QED
    BY <1>1, <1>6, <2>1
<1> QED
  BY <1>2, <1>3, <1>4, <1>5, <1>6 DEF Copies

LEMMA NothingRead ==
  ASSUME NEW a \in Session, NEW e, \A u \in Win, f \in Copies : e \notin Waits(a, u, f),
         NEW b, NEW w, Changes(a, b, w, {})
  PROVE  EventRead(a, b, e)
BY ReadOne

LEMMA OpacityRead ==
  ASSUME NEW a \in Session, Framed(a), NEW x \in Xid, NEW b, b = OnOpacity(a, x)
  PROVE  EventRead(a, b, Of("opacity", x))
<1> DEFINE e == Of("opacity", x)
<1>1. a.o.detect \subseteq {"transient", "leader"} /\ Win \cap Kid = {}
  BY ConfigAssumption DEF Session, Config
<1>2. ASSUME NEW u \in Win, NEW f \in Copies, e \in Waits(a, u, f)
      PROVE  \/ f = "opacityProp" /\ x = u
             \/ f = "opacityClient" /\ x = a.win[u].client /\ x \in Kid /\ a.o.clientOpacity
  BY <1>1, <1>2, WaitsFor
<1> HIDE DEF e
<1>3. CASE /\ x \in Win
           /\ Changes(a, b, x, {"opacityProp"}) /\ SameButWin(a, b, x)
           /\ b.win[x].opacityProp = a.srv[x].opacity
  <2>1. PICK F : F = {"opacityProp"}
    OBVIOUS
  <2>2. Exact(b, x, "opacityProp")
    BY <1>3 DEF Exact, SameButWin
  <2>3. ASSUME NEW u \in Win, NEW f \in Copies, (u = x /\ f \in F) \/ e \in Waits(a, u, f)
        PROVE  Exact(b, u, f)
    <3>1. u = x /\ f = "opacityProp"
      BY <1>1, <1>2, <1>3, <2>1, <2>3
    <3> QED
      BY <2>2, <3>1
  <2>4. Changes(a, b, x, F) /\ F \cap {"viewable", "client", "callback", "force"} = {}
    BY <1>3, <2>1
  <2>5. EventRead(a, b, e)
    BY <2>3, <2>4, ReadOne
  <2> QED
    BY <2>5 DEF e
<1>4. CASE x \in Kid /\ b = a /\ (~a.o.clientOpacity \/ Toplevels(a, x) = {})
  <2>1. ASSUME NEW u \in Win, NEW f \in Copies
        PROVE  e \notin Waits(a, u, f)
    BY <1>1, <1>2, <1>4, <2>1 DEF Toplevels
  <2>2. Changes(a, b, x, {})
    BY <1>4, ChangesNothing
  <2>3. EventRead(a, b, e)
    BY <2>1, <2>2, NothingRead
  <2> QED
    BY <2>3 DEF e
<1>5. ASSUME NEW w \in Toplevels(a, x), x \in Kid, a.o.clientOpacity,
             Changes(a, b, w, {"opacityClient"}), SameButWin(a, b, w),
             Rewritten(a.win[w], b.win[w], {"opacityClient"}),
             b.win[w].opacityClient = a.srv[x].opacity
      PROVE  EventRead(a, b, Of("opacity", x))
  <2>1. PICK F : F = {"opacityClient"}
    OBVIOUS
  <2>2. w \in Win /\ Toplevels(a, x) = {w} /\ a.win[w].client = x
    BY <1>5, ToplevelsOne DEF Toplevels
  <2>3. b.win[w].client = x /\ x \notin {None, w}
    <3>1. b.win[w].client = a.win[w].client
      BY <1>5 DEF Rewritten, Kept
    <3> QED
      BY <1>1, <1>5, <2>2, <3>1, ConfigAssumption DEF Xid
  <2>4. Exact(b, w, "opacityClient")
    BY <1>5, <2>3 DEF Exact, ClientOpacity, SameButWin
  <2>5. ASSUME NEW u \in Win, NEW f \in Copies, (u = w /\ f \in F) \/ e \in Waits(a, u, f)
        PROVE  Exact(b, u, f)
    <3>1. CASE u = w /\ f \in F
      BY <2>1, <2>4, <3>1
    <3>2. CASE e \in Waits(a, u, f)
      <4>1. f = "opacityClient" /\ x = a.win[u].client
        BY <1>1, <1>2, <1>5, <3>2
      <4>2. u = w
        BY <2>2, <4>1 DEF Toplevels
      <4> QED
        BY <2>4, <4>1, <4>2
    <3> QED
      BY <2>5, <3>1, <3>2
  <2>6. Changes(a, b, w, F) /\ F \cap {"viewable", "client", "callback", "force"} = {}
    BY <1>5, <2>1
  <2>7. EventRead(a, b, e)
    BY <2>5, <2>6, ReadOne
  <2> QED
    BY <2>7 DEF e
<1> QED
  BY <1>3, <1>4, <1>5, OnOpacityIs

LEMMA NoShadowRead ==
  ASSUME NEW a \in Session, NEW x \in Win, NEW b, b = OnNoShadow(a, x)
  PROVE  EventRead(a, b, Of("noShadow", x))
<1> DEFINE e == Of("noShadow", x)
<1>1. a.o.detect \subseteq {"transient", "leader"} /\ x \in Xid
  BY DEF Session, Config, Xid
<1>2. ASSUME NEW u \in Win, NEW f \in Copies, e \in Waits(a, u, f)
      PROVE  f = "noShadow" /\ x = u
  BY <1>1, <1>2, WaitsFor
<1> HIDE DEF e
<1>3. PICK F : F = {"noShadow"}
  OBVIOUS
<1>4. Changes(a, b, x, F) /\ Exact(b, x, "noShadow")
  <2>1. CASE ~a.o.respectShadow
    <3>1. b = a
      BY <1>1, <2>1, OnNoShadowIs
    <3> QED
      BY <2>1, <3>1, ChangesNothing DEF Exact
  <2>2. CASE a.o.respectShadow
    <3>1. Changes(a, b, x, F) /\ b.win[x].noShadow = a.srv[x].noShadow
      BY <1>1, <1>3, <2>2, OnNoShadowIs
    <3>2. b.srv[x].noShadow = a.srv[x].noShadow
      BY <1>1, <3>1, PropsKept
    <3> QED
      BY <3>1, <3>2 DEF Exact
  <2> QED
    BY <2>1, <2>2
<1>5. ASSUME NEW u \in Win, NEW f \in Copies, (u = x /\ f \in F) \/ e \in Waits(a, u, f)
      PROVE  Exact(b, u, f)
  BY <1>2, <1>3, <1>4, <1>5
<1>6. F \cap {"viewable", "client", "callback", "force"} = {}
  BY <1>3
<1>7. EventRead(a, b, e)
  BY <1>4, <1>5, <1>6, ReadOne
<1> QED
  BY <1>7 DEF e

LEMMA ShapeRead ==
  ASSUME NEW a \in Session, NEW x \in Win, NEW b, b = EvShapeNotify(a, x)
  PROVE  EventRead(a, b, Of("shaped", x))
<1> DEFINE e == Of("shaped", x)
<1>1. a.o.detect \subseteq {"transient", "leader"} /\ x \in Xid
  BY DEF Session, Config, Xid
<1>2. ASSUME NEW u \in Win, NEW f \in Copies, e \in Waits(a, u, f)
      PROVE  f = "shaped" /\ x = u
  BY <1>1, <1>2, WaitsFor
<1> HIDE DEF e
<1>3. PICK F : F = {"shaped"}
  OBVIOUS
<1>4. Changes(a, b, x, F) /\ (a.win[x].viewable => b.win[x].shaped = a.srv[x].shaped)
  BY <1>3, EvShapeNotifyIs
<1>5. a.win[x].viewable => Exact(b, x, "shaped")
  <2>1. b.srv[x].shaped = a.srv[x].shaped
    BY <1>1, <1>4, PropsKept
  <2> QED
    BY <1>4, <2>1 DEF Exact
<1>6. ASSUME NEW u \in Win, NEW f \in Copies, a.win[u].viewable,
             (u = x /\ f \in F) \/ e \in Waits(a, u, f)
      PROVE  Exact(b, u, f)
  BY <1>2, <1>3, <1>5, <1>6
<1>7. F \cap {"viewable", "client", "callback", "force"} = {}
  BY <1>3
<1>8. EventRead(a, b, e)
  BY <1>4, <1>6, <1>7, ReadOne
<1> QED
  BY <1>8 DEF e

LEMMA ClientEventRead ==
  ASSUME NEW a \in Session, Framed(a), NEW x \in Xid,
         NEW atom \in {"type", "name", "transient", "leader"},
         NEW b, b = EvPropertyNotify(a, x, atom)
  PROVE  EventRead(a, b, Of(atom, x))
<1> DEFINE e == Of(atom, x)
<1>1. PICK top : top = Toplevels(a, x)
  OBVIOUS
<1>2. b = IF top = {} THEN a ELSE OnClientProperty(a, CHOOSE w \in top : TRUE, atom)
  BY <1>1 DEF EvPropertyNotify
<1>3. a.o.detect \subseteq {"transient", "leader"}
  BY DEF Session, Config
<1>4. ASSUME NEW u \in Win, NEW f \in Copies, e \in Waits(a, u, f)
      PROVE  u \in top /\ f = CopyOf(atom) /\ (f = "leader" => atom \in a.o.detect)
  <2>1. \/ f \in {"name", "type"} /\ atom = f /\ x = a.win[u].client
        \/ f = "leader" /\ atom \in a.o.detect /\ x = a.win[u].client
    BY <1>4, WaitsFor
  <2> QED
    BY <1>1, <1>3, <2>1 DEF CopyOf, Toplevels
<1> HIDE DEF e
<1>5. CASE b = a /\ \A u \in Win, f \in Copies : e \notin Waits(a, u, f)
  <2>1. Changes(a, b, None, {})
    BY <1>5, ChangesNothing
  <2>2. EventRead(a, b, e)
    BY <1>5, <2>1, NothingRead
  <2> QED
    BY <2>2 DEF e
<1>6. CASE top = {}
  BY <1>2, <1>4, <1>5, <1>6
<1>7. CASE top # {}
  <2>1. PICK w \in top : w = CHOOSE v \in top : TRUE
    BY <1>7
  <2>2. w \in Win /\ a.win[w].client = x /\ top = {w}
    <3>1. w \in Win
      BY <1>1, <2>1 DEF Toplevels
    <3> QED
      BY <1>1, <2>1, <3>1, ToplevelsOne
  <2>3. b = OnClientProperty(a, w, atom)
    BY <1>2, <1>7, <2>1
  <2>4. ClientRead(a, b, w, atom)
    BY <2>2, <2>3, OnClientPropertyIs
  <2>5. CASE atom \in {"transient", "leader"} /\ atom \notin a.o.detect
    <3>1. b = a
      BY <2>4, <2>5 DEF ClientRead
    <3>2. \A u \in Win, f \in Copies : e \notin Waits(a, u, f)
      BY <1>4, <2>5 DEF CopyOf
    <3> QED
      BY <1>5, <3>1, <3>2
  <2>6. CASE ~(atom \in {"transient", "leader"} /\ atom \notin a.o.detect)
    <3>1. PICK F : F = {CopyOf(atom)}
      OBVIOUS
    <3>2. Changes(a, b, w, F) /\ F \cap {"viewable", "client", "callback", "force"} = {} /\ "client" \notin F
      BY <2>4, <3>1 DEF ClientRead, CopyOf
    <3>3. b.win[w].client = x /\ b.o = a.o
      <4>1. "client" \in Kept
        BY DEF Kept
      <4>2. b.win[w]["client"] = a.win[w]["client"]
        BY <2>2, <3>2, <4>1, FieldKept
      <4>3. b.o = a.o
        BY <3>2 DEF Changes
      <4> QED
        BY <2>2, <4>2, <4>3
    <3>4. /\ TypeOf(b, x) = TypeOf(a, x) /\ LeaderOf(b, x) = LeaderOf(a, x)
          /\ b.srv[x].name = a.srv[x].name
      BY <3>2, PropsKept
    <3>5. (TrackWdata(b) <=> TrackWdata(a)) /\ (TrackLeader(b) <=> TrackLeader(a))
      BY <3>3, SameTracking
    <3>6. Exact(b, w, CopyOf(atom))
      <4>1. CASE atom = "type"
        <5>1. b.win[w].type = TypeOf(b, x)
          BY <2>2, <2>4, <3>4, <4>1 DEF ClientRead
        <5> QED
          BY <3>3, <4>1, <5>1 DEF Exact, CopyOf
      <4>2. CASE atom = "name"
        <5>1. TrackWdata(b) => b.win[w].name = b.srv[x].name
          BY <2>2, <2>4, <3>4, <3>5, <4>2 DEF ClientRead
        <5> QED
          BY <3>3, <4>2, <5>1 DEF Exact, CopyOf
      <4>3. CASE atom \in {"transient", "leader"}
        <5>1. b.win[w].leader = LeaderOf(b, x)
          BY <2>2, <2>4, <2>6, <3>4, <4>3 DEF ClientRead
        <5> QED
          BY <3>3, <4>3, <5>1 DEF Exact, CopyOf
      <4> QED
        BY <4>1, <4>2, <4>3
    <3>7. ASSUME NEW u \in Win, NEW f \in Copies, (u = w /\ f \in F) \/ e \in Waits(a, u, f)
          PROVE  Exact(b, u, f)
      <4>1. u = w /\ f = CopyOf(atom)
        BY <1>4, <2>2, <3>1, <3>7
      <4> QED
        BY <3>6, <4>1
    <3>8. EventRead(a, b, e)
      BY <3>2, <3>7, ReadOne
    <3> QED
      BY <3>8 DEF e
  <2> QED
    BY <2>5, <2>6
<1> QED
  BY <1>6, <1>7

(* A handler that reads nothing, for an event of nothing that is copied.    *)
LEMMA OtherEventRead ==
  ASSUME NEW a \in Session, NEW e \in Event, e.atom \in {"map", "unmap", "focus", "other", "state"},
         NEW b, Changes(a, b, None, {})
  PROVE  EventRead(a, b, e)
<1>1. e = Of(e.atom, e.x) /\ a.o.detect \subseteq {"transient", "leader"}
  BY DEF Event, Of, Session, Config
<1>2. ASSUME NEW u \in Win, NEW f \in Copies PROVE e \notin Waits(a, u, f)
  <2>1. SUFFICES ASSUME Of(e.atom, e.x) \in Waits(a, u, f) PROVE FALSE
    BY <1>1
  <2>2. \/ e.atom = "opacity"
        \/ f \in {"shaped", "noShadow"} /\ e.atom = f
        \/ f \in {"name", "type"} /\ e.atom = f
        \/ e.atom \in a.o.detect
    BY <2>1, WaitsFor
  <2> QED
    BY <1>1, <2>2
<1> QED
  BY <1>2, NothingRead

LEMMA HandleRead ==
  ASSUME NEW a \in Session, Framed(a), NEW e \in Event, e.atom \notin {"unmap", "state"},
         NEW b, b = Handle(a, e)
  PROVE  EventRead(a, b, e)
<1>1. /\ e = Of(e.atom, e.x) /\ e.x \in Xid /\ e.atom \in Property \cup {"map", "unmap", "focus"}
      /\ e.atom \in {"map", "unmap", "focus", "shaped", "noShadow"} => e.x \in Win
  BY DEF Event, Of
<1>2. PICK x \in Xid : x = e.x
  BY <1>1
<1>3. CASE e.atom = "map"
  <2>1. b = a
    BY <1>3 DEF Handle
  <2> QED
    BY <1>3, <2>1, ChangesNothing, OtherEventRead
<1>4. CASE e.atom = "focus"
  <2>1. Changes(a, b, None, {})
    BY <1>4, RecheckFocusQuiet DEF Handle, Quiet
  <2> QED
    BY <1>4, <2>1, OtherEventRead
<1>5. CASE e.atom = "shaped"
  <2>1. b = EvShapeNotify(a, x) /\ x \in Win
    BY <1>1, <1>2, <1>5 DEF Handle
  <2> QED
    BY <1>1, <1>2, <1>5, <2>1, ShapeRead
<1>6. CASE e.atom \notin {"map", "unmap", "focus", "shaped", "state"}
  <2>1. b = EvPropertyNotify(a, x, e.atom) /\ e.atom \in Property
    BY <1>1, <1>2, <1>6 DEF Handle
  <2>2. CASE e.atom = "opacity"
    BY <1>1, <1>2, <2>1, <2>2, OpacityRead DEF EvPropertyNotify
  <2>3. CASE e.atom = "noShadow"
    BY <1>1, <1>2, <2>1, <2>3, NoShadowRead DEF EvPropertyNotify
  <2>4. CASE e.atom = "other"
    <3>1. b = OnTracked(a, x)
      BY <2>1, <2>4 DEF EvPropertyNotify
    <3>2. Changes(a, b, None, {})
      BY <3>1, OnTrackedIs DEF Still, Quiet
    <3> QED
      BY <2>4, <3>2, OtherEventRead
  <2>5. CASE e.atom \in {"type", "name", "transient", "leader"}
    BY <1>1, <1>2, <2>1, <2>5, ClientEventRead
  <2> QED
    BY <1>6, <2>1, <2>2, <2>3, <2>4, <2>5 DEF Property
<1> QED
  BY <1>3, <1>4, <1>5, <1>6

------------------------------------------------------------------------------
(* Every step keeps the copies right.                                       *)

Settles(st, m) == Fit(st, m) /\ Listening(st, m) /\ Offered(st) /\ Copied(st, m)

LEMMA CopyKept ==
  ASSUME NEW f \in Copies \cup {"client"}
  PROVE  f \in Kept
BY DEF Kept, Copies

(* A step that touches neither a copy nor what windows are mapped.          *)
LEMMA CopiedChanges ==
  ASSUME NEW a, NEW m, Settles(a, m), NEW b, NEW w, NEW F, Changes(a, b, w, F),
         F \cap (Copies \cup {"client", "viewable"}) = {}
  PROVE  Listening(b, m) /\ Copied(b, m)
<1>1. b.mask = a.mask /\ b.o = a.o
  BY DEF Changes
<1>2. ASSUME NEW u \in Win
      PROVE  /\ b.win[u].viewable = a.win[u].viewable /\ b.win[u].client = a.win[u].client
             /\ \A f \in Copies : b.win[u][f] = a.win[u][f]
  <2>1. ASSUME NEW f \in Copies \cup {"client", "viewable"} PROVE b.win[u][f] = a.win[u][f]
    <3>1. f \in Kept /\ f \notin F
      BY DEF Kept, Copies
    <3> QED
      BY <3>1, FieldKept
  <2> QED
    BY <2>1
<1>3. Listening(b, m)
  <2>1. Tracks(b) <=> Tracks(a)
    BY <1>1, SameTracking
  <2> QED
    BY <1>1, <1>2, <2>1 DEF Settles, Listening
<1>4. ASSUME NEW u \in Win, NEW f \in Copies, b.win[u].viewable, u # m
      PROVE  Right(b, u, f)
  <2>1. a.win[u].client \in Family(u)
    BY <1>2, <1>4 DEF Settles, Fit, Framed, FitWin
  <2>2. a.mask[u] /\ Right(a, u, f)
    BY <1>2, <1>4 DEF Settles, Listening, Copied
  <2> QED
    BY <1>2, <2>1, <2>2, RightChanges
<1> QED
  BY <1>3, <1>4 DEF Copied

(* A step outside of the windows and of their properties.                   *)
LEMMA CopiedSteady ==
  ASSUME NEW a, NEW m, Settles(a, m), NEW b, b.o = a.o, b.srv = a.srv, b.mask = a.mask,
         Pending(a) \subseteq Pending(b),
         \A u \in Win : /\ b.win[u].viewable = a.win[u].viewable
                        /\ \A f \in Copies \cup {"client"} : b.win[u][f] = a.win[u][f]
  PROVE  Listening(b, m) /\ Copied(b, m)
<1>1. Tracks(b) <=> Tracks(a)
  BY SameTracking
<1>2. Listening(b, m)
  BY <1>1 DEF Settles, Listening
<1>3. ASSUME NEW u \in Win, NEW f \in Copies, b.win[u].viewable, u # m
      PROVE  Right(b, u, f)
  <2>1. Right(a, u, f)
    BY <1>3 DEF Settles, Copied
  <2>2. Steady(a, b, u)
    BY DEF Steady
  <2> QED
    BY <2>1, <2>2, RightSteady
<1> QED
  BY <1>2, <1>3 DEF Copied

(* The event e is taken from the queue of st, and its handler read what it  *)
(* tells of.                                                                *)
LEMMA RestRight ==
  ASSUME NEW st, NEW a, NEW e, a.o = st.o, a.srv = st.srv, a.mask = st.mask,
         NEW u, a.win[u] = st.win[u], Pending(st) \subseteq Pending(a) \cup {e},
         NEW f \in Copies, Right(st, u, f)
  PROVE  Right(a, u, f) \/ e \in Waits(a, u, f)
<1>1. Waits(a, u, f) = Waits(st, u, f)
  BY DEF Waits
<1>2. ASSUME Exact(st, u, f) PROVE Exact(a, u, f)
  BY <1>2 DEF Exact, TrackWdata, Looked, TrackLeader, EarlyClients, TypeOf, LeaderOf, Guessed,
              ClientOpacity
<1> QED
  BY <1>1, <1>2 DEF Right

LEMMA CopiedRead ==
  ASSUME NEW st, Settles(st, None), NEW a, SameBut(st, a), a.srv = st.srv,
         NEW e, Pending(st) \subseteq Pending(a) \cup {e}, NEW b, EventRead(a, b, e)
  PROVE  Listening(b, None) /\ Copied(b, None)
<1>1. PICK w, F : Changes(a, b, w, F) /\ F \cap {"viewable", "client", "callback", "force"} = {}
  BY DEF EventRead
<1>2. /\ b.mask = st.mask /\ b.o = st.o /\ a.o = st.o /\ a.mask = st.mask /\ a.win = st.win
  BY <1>1 DEF Changes, SameBut
<1>3. ASSUME NEW u \in Win
      PROVE  /\ b.win[u].viewable = st.win[u].viewable
             /\ b.win[u].client = st.win[u].client
  <2>1. F \cap {"viewable", "client", "callback"} = {}
    BY <1>1
  <2> QED
    BY <1>1, <1>2, <2>1, FitFields
<1>4. Listening(b, None)
  <2>1. Tracks(b) <=> Tracks(st)
    BY <1>2, SameTracking
  <2> QED
    BY <1>2, <1>3, <2>1 DEF Settles, Listening
<1>5. ASSUME NEW u \in Win, NEW f \in Copies, b.win[u].viewable
      PROVE  Right(b, u, f)
  <2>1. None \notin Win
    BY ConfigAssumption DEF Xid
  <2>2. st.win[u].viewable /\ Right(st, u, f) /\ a.mask[u] /\ a.win[u].client \in Family(u)
    BY <1>2, <1>3, <1>5, <2>1 DEF Settles, Copied, Listening, Fit, Framed, FitWin
  <2>3. Right(a, u, f) \/ e \in Waits(a, u, f)
    BY <1>2, <2>2, RestRight
  <2>4. CASE Exact(b, u, f)
    BY <2>4 DEF Right
  <2>5. CASE b.win[u][f] = a.win[u][f] /\ e \notin Waits(a, u, f)
    <3>1. "client" \notin F
      BY <1>1
    <3> QED
      BY <1>1, <2>2, <2>3, <2>5, <3>1, RightChanges
  <2> QED
    BY <1>2, <2>2, <2>4, <2>5 DEF EventRead
<1> QED
  BY <1>4, <1>5 DEF Copied

(* The listening and the copies of the windows other than w, which is m.    *)
LEMMA CopiedBut ==
  ASSUME NEW a, NEW m, Settles(a, m), NEW w \in Win, NEW b, b.o = a.o, b.srv = a.srv,
         Pending(a) \subseteq Pending(b), NEW x \in Xid,
         x = w \/ Toplevels(a, x) \subseteq {w},
         x \in Win => x = w,
         \A y \in Xid : y \notin {w, x} => b.mask[y] = a.mask[y],
         \A u \in Win : u # w => b.win[u] = a.win[u]
  PROVE  \A u \in Win : u # w /\ b.win[u].viewable =>
           /\ b.mask[u] /\ (u # m /\ Tracks(b) => b.mask[b.win[u].client])
           /\ u # m => \A f \in Copies : Right(b, u, f)
<1>1. SUFFICES ASSUME NEW u \in Win, u # w, b.win[u].viewable
               PROVE  /\ b.mask[u] /\ (u # m /\ Tracks(b) => b.mask[b.win[u].client])
                      /\ u # m => \A f \in Copies : Right(b, u, f)
  OBVIOUS
<1>2. b.win[u] = a.win[u] /\ a.win[u].viewable /\ a.mask[u] /\ u \in Xid
  BY <1>1 DEF Settles, Listening, Xid
<1>3. Tracks(b) <=> Tracks(a)
  BY SameTracking
<1>4. b.mask[u]
  BY <1>1, <1>2
<1>5. ASSUME u # m
      PROVE  /\ Tracks(b) => b.mask[b.win[u].client]
             /\ \A f \in Copies : Right(b, u, f)
  <2>1. a.win[u].client \in Family(u) /\ a.win[u].client \in Xid
    BY <1>2, <1>5, FamilyXid DEF Settles, Fit, Framed, FitWin
  <2>2. a.win[u].client # w
    <3>1. w \in Family(w)
      BY DEF Family
    <3> QED
      BY <1>1, <2>1, <3>1, FamilyOne
  <2>3. a.win[u].client # x
    BY <1>1, <2>1, <2>2 DEF Toplevels
  <2>4. b.mask[a.win[u].client] = a.mask[a.win[u].client]
    BY <2>1, <2>2, <2>3
  <2>5. Tracks(a) => a.mask[a.win[u].client]
    BY <1>2, <1>5 DEF Settles, Listening
  <2>6. Steady(a, b, u)
    BY <1>2, <2>4 DEF Steady
  <2>7. \A f \in Copies : Right(a, u, f)
    BY <1>2, <1>5 DEF Settles, Copied
  <2> QED
    BY <1>2, <1>3, <2>4, <2>5, <2>6, <2>7, RightSteady
<1> QED
  BY <1>2, <1>4, <1>5

(* map_win selects the events of w.                                         *)
LEMMA CopiedMapSelect ==
  ASSUME NEW a, Settles(a, None), NEW w \in Win, NEW b, b = MapSelect(a, w)
  PROVE  Listening(b, w) /\ Copied(b, w)
<1>1. a \in Session /\ w \in Xid
  BY DEF Settles, Fit, Xid
<1>2. /\ SameButWin(a, b, w)
      /\ b.mask[w] /\ \A x \in Xid : x # w => b.mask[x] = a.mask[x]
  BY <1>1, MapSelectIs
<1>3. \A u \in Win : u # None
  BY ConfigAssumption DEF Xid
<1>4. /\ b.o = a.o /\ b.srv = a.srv /\ Pending(a) \subseteq Pending(b)
      /\ \A u \in Win : u # w => b.win[u] = a.win[u]
  BY <1>2 DEF SameButWin
<1>5. \A u \in Win : u # w /\ b.win[u].viewable =>
        /\ b.mask[u] /\ (u # None /\ Tracks(b) => b.mask[b.win[u].client])
        /\ u # None => \A f \in Copies : Right(b, u, f)
  BY <1>1, <1>2, <1>4, CopiedBut
<1> QED
  BY <1>2, <1>3, <1>5 DEF Listening, Copied

(* unmap_win ends the events of w and of its client.                        *)
LEMMA CopiedUnmapWin ==
  ASSUME NEW a, Settles(a, None), NEW w \in Win, a.win[w].viewable, NEW b, b = UnmapWin(a, w)
  PROVE  Listening(b, None) /\ Copied(b, None)
<1>1. a \in Session
  BY DEF Settles, Fit
<1>2. PICK d : b = EvStop(d, w) /\ Unmapped(a, d, w)
  BY <1>1, UnmapWinIs
<1>3. Changes(a, d, w, UnmapFields) /\ d.win[w].viewable = FALSE
  BY <1>2 DEF Unmapped
<1>4. d \in Session /\ d.o = a.o /\ d.mask = a.mask
  BY <1>3 DEF Changes
<1>5. /\ SameButMask(d, b)
      /\ \A x \in Xid : b.mask[x] <=> d.mask[x] /\ x \notin {w, d.win[w].client}
  BY <1>2, <1>4, EvStopIs
<1>6. /\ b.win = d.win /\ b.o = d.o /\ b.srv = d.srv /\ Pending(b) = Pending(d)
  BY <1>5 DEF SameButMask
<1>7. None \notin Win
  BY ConfigAssumption DEF Xid
<1>8. d.win[w].client \in Family(w) \cup {None}
  <2>1. "client" \in Kept \ UnmapFields
    BY DEF Kept, UnmapFields
  <2>2. d.win[w]["client"] = a.win[w]["client"]
    BY <1>3, <2>1, FieldKept
  <2> QED
    BY <2>2 DEF Settles, Fit, Framed
<1>9. ASSUME NEW u \in Win, b.win[u].viewable
      PROVE  /\ b.mask[u] /\ (Tracks(b) => b.mask[b.win[u].client])
             /\ \A f \in Copies : Right(b, u, f)
  <2>1. u # w /\ u \in Xid
    BY <1>3, <1>6, <1>9 DEF Xid
  <2>2. ASSUME NEW f \in Kept PROVE d.win[u][f] = a.win[u][f]
    BY <1>3, <2>1, <2>2, FieldKept
  <2>3. a.win[u].viewable /\ d.win[u].client = a.win[u].client
    BY <1>6, <1>9, <2>2 DEF Kept
  <2>4. a.win[u].client \in Family(u) /\ a.win[u].client \in Xid
    BY <1>7, <2>3, FamilyXid DEF Settles, Fit, Framed, FitWin
  <2>5. u \in Family(u) /\ w \in Family(w)
    BY DEF Family
  <2>6. u \notin {w, d.win[w].client} /\ a.win[u].client \notin {w, d.win[w].client}
    <3>1. u # None /\ a.win[u].client # None
      BY <1>7, <2>4, ConfigAssumption
    <3> QED
      BY <1>8, <2>1, <2>4, <2>5, <3>1, FamilyOne
  <2>7. a.mask[u] /\ (Tracks(a) => a.mask[a.win[u].client])
    BY <1>7, <2>3 DEF Settles, Listening
  <2>8. Tracks(b) <=> Tracks(a)
    BY <1>4, <1>6, SameTracking
  <2>9. b.mask[u] /\ (Tracks(b) => b.mask[b.win[u].client])
    BY <1>4, <1>5, <1>6, <2>1, <2>3, <2>4, <2>6, <2>7, <2>8
  <2>10. Steady(d, b, u)
    BY <1>5, <1>6, <2>3, <2>4 DEF Steady
  <2>11. ASSUME NEW f \in Copies PROVE Right(b, u, f)
    <3>1. Right(a, u, f)
      BY <1>7, <2>3 DEF Settles, Copied
    <3>2. d.win[u][f] = a.win[u][f]
      BY <2>2, CopyKept
    <3>3. "client" \notin UnmapFields
      BY DEF UnmapFields
    <3>4. Right(d, u, f)
      BY <1>3, <2>4, <2>7, <3>1, <3>2, <3>3, RightChanges
    <3> QED
      BY <2>10, <3>4, RightSteady
  <2> QED
    BY <2>9, <2>11
<1> QED
  BY <1>9 DEF Listening, Copied

(* The client of w became c, and its copies were read.                      *)
LEMMA CopiedMarking ==
  ASSUME NEW a, NEW m, Settles(a, m), NEW w \in Win, m \in {None, w}, NEW c, c \in Family(w),
         NEW k, Marking(a, k, w, c), NEW b, NEW F, Changes(k, b, w, F),
         F \cap {"client", "viewable"} = {}, a.win[w].viewable => a.mask[w],
         \A f \in Copies : b.win[w].viewable => Right(b, w, f)
  PROVE  Listening(b, None) /\ Copied(b, None)
<1>1. a \in Session /\ c \in Xid /\ w \in Xid /\ Framed(a)
  BY FamilyXid DEF Settles, Fit, Xid
<1>2. /\ k \in Session /\ k.o = a.o /\ k.srv = a.srv /\ Pending(k) = Pending(a)
      /\ \A u \in Win : u # w => k.win[u] = a.win[u]
      /\ \A y \in Xid : y \notin {c, w} => k.mask[y] = a.mask[y]
      /\ a.win[w].viewable /\ a.mask[w] => k.mask[w]
      /\ a.win[w].viewable /\ Tracks(a) => k.mask[c]
      /\ k.win[w].client = c /\ k.win[w].viewable = a.win[w].viewable
  BY <1>1 DEF Marking, SameButWin, Rewritten, Kept
<1>3. Toplevels(a, c) \subseteq {w} /\ (c \in Win => c = w)
  <2>1. ASSUME NEW u \in Win, a.win[u].client = c PROVE u = w
    <3>1. c # None
      BY <1>1, ConfigAssumption
    <3>2. c \in Family(u)
      BY <1>1, <2>1, <3>1 DEF Framed
    <3> QED
      BY <3>2, FamilyOne
  <2>2. ASSUME c \in Win PROVE c = w
    <3>1. c \in Family(c)
      BY <2>2 DEF Family
    <3> QED
      BY <2>2, <3>1, FamilyOne
  <2> QED
    BY <2>1, <2>2 DEF Toplevels
<1>4. \A u \in Win : u # w /\ k.win[u].viewable =>
        /\ k.mask[u] /\ (u # m /\ Tracks(k) => k.mask[k.win[u].client])
        /\ u # m => \A f \in Copies : Right(k, u, f)
  BY <1>1, <1>2, <1>3, CopiedBut
<1>5. /\ b.mask = k.mask /\ b.o = k.o
      /\ \A u \in Win : /\ b.win[u].viewable = k.win[u].viewable
                        /\ b.win[u].client = k.win[u].client
  <2>1. ASSUME NEW u \in Win, NEW f \in {"viewable", "client"}
        PROVE  b.win[u][f] = k.win[u][f]
    <3>1. f \in Kept /\ f \notin F
      BY DEF Kept
    <3> QED
      BY <3>1, FieldKept
  <2> QED
    BY <2>1 DEF Changes
<1>6. (Tracks(b) <=> Tracks(a)) /\ (Tracks(k) <=> Tracks(a))
  BY <1>2, <1>5, SameTracking
<1>7. None \notin Win
  BY ConfigAssumption DEF Xid
<1>8. ASSUME NEW u \in Win, u # w, b.win[u].viewable
      PROVE  /\ b.mask[u] /\ (Tracks(b) => b.mask[b.win[u].client])
             /\ \A f \in Copies : Right(b, u, f)
  <2>1. /\ k.mask[u] /\ (Tracks(k) => k.mask[k.win[u].client])
        /\ \A f \in Copies : Right(k, u, f)
    BY <1>4, <1>5, <1>7, <1>8
  <2>2. k.win[u].client \in Family(u)
    BY <1>2, <1>5, <1>7, <1>8 DEF Settles, Fit, Framed, FitWin
  <2>3. ASSUME NEW f \in Copies PROVE Right(b, u, f)
    <3>1. b.win[u][f] = k.win[u][f]
      BY <1>8, CopyKept, FieldKept
    <3>2. "client" \notin F
      OBVIOUS
    <3> QED
      BY <2>1, <2>2, <3>1, <3>2, RightChanges
  <2> QED
    BY <1>5, <1>6, <2>1, <2>3
<1>9. b.win[w].viewable => b.mask[w] /\ (Tracks(b) => b.mask[b.win[w].client])
  BY <1>2, <1>5, <1>6
<1> QED
  BY <1>8, <1>9 DEF Listening, Copied

LEMMA CopiedMapRead ==
  ASSUME NEW a, NEW w \in Win, Settles(a, w), NEW b, b = MapRead(a, w)
  PROVE  Listening(b, None) /\ Copied(b, None)
<1>1. /\ a \in Session /\ a.win[w].viewable /\ a.win[w].client \in Family(w) \cup {None}
      /\ None \notin Win /\ a.mask[w] /\ w \in Xid
  BY ConfigAssumption DEF Settles, Fit, Framed, Xid, Listening
<1>2. PICK t, c : /\ MapTarget(a, w, t, c)
                  /\ Changes(Marked(t, w, c), b, w, ReadFields)
                  /\ Read(Marked(t, w, c), b, w, c)
  BY <1>1, MapReadAll
<1>3. PICK k : k = Marked(t, w, c)
  OBVIOUS
<1>4. Marking(a, k, w, c) /\ c \in Xid /\ c \in Family(w)
  BY <1>1, <1>2, <1>3, MapTargetMarks
<1>5. Changes(k, b, w, ReadFields) /\ Read(k, b, w, c)
  BY <1>2, <1>3
<1>6. k.mask[w] /\ k.win[w].client = c
  BY <1>1, <1>4 DEF Marking
<1>7. b.o = k.o /\ b.mask = k.mask
  BY <1>5 DEF Changes
<1>8. b.win[w].client = c
  <2>1. "client" \in Kept \ ReadFields
    BY DEF Kept, ReadFields
  <2>2. b.win[w]["client"] = k.win[w]["client"]
    BY <1>5, <2>1, FieldKept
  <2> QED
    BY <1>6, <2>2
<1>9. /\ TypeOf(b, c) = TypeOf(k, c) /\ LeaderOf(b, c) = LeaderOf(k, c)
      /\ b.srv[c].name = k.srv[c].name
  BY <1>4, <1>5, PropsKept
<1>10. b.srv[w].shaped = k.srv[w].shaped /\ b.srv[w].noShadow = k.srv[w].noShadow
  BY <1>1, <1>5, PropsKept
<1>11. /\ TrackWdata(b) <=> TrackWdata(k)
       /\ TrackLeader(b) <=> TrackLeader(k)
  BY <1>7, SameTracking
<1>14. /\ b.win[w].type = TypeOf(k, c)
       /\ TrackLeader(k) => b.win[w].leader = LeaderOf(k, c)
       /\ TrackWdata(k) => b.win[w].name = k.srv[c].name
       /\ b.win[w].shaped = k.srv[w].shaped
       /\ k.o.respectShadow => b.win[w].noShadow = k.srv[w].noShadow
       /\ b.win[w].opacityClient = ClientOpacity(b, w)
  BY <1>5, Zenon DEF Read
<1>12. ASSUME NEW f \in Copies PROVE Right(b, w, f)
  <2>1. CASE f = "opacityProp"
    BY <1>5, <1>6, <2>1 DEF Read, Right, Exact, Waits
  <2>2. CASE f # "opacityProp"
    <3>1. CASE f = "shaped"
      BY <1>14, <1>10, <3>1 DEF Exact, Right
    <3>2. CASE f = "noShadow"
      BY <1>14, <1>7, <1>10, <3>2 DEF Exact, Right
    <3>3. CASE f = "name"
      BY <1>14, <1>8, <1>9, <1>11, <3>3 DEF Exact, Right
    <3>4. CASE f = "opacityClient"
      BY <1>14, <3>4 DEF Exact, Right
    <3>5. CASE f = "type"
      BY <1>14, <1>8, <1>9, <3>5 DEF Exact, Right
    <3>6. CASE f = "leader"
      BY <1>14, <1>8, <1>9, <1>11, <3>6 DEF Exact, Right
    <3> QED
      BY <2>2, <3>1, <3>2, <3>3, <3>4, <3>5, <3>6 DEF Copies, Right
  <2> QED
    BY <2>1, <2>2
<1>13. ReadFields \cap {"client", "viewable"} = {}
  BY DEF ReadFields
<1> QED
  BY <1>1, <1>4, <1>5, <1>12, <1>13, CopiedMarking

(* A window that got WM_STATE late is adopted as the client of its frame.   *)
LEMMA CopiedAdopted ==
  ASSUME NEW a, Settles(a, None), ~EarlyClients(a), NEW w \in Win, NEW x \in Kid, x \in Family(w),
         NEW b, Adopted(a, b, w, x)
  PROVE  Listening(b, None) /\ Copied(b, None)
<1>1. PICK k : /\ Marking(a, k, w, x)
               /\ IF a.win[w].viewable
                  THEN Changes(k, b, w, {"type", "leader", "name"}) /\ CopiedAll(k, b, w, x)
                  ELSE b = k
  BY DEF Adopted
<1>2. PICK F : F = {"type", "leader", "name"}
  OBVIOUS
<1>3. /\ a \in Session /\ w \in Xid /\ x \in Xid /\ None \notin Win
  BY ConfigAssumption DEF Settles, Fit, Xid
<1>4. /\ k \in Session /\ k.o = a.o /\ k.srv = a.srv /\ Pending(k) = Pending(a)
      /\ k.win[w].client = x /\ k.win[w].viewable = a.win[w].viewable
      /\ \A f \in {"opacityProp", "shaped", "noShadow"} : k.win[w][f] = a.win[w][f]
      /\ a.win[w].viewable /\ a.mask[w] => k.mask[w]
  BY <1>1 DEF Marking, SameButWin, Rewritten, Kept
<1>5. Changes(k, b, w, F)
  BY <1>1, <1>2, <1>4, ChangesNothing
<1>6. b.o = a.o /\ ~EarlyClients(b)
  <2>1. b.o = a.o
    BY <1>4, <1>5 DEF Changes
  <2> QED
    BY <2>1, SameTracking
<1>7. ASSUME NEW f \in {"viewable", "client", "opacityProp", "shaped", "noShadow"}
      PROVE  b.win[w][f] = k.win[w][f]
  <2>1. f \in Kept /\ f \notin F
    BY <1>2 DEF Kept
  <2> QED
    BY <1>5, <2>1, FieldKept
<1>8. /\ TypeOf(b, x) = TypeOf(k, x) /\ LeaderOf(b, x) = LeaderOf(k, x)
      /\ b.srv[x].name = k.srv[x].name
  BY <1>3, <1>5, PropsKept
<1>9. (TrackWdata(b) <=> TrackWdata(k)) /\ (TrackLeader(b) <=> TrackLeader(k))
  BY <1>4, <1>6, SameTracking
<1>10. ASSUME NEW f \in Copies, b.win[w].viewable PROVE Right(b, w, f)
  <2>1. a.win[w].viewable /\ CopiedAll(k, b, w, x) /\ b.win[w].client = x
    BY <1>1, <1>4, <1>7, <1>10
  <2>2. CASE f = "type"
    BY <1>8, <2>1, <2>2 DEF CopiedAll, Exact, Right
  <2>3. CASE f = "name"
    BY <1>8, <1>9, <2>1, <2>3 DEF CopiedAll, Exact, Right
  <2>4. CASE f = "leader"
    BY <1>8, <1>9, <2>1, <2>4 DEF CopiedAll, Exact, Right
  <2>5. CASE f = "opacityClient"
    BY <1>6, <2>5 DEF Exact, Right
  <2>6. CASE f \in {"opacityProp", "shaped", "noShadow"}
    <3>1. Right(a, w, f) /\ k.mask[w]
      BY <1>3, <1>4, <2>1 DEF Settles, Copied, Listening
    <3>2. Right(k, w, f)
      BY <1>4, <2>6, <3>1 DEF Right, Exact, Waits
    <3> QED
      <4>1. k.win[w].client \in Family(w) /\ "client" \notin F
        BY <1>2, <1>4
      <4>2. b.win[w][f] = k.win[w][f]
        BY <1>7, <2>6
      <4> QED
        BY <1>5, <3>1, <3>2, <4>1, <4>2, RightChanges
  <2> QED
    BY <2>2, <2>3, <2>4, <2>5, <2>6 DEF Copies
<1>11. F \cap {"client", "viewable"} = {} /\ (a.win[w].viewable => a.mask[w])
  BY <1>2 DEF Settles, Listening
<1> QED
  BY <1>1, <1>5, <1>10, <1>11, CopiedMarking

LEMMA CopiedOnState ==
  ASSUME NEW a, Settles(a, None), ~EarlyClients(a), NEW x \in Kid, NEW b, b = OnState(a, x)
  PROVE  Listening(b, None) /\ Copied(b, None)
<1>1. PICK w \in Win : w = Parent[x]
  BY WinDataAssumption
<1>2. a \in Session /\ x \in Xid /\ x \in Family(w) /\ x \notin Win /\ w \in Xid
  BY <1>1, ConfigAssumption DEF Settles, Fit, Xid, Family
<1>3. CASE Toplevels(a, x) # {}
  BY <1>1, <1>2, <1>3, OnStateIs DEF Settles
<1>4. CASE Toplevels(a, x) = {}
  <2>1. PICK t : /\ SameButMask(a, t) /\ \A y \in Xid : y # x => t.mask[y] = a.mask[y]
                 /\ b = t \/ Adopted(t, b, w, x)
    BY <1>1, <1>2, <1>4, OnStateIs
  <2>2. /\ t \in Session /\ t.o = a.o /\ t.srv = a.srv /\ Pending(t) = Pending(a)
        /\ t.win = a.win /\ t.activeWin = a.activeWin
    BY <2>1 DEF SameButMask
  <2>3. ~EarlyClients(t) /\ (Tracks(t) <=> Tracks(a))
    BY <2>2, SameTracking
  <2>4. ASSUME NEW u \in Win, t.win[u].viewable
        PROVE  /\ t.mask[u] /\ (Tracks(t) => t.mask[t.win[u].client])
               /\ \A f \in Copies : Right(t, u, f)
    <3>1. u \in Xid /\ u # x /\ u # None
      BY <1>2, ConfigAssumption DEF Xid
    <3>2. a.win[u].viewable /\ a.win[u].client \in Family(u) /\ a.win[u].client \in Xid
      BY <2>2, <2>4, <3>1, FamilyXid DEF Settles, Fit, Framed, FitWin
    <3>3. a.win[u].client # x
      BY <1>4 DEF Toplevels
    <3>4. t.mask[u] = a.mask[u] /\ t.mask[a.win[u].client] = a.mask[a.win[u].client]
      BY <2>1, <3>1, <3>2, <3>3
    <3>5. Steady(a, t, u)
      BY <2>2, <3>4 DEF Steady
    <3>6. ASSUME NEW f \in Copies PROVE Right(t, u, f)
      <4>1. Right(a, u, f)
        BY <3>1, <3>2 DEF Settles, Copied
      <4> QED
        BY <3>5, <4>1, RightSteady
    <3>7. a.mask[u] /\ (Tracks(a) => a.mask[a.win[u].client])
      BY <3>1, <3>2 DEF Settles, Listening
    <3> QED
      BY <2>2, <2>3, <3>4, <3>6, <3>7
  <2>5. Settles(t, None)
    BY <2>2, <2>3, <2>4 DEF Settles, Listening, Copied, Offered, Fit, Framed
  <2> QED
    BY <1>2, <2>1, <2>3, <2>5, CopiedAdopted DEF Settles
<1> QED
  BY <1>3, <1>4

(* A client changes a property, and tells whoever asked for its events.     *)
LEMMA CopiedWritten ==
  ASSUME NEW a, NEW m, Settles(a, m), NEW x \in Xid, NEW atom \in Property, NEW v, NEW b,
         Written(a, b, x, atom, v), atom \in a.o.offered
  PROVE  Listening(b, m) /\ Copied(b, m)
<1>1. /\ b.o = a.o /\ b.win = a.win /\ b.mask = a.mask
      /\ b.srv[x] = [a.srv[x] EXCEPT ![atom] = v]
      /\ \A y \in Xid : y # x => b.srv[y] = a.srv[y]
      /\ Pending(a) \subseteq Pending(b)
      /\ a.mask[x] => Of(atom, x) \in Pending(b)
  BY DEF Written, Outside
<1>2. a.srv[x] \in Props /\ a.o.detect \subseteq {"transient", "leader"} /\ Win \subseteq Xid
  BY DEF Settles, Fit, Session, Config, Xid
<1>3. ASSUME NEW y \in Xid, NEW f \in Property
      PROVE  b.srv[y][f] = a.srv[y][f] \/ (y = x /\ f = atom)
  <2>1. \A g \in Property : g # atom => b.srv[x][g] = a.srv[x][g]
    BY <1>1, <1>2 DEF Props, Property
  <2> QED
    BY <1>1, <2>1
<1>4. /\ TrackWdata(b) <=> TrackWdata(a)
      /\ TrackLeader(b) <=> TrackLeader(a)
      /\ EarlyClients(b) <=> EarlyClients(a)
      /\ Tracks(b) <=> Tracks(a)
  BY <1>1, SameTracking
<1>5. Listening(b, m)
  BY <1>1, <1>4 DEF Settles, Listening
<1>6. ASSUME NEW u \in Win, NEW f \in Copies, b.win[u].viewable, u # m
      PROVE  Right(b, u, f)
  <2>1. PICK c : c = a.win[u].client
    OBVIOUS
  <2>2. /\ c \in Family(u) /\ c \in Xid /\ u \in Xid /\ b.win[u] = a.win[u]
        /\ a.mask[u] /\ (Tracks(a) => a.mask[c])
        /\ Right(a, u, f)
    BY <1>1, <1>2, <1>6, <2>1, FamilyXid DEF Settles, Fit, Framed, FitWin, Listening, Copied
  <2>3. Waits(b, u, f) = Waits(a, u, f)
    BY <1>1, <2>2, WaitsSame
  <2>4. CASE Waits(a, u, f) \cap Pending(a) # {}
    BY <1>1, <2>3, <2>4 DEF Right
  <2>5. CASE Exact(a, u, f)
    <3>1. ASSUME NEW y \in Xid, NEW g \in Property, a.mask[y], Of(g, y) \in Waits(a, u, f),
                 b.srv[y][g] # a.srv[y][g]
          PROVE  Right(b, u, f)
      <4>1. y = x /\ g = atom
        BY <1>3, <3>1
      <4> QED
        BY <1>1, <2>3, <3>1, <4>1 DEF Right
    <3>2. CASE f = "opacityProp"
      <4>1. Of("opacity", u) \in Waits(a, u, f)
        BY <3>2 DEF Waits
      <4>2. CASE b.srv[u].opacity = a.srv[u].opacity
        BY <2>2, <2>5, <3>2, <4>2 DEF Right, Exact
      <4> QED
        BY <2>2, <3>1, <4>1, <4>2 DEF Property
    <3>3. CASE f \in {"shaped", "noShadow"}
      <4>1. Of(f, u) \in Waits(a, u, f) /\ f \in Property
        BY <3>3 DEF Waits, Property
      <4>2. CASE b.srv[u][f] = a.srv[u][f]
        <5>1. CASE f = "shaped"
          BY <2>2, <2>5, <4>2, <5>1 DEF Right, Exact
        <5>2. CASE f = "noShadow"
          BY <1>1, <2>2, <2>5, <4>2, <5>2 DEF Right, Exact
        <5> QED
          BY <3>3, <5>1, <5>2
      <4> QED
        BY <2>2, <3>1, <4>1, <4>2
    <3>4. CASE f = "name"
      <4>1. Of("name", c) \in Waits(a, u, f)
        BY <2>1, <3>4 DEF Waits
      <4>2. CASE b.srv[c].name = a.srv[c].name \/ ~TrackWdata(a)
        BY <1>4, <2>1, <2>2, <2>5, <3>4, <4>2 DEF Right, Exact
      <4>3. CASE TrackWdata(a) /\ b.srv[c].name # a.srv[c].name
        <5>1. a.mask[c] /\ "name" \in Property
          BY <2>2, <4>3 DEF Tracks, Property
        <5> QED
          BY <2>2, <3>1, <4>1, <4>3, <5>1
      <4> QED
        BY <4>2, <4>3
    <3>5. CASE f = "opacityClient"
      <4>1. CASE a.o.clientOpacity /\ c \notin {None, u} /\ b.srv[c].opacity # a.srv[c].opacity
        <5>1. c \in Kid
          BY <2>2, <4>1 DEF Family
        <5>2. Of("opacity", c) \in Waits(a, u, f) /\ a.mask[c] /\ "opacity" \in Property
          BY <2>1, <2>2, <3>5, <4>1, <5>1 DEF Waits, Tracks, Property
        <5> QED
          BY <2>2, <3>1, <4>1, <5>2
      <4>2. CASE ~(a.o.clientOpacity /\ c \notin {None, u} /\ b.srv[c].opacity # a.srv[c].opacity)
        <5>1. ClientOpacity(b, u) = ClientOpacity(a, u)
          BY <1>1, <2>1, <4>2 DEF ClientOpacity
        <5> QED
          BY <1>4, <2>2, <2>5, <3>5, <5>1 DEF Right, Exact
      <4> QED
        BY <4>1, <4>2
    <3>6. CASE f = "type"
      <4>1. CASE a.mask[c] /\ b.srv[c].type # a.srv[c].type
        <5>1. Of("type", c) \in Waits(a, u, f) /\ "type" \in Property
          BY <2>1, <3>6 DEF Waits, Property
        <5> QED
          BY <2>2, <3>1, <4>1, <5>1
      <4>2. CASE b.srv[c].type = a.srv[c].type /\ b.srv[c].transient = a.srv[c].transient
        <5>1. TypeOf(b, c) = TypeOf(a, c) /\ (Guessed(b, c) <=> Guessed(a, c))
          BY <1>1, <4>2 DEF TypeOf, Guessed
        <5> QED
          BY <1>1, <2>1, <2>2, <2>5, <3>6, <5>1 DEF Right, Exact
      <4>3. CASE b.srv[c].type = a.srv[c].type /\ b.srv[c].transient # a.srv[c].transient
        <5>1. atom = "transient"
          BY <1>3, <2>2, <4>3 DEF Property
        <5>2. CASE a.srv[c].type = "none"
          <6>1. Guessed(b, c)
            BY <1>1, <4>3, <5>1, <5>2 DEF Guessed
          <6> QED
            BY <2>1, <2>2, <3>6, <6>1 DEF Right, Exact
        <5>3. CASE a.srv[c].type # "none"
          <6>1. TypeOf(b, c) = TypeOf(a, c) /\ (Guessed(b, c) <=> Guessed(a, c))
            BY <4>3, <5>3 DEF TypeOf, Guessed
          <6> QED
            BY <1>1, <2>1, <2>2, <2>5, <3>6, <6>1 DEF Right, Exact
        <5> QED
          BY <5>2, <5>3
      <4>4. CASE ~a.mask[c]
        BY <1>1, <2>1, <2>2, <3>6, <4>4 DEF Right, Exact
      <4> QED
        BY <4>1, <4>2, <4>3, <4>4
    <3>7. CASE f = "leader"
      <4>1. ASSUME NEW g \in a.o.detect, a.mask[c], b.srv[c][g] # a.srv[c][g]
            PROVE  Right(b, u, f)
        <5>1. Of(g, c) \in Waits(a, u, f) /\ g \in Property
          BY <1>2, <2>1, <3>7 DEF Waits, Property
        <5> QED
          BY <2>2, <3>1, <4>1, <5>1
      <4>2. CASE \A g \in a.o.detect : b.srv[c][g] = a.srv[c][g]
        <5>1. LeaderOf(b, c) = LeaderOf(a, c)
          BY <1>1, <1>2, <4>2 DEF LeaderOf
        <5> QED
          BY <1>1, <1>4, <2>1, <2>2, <2>5, <3>7, <5>1 DEF Right, Exact
      <4>3. CASE ~a.mask[c]
        BY <1>1, <2>1, <2>2, <3>7, <4>3 DEF Right, Exact
      <4> QED
        BY <4>1, <4>2, <4>3
    <3> QED
      BY <3>2, <3>3, <3>4, <3>5, <3>6, <3>7 DEF Copies
  <2> QED
    BY <2>2, <2>4, <2>5 DEF Right
<1> QED
  BY <1>5, <1>6 DEF Copied

LEMMA OfferedKept ==
  ASSUME NEW a, Offered(a), NEW b, b.o = a.o,
         EarlyClients(a) => \A e \in Pending(b) : e \in Pending(a) \/ e.atom # "state"
  PROVE  Offered(b)
BY SameTracking DEF Offered

LEMMA OfferedChanges ==
  ASSUME NEW a, Offered(a), NEW b, NEW w, NEW F, Changes(a, b, w, F)
  PROVE  Offered(b)
BY OfferedKept DEF Changes

LEMMA SettlesEvent ==
  ASSUME NEW st, Settles(st, None), st.queue # <<>>, NEW e, e = Head(st.queue),
         NEW a, a = Rest(st), NEW b, b = Handle(a, e)
  PROVE  Listening(b, None) /\ Copied(b, None) /\ Offered(b)
<1>1. st \in Session
  BY DEF Settles, Fit
<1>2. /\ SameBut(st, a) /\ a.srv = st.srv /\ e \in Event /\ e \in Pending(st)
      /\ Pending(a) \subseteq Pending(st) /\ Pending(st) \subseteq Pending(a) \cup {e}
  BY <1>1, RestIs
<1>3. a \in Session /\ a.o = st.o /\ Framed(a)
  BY <1>2 DEF SameBut, Settles, Fit, Framed
<1>4. Offered(a)
  BY <1>2, <1>3, OfferedKept DEF Settles
<1>5. CASE e.atom \notin {"unmap", "state"}
  <2>1. EventRead(a, b, e)
    BY <1>2, <1>3, <1>5, HandleRead
  <2>2. Offered(b)
    BY <1>4, <2>1, OfferedChanges DEF EventRead
  <2> QED
    BY <1>2, <2>1, <2>2, CopiedRead
<1>6. CASE e.atom \in {"unmap", "state"}
  <2>1. EventRead(a, a, e)
    BY <1>2, <1>3, <1>6, ChangesNothing, OtherEventRead
  <2>2. Listening(a, None) /\ Copied(a, None)
    BY <1>2, <2>1, CopiedRead
  <2>3. Fit(a, None)
    BY <1>2 DEF Settles, Fit, SameBut, Framed
  <2>4. Settles(a, None)
    BY <1>4, <2>2, <2>3 DEF Settles
  <2>5. CASE e.atom = "unmap"
    <3>1. PICK w \in Win : w = e.x
      BY <1>2, <2>5 DEF Event
    <3>2. b = UnmapWin(a, w)
      BY <2>5, <3>1 DEF Handle
    <3>3. CASE ~a.win[w].viewable
      <4>1. b = a
        BY <3>2, <3>3, Zenon DEF UnmapWin
      <4> QED
        BY <1>4, <2>2, <4>1
    <3>4. CASE a.win[w].viewable
      <4>1. PICK d : b = EvStop(d, w) /\ Unmapped(a, d, w)
        BY <1>3, <3>2, <3>4, UnmapWinIs
      <4>2. Changes(a, d, w, UnmapFields) /\ d \in Session
        BY <4>1 DEF Unmapped, Changes
      <4>3. Offered(d)
        BY <1>4, <4>2, OfferedChanges
      <4>4. Offered(b)
        BY <4>1, <4>2, <4>3, EvStopIs, OfferedKept DEF SameButMask
      <4> QED
        BY <2>4, <3>2, <3>4, <4>4, CopiedUnmapWin
    <3> QED
      BY <3>3, <3>4
  <2>6. CASE e.atom = "state"
    <3>1. PICK x \in Kid : x = e.x
      BY <1>2, <2>6 DEF Event
    <3>2. b = OnState(a, x)
      BY <2>6, <3>1 DEF Handle, EvPropertyNotify
    <3>3. ~EarlyClients(a)
      BY <1>2, <1>3, <2>6, SameTracking DEF Settles, Offered
    <3>4. b.o = a.o
      <4>1. PICK w \in Win : w = Parent[x]
        BY WinDataAssumption
      <4>2. CASE Toplevels(a, x) # {}
        BY <1>3, <3>2, <4>1, <4>2, OnStateIs
      <4>3. CASE Toplevels(a, x) = {}
        <5>1. PICK t : SameButMask(a, t) /\ (b = t \/ Adopted(t, b, w, x))
          BY <1>3, <3>2, <4>1, <4>3, OnStateIs
        <5>2. t.o = a.o
          BY <5>1 DEF SameButMask
        <5>3. Adopted(t, b, w, x) => b.o = t.o
          BY DEF Adopted, Marking, SameButWin, Changes
        <5> QED
          BY <5>1, <5>2, <5>3
      <4> QED
        BY <4>2, <4>3
    <3>5. Offered(b)
      BY <1>4, <3>3, <3>4, OfferedKept
    <3> QED
      BY <2>4, <3>2, <3>3, <3>5, CopiedOnState
  <2> QED
    BY <1>6, <2>5, <2>6
<1> QED
  BY <1>5, <1>6

LEMMA SettlesMapSelect ==
  ASSUME NEW st, Settles(st, None), st.queue # <<>>,
         NEW a, a = Rest(st), NEW w \in Win, Head(st.queue).atom = "map",
         NEW b, b = MapSelect(a, w)
  PROVE  Listening(b, w) /\ Copied(b, w) /\ Offered(b)
<1>1. PICK e : e = Head(st.queue)
  OBVIOUS
<1>2. st \in Session
  BY DEF Settles, Fit
<1>3. /\ SameBut(st, a) /\ a.srv = st.srv /\ e \in Event
      /\ Pending(a) \subseteq Pending(st) /\ Pending(st) \subseteq Pending(a) \cup {e}
  BY <1>1, <1>2, RestIs
<1>4. a \in Session /\ a.o = st.o /\ e.atom = "map"
  BY <1>1, <1>3 DEF SameBut
<1>5. EventRead(a, a, e)
  BY <1>3, <1>4, ChangesNothing, OtherEventRead
<1>6. Listening(a, None) /\ Copied(a, None)
  BY <1>3, <1>5, CopiedRead
<1>7. Fit(a, None)
  BY <1>3 DEF Settles, Fit, SameBut, Framed
<1>8. Offered(a)
  BY <1>3, <1>4, OfferedKept DEF Settles
<1>9. Settles(a, None)
  BY <1>6, <1>7, <1>8 DEF Settles
<1>10. Offered(b)
  <2>1. SameButWin(a, b, w)
    BY <1>4, MapSelectIs
  <2> QED
    BY <1>8, <2>1, OfferedKept DEF SameButWin
<1> QED
  BY <1>9, <1>10, CopiedMapSelect

LEMMA SettlesMapRead ==
  ASSUME NEW a, NEW w \in Win, Settles(a, w), NEW b, b = MapRead(a, w)
  PROVE  Listening(b, None) /\ Copied(b, None) /\ Offered(b)
<1>1. a \in Session /\ a.win[w].viewable /\ a.win[w].client \in Family(w) \cup {None}
  BY ConfigAssumption DEF Settles, Fit, Framed, Xid
<1>2. PICK t, c : /\ MapTarget(a, w, t, c)
                  /\ Changes(Marked(t, w, c), b, w, ReadFields)
  BY <1>1, MapReadAll
<1>3. PICK k : k = Marked(t, w, c)
  OBVIOUS
<1>4. Marking(a, k, w, c)
  BY <1>1, <1>2, <1>3, MapTargetMarks
<1>5. Offered(k)
  BY <1>4, OfferedKept DEF Marking, SameButWin, Settles
<1>6. Offered(b)
  BY <1>2, <1>3, <1>5, OfferedChanges
<1> QED
  BY <1>6, CopiedMapRead

LEMMA SettlesChanges ==
  ASSUME NEW a, NEW m, Settles(a, m), NEW b, NEW w, NEW F, Changes(a, b, w, F),
         F \cap (Copies \cup {"client", "viewable"}) = {}
  PROVE  Listening(b, m) /\ Copied(b, m) /\ Offered(b)
BY CopiedChanges, OfferedChanges DEF Settles

LEMMA SettlesSteady ==
  ASSUME NEW a, NEW m, Settles(a, m), NEW b, b.o = a.o, b.srv = a.srv, b.mask = a.mask,
         Pending(a) \subseteq Pending(b),
         \A e \in Pending(b) : e \in Pending(a) \/ e.atom # "state",
         \A u \in Win : /\ b.win[u].viewable = a.win[u].viewable
                        /\ \A f \in Copies \cup {"client"} : b.win[u][f] = a.win[u][f]
  PROVE  Listening(b, m) /\ Copied(b, m) /\ Offered(b)
BY CopiedSteady, OfferedKept DEF Settles

LEMMA SettlesNext ==
  ASSUME Settles(s, mapping), [Next]_vars
  PROVE  Settles(s', mapping')
<1>1. s \in Session /\ Fit(s', mapping')
  BY FitNext DEF Settles, Fit
<1>2. SUFFICES Listening(s', mapping') /\ Copied(s', mapping') /\ Offered(s')
  BY <1>1 DEF Settles
<1>3. CASE HandleEvent
  <2>1. PICK e : e = Head(s.queue)
    OBVIOUS
  <2>2. PICK a : a = Rest(s)
    OBVIOUS
  <2>3. mapping = None /\ s.queue # <<>>
    BY <1>3 DEF HandleEvent
  <2>4. e \in Event /\ a.win = s.win
    BY <1>1, <2>1, <2>2, <2>3, RestIs DEF SameBut
  <2>5. \/ e.atom = "map" /\ ~a.win[e.x].viewable /\ s' = MapSelect(a, e.x) /\ mapping' = e.x
        \/ s' = Handle(a, e) /\ mapping' = None
    BY <1>3, <2>1, <2>2, <2>4, Zenon DEF HandleEvent, Received, Rest
  <2>6. CASE e.atom = "map" /\ s' = MapSelect(a, e.x) /\ mapping' = e.x
    <3>1. e.x \in Win
      BY <2>4, <2>6 DEF Event
    <3> QED
      BY <2>1, <2>2, <2>3, <2>6, <3>1, SettlesMapSelect
  <2>7. CASE s' = Handle(a, e) /\ mapping' = None
    BY <2>1, <2>2, <2>3, <2>7, SettlesEvent
  <2> QED
    BY <2>5, <2>6, <2>7
<1>4. CASE FinishMapWin
  <2>1. mapping \in Win /\ s' = MapRead(s, mapping) /\ mapping' = None
    BY <1>4 DEF FinishMapWin, Settles, Fit
  <2> QED
    BY <2>1, SettlesMapRead
<1>5. CASE Paint
  <2>1. mapping' = mapping /\ \E shown : s' = Painted(s, shown)
    BY <1>5 DEF Paint
  <2>2. PICK b : b = s'
    OBVIOUS
  <2>3. /\ b.srv = s.srv /\ b.mask = s.mask /\ Pending(b) = Pending(s) /\ b.o = s.o
        /\ \A w \in Win : Shown(s.win[w], b.win[w])
    BY <1>1, <2>1, <2>2, PaintedIs
  <2>4. ASSUME NEW u \in Win
        PROVE  /\ b.win[u].viewable = s.win[u].viewable
               /\ \A f \in Copies \cup {"client"} : b.win[u][f] = s.win[u][f]
    BY <2>3 DEF Shown, Kept, Copies
  <2> QED
    BY <2>1, <2>2, <2>3, <2>4, SettlesSteady
<1>6. CASE DBus
  <2>1. mapping' = mapping
    BY <1>6 DEF DBus
  <2>2. PICK b : b = s'
    OBVIOUS
  <2>3. PICK a \in Session : a = s
    BY <1>1
  <2>4. ASSUME NEW w \in Win, NEW d \in Forced, NEW value \in Switch, b = SetForce(a, w, d, value)
        PROVE  Listening(b, mapping) /\ Copied(b, mapping) /\ Offered(b)
    <3>1. PICK F : F = {"force"}
      OBVIOUS
    <3>2. Changes(a, b, w, F) /\ F \cap (Copies \cup {"client", "viewable"}) = {}
      BY <2>4, <3>1, SetForceIs DEF Copies
    <3> QED
      BY <2>3, <3>2, SettlesChanges
  <2>5. ASSUME b = SetOpenclose(a)
        PROVE  Listening(b, mapping) /\ Copied(b, mapping) /\ Offered(b)
    <3>1. PICK c : c = Reopened(a) /\ Still(c, b)
      BY <2>5, SetOpencloseIs
    <3>2. /\ c \in Session /\ c.win = a.win /\ c.activeWin = a.activeWin /\ c.srv = a.srv
          /\ c.mask = a.mask /\ Pending(c) = Pending(a) /\ c.o = a.o
      BY <3>1, ReopenedIs
    <3>3. Listening(c, mapping) /\ Copied(c, mapping) /\ Offered(c)
      BY <2>3, <3>2, SettlesSteady
    <3>4. Settles(c, mapping)
      BY <2>3, <3>2, <3>3 DEF Settles, Fit, Framed
    <3>5. Changes(c, b, None, {})
      BY <3>1 DEF Still, Quiet
    <3> QED
      BY <3>4, <3>5, SettlesChanges
  <2>6. s.o.shown \subseteq Win
    BY <1>1 DEF Session, Config
  <2> QED
    BY <1>6, <2>1, <2>2, <2>3, <2>4, <2>5, <2>6 DEF DBus
<1>7. ASSUME NEW w \in Win, FadeDone(w)
      PROVE  Listening(s', mapping') /\ Copied(s', mapping') /\ Offered(s')
  <2>1. PICK F : F = {"inOpenclose", "callback"}
    OBVIOUS
  <2>2. Changes(s, s', w, F) /\ mapping' = mapping
    BY <1>1, <1>7, <2>1, RunCallbackIs DEF FadeDone
  <2>3. F \cap (Copies \cup {"client", "viewable"}) = {}
    BY <2>1 DEF Copies
  <2> QED
    BY <2>2, <2>3, SettlesChanges
<1>8. ASSUME NEW w \in Win, SetMapped(w) \/ SetFocus(w)
      PROVE  Listening(s', mapping') /\ Copied(s', mapping') /\ Offered(s')
  <2>1. /\ Outside(s, s') /\ s'.srv = s.srv /\ mapping' = mapping
        /\ \A e \in Pending(s') : e \in Pending(s) \/ e.atom \in {"map", "unmap", "focus"}
    BY <1>1, <1>8, SetMappedIs, SetFocusIs
  <2> QED
    BY <2>1, SettlesSteady DEF Outside
<1>9. ASSUME NEW x \in Xid, NEW atom \in Property, SetProperty(x, atom)
      PROVE  Listening(s', mapping') /\ Copied(s', mapping') /\ Offered(s')
  <2>1. PICK v \in Values(x, atom) : Written(s, s', x, atom, v)
    BY <1>1, <1>9, SetPropertyIs
  <2>2. mapping' = mapping /\ atom \in s.o.offered
    BY <1>1, <1>9, SetPropertyIs
  <2>3. Offered(s')
    <3>1. s'.o = s.o /\ Pending(s') \subseteq Pending(s) \cup {Of(atom, x)}
      BY <2>1 DEF Written, Outside
    <3>2. EarlyClients(s) => \A e \in Pending(s') : e \in Pending(s) \/ e.atom # "state"
      BY <2>2, <3>1 DEF EarlyClients, Of
    <3> QED
      BY <3>1, <3>2, OfferedKept DEF Settles
  <2> QED
    BY <2>1, <2>2, <2>3, CopiedWritten
<1>10. CASE UNCHANGED vars
  BY <1>10 DEF vars, Settles
<1> QED
  BY <1>3, <1>4, <1>5, <1>6, <1>7, <1>8, <1>9, <1>10 DEF Next

LEMMA SettlesInit ==
  ASSUME Init
  PROVE  Settles(s, mapping)
<1>1. Fit(s, mapping)
  BY FitInit
<1>2. PICK o \in Configs, late \in SUBSET Kid :
        s = [o |-> o, win |-> [w \in Win |-> NewWin], activeWin |-> None, activeLeader |-> None,
             srv |-> [x \in Xid |-> NewProps(x, x \in Kid \ late)],
             mask |-> [x \in Xid |-> x \in late], mapped |-> [w \in Win |-> FALSE],
             focus |-> None, queue |-> <<>>, openclose |-> o.openclose]
  BY DEF Init
<1>3. \A w \in Win : ~s.win[w].viewable
  BY <1>2 DEF NewWin
<1>4. Pending(s) = {}
  BY <1>2 DEF Pending
<1> QED
  BY <1>1, <1>3, <1>4 DEF Settles, Listening, Copied, Offered

LEMMA ExactWhenSettled ==
  ASSUME Settles(s, mapping), NEW w \in Win, Settled(w), NEW f \in Copies
  PROVE  Exact(s, w, f)
<1>1. s \in Session /\ s.win[w].viewable /\ Right(s, w, f)
  BY DEF Settled, Settles, Fit, Copied
<1>2. ASSUME NEW e \in Waits(s, w, f) PROVE e.x \in {w, s.win[w].client}
  BY <1>2 DEF Waits, Of, Copies
<1>3. \A e \in Pending(s) : e.x \notin {w, s.win[w].client}
  BY DEF Settled, Pending
<1> QED
  BY <1>1, <1>2, <1>3 DEF Right

(* Once no event of a viewable window waits, what compton has copied of it  *)
(* is what the server has: map_win selects events before it reads, and no   *)
(* handler drops what an event told.                                        *)
THEOREM CopiesAreFresh == Spec => []CopiesFresh
<1>1. Init => Settles(s, mapping)
  BY SettlesInit
<1>2. Settles(s, mapping) /\ [Next]_vars => Settles(s, mapping)'
  BY SettlesNext
<1>3. Settles(s, mapping) => CopiesFresh
  <2>1. SUFFICES ASSUME Settles(s, mapping), NEW w \in Win, Settled(w)
        PROVE  LET v == s.win[w]
                   frame == s.srv[w]
                   client == s.srv[v.client]
                   guessed == client.type = "none" /\ "transient" \in s.o.offered
               IN  /\ v.opacityProp = frame.opacity
                   /\ v.shaped = frame.shaped
                   /\ s.o.respectShadow => v.noShadow = frame.noShadow
                   /\ TrackWdata(s) => v.name = client.name
                   /\ EarlyClients(s) => v.opacityClient = ClientOpacity(s, w)
                   /\ s.mask[v.client] /\ ~guessed => UpdWintype(s, w) = s
                   /\ s.mask[v.client] /\ TrackLeader(s) => UpdateLeader(s, w) = s
    BY DEF CopiesFresh
  <2>2. PICK c : c = s.win[w].client
    OBVIOUS
  <2>3. s \in Session /\ s.win[w].viewable /\ c \in Xid
    BY <2>1, <2>2, FamilyXid DEF Settled, Settles, Fit, Framed, FitWin
  <2>4. \A f \in Copies : Exact(s, w, f)
    BY <2>1, ExactWhenSettled
  <2>5. /\ s.win[w].opacityProp = s.srv[w].opacity
        /\ s.win[w].shaped = s.srv[w].shaped
        /\ s.o.respectShadow => s.win[w].noShadow = s.srv[w].noShadow
        /\ TrackWdata(s) => s.win[w].name = s.srv[c].name
        /\ EarlyClients(s) => s.win[w].opacityClient = ClientOpacity(s, w)
        /\ s.mask[c] => s.win[w].type = TypeOf(s, c) \/ Guessed(s, c)
        /\ s.mask[c] /\ TrackLeader(s) => s.win[w].leader = LeaderOf(s, c)
    <3>1. Exact(s, w, "opacityProp") /\ Exact(s, w, "shaped") /\ Exact(s, w, "noShadow")
      BY <2>4 DEF Copies
    <3>2. Exact(s, w, "name") /\ Exact(s, w, "opacityClient")
      BY <2>4 DEF Copies
    <3>3. Exact(s, w, "type") /\ Exact(s, w, "leader")
      BY <2>4 DEF Copies
    <3>4. /\ s.win[w].opacityProp = s.srv[w].opacity
          /\ s.win[w].shaped = s.srv[w].shaped
          /\ s.o.respectShadow => s.win[w].noShadow = s.srv[w].noShadow
      BY <3>1 DEF Exact
    <3>5. /\ TrackWdata(s) => s.win[w].name = s.srv[c].name
          /\ EarlyClients(s) => s.win[w].opacityClient = ClientOpacity(s, w)
      BY <2>2, <3>2 DEF Exact
    <3>6. /\ s.mask[c] => s.win[w].type = TypeOf(s, c) \/ Guessed(s, c)
          /\ s.mask[c] /\ TrackLeader(s) => s.win[w].leader = LeaderOf(s, c)
      BY <2>2, <3>3 DEF Exact
    <3> QED
      BY <3>4, <3>5, <3>6
  <2>6. ASSUME s.mask[c], ~Guessed(s, c) PROVE UpdWintype(s, w) = s
    BY <2>2, <2>3, <2>5, <2>6, UpdWintypeIs
  <2>7. ASSUME s.mask[c], TrackLeader(s) PROVE UpdateLeader(s, w) = s
    <3>1. UpdateLeader(s, w) = SetLeader(s, w, s.win[w].leader)
      BY <2>2, <2>5, <2>7, UpdateLeaderIs
    <3> QED
      BY <3>1, Zenon DEF SetLeader
  <2> QED
    BY <2>2, <2>5, <2>6, <2>7 DEF Guessed
<1> QED
  BY <1>1, <1>2, <1>3, PTL DEF Spec

------------------------------------------------------------------------------
(* The active group.                                                        *)

(* Every leader, the one a client asks for and the one of a window, is one  *)
(* that the groups allow; a window without a client has none.               *)
Allowed(st) ==
  \A x \in Xid : /\ st.srv[x].transient \in st.o.groups[x] \cup {None}
                 /\ st.srv[x].leader \in st.o.groups[x] \cup {None}

Led(st) ==
  \A u \in Win : /\ \/ st.win[u].leader = None
                    \/ \E z \in Family(u) : st.win[u].leader \in st.o.groups[z]
                 /\ st.win[u].client = None => st.win[u].leader = None

Heads(st) ==
  st.activeLeader = IF st.activeWin = None THEN None ELSE Up(st.win[st.activeWin])

Lead(st) == Grounded(st.win) /\ Allowed(st) /\ Led(st) /\ Heads(st)

LEMMA FrameIs ==
  ASSUME NEW u \in Win, NEW z \in Family(u)
  PROVE  Frame(z) = u /\ z \in Xid
<1>1. Win \cap Kid = {}
  BY ConfigAssumption
<1> QED
  BY <1>1, FamilyXid DEF Frame, Family

(* Without waypoints whoever is asked leads itself.                         *)
LEMMA RootedTops ==
  ASSUME NEW st, Rooted(st), Framed(st), Led(st), NEW u \in Win, NEW v \in Win,
         Up(st.win[v]) # None, st.win[u].client = Up(st.win[v])
  PROVE  Up(st.win[u]) = st.win[u].client
<1>1. st.win[u].client \in Family(u)
  BY DEF Framed
<1>2. CASE st.win[v].leader = None
  <2>1. Up(st.win[v]) = st.win[v].client
    BY <1>2 DEF Up
  <2>2. st.win[v].client \in Family(v)
    BY <2>1 DEF Framed
  <2>3. u = v
    BY <1>1, <2>1, <2>2, FamilyOne
  <2> QED
    BY <2>1, <2>3
<1>3. CASE st.win[v].leader # None
  <2>1. PICK y : y = st.win[u].client
    OBVIOUS
  <2>2. st.win[v].leader = y
    BY <1>3, <2>1 DEF Up
  <2>3. PICK x \in Family(v) : y \in st.o.groups[x]
    BY <1>3, <2>2 DEF Led
  <2>4. x \in Xid /\ y \in Xid /\ Frame(y) = u
    BY <1>1, <2>1, FrameIs
  <2>5. ASSUME NEW z \in Family(u) PROVE st.o.groups[z] \subseteq {None}
    <3>1. Frame(z) = Frame(y) /\ z \in Xid
      BY <2>4, FrameIs
    <3> QED
      BY <2>3, <2>4, <3>1 DEF Rooted
  <2>6. st.win[u].leader = None
    BY <2>5 DEF Led
  <2> QED
    BY <2>6 DEF Up
<1> QED
  BY <1>2, <1>3

LEMMA GroundedWhenRooted ==
  ASSUME NEW st, Rooted(st), Framed(st), Led(st),
         \A v \in Win : st.win[v].cache \in {None, Up(st.win[v])}
  PROVE  Grounded(st.win)
BY RootedTops DEF Grounded

(* A step that moves neither the focus nor a leader.                        *)
LEMMA LeadWins ==
  ASSUME NEW a, Lead(a), NEW b, b.o = a.o, Grounded(b.win),
         \A x \in Xid : b.srv[x].transient = a.srv[x].transient /\ b.srv[x].leader = a.srv[x].leader,
         \A u \in Win : b.win[u].leader = a.win[u].leader /\ b.win[u].client = a.win[u].client
  PROVE  /\ Allowed(b) /\ Led(b)
         /\ \A u \in Win : Up(b.win[u]) = Up(a.win[u])
BY DEF Lead, Allowed, Led, Up

LEMMA LeadFields ==
  ASSUME NEW a, Lead(a), NEW b, NEW w, NEW F, Changes(a, b, w, F), F \cap {"leader", "client"} = {}
  PROVE  /\ Allowed(b) /\ Led(b) /\ Grounded(b.win)
         /\ \A u \in Win : Up(b.win[u]) = Up(a.win[u])
<1>1. Grounded(b.win)
  BY UpKept DEF Lead
<1>2. \A x \in Xid : b.srv[x].transient = a.srv[x].transient /\ b.srv[x].leader = a.srv[x].leader
  BY PropsKept
<1>3. ASSUME NEW u \in Win
      PROVE  b.win[u].leader = a.win[u].leader /\ b.win[u].client = a.win[u].client
  <2>1. ASSUME NEW f \in {"leader", "client"} PROVE b.win[u][f] = a.win[u][f]
    <3>1. f \in Kept /\ f \notin F
      BY DEF Kept
    <3> QED
      BY <3>1, FieldKept
  <2> QED
    BY <2>1
<1>4. b.o = a.o
  BY DEF Changes
<1> QED
  BY <1>1, <1>2, <1>3, <1>4, LeadWins

LEMMA LeadChanges ==
  ASSUME NEW a \in Session, Lead(a), NEW b, NEW w, NEW F, Changes(a, b, w, F),
         F \cap {"leader", "client"} = {},
         b.activeWin = a.activeWin, b.activeLeader = a.activeLeader
  PROVE  Lead(b)
<1>1. /\ Allowed(b) /\ Led(b) /\ Grounded(b.win)
      /\ \A u \in Win : Up(b.win[u]) = Up(a.win[u])
  BY LeadFields
<1>2. Heads(b)
  BY <1>1 DEF Lead, Heads, Session
<1> QED
  BY <1>1, <1>2 DEF Lead

LEMMA LeadStill ==
  ASSUME NEW a, Lead(a), NEW b, Still(a, b)
  PROVE  Lead(b)
BY LeadChanges DEF Still, Quiet

(* The windows of a session, with another active one.                       *)
LEMMA ActiveIs ==
  ASSUME NEW st \in Session, NEW w \in Win \cup {None}, NEW b, b = Active(st, w)
  PROVE  /\ b \in Session /\ b.win = st.win /\ b.activeWin = w
         /\ b.activeLeader = st.activeLeader /\ b.o = st.o
BY DEF Active, Session

LEMMA FocusLeaderIs ==
  ASSUME NEW st \in Session, TrackLeader(st), Grounded(st.win), NEW w \in Win
  PROVE  FocusLeader(st, w) =
           IF st.activeWin = w THEN Up(st.win[w])
           ELSE IF /\ Up(st.win[w]) # None /\ Up(st.win[w]) = st.activeLeader
                   /\ ~GroupIsFocused(GotLeader(st, w), Up(st.win[w]))
           THEN None ELSE st.activeLeader
<1>1. Leader(st, w) = Up(st.win[w])
  BY GroundedLeader
<1>2. PICK c : c = GotLeader(st, w)
  OBVIOUS
<1>3. c.activeWin = st.activeWin /\ c.activeLeader = st.activeLeader
  BY <1>2, GotLeaderStill DEF Still
<1>4. FocusLeader(st, w) = NextLeader(c, w, Up(st.win[w]))
  BY <1>1, <1>2 DEF FocusLeader
<1> QED
  BY <1>2, <1>3, <1>4 DEF NextLeader

LEMMA LeadLoseFocus ==
  ASSUME NEW st \in Session, TrackLeader(st), Lead(st), NEW w \in Win, NEW b, b = LoseFocus(st, w)
  PROVE  Lead(b)
<1>1. /\ Quiet(st, b)
      /\ b.activeWin = IF st.activeWin # w \/ ~st.win[w].viewable THEN st.activeWin ELSE None
      /\ b.activeLeader = IF st.activeWin # w \/ ~st.win[w].viewable THEN st.activeLeader
                          ELSE FocusLeader(Active(st, None), w)
  BY LoseFocusQuiet
<1>2. CASE st.activeWin # w \/ ~st.win[w].viewable
  BY <1>1, <1>2, LeadChanges DEF Quiet
<1>3. CASE ~(st.activeWin # w \/ ~st.win[w].viewable)
  <2>1. None \notin Win
    BY ConfigAssumption DEF Xid
  <2>2. PICK c : c = Active(st, None)
    OBVIOUS
  <2>3. /\ c \in Session /\ c.win = st.win /\ c.activeWin = None
        /\ c.activeLeader = st.activeLeader /\ c.o = st.o
    BY <2>2, ActiveIs
  <2>4. TrackLeader(c) /\ Grounded(c.win)
    BY <2>3, SameTracking DEF Lead
  <2>5. st.activeLeader = Up(st.win[w])
    BY <1>3, <2>1 DEF Lead, Heads
  <2>6. ~GroupIsFocused(GotLeader(c, w), Up(c.win[w]))
    <3>1. GotLeader(c, w).activeWin = None
      BY <2>3, GotLeaderStill DEF Still
    <3> QED
      BY <2>1, <3>1 DEF GroupIsFocused
  <2>7. FocusLeader(c, w) = None
    BY <2>1, <2>3, <2>4, <2>5, <2>6, FocusLeaderIs
  <2>8. b.activeLeader = None /\ b.activeWin = None
    BY <1>1, <1>3, <2>2, <2>7
  <2>9. Allowed(b) /\ Led(b) /\ Grounded(b.win)
    BY <1>1, LeadFields DEF Quiet
  <2> QED
    BY <2>8, <2>9 DEF Lead, Heads
<1> QED
  BY <1>2, <1>3

LEMMA LeadGainFocus ==
  ASSUME NEW st \in Session, TrackLeader(st), Lead(st), NEW w \in Win, NEW b, b = GainFocus(st, w)
  PROVE  Lead(b)
<1>1. /\ Quiet(st, b)
      /\ b.activeWin = IF st.activeWin = w \/ ~st.win[w].viewable THEN st.activeWin ELSE w
      /\ b.activeLeader = IF st.activeWin = w \/ ~st.win[w].viewable THEN st.activeLeader
                          ELSE FocusLeader(Active(Unfocused(st), w), w)
  BY GainFocusQuiet
<1>2. CASE st.activeWin = w \/ ~st.win[w].viewable
  BY <1>1, <1>2, LeadChanges DEF Quiet
<1>3. CASE ~(st.activeWin = w \/ ~st.win[w].viewable)
  <2>1. None \notin Win
    BY ConfigAssumption DEF Xid
  <2>2. PICK u : u = Unfocused(st)
    OBVIOUS
  <2>3. Quiet(st, u) /\ u \in Session /\ u.o = st.o
    BY <2>2, UnfocusedQuiet DEF Quiet, Changes
  <2>4. PICK c : c = Active(u, w)
    OBVIOUS
  <2>5. c \in Session /\ c.win = u.win /\ c.activeWin = w /\ c.o = u.o
    BY <2>3, <2>4, ActiveIs
  <2>6. Grounded(u.win) /\ \A v \in Win : Up(u.win[v]) = Up(st.win[v])
    BY <2>3, LeadFields DEF Quiet
  <2>7. TrackLeader(c)
    BY <2>3, <2>5, SameTracking
  <2>8. FocusLeader(c, w) = Up(st.win[w])
    BY <2>5, <2>6, <2>7, FocusLeaderIs
  <2>9. b.activeLeader = Up(st.win[w]) /\ b.activeWin = w
    BY <1>1, <1>3, <2>2, <2>4, <2>8
  <2>10. /\ Allowed(b) /\ Led(b) /\ Grounded(b.win)
         /\ \A v \in Win : Up(b.win[v]) = Up(st.win[v])
    BY <1>1, LeadFields DEF Quiet
  <2> QED
    BY <2>1, <2>9, <2>10 DEF Lead, Heads
<1> QED
  BY <1>2, <1>3

LEMMA LeadRecheckFocus ==
  ASSUME NEW st \in Session, TrackLeader(st), Lead(st), NEW b, b = RecheckFocus(st)
  PROVE  Lead(b)
BY LeadGainFocus DEF RecheckFocus, Session

LedTo(st, b, w, c, leader) ==
  /\ Framed(b) /\ Led(b) /\ Allowed(b) /\ b.o = st.o
  /\ \A u \in Win : u # w => Up(b.win[u]) = Up(st.win[u])
  /\ Up(b.win[w]) = IF leader # None THEN leader ELSE c
  /\ leader = st.win[w].leader => Up(b.win[w]) = Up(st.win[w])

(* The leader of w becomes the one its client asks for.                     *)
LEMMA LedSet ==
  ASSUME NEW st \in Session, Framed(st), Lead(st), NEW w \in Win, NEW c \in Family(w),
         st.win[w].client = c, NEW leader, leader \in st.o.groups[c] \cup {None},
         NEW F, F = {"leader"}, NEW b, Changes(st, b, w, F), b.win[w].leader = leader
  PROVE  LedTo(st, b, w, c, leader)
<1>1. b.o = st.o
  BY DEF Changes
<1>2. \A x \in Xid : b.srv[x].transient = st.srv[x].transient /\ b.srv[x].leader = st.srv[x].leader
  BY PropsKept
<1>3. \A u \in Win : b.win[u].client = st.win[u].client
  BY FieldKept DEF Kept
<1>4. \A u \in Win : u # w => b.win[u].leader = st.win[u].leader
  BY FieldKept DEF Kept
<1>5. Framed(b)
  BY <1>3 DEF Framed
<1>6. Allowed(b)
  BY <1>1, <1>2 DEF Lead, Allowed
<1>7. c # None
  BY FamilyXid, ConfigAssumption
<1>8. ASSUME NEW u \in Win
      PROVE  /\ \/ b.win[u].leader = None
                \/ \E z \in Family(u) : b.win[u].leader \in b.o.groups[z]
             /\ b.win[u].client = None => b.win[u].leader = None
  <2>1. CASE u = w
    BY <1>1, <1>3, <1>7, <2>1
  <2>2. CASE u # w
    BY <1>1, <1>3, <1>4, <2>2 DEF Lead, Led
  <2> QED
    BY <2>1, <2>2
<1>9. Led(b)
  BY <1>8 DEF Led
<1> QED
  BY <1>1, <1>3, <1>4, <1>5, <1>6, <1>9 DEF LedTo, Up

LEMMA LeadSetLeader ==
  ASSUME NEW st \in Session, Rooted(st), Framed(st), Lead(st), NEW w \in Win, NEW c \in Family(w),
         st.win[w].client = c, NEW leader, leader = LeaderOf(st, c),
         NEW b, b = SetLeader(st, w, leader)
  PROVE  Lead(b)
<1>1. c \in Xid
  BY FamilyXid
<1>2. leader \in st.o.groups[c] \cup {None} /\ leader \in Leaders
  BY <1>1, TypeOfType DEF LeaderOf, Lead, Allowed
<1>3. PICK d : d = Cleared(st, w, leader)
  OBVIOUS
<1>4. /\ Changes(st, d, w, {"leader"}) /\ d.win[w].leader = leader
      /\ \A v \in Win : d.win[v].cache = None
  BY <1>2, <1>3, ClearedWindows
<1>5. /\ Changes(st, b, w, {"leader"}) /\ b.activeWin = st.activeWin
      /\ b.win[w].leader = leader
      /\ b.activeLeader =
           IF /\ leader # st.win[w].leader /\ st.activeWin = w
              /\ Leader(st, w) # Leader(d, w)
           THEN Leader(d, w) ELSE st.activeLeader
      /\ Grounded(st.win) /\ Grounded(d.win) => Grounded(b.win)
  BY <1>2, <1>3, SetLeaderIs
<1>6. /\ Framed(d) /\ Led(d) /\ d.o = st.o /\ d \in Session
      /\ Up(d.win[w]) = IF leader # None THEN leader ELSE c
  <2>1. leader \in st.o.groups[c] \cup {None}
    BY <1>2
  <2>2. PICK F : F = {"leader"}
    OBVIOUS
  <2>3. Changes(st, d, w, F) /\ d.win[w].leader = leader
    BY <1>4, <2>2
  <2>4. d \in Session
    BY <2>3 DEF Changes
  <2>5. LedTo(st, d, w, c, leader)
    BY <2>1, <2>2, <2>3, LedSet
  <2> QED
    BY <2>4, <2>5 DEF LedTo
<1>7. Grounded(d.win)
  <2>1. Rooted(d)
    BY <1>6 DEF Rooted, EarlyClients
  <2> QED
    BY <1>4, <1>6, <2>1, GroundedWhenRooted
<1>8. /\ Led(b) /\ Allowed(b)
      /\ \A u \in Win : u # w => Up(b.win[u]) = Up(st.win[u])
      /\ Up(b.win[w]) = IF leader # None THEN leader ELSE c
      /\ leader = st.win[w].leader => Up(b.win[w]) = Up(st.win[w])
  <2>1. leader \in st.o.groups[c] \cup {None}
    BY <1>2
  <2>2. PICK F : F = {"leader"}
    OBVIOUS
  <2>3. Changes(st, b, w, F) /\ b.win[w].leader = leader
    BY <1>5, <2>2
  <2>4. LedTo(st, b, w, c, leader)
    BY <2>1, <2>2, <2>3, LedSet
  <2> QED
    BY <2>4 DEF LedTo
<1>9. Grounded(b.win)
  BY <1>5, <1>7 DEF Lead
<1>10. Leader(st, w) = Up(st.win[w]) /\ Leader(d, w) = Up(b.win[w])
  BY <1>6, <1>7, <1>8, GroundedLeader DEF Lead
<1>11. Heads(b)
  <2>1. st.activeLeader = IF st.activeWin = None THEN None ELSE Up(st.win[st.activeWin])
    BY DEF Lead, Heads
  <2>2. st.activeWin \in Win \cup {None} /\ None \notin Win
    BY ConfigAssumption DEF Session, Xid
  <2>3. CASE st.activeWin = w
    BY <1>5, <1>8, <1>10, <2>1, <2>2, <2>3 DEF Heads
  <2>4. CASE st.activeWin # w
    BY <1>5, <1>8, <2>1, <2>2, <2>4 DEF Heads
  <2> QED
    BY <2>3, <2>4
<1> QED
  BY <1>8, <1>9, <1>11 DEF Lead

(* w gets its client, when it is mapped and not yet read.                   *)
LEMMA LeadMarked ==
  ASSUME NEW st \in Session, Rooted(st), Framed(st), Lead(st), NEW w \in Win, NEW c \in Family(w),
         st.win[w].client \in {None, c}, st.activeWin # w, NEW m, m = Marked(st, w, c)
  PROVE  Lead(m) /\ Framed(m) /\ m.o = st.o /\ m \in Session /\ m.win[w].client = c
<1>1. c \in Xid /\ c # None
  BY FamilyXid, ConfigAssumption
<1>2. /\ SameButWin(st, m, w) /\ m.win[w].client = c
      /\ Rewritten(st.win[w], m.win[w], {"client"})
  BY <1>1, MarkedIs
<1>3. /\ m \in Session /\ m.o = st.o /\ m.srv = st.srv /\ m.activeWin = st.activeWin
      /\ m.activeLeader = st.activeLeader
      /\ \A u \in Win : u # w => m.win[u] = st.win[u]
      /\ m.win[w].leader = st.win[w].leader /\ m.win[w].cache = st.win[w].cache
  BY <1>2 DEF SameButWin, Rewritten, Kept
<1>4. Framed(m) /\ Rooted(m) /\ Allowed(m)
  BY <1>2, <1>3 DEF Framed, Rooted, EarlyClients, Lead, Allowed
<1>5. ASSUME NEW u \in Win
      PROVE  /\ \/ m.win[u].leader = None
                \/ \E z \in Family(u) : m.win[u].leader \in m.o.groups[z]
             /\ m.win[u].client = None => m.win[u].leader = None
             /\ m.win[u].cache \in {None, Up(m.win[u])}
  <2>1. CASE u # w
    BY <1>3, <2>1 DEF Lead, Led, Grounded
  <2>2. CASE u = w /\ st.win[w].client = c
    BY <1>1, <1>2, <1>3, <2>2 DEF Lead, Led, Grounded, Up
  <2>3. CASE u = w /\ st.win[w].client = None
    <3>1. st.win[w].leader = None /\ Up(st.win[w]) = None
      BY <2>3 DEF Lead, Led, Up
    <3>2. st.win[w].cache = None
      BY <3>1 DEF Lead, Grounded
    <3> QED
      BY <1>1, <1>2, <1>3, <2>3, <3>1, <3>2
  <2> QED
    BY <2>1, <2>2, <2>3
<1>6. Led(m)
  BY <1>5 DEF Led
<1>7. Grounded(m.win)
  BY <1>4, <1>5, <1>6, GroundedWhenRooted
<1>8. Heads(m)
  BY <1>3 DEF Lead, Heads, Session
<1> QED
  BY <1>2, <1>3, <1>4, <1>6, <1>7, <1>8 DEF Lead

LEMMA LeadMarkClient ==
  ASSUME NEW st \in Session, Rooted(st), Framed(st), TrackLeader(st), Lead(st),
         NEW w \in Win, NEW c \in Family(w), st.win[w].viewable,
         st.win[w].client \in {None, c}, st.activeWin # w, NEW b, b = MarkClient(st, w, c)
  PROVE  Lead(b)
<1>1. PICK m : m = Marked(st, w, c)
  OBVIOUS
<1>2. /\ Lead(m) /\ Framed(m) /\ m.o = st.o /\ m \in Session /\ m.win[w].client = c
      /\ c \in Xid
  BY <1>1, LeadMarked, FamilyXid
<1>3. PICK t : t = UpdWintype(m, w)
  OBVIOUS
<1>4. Changes(m, t, w, {"type"}) /\ t.activeWin = m.activeWin /\ t.activeLeader = m.activeLeader
  BY <1>2, <1>3, UpdWintypeIs
<1>5. Lead(t) /\ t \in Session /\ t.o = st.o
  <2>1. {"type"} \cap {"leader", "client"} = {}
    OBVIOUS
  <2> QED
    BY <1>2, <1>4, <2>1, LeadChanges DEF Changes
<1>6. t.win[w].client = c /\ Framed(t)
  <2>1. \A u \in Win : t.win[u].client = m.win[u].client
    BY <1>4, FieldKept DEF Kept
  <2> QED
    BY <1>2, <2>1 DEF Framed
<1>7. PICK l : l = TrackedLeader(t, w)
  OBVIOUS
<1>8. Lead(l) /\ l \in Session /\ l.win[w].client = c
  <2>1. PICK leader : leader = LeaderOf(t, c)
    OBVIOUS
  <2>2. TrackLeader(t) /\ Rooted(t)
    BY <1>5, SameTracking DEF Rooted
  <2>3. l = SetLeader(t, w, leader)
    BY <1>6, <1>7, <2>1, <2>2, UpdateLeaderIs DEF TrackedLeader
  <2>4. Lead(l)
    BY <1>5, <1>6, <2>1, <2>2, <2>3, LeadSetLeader
  <2>5. Changes(t, l, w, {"leader"})
    BY <1>2, <1>5, <1>6, <1>7, TrackedLeaderIs
  <2>6. l.win[w].client = t.win[w].client
    BY <2>5, FieldKept DEF Kept
  <2> QED
    BY <1>6, <2>4, <2>5, <2>6 DEF Changes
<1>9. PICK n : n = TrackedName(l, w)
  OBVIOUS
<1>10. Changes(l, n, w, {"name"}) /\ n.activeWin = l.activeWin /\ n.activeLeader = l.activeLeader
  BY <1>2, <1>8, <1>9, TrackedNameIs
<1>11. Lead(n) /\ n \in Session
  <2>1. {"name"} \cap {"leader", "client"} = {}
    OBVIOUS
  <2> QED
    BY <1>8, <1>10, <2>1, LeadChanges DEF Changes
<1>12. PICK f : f = OnFactorChange(n, w)
  OBVIOUS
<1>13. Still(n, f) /\ f \in Session
  BY <1>11, <1>12, OnFactorChangeStill, StillSession
<1>14. Still(f, b)
  <2>1. b = UpdateFocused(f, w)
    BY <1>1, <1>3, <1>7, <1>9, <1>12, Zenon DEF MarkClient, Marked, ClientSet
  <2> QED
    BY <1>13, <2>1, UpdateFocusedStill
<1> QED
  BY <1>11, <1>13, <1>14, LeadStill

(* A step that looks at no leader.                                          *)
LEMMA LeadSame ==
  ASSUME NEW a \in Session, Lead(a), NEW b, b.o = a.o,
         b.activeWin = a.activeWin, b.activeLeader = a.activeLeader,
         \A x \in Xid : b.srv[x].transient = a.srv[x].transient /\ b.srv[x].leader = a.srv[x].leader,
         \A u \in Win : /\ b.win[u].leader = a.win[u].leader
                        /\ b.win[u].client = a.win[u].client
                        /\ b.win[u].cache = a.win[u].cache
  PROVE  Lead(b)
<1>1. \A u \in Win : Up(b.win[u]) = Up(a.win[u])
  BY DEF Up
<1>2. Grounded(b.win)
  BY <1>1 DEF Lead, Grounded
<1>3. Allowed(b) /\ Led(b)
  BY <1>2, LeadWins
<1>4. Heads(b)
  BY <1>1 DEF Lead, Heads, Session
<1> QED
  BY <1>2, <1>3, <1>4 DEF Lead

LEMMA LeadSameButWin ==
  ASSUME NEW a \in Session, Lead(a), NEW w \in Win, NEW b, SameButWin(a, b, w),
         NEW F, F \cap {"leader", "client"} = {}, Rewritten(a.win[w], b.win[w], F)
  PROVE  Lead(b)
<1>1. /\ b.o = a.o /\ b.activeWin = a.activeWin /\ b.activeLeader = a.activeLeader
      /\ b.srv = a.srv /\ \A u \in Win : u # w => b.win[u] = a.win[u]
  BY DEF SameButWin
<1>2. b.win[w].leader = a.win[w].leader /\ b.win[w].client = a.win[w].client
  <2>1. ASSUME NEW f \in {"leader", "client"} PROVE b.win[w][f] = a.win[w][f]
    BY DEF Rewritten, Kept
  <2> QED
    BY <2>1
<1>3. b.win[w].cache = a.win[w].cache
  BY DEF Rewritten
<1> QED
  BY <1>1, <1>2, <1>3, LeadSame

(* map_win, from where it marks the client.                                 *)
LEMMA LeadMapFocus ==
  ASSUME NEW st \in Session, TrackLeader(st), Lead(st), NEW w \in Win, NEW b, b = MapFocus(st, w)
  PROVE  Lead(b)
<1>1. PICK a : a = UpdateShape(st, w)
  OBVIOUS
<1>2. SameButWin(st, a, w) /\ Rewritten(st.win[w], a.win[w], {"shaped"})
  BY <1>1, UpdateShapeIs
<1>3. a \in Session /\ Lead(a) /\ a.o = st.o
  <2>1. {"shaped"} \cap {"leader", "client"} = {}
    OBVIOUS
  <2> QED
    BY <1>2, <2>1, LeadSameButWin DEF SameButWin
<1>4. PICK c : c = RecheckFocus(a)
  OBVIOUS
<1>5. Lead(c) /\ c \in Session
  <2>1. TrackLeader(a)
    BY <1>3, SameTracking
  <2> QED
    BY <1>3, <1>4, <2>1, LeadRecheckFocus, RecheckFocusQuiet, QuietSession
<1>6. Still(c, b)
  BY <1>1, <1>4, <1>5, UpdateFocusedStill DEF MapFocus
<1> QED
  BY <1>5, <1>6, LeadStill

LEMMA LeadMapRead ==
  ASSUME NEW st, NEW w \in Win, Fit(st, w), Rooted(st), TrackLeader(st), Lead(st),
         NEW b, b = MapRead(st, w)
  PROVE  Lead(b)
<1>1. /\ st \in Session /\ Framed(st) /\ st.win[w].viewable
      /\ st.win[w].client \in Family(w) \cup {None} /\ st.activeWin # w
  BY ConfigAssumption DEF Fit, Framed, Xid
<1>2. PICK a, c : MapTarget(st, w, a, c) /\ MapClient(st, w) = MarkClient(a, w, c)
  BY <1>1, MapClientIs
<1>3. /\ c \in Family(w) /\ SameButWin(st, a, w) /\ Rewritten(st.win[w], a.win[w], {"wmwin"})
      /\ a \in Session /\ a.o = st.o /\ a.activeWin = st.activeWin
  BY <1>2 DEF MapTarget, SameButWin
<1>4. /\ a.win[w].viewable /\ a.win[w].client \in {None, c}
      /\ \A u \in Win : a.win[u].client = st.win[u].client
  <2>1. a.win[w].viewable = st.win[w].viewable /\ a.win[w].client = st.win[w].client
    BY <1>3 DEF Rewritten, Kept
  <2>2. st.win[w].client \in {None, c}
    BY <1>2 DEF MapTarget
  <2> QED
    BY <1>1, <1>3, <2>1, <2>2 DEF SameButWin
<1>5. Lead(a) /\ Framed(a) /\ Rooted(a) /\ TrackLeader(a)
  <2>1. {"wmwin"} \cap {"leader", "client"} = {}
    OBVIOUS
  <2>2. Lead(a)
    BY <1>1, <1>3, <2>1, LeadSameButWin
  <2>3. Framed(a)
    BY <1>1, <1>4 DEF Framed
  <2>4. Rooted(a)
    BY <1>3 DEF Rooted, EarlyClients
  <2>5. TrackLeader(a)
    BY <1>3, SameTracking
  <2> QED
    BY <2>2, <2>3, <2>4, <2>5
<1>6. PICK r1 : r1 = MarkClient(a, w, c)
  OBVIOUS
<1>7. Lead(r1)
  BY <1>1, <1>3, <1>4, <1>5, <1>6, LeadMarkClient
<1>8. r1 \in Session /\ TrackLeader(r1)
  <2>1. c \in Xid
    BY <1>3, FamilyXid
  <2>2. PICK m : m = Marked(a, w, c)
    OBVIOUS
  <2>3. Changes(m, r1, w, {"type", "leader", "name"})
    BY <1>3, <1>4, <1>6, <2>1, <2>2, MarkClientIs
  <2>4. m.o = a.o
    BY <1>3, <2>1, <2>2, MarkedIs DEF SameButWin
  <2>5. r1 \in Session /\ r1.o = a.o
    BY <2>3, <2>4 DEF Changes
  <2> QED
    BY <1>5, <2>5, SameTracking
<1>9. PICK r2 : r2 = MapFocus(r1, w)
  OBVIOUS
<1>10. Lead(r2) /\ r2 \in Session
  BY <1>7, <1>8, <1>9, LeadMapFocus, MapFocusIs DEF Changes
<1>11. PICK r3 : r3 = MapProps(r2, w)
  OBVIOUS
<1>12. Lead(r3) /\ r3 \in Session
  <2>1. SameButWin(r2, r3, w) /\ Rewritten(r2.win[w], r3.win[w], PropFields)
    BY <1>10, <1>11, MapPropsIs
  <2>2. PropFields \cap {"leader", "client"} = {}
    BY DEF PropFields
  <2> QED
    BY <1>10, <2>1, <2>2, LeadSameButWin DEF SameButWin
<1>13. PICK r4 : r4 = MapShadow(r3, w)
  OBVIOUS
<1>14. Lead(r4) /\ r4 \in Session
  <2>1. PICK F : F = {"inOpenclose"}
    OBVIOUS
  <2>2. Changes(r3, r4, w, F) /\ r4.activeWin = r3.activeWin /\ r4.activeLeader = r3.activeLeader
    BY <1>12, <1>13, <2>1, MapShadowIs
  <2>3. F \cap {"leader", "client"} = {}
    BY <2>1
  <2> QED
    BY <1>12, <2>2, <2>3, LeadChanges DEF Changes
<1>15. b = MapFade(r4, w)
  BY <1>2, <1>6, <1>9, <1>11, <1>13, MapReadIs
<1> QED
  <2>1. PICK F : F = {"inOpenclose", "callback"}
    OBVIOUS
  <2>2. Changes(r4, b, w, F) /\ b.activeWin = r4.activeWin /\ b.activeLeader = r4.activeLeader
    BY <1>14, <1>15, <2>1, MapFadeIs
  <2>3. F \cap {"leader", "client"} = {}
    BY <2>1
  <2> QED
    BY <1>14, <2>2, <2>3, LeadChanges

(* unmap_win takes the focus from a window before it unmaps it.             *)
LEMMA LeadUnmapWin ==
  ASSUME NEW st \in Session, TrackLeader(st), Lead(st), NEW w \in Win, NEW b, b = UnmapWin(st, w)
  PROVE  Lead(b)
<1>1. CASE ~st.win[w].viewable
  <2>1. b = st
    BY <1>1, Zenon DEF UnmapWin
  <2> QED
    BY <2>1
<1>2. CASE st.win[w].viewable
  <2>1. PICK d : b = EvStop(d, w) /\ Unmapped(st, d, w)
    BY <1>2, UnmapWinIs
  <2>2. PICK a : a = LoseFocus(st, w)
    OBVIOUS
  <2>3. Lead(a) /\ a.activeWin = d.activeWin /\ a.activeLeader = d.activeLeader /\ Quiet(st, a)
    <3>1. /\ Quiet(st, a)
          /\ a.activeWin = IF st.activeWin # w \/ ~st.win[w].viewable THEN st.activeWin ELSE None
      BY <2>2, LoseFocusQuiet
    <3>2. Lead(a)
      BY <2>2, LeadLoseFocus
    <3> QED
      BY <1>2, <2>1, <2>2, <3>1, <3>2 DEF Unmapped
  <2>4. \A u \in Win : Up(a.win[u]) = Up(st.win[u])
    BY <2>3, LeadFields DEF Quiet
  <2>5. PICK F : F = UnmapFields
    OBVIOUS
  <2>6. Changes(st, d, w, F) /\ F \cap {"leader", "client"} = {}
    BY <2>1, <2>5 DEF Unmapped, UnmapFields
  <2>7. /\ Allowed(d) /\ Led(d) /\ Grounded(d.win)
        /\ \A u \in Win : Up(d.win[u]) = Up(st.win[u])
    BY <2>6, LeadFields
  <2>8. d \in Session
    BY <2>6 DEF Changes
  <2>9. Heads(d)
    BY <2>3, <2>4, <2>7, <2>8 DEF Lead, Heads, Session
  <2>10. Lead(d)
    BY <2>7, <2>9 DEF Lead
  <2>11. SameButMask(d, b)
    BY <2>1, <2>8, EvStopIs
  <2> QED
    BY <2>8, <2>10, <2>11, LeadSame DEF SameButMask
<1> QED
  BY <1>1, <1>2

(* What an event makes of the active group.                                 *)
LEMMA LeadClientProperty ==
  ASSUME NEW st \in Session, Rooted(st), Framed(st), TrackLeader(st), Lead(st),
         NEW w \in Win, st.win[w].client \in Xid,
         NEW atom \in {"type", "name", "transient", "leader"},
         NEW b, b = OnClientProperty(st, w, atom)
  PROVE  Lead(b)
<1>1. PICK c : c = st.win[w].client
  OBVIOUS
<1>2. c \in Family(w)
  BY <1>1, ConfigAssumption DEF Framed
<1>3. CASE atom = "type"
  <2>1. b = UpdWintype(st, w)
    BY <1>3 DEF OnClientProperty
  <2>2. PICK F : F = {"type"}
    OBVIOUS
  <2>3. Changes(st, b, w, F) /\ b.activeWin = st.activeWin /\ b.activeLeader = st.activeLeader
    BY <2>1, <2>2, UpdWintypeIs
  <2>4. F \cap {"leader", "client"} = {}
    BY <2>2
  <2> QED
    BY <2>3, <2>4, LeadChanges
<1>4. CASE atom = "name"
  <2>1. PICK F : F = {"name"}
    OBVIOUS
  <2>2. Changes(st, b, w, F) /\ b.activeWin = st.activeWin /\ b.activeLeader = st.activeLeader
    BY <1>4, <2>1, OnNameIs
  <2>3. F \cap {"leader", "client"} = {}
    BY <2>1
  <2> QED
    BY <2>2, <2>3, LeadChanges
<1>5. CASE atom \in {"transient", "leader"}
  <2>1. b = IF atom \in st.o.detect THEN UpdateLeader(st, w) ELSE st
    BY <1>5 DEF OnClientProperty
  <2>2. PICK leader : leader = LeaderOf(st, c)
    OBVIOUS
  <2>3. UpdateLeader(st, w) = SetLeader(st, w, leader)
    BY <1>1, <2>2, UpdateLeaderIs
  <2>4. Lead(SetLeader(st, w, leader))
    BY <1>1, <1>2, <2>2, LeadSetLeader
  <2> QED
    BY <2>1, <2>3, <2>4
<1> QED
  BY <1>3, <1>4, <1>5

LEMMA LeadProperty ==
  ASSUME NEW st \in Session, Rooted(st), Framed(st), TrackLeader(st), Lead(st),
         NEW x \in Xid, NEW atom \in Property, atom # "state",
         NEW b, b = EvPropertyNotify(st, x, atom)
  PROVE  Lead(b)
<1>1. CASE atom = "opacity"
  <2>1. b = OnOpacity(st, x)
    BY <1>1 DEF EvPropertyNotify
  <2>2. \/ b = st
        \/ \E w, F : /\ Changes(st, b, w, F) /\ SameButWin(st, b, w)
                     /\ F \cap {"leader", "client"} = {}
    <3>1. {"opacityProp"} \cap {"leader", "client"} = {}
          /\ {"opacityClient"} \cap {"leader", "client"} = {}
      OBVIOUS
    <3> QED
      BY <2>1, <3>1, OnOpacityIs
  <2>3. ASSUME NEW w, NEW F, Changes(st, b, w, F), SameButWin(st, b, w),
               F \cap {"leader", "client"} = {}
        PROVE  Lead(b)
    BY <2>3, LeadChanges DEF SameButWin
  <2> QED
    BY <2>2, <2>3
<1>2. CASE atom = "noShadow"
  <2>1. b = OnNoShadow(st, x)
    BY <1>2 DEF EvPropertyNotify
  <2>2. PICK F : F = {"noShadow"}
    OBVIOUS
  <2>3. \/ b = st
        \/ /\ Changes(st, b, x, F) /\ b.activeWin = st.activeWin
           /\ b.activeLeader = st.activeLeader
    BY <2>1, <2>2, OnNoShadowIs
  <2>4. F \cap {"leader", "client"} = {}
    BY <2>2
  <2> QED
    BY <2>3, <2>4, LeadChanges
<1>3. CASE atom = "other"
  BY <1>3, OnTrackedIs, LeadStill DEF EvPropertyNotify
<1>4. CASE atom \notin {"opacity", "noShadow", "other"}
  <2>1. PICK top : top = Toplevels(st, x)
    OBVIOUS
  <2>2. b = IF top = {} THEN st ELSE OnClientProperty(st, CHOOSE w \in top : TRUE, atom)
    BY <1>4, <2>1 DEF EvPropertyNotify
  <2>3. CASE top = {}
    BY <2>2, <2>3
  <2>4. CASE top # {}
    <3>1. PICK w \in top : w = CHOOSE v \in top : TRUE
      BY <2>4
    <3>2. w \in Win /\ st.win[w].client \in Xid
      BY <2>1, <3>1 DEF Toplevels
    <3>3. b = OnClientProperty(st, w, atom)
      BY <2>2, <2>4, <3>1
    <3>4. CASE atom = "shaped"
      <4>1. st.o.detect \subseteq {"transient", "leader"}
        BY DEF Session, Config
      <4>2. b = st
        BY <3>3, <3>4, <4>1 DEF OnClientProperty
      <4> QED
        BY <4>2
    <3>5. CASE atom # "shaped"
      <4>1. atom \in {"type", "name", "transient", "leader"}
        BY <1>4, <3>5 DEF Property
      <4> QED
        BY <3>2, <3>3, <4>1, LeadClientProperty
    <3> QED
      BY <3>4, <3>5
  <2> QED
    BY <2>3, <2>4
<1> QED
  BY <1>1, <1>2, <1>3, <1>4

LEMMA LeadHandle ==
  ASSUME NEW st \in Session, Rooted(st), Framed(st), TrackLeader(st), Lead(st),
         NEW e \in Event, e.atom # "state", NEW b, b = Handle(st, e)
  PROVE  Lead(b)
<1>1. e.x \in Xid /\ e.atom \in Property \cup {"map", "unmap", "focus"}
      /\ (e.atom \in {"map", "unmap", "focus", "shaped", "noShadow"} => e.x \in Win)
  BY DEF Event
<1>2. CASE e.atom = "map"
  BY <1>2 DEF Handle
<1>3. CASE e.atom = "unmap"
  BY <1>1, <1>3, LeadUnmapWin DEF Handle
<1>4. CASE e.atom = "focus"
  BY <1>4, LeadRecheckFocus DEF Handle
<1>5. CASE e.atom = "shaped"
  <2>1. b = EvShapeNotify(st, e.x) /\ e.x \in Win
    BY <1>1, <1>5 DEF Handle
  <2>2. PICK F : F = {"shaped"}
    OBVIOUS
  <2>3. Changes(st, b, e.x, F) /\ b.activeWin = st.activeWin /\ b.activeLeader = st.activeLeader
    BY <2>1, <2>2, EvShapeNotifyIs
  <2>4. F \cap {"leader", "client"} = {}
    BY <2>2
  <2> QED
    BY <2>3, <2>4, LeadChanges
<1>6. CASE e.atom \notin {"map", "unmap", "focus", "shaped"}
  <2>1. b = EvPropertyNotify(st, e.x, e.atom)
    BY <1>6 DEF Handle
  <2>2. e.atom \in Property
    BY <1>1, <1>6
  <2> QED
    BY <1>1, <2>1, <2>2, LeadProperty
<1> QED
  BY <1>2, <1>3, <1>4, <1>5, <1>6

(* The configuration stays.                                                 *)
LEMMA ConfigHandle ==
  ASSUME NEW a \in Session, Framed(a), NEW e \in Event, NEW b, b = Handle(a, e)
  PROVE  b.o = a.o
<1>1. CASE e.atom \notin {"unmap", "state"}
  <2>1. EventRead(a, b, e)
    BY <1>1, HandleRead
  <2> QED
    BY <2>1 DEF EventRead, Changes
<1>2. CASE e.atom = "unmap"
  <2>1. PICK w \in Win : w = e.x
    BY <1>2 DEF Event
  <2>2. b = UnmapWin(a, w)
    BY <1>2, <2>1 DEF Handle
  <2>3. CASE ~a.win[w].viewable
    BY <2>2, <2>3, Zenon DEF UnmapWin
  <2>4. CASE a.win[w].viewable
    <3>1. PICK d : b = EvStop(d, w) /\ Unmapped(a, d, w)
      BY <2>2, <2>4, UnmapWinIs
    <3>2. d.o = a.o /\ d \in Session
      BY <3>1 DEF Unmapped, Changes
    <3> QED
      BY <3>1, <3>2, EvStopIs DEF SameButMask
  <2> QED
    BY <2>3, <2>4
<1>3. CASE e.atom = "state"
  <2>1. PICK x \in Kid : x = e.x
    BY <1>3 DEF Event
  <2>2. b = OnState(a, x)
    BY <1>3, <2>1 DEF Handle, EvPropertyNotify
  <2>3. PICK w \in Win : w = Parent[x]
    BY WinDataAssumption
  <2>4. CASE Toplevels(a, x) # {}
    BY <2>2, <2>3, <2>4, OnStateIs
  <2>5. CASE Toplevels(a, x) = {}
    <3>1. PICK t : SameButMask(a, t) /\ (b = t \/ Adopted(t, b, w, x))
      BY <2>2, <2>3, <2>5, OnStateIs
    <3>2. t.o = a.o
      BY <3>1 DEF SameButMask
    <3>3. Adopted(t, b, w, x) => b.o = t.o
      BY DEF Adopted, Marking, SameButWin, Changes
    <3> QED
      BY <3>1, <3>2, <3>3
  <2> QED
    BY <2>4, <2>5
<1> QED
  BY <1>1, <1>2, <1>3

LEMMA ConfigMapRead ==
  ASSUME NEW a, NEW w \in Win, Fit(a, w), NEW b, b = MapRead(a, w)
  PROVE  b.o = a.o
<1>1. a \in Session /\ a.win[w].viewable /\ a.win[w].client \in Family(w) \cup {None}
  BY ConfigAssumption DEF Fit, Framed, Xid
<1>2. PICK t, c : /\ MapTarget(a, w, t, c)
                  /\ Changes(Marked(t, w, c), b, w, ReadFields)
  BY <1>1, MapReadAll
<1>3. PICK k : k = Marked(t, w, c)
  OBVIOUS
<1>4. Marking(a, k, w, c)
  BY <1>1, <1>2, <1>3, MapTargetMarks
<1> QED
  BY <1>2, <1>3, <1>4 DEF Marking, SameButWin, Changes

(* The configuration and the active group, when groups are tracked.         *)
Leading(a, b) == b.o = a.o /\ (TrackLeader(a) /\ Rooted(a) /\ Lead(a) => Lead(b))

LEMMA LeadEvent ==
  ASSUME NEW st, Settles(st, None), st.queue # <<>>, NEW e, e = Head(st.queue),
         NEW a, a = Rest(st), NEW b, b = Handle(a, e)
  PROVE  Leading(st, b)
<1>1. st \in Session /\ Offered(st)
  BY DEF Settles, Fit
<1>2. SameBut(st, a) /\ a.srv = st.srv /\ e \in Event /\ e \in Pending(st)
  BY <1>1, RestIs
<1>3. a \in Session /\ a.o = st.o /\ Framed(a)
  BY <1>2 DEF SameBut, Settles, Fit, Framed
<1>4. b.o = a.o
  BY <1>2, <1>3, ConfigHandle
<1>5. ASSUME TrackLeader(st), Rooted(st), Lead(st)
      PROVE  Lead(b)
  <2>1. Lead(a)
    BY <1>1, <1>2, <1>5, LeadSame DEF SameBut
  <2>2. TrackLeader(a) /\ Rooted(a)
    BY <1>3, <1>5, SameTracking DEF Rooted, EarlyClients
  <2>3. e.atom # "state"
    BY <1>1, <1>2, <1>5 DEF Offered, Rooted
  <2> QED
    BY <1>2, <1>3, <2>1, <2>2, <2>3, LeadHandle
<1> QED
  BY <1>3, <1>4, <1>5 DEF Leading

LEMMA LeadPainted ==
  ASSUME NEW a \in Session, NEW shown, NEW b, b = Painted(a, shown)
  PROVE  Leading(a, b)
<1>1. /\ b.srv = a.srv /\ b.o = a.o /\ b.activeWin = a.activeWin /\ b.activeLeader = a.activeLeader
      /\ \A w \in Win : Shown(a.win[w], b.win[w])
  BY PaintedIs
<1>2. ASSUME NEW w \in Win
      PROVE  /\ b.win[w].leader = a.win[w].leader /\ b.win[w].client = a.win[w].client
             /\ b.win[w].cache = a.win[w].cache
  BY <1>1 DEF Shown, Kept
<1> QED
  BY <1>1, <1>2, LeadSame DEF Leading

LEMMA LeadKept ==
  ASSUME NEW a \in Session, NEW b, NEW w, NEW F, Changes(a, b, w, F),
         F \cap {"leader", "client"} = {},
         b.activeWin = a.activeWin, b.activeLeader = a.activeLeader
  PROVE  Leading(a, b)
BY LeadChanges DEF Leading, Changes

LEMMA LeadDBus ==
  ASSUME s \in Session, DBus
  PROVE  Leading(s, s')
<1>1. PICK b : b = s'
  OBVIOUS
<1>2. PICK a \in Session : a = s
  OBVIOUS
<1>3. ASSUME NEW w \in Win, NEW d \in Forced, NEW value \in Switch, b = SetForce(a, w, d, value)
      PROVE  Leading(a, b)
  <2>1. PICK F : F = {"force"}
    OBVIOUS
  <2>2. Changes(a, b, w, F) /\ b.activeWin = a.activeWin /\ b.activeLeader = a.activeLeader
    BY <1>3, <2>1, SetForceIs
  <2>3. F \cap {"leader", "client"} = {}
    BY <2>1
  <2> QED
    BY <2>2, <2>3, LeadKept
<1>4. ASSUME b = SetOpenclose(a)
      PROVE  Leading(a, b)
  <2>1. PICK c : c = Reopened(a) /\ Still(c, b)
    BY <1>4, SetOpencloseIs
  <2>2. /\ c \in Session /\ c.win = a.win /\ c.srv = a.srv /\ c.o = a.o
        /\ c.activeWin = a.activeWin /\ c.activeLeader = a.activeLeader
    BY <2>1, ReopenedIs
  <2>3. Lead(a) => Lead(c)
    BY <2>2, LeadSame
  <2>4. Lead(c) => Lead(b)
    BY <2>1, LeadStill
  <2>5. b.o = c.o
    BY <2>1 DEF Still, Quiet, Changes
  <2> QED
    BY <2>2, <2>3, <2>4, <2>5 DEF Leading
<1>5. s.o.shown \subseteq Win
  BY DEF Session, Config
<1> QED
  BY <1>1, <1>2, <1>3, <1>4, <1>5 DEF DBus

(* A leader that a client names is one of its groups.                       *)
LEMMA LeadWritten ==
  ASSUME s \in Session, NEW x \in Xid, NEW atom \in Property, SetProperty(x, atom)
  PROVE  Leading(s, s')
<1>1. PICK v \in Values(x, atom) : Written(s, s', x, atom, v)
  BY SetPropertyIs
<1>2. PICK b : b = s'
  OBVIOUS
<1>3. /\ b.o = s.o /\ b.win = s.win /\ b.activeWin = s.activeWin
      /\ b.activeLeader = s.activeLeader
      /\ b.srv[x] = [s.srv[x] EXCEPT ![atom] = v]
      /\ \A y \in Xid : y # x => b.srv[y] = s.srv[y]
  BY <1>1, <1>2 DEF Written, Outside
<1>4. atom \in {"transient", "leader"} => v \in s.o.groups[x]
  BY <1>1 DEF Values
<1>5. ASSUME NEW f \in {"transient", "leader"}
      PROVE  b.srv[x][f] = s.srv[x][f] \/ b.srv[x][f] \in s.o.groups[x]
  <2>1. s.srv[x] \in Props
    BY PropsType
  <2> QED
    BY <1>3, <1>4, <2>1 DEF Props
<1>6. ASSUME Lead(s)
      PROVE  Lead(b)
  <2>1. Allowed(b)
    <3>1. ASSUME NEW y \in Xid
          PROVE  /\ b.srv[y].transient \in b.o.groups[y] \cup {None}
                 /\ b.srv[y].leader \in b.o.groups[y] \cup {None}
      <4>1. /\ s.srv[y].transient \in s.o.groups[y] \cup {None}
            /\ s.srv[y].leader \in s.o.groups[y] \cup {None}
        BY <1>6 DEF Lead, Allowed
      <4>2. CASE y # x
        BY <1>3, <4>1, <4>2
      <4>3. CASE y = x
        <5>1. /\ b.srv[x]["transient"] = s.srv[x]["transient"] \/ b.srv[x]["transient"] \in s.o.groups[x]
              /\ b.srv[x]["leader"] = s.srv[x]["leader"] \/ b.srv[x]["leader"] \in s.o.groups[x]
          BY <1>5
        <5> QED
          BY <1>3, <4>1, <4>3, <5>1
      <4> QED
        BY <4>2, <4>3
    <3> QED
      BY <3>1 DEF Allowed
  <2>2. Led(b) /\ Heads(b) /\ Grounded(b.win)
    BY <1>3, <1>6 DEF Lead, Led, Heads
  <2> QED
    BY <2>1, <2>2 DEF Lead
<1> QED
  BY <1>2, <1>3, <1>6 DEF Leading

LEMMA LeadNext ==
  ASSUME Settles(s, mapping), [Next]_vars
  PROVE  Leading(s, s')
<1>1. s \in Session /\ Fit(s, mapping)
  BY DEF Settles, Fit
<1>2. CASE HandleEvent
  <2>1. PICK e : e = Head(s.queue)
    OBVIOUS
  <2>2. PICK a : a = Rest(s)
    OBVIOUS
  <2>3. mapping = None /\ s.queue # <<>>
    BY <1>2 DEF HandleEvent
  <2>4. SameBut(s, a) /\ a.srv = s.srv /\ e \in Event
    BY <1>1, <2>1, <2>2, <2>3, RestIs
  <2>5. \/ e.atom = "map" /\ s' = MapSelect(a, e.x)
        \/ s' = Handle(a, e)
    BY <1>2, <2>1, <2>2, <2>4, Zenon DEF HandleEvent, Received, Rest
  <2>6. CASE e.atom = "map" /\ s' = MapSelect(a, e.x)
    <3>1. PICK w \in Win : w = e.x
      BY <2>4, <2>6 DEF Event
    <3>2. PICK b : b = MapSelect(a, w)
      OBVIOUS
    <3>3. a \in Session
      BY <2>4 DEF SameBut
    <3>4. SameButWin(a, b, w) /\ Rewritten(a.win[w], b.win[w], {"viewable"})
      BY <3>2, <3>3, MapSelectIs
    <3>5. PICK F : F = {"viewable"}
      OBVIOUS
    <3>6. F \cap {"leader", "client"} = {} /\ Rewritten(a.win[w], b.win[w], F)
      BY <3>4, <3>5
    <3>7. Lead(a) => Lead(b)
      BY <3>3, <3>4, <3>6, LeadSameButWin
    <3>8. Lead(s) => Lead(a)
      BY <1>1, <2>4, LeadSame DEF SameBut
    <3>9. b.o = a.o /\ a.o = s.o
      BY <2>4, <3>4 DEF SameBut, SameButWin
    <3> QED
      BY <2>6, <3>1, <3>2, <3>7, <3>8, <3>9 DEF Leading
  <2>7. CASE s' = Handle(a, e)
    BY <2>1, <2>2, <2>3, <2>7, LeadEvent
  <2> QED
    BY <2>5, <2>6, <2>7
<1>3. CASE FinishMapWin
  <2>1. PICK w \in Win : w = mapping
    BY <1>1, <1>3 DEF FinishMapWin, Fit
  <2>2. s' = MapRead(s, w) /\ Fit(s, w)
    BY <1>1, <1>3, <2>1 DEF FinishMapWin
  <2>3. s'.o = s.o
    BY <2>2, ConfigMapRead
  <2>4. TrackLeader(s) /\ Rooted(s) /\ Lead(s) => Lead(s')
    BY <2>2, LeadMapRead
  <2> QED
    BY <2>3, <2>4 DEF Leading
<1>4. CASE Paint
  <2>1. \E shown : s' = Painted(s, shown)
    BY <1>4 DEF Paint
  <2> QED
    BY <1>1, <2>1, LeadPainted
<1>5. CASE DBus
  BY <1>1, <1>5, LeadDBus
<1>6. ASSUME NEW w \in Win, FadeDone(w)
      PROVE  Leading(s, s')
  <2>1. PICK F : F = {"inOpenclose", "callback"}
    OBVIOUS
  <2>2. /\ Changes(s, s', w, F) /\ s'.activeWin = s.activeWin
        /\ s'.activeLeader = s.activeLeader
    BY <1>1, <1>6, <2>1, RunCallbackIs DEF FadeDone
  <2>3. F \cap {"leader", "client"} = {}
    BY <2>1
  <2> QED
    BY <1>1, <2>2, <2>3, LeadKept
<1>7. ASSUME NEW w \in Win, SetMapped(w) \/ SetFocus(w)
      PROVE  Leading(s, s')
  <2>1. Outside(s, s') /\ s'.srv = s.srv
    BY <1>1, <1>7, SetMappedIs, SetFocusIs
  <2> QED
    BY <1>1, <2>1, LeadSame DEF Outside, Leading
<1>8. ASSUME NEW x \in Xid, NEW atom \in Property, SetProperty(x, atom)
      PROVE  Leading(s, s')
  BY <1>1, <1>8, LeadWritten
<1>9. CASE UNCHANGED vars
  BY <1>9 DEF vars, Leading
<1> QED
  BY <1>2, <1>3, <1>4, <1>5, <1>6, <1>7, <1>8, <1>9 DEF Next

LEMMA LeadInit ==
  ASSUME Init
  PROVE  Lead(s)
<1>1. PICK o \in Configs, late \in SUBSET Kid :
        s = [o |-> o, win |-> [w \in Win |-> NewWin], activeWin |-> None, activeLeader |-> None,
             srv |-> [x \in Xid |-> NewProps(x, x \in Kid \ late)],
             mask |-> [x \in Xid |-> x \in late], mapped |-> [w \in Win |-> FALSE],
             focus |-> None, queue |-> <<>>, openclose |-> o.openclose]
  BY DEF Init
<1>2. /\ s.activeWin = None /\ s.activeLeader = None
      /\ \A u \in Win : s.win[u] = NewWin
      /\ \A x \in Xid : s.srv[x].transient = None /\ s.srv[x].leader = None
  BY <1>1 DEF NewProps
<1>3. NewWin.leader = None /\ NewWin.client = None /\ NewWin.cache = None
  BY DEF NewWin
<1>4. \A u \in Win : Up(s.win[u]) = None
  BY <1>2, <1>3 DEF Up
<1>5. Allowed(s) /\ Led(s) /\ Heads(s)
  BY <1>2, <1>3 DEF Allowed, Led, Heads
<1>6. Grounded(s.win)
  BY <1>2, <1>3, <1>4 DEF Grounded
<1> QED
  BY <1>5, <1>6 DEF Lead

(* Groups neither outlive a focus nor miss it: where no window is a         *)
(* waypoint, the active group is the one of the active window, whatever the *)
(* order of focus events, of new leaders and of unmap requests              *)
(* (win_on_focus_change, win_set_leader, group_update_focused).             *)
THEOREM GroupsFollowFocus == Spec => []ActiveLeads
<1> DEFINE Inv == Settles(s, mapping) /\ (TrackLeader(s) /\ Rooted(s) => Lead(s))
<1>1. Init => Inv
  BY SettlesInit, LeadInit
<1>2. Inv /\ [Next]_vars => Inv'
  <2>1. SUFFICES ASSUME Inv, [Next]_vars PROVE Inv'
    OBVIOUS
  <2>2. Settles(s', mapping') /\ Leading(s, s')
    BY <2>1, SettlesNext, LeadNext
  <2>3. PICK b : b = s'
    OBVIOUS
  <2>4. b.o = s.o
    BY <2>2, <2>3 DEF Leading
  <2>5. TrackLeader(b) /\ Rooted(b) => TrackLeader(s) /\ Rooted(s)
    BY <2>4, SameTracking DEF Rooted, EarlyClients
  <2>6. TrackLeader(b) /\ Rooted(b) => Lead(b)
    BY <2>1, <2>2, <2>3, <2>5 DEF Leading
  <2> QED
    BY <2>2, <2>3, <2>6
<1>3. Inv => ActiveLeads
  <2>1. SUFFICES ASSUME Inv, TrackLeader(s), Rooted(s)
        PROVE  s.activeLeader = IF s.activeWin = None THEN None ELSE Leader(s, s.activeWin)
    BY DEF ActiveLeads
  <2>2. s \in Session /\ Lead(s)
    BY <2>1 DEF Settles, Fit
  <2>3. \A u \in Win : Leader(s, u) = Up(s.win[u])
    BY <2>2, GroundedLeader DEF Lead
  <2> QED
    BY <2>2, <2>3 DEF Lead, Heads, Session
<1> QED
  BY <1>1, <1>2, <1>3, PTL DEF Spec

==============================================================================
