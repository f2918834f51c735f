----------------------------- MODULE StackProofs -----------------------------
(****************************************************************************)
(* Theorems about Stack, for any windows and any number of events: the list *)
(* follows the server's stacking order.                                     *)
(****************************************************************************)
EXTENDS Stack, SequenceTheorems, FiniteSetTheorems, WellFoundedInduction, TLAPS

(* The server sends an event only where it makes sense.                     *)
Legal(s, e) ==
  /\ e.type = "enter" => e.id \notin ToSet(s)
  /\ e.type # "enter" => e.id \in ToSet(s)
  /\ e.type = "configure" => e.above # e.id /\ e.above \in ToSet(s) \cup {None}

(* h[k] is the server's order when it sent the k-th waiting event: from     *)
(* the order compton has caught up with to that of the present.             *)
Replayed(h, q) ==
  /\ \A k \in 0 .. Len(q) : h[k] \in Seq(Id) /\ IsInjective(h[k])
  /\ \A k \in 1 .. Len(q) : Legal(h[k - 1], q[k]) /\ h[k] = Applied(h[k - 1], q[k])
Caught == \E h : Replayed(h, evq) /\ h[0] = order /\ h[Len(evq)] = tree

(* While session_init scans, the list has windows scanned before and not    *)
(* the overlay, and the last of them, unless rejected, is at its head.      *)
ScanKept ==
  scan > 0 =>
    /\ evq = <<>>
    /\ \A i \in DOMAIN list :
         list[i].id # Overlay /\ \E k \in scan + 1 .. Len(tree) : list[i].id = tree[k]
    /\ refused = "none" /\ scan < Len(tree) /\ tree[scan + 1] # Overlay =>
         list # <<>> /\ IsLive(list, 1, tree[scan + 1])

(* Only an unmapped window has saved an event.                              *)
NeedHidden(l) == \A i \in DOMAIN l : l[i].viewable => ~l[i].need

IInv == TypeOK /\ Caught /\ ScanKept /\ NeedHidden(list) /\ InOrder

------------------------------------------------------------------------------
(* Sequences.  Taking out the k-th element moves the later ones up by one,  *)
(* ...                                                                      *)
LEMMA RemoveAtElements ==
  ASSUME NEW S, NEW s \in Seq(S), NEW k \in 1 .. Len(s)
  PROVE  /\ RemoveAt(s, k) \in Seq(S)
         /\ Len(RemoveAt(s, k)) = Len(s) - 1
         /\ \A i \in 1 .. Len(s) - 1 :
              RemoveAt(s, k)[i] = IF i < k THEN s[i] ELSE s[i + 1]
<1> DEFINE l == SubSeq(s, 1, k - 1)
           r == SubSeq(s, k + 1, Len(s))
<1>1. Len(s) \in Nat
  OBVIOUS
<1>2. l \in Seq(S) /\ Len(l) = k - 1 /\ \A i \in 1 .. k - 1 : l[i] = s[i]
  BY <1>1
<1>3. r \in Seq(S) /\ Len(r) = Len(s) - k /\ \A i \in 1 .. Len(s) - k : r[i] = s[i + k]
  BY <1>1
<1>4. RemoveAt(s, k) = l \o r
  BY DEF RemoveAt
<1> HIDE DEF l, r
<1>5. l \o r \in Seq(S) /\ Len(l \o r) = Len(s) - 1
  <2>1. l \o r \in Seq(S) /\ Len(l \o r) = Len(l) + Len(r)
    BY <1>2, <1>3, ConcatProperties
  <2> QED
    BY <1>1, <1>2, <1>3, <2>1
<1>6. \A i \in 1 .. Len(s) - 1 :
        (l \o r)[i] = IF i <= Len(l) THEN l[i] ELSE r[i - Len(l)]
  BY <1>1, <1>2, <1>3
<1>7. ASSUME NEW i \in 1 .. Len(s) - 1
      PROVE  (l \o r)[i] = IF i < k THEN s[i] ELSE s[i + 1]
  <2>1. CASE i < k
    <3>1. i \in 1 .. k - 1 /\ i <= Len(l)
      BY <1>1, <1>2, <1>7, <2>1
    <3> QED
      BY <1>2, <1>6, <1>7, <2>1, <3>1
  <2>2. CASE ~(i < k)
    <3> DEFINE j == i - (k - 1)
    <3>1. j \in 1 .. Len(s) - k /\ ~(i <= Len(l)) /\ j = i - Len(l) /\ j + k = i + 1
      BY <1>1, <1>2, <1>7, <2>2
    <3>2. r[j] = s[i + 1]
      BY <1>3, <3>1
    <3> QED
      BY <1>6, <2>2, <3>1, <3>2
  <2> QED
    BY <2>1, <2>2
<1> QED
  BY <1>4, <1>5, <1>7

(* ... and putting one in moves them down.                                  *)
LEMMA InsertAtElements ==
  ASSUME NEW S, NEW s \in Seq(S), NEW k \in 1 .. Len(s) + 1, NEW x \in S
  PROVE  /\ InsertAt(s, k, x) \in Seq(S)
         /\ Len(InsertAt(s, k, x)) = Len(s) + 1
         /\ \A i \in 1 .. Len(s) + 1 :
              InsertAt(s, k, x)[i] =
                IF i < k THEN s[i] ELSE IF i = k THEN x ELSE s[i - 1]
<1> DEFINE l == SubSeq(s, 1, k - 1)
           r == SubSeq(s, k, Len(s))
           m == l \o <<x>>
<1>1. Len(s) \in Nat
  OBVIOUS
<1>2. l \in Seq(S) /\ Len(l) = k - 1 /\ \A i \in 1 .. k - 1 : l[i] = s[i]
  BY <1>1
<1>3. /\ r \in Seq(S) /\ Len(r) = Len(s) - k + 1
      /\ \A i \in 1 .. Len(s) - k + 1 : r[i] = s[i + k - 1]
  BY <1>1
<1>4. InsertAt(s, k, x) = m \o r
  BY DEF InsertAt
<1> HIDE DEF l, r
<1>5. m \in Seq(S) /\ Len(m) = k /\ m[k] = x /\ \A i \in 1 .. k - 1 : m[i] = l[i]
  BY <1>1, <1>2
<1> HIDE DEF m
<1>6. m \o r \in Seq(S) /\ Len(m \o r) = Len(s) + 1
  BY <1>1, <1>3, <1>5
<1>7. \A i \in 1 .. Len(s) + 1 :
        (m \o r)[i] = IF i <= Len(m) THEN m[i] ELSE r[i - Len(m)]
  BY <1>1, <1>3, <1>5
<1>8. ASSUME NEW i \in 1 .. Len(s) + 1
      PROVE  (m \o r)[i] = IF i < k THEN s[i] ELSE IF i = k THEN x ELSE s[i - 1]
  <2>1. CASE i < k
    <3>1. i \in 1 .. k - 1 /\ i <= Len(m)
      BY <1>1, <1>5, <1>8, <2>1
    <3> QED
      BY <1>2, <1>5, <1>7, <1>8, <2>1, <3>1
  <2>2. CASE i = k
    BY <1>5, <1>7, <1>8, <2>2
  <2>3. CASE i > k
    <3>1. PICK j \in 1 .. Len(s) - k + 1 : j = i - k
      BY <1>1, <1>8, <2>3
    <3>2. ~(i <= Len(m)) /\ i - Len(m) = j /\ j + k - 1 = i - 1
      BY <1>1, <1>5, <1>8, <2>3, <3>1
    <3>3. r[j] = s[i - 1]
      BY <1>3, <3>1, <3>2
    <3>4. (m \o r)[i] = s[i - 1]
      BY <1>7, <3>2, <3>3
    <3> QED
      BY <2>3, <3>4
  <2>4. i < k \/ i = k \/ i > k
    BY <1>8
  <2> QED
    BY <2>1, <2>2, <2>3, <2>4
<1> QED
  BY <1>4, <1>6, <1>8

LEMMA InsertAtElement ==
  ASSUME NEW S, NEW s \in Seq(S), NEW k \in 1 .. Len(s) + 1, NEW x \in S,
         NEW i \in 1 .. Len(s) + 1
  PROVE  InsertAt(s, k, x)[i] = IF i < k THEN s[i] ELSE IF i = k THEN x ELSE s[i - 1]
<1>1. \A j \in 1 .. Len(s) + 1 :
        InsertAt(s, k, x)[j] = IF j < k THEN s[j] ELSE IF j = k THEN x ELSE s[j - 1]
  BY InsertAtElements
<1> QED
  BY <1>1

LEMMA PutBack ==
  ASSUME NEW S, NEW s \in Seq(S), NEW k \in 1 .. Len(s)
  PROVE  InsertAt(RemoveAt(s, k), k, s[k]) = s
<1>1. PICK r : r = RemoveAt(s, k)
  OBVIOUS
<1>2. /\ r \in Seq(S) /\ Len(r) = Len(s) - 1 /\ Len(s) \in Nat
      /\ \A j \in 1 .. Len(s) - 1 : r[j] = IF j < k THEN s[j] ELSE s[j + 1]
  BY <1>1, RemoveAtElements
<1>3. PICK w \in S : w = s[k]
  OBVIOUS
<1>4. k \in 1 .. Len(r) + 1
  BY <1>2
<1>5. PICK q : q = InsertAt(r, k, w)
  OBVIOUS
<1>6. q \in Seq(S) /\ Len(q) = Len(s)
  BY <1>2, <1>4, <1>5, InsertAtElements
<1>7. ASSUME NEW j \in 1 .. Len(r) + 1
      PROVE  q[j] = IF j < k THEN r[j] ELSE IF j = k THEN w ELSE r[j - 1]
  <2>1. r \in Seq(S)
    BY <1>2
  <2> QED
    BY <1>4, <1>5, <2>1, InsertAtElement
<1>8. ASSUME NEW j \in 1 .. Len(s) PROVE q[j] = s[j]
  <2>1. j \in 1 .. Len(r) + 1
    BY <1>2
  <2>2. CASE j < k
    BY <1>2, <1>7, <2>1, <2>2
  <2>3. CASE j = k
    BY <1>3, <1>7, <2>1, <2>3
  <2>4. CASE j > k
    <3>1. j - 1 \in 1 .. Len(s) - 1 /\ ~(j - 1 < k) /\ (j - 1) + 1 = j
      BY <1>2, <2>4
    <3>2. q[j] = r[j - 1] /\ r[j - 1] = s[j]
      BY <1>2, <1>7, <2>1, <2>4, <3>1
    <3> QED
      BY <3>2
  <2> QED
    BY <1>2, <2>2, <2>3, <2>4
<1>9. q = s
  BY <1>6, <1>8, SeqEqual
<1> QED
  BY <1>1, <1>3, <1>5, <1>9

LEMMA InsertOrder ==
  ASSUME NEW S, NEW s \in Seq(S), IsInjective(s),
         NEW k \in 1 .. Len(s) + 1, NEW x \in S, x \notin ToSet(s)
  PROVE  /\ InsertAt(s, k, x) \in Seq(S) /\ IsInjective(InsertAt(s, k, x))
         /\ ToSet(InsertAt(s, k, x)) = ToSet(s) \cup {x}
         /\ \A y, z : Above(s, y, z) => Above(InsertAt(s, k, x), y, z)
         /\ \A i \in 1 .. k - 1 : Above(InsertAt(s, k, x), s[i], x)
         /\ \A i \in k .. Len(s) : Above(InsertAt(s, k, x), x, s[i])
<1> DEFINE q == InsertAt(s, k, x)
<1> HIDE DEF q
<1>1. /\ q \in Seq(S) /\ Len(q) = Len(s) + 1
      /\ \A i \in 1 .. Len(s) + 1 : q[i] = IF i < k THEN s[i] ELSE IF i = k THEN x ELSE s[i - 1]
  <2>1. q \in Seq(S)
    BY InsertAtElements DEF q
  <2>2. Len(q) = Len(s) + 1
    BY InsertAtElements DEF q
  <2>3. \A i \in 1 .. Len(s) + 1 : q[i] = IF i < k THEN s[i] ELSE IF i = k THEN x ELSE s[i - 1]
    BY InsertAtElements DEF q
  <2> QED
    BY <2>1, <2>2, <2>3
<1>2. Len(s) \in Nat /\ DOMAIN s = 1 .. Len(s) /\ DOMAIN q = 1 .. Len(s) + 1
  BY <1>1
<1>3. q[k] = x
  BY <1>1
<1>4. PICK at : /\ at \in [1 .. Len(s) -> 1 .. Len(s) + 1]
                /\ \A i \in 1 .. Len(s) : at[i] = IF i < k THEN i ELSE i + 1
  <2> DEFINE f == [i \in 1 .. Len(s) |-> IF i < k THEN i ELSE i + 1]
  <2>1. \A i \in 1 .. Len(s) : (IF i < k THEN i ELSE i + 1) \in 1 .. Len(s) + 1
    BY <1>2
  <2>2. f \in [1 .. Len(s) -> 1 .. Len(s) + 1]
    BY <2>1
  <2>3. \A i \in 1 .. Len(s) : f[i] = IF i < k THEN i ELSE i + 1
    OBVIOUS
  <2> HIDE DEF f
  <2> QED
    BY <2>2, <2>3
<1>5. /\ \A i \in 1 .. Len(s) : at[i] \in DOMAIN q /\ q[at[i]] = s[i] /\ at[i] # k
      /\ \A i, j \in 1 .. Len(s) : i < j => at[i] < at[j]
      /\ \A i \in 1 .. k - 1 : i \in 1 .. Len(s) /\ at[i] < k
      /\ \A i \in k .. Len(s) : i \in 1 .. Len(s) /\ at[i] > k
  BY <1>1, <1>2, <1>4
<1>6. \A j \in DOMAIN q : j = k \/ \E i \in 1 .. Len(s) : j = at[i]
  <2> SUFFICES ASSUME NEW j \in 1 .. Len(s) + 1, j # k
               PROVE  \E i \in 1 .. Len(s) : j = at[i]
    BY <1>2
  <2>1. CASE j < k
    BY <1>2, <1>4, <2>1
  <2>2. CASE j > k
    <3>1. j - 1 \in 1 .. Len(s) /\ at[j - 1] = j
      BY <1>2, <1>4, <2>2
    <3> QED
      BY <3>1
  <2> QED
    BY <2>1, <2>2
<1>7. ToSet(q) = ToSet(s) \cup {x}
  <2>1. \A j \in DOMAIN q : q[j] \in ToSet(s) \cup {x}
    BY <1>2, <1>3, <1>5, <1>6 DEF ToSet
  <2>2. \A i \in DOMAIN s : s[i] \in ToSet(q)
    BY <1>2, <1>5 DEF ToSet
  <2>3. x \in ToSet(q)
    BY <1>2, <1>3 DEF ToSet
  <2> QED
    BY <2>1, <2>2, <2>3 DEF ToSet
<1>8. IsInjective(q)
  <2> SUFFICES ASSUME NEW i \in DOMAIN q, NEW j \in DOMAIN q, q[i] = q[j] PROVE i = j
    BY DEF IsInjective
  <2>1. \A n \in 1 .. Len(s) : s[n] # x
    BY <1>2 DEF ToSet
  <2>2. \A m, n \in 1 .. Len(s) : s[m] = s[n] => m = n
    BY <1>2 DEF IsInjective
  <2> QED
    BY <1>3, <1>5, <1>6, <2>1, <2>2
<1>9. ASSUME NEW y, NEW z, Above(s, y, z) PROVE Above(q, y, z)
  <2>1. PICK i \in 1 .. Len(s), j \in 1 .. Len(s) : i < j /\ s[i] = y /\ s[j] = z
    BY <1>2, <1>9 DEF Above
  <2> QED
    BY <1>5, <2>1 DEF Above
<1>10. \A i \in 1 .. k - 1 : Above(q, s[i], x)
  BY <1>2, <1>3, <1>5 DEF Above
<1>11. \A i \in k .. Len(s) : Above(q, x, s[i])
  BY <1>2, <1>3, <1>5 DEF Above
<1> QED
  BY <1>1, <1>7, <1>8, <1>9, <1>10, <1>11 DEF q

LEMMA WithoutOrder ==
  ASSUME NEW S, NEW s \in Seq(S), IsInjective(s), NEW x
  PROVE  /\ Without(s, x) \in Seq(S) /\ IsInjective(Without(s, x))
         /\ ToSet(Without(s, x)) = ToSet(s) \ {x}
         /\ \A y, z : Above(s, y, z) /\ y # x /\ z # x => Above(Without(s, x), y, z)
<1>1. CASE x \notin ToSet(s)
  BY <1>1 DEF Without
<1>2. CASE x \in ToSet(s)
  <2>1. PICK k \in 1 .. Len(s) : s[k] = x /\ Without(s, x) = RemoveAt(s, k)
    <3>1. \E i \in DOMAIN s : s[i] = x
      BY <1>2 DEF ToSet
    <3>2. Position(s, x) \in DOMAIN s /\ s[Position(s, x)] = x
      BY <3>1, Zenon DEF Position
    <3>3. Without(s, x) = RemoveAt(s, Position(s, x))
      BY <1>2 DEF Without
    <3>4. DOMAIN s = 1 .. Len(s)
      OBVIOUS
    <3> QED
      BY <3>2, <3>3, <3>4
  <2> DEFINE q == Without(s, x)
  <2>2. /\ q \in Seq(S) /\ Len(q) = Len(s) - 1
        /\ \A i \in 1 .. Len(s) - 1 : q[i] = IF i < k THEN s[i] ELSE s[i + 1]
    BY <2>1, RemoveAtElements
  <2> HIDE DEF q
  <2>3. Len(s) \in Nat /\ DOMAIN s = 1 .. Len(s) /\ DOMAIN q = 1 .. Len(s) - 1
    BY <2>2
  <2>4. PICK at : /\ at \in [1 .. Len(s) - 1 -> 1 .. Len(s)]
                  /\ \A i \in 1 .. Len(s) - 1 : at[i] = IF i < k THEN i ELSE i + 1
    <3> DEFINE f == [i \in 1 .. Len(s) - 1 |-> IF i < k THEN i ELSE i + 1]
    <3>1. \A i \in 1 .. Len(s) - 1 : (IF i < k THEN i ELSE i + 1) \in 1 .. Len(s)
      BY <2>3
    <3>2. f \in [1 .. Len(s) - 1 -> 1 .. Len(s)]
      BY <3>1
    <3>3. \A i \in 1 .. Len(s) - 1 : f[i] = IF i < k THEN i ELSE i + 1
      OBVIOUS
    <3> HIDE DEF f
    <3> QED
      BY <3>2, <3>3
  <2>5. /\ \A i \in 1 .. Len(s) - 1 : at[i] \in 1 .. Len(s) /\ q[i] = s[at[i]] /\ at[i] # k
        /\ \A i, j \in 1 .. Len(s) - 1 : at[i] < at[j] => i < j
        /\ \A i, j \in 1 .. Len(s) - 1 : at[i] = at[j] => i = j
    BY <2>2, <2>3, <2>4
  <2>6. \A j \in 1 .. Len(s) : j = k \/ \E i \in 1 .. Len(s) - 1 : j = at[i]
    <3> SUFFICES ASSUME NEW j \in 1 .. Len(s), j # k
                 PROVE  \E i \in 1 .. Len(s) - 1 : j = at[i]
      OBVIOUS
    <3>1. CASE j < k
      BY <2>3, <2>4, <3>1
    <3>2. CASE j > k
      <4>1. j - 1 \in 1 .. Len(s) - 1 /\ at[j - 1] = j
        BY <2>3, <2>4, <3>2
      <4> QED
        BY <4>1
    <3> QED
      BY <3>1, <3>2
  <2>7. \A m, n \in 1 .. Len(s) : s[m] = s[n] => m = n
    BY <2>3 DEF IsInjective
  <2>8. ToSet(q) = ToSet(s) \ {x}
    <3>1. \A i \in 1 .. Len(s) - 1 : q[i] \in ToSet(s) \ {x}
      BY <2>1, <2>3, <2>5, <2>7 DEF ToSet
    <3>2. \A j \in 1 .. Len(s) : s[j] # x => s[j] \in ToSet(q)
      <4> SUFFICES ASSUME NEW j \in 1 .. Len(s), s[j] # x PROVE \E i \in DOMAIN q : q[i] = s[j]
        BY DEF ToSet
      <4>1. PICK i \in 1 .. Len(s) - 1 : j = at[i]
        BY <2>1, <2>6
      <4> QED
        BY <2>3, <2>5, <4>1
    <3> QED
      BY <2>3, <3>1, <3>2 DEF ToSet
  <2>9. IsInjective(q)
    BY <2>3, <2>5, <2>7 DEF IsInjective
  <2>10. ASSUME NEW y, NEW z, Above(s, y, z), y # x, z # x PROVE Above(q, y, z)
    <3>1. PICK i \in 1 .. Len(s), j \in 1 .. Len(s) : i < j /\ s[i] = y /\ s[j] = z
      BY <2>3, <2>10 DEF Above
    <3>2. PICK a \in 1 .. Len(s) - 1, b \in 1 .. Len(s) - 1 : at[a] = i /\ at[b] = j
      BY <2>1, <2>6, <2>10, <3>1
    <3> QED
      BY <2>3, <2>5, <3>1, <3>2 DEF Above
  <2> QED
    BY <2>2, <2>8, <2>9, <2>10 DEF q
<1> QED
  BY <1>1, <1>2

LEMMA ConsIsInsert ==
  ASSUME NEW S, NEW s \in Seq(S), NEW x \in S PROVE <<x>> \o s = InsertAt(s, 1, x)
<1>1. SubSeq(s, 1, 0) = <<>> /\ SubSeq(s, 1, Len(s)) = s
  BY SubSeqEmpty, SubSeqFull
<1>2. <<>> \o <<x>> = <<x>>
  OBVIOUS
<1> QED
  BY <1>1, <1>2 DEF InsertAt

LEMMA AppendIsInsert ==
  ASSUME NEW S, NEW s \in Seq(S), NEW x \in S PROVE Append(s, x) = InsertAt(s, Len(s) + 1, x)
<1>1. SubSeq(s, Len(s) + 1, Len(s)) = <<>> /\ SubSeq(s, 1, Len(s) + 1 - 1) = s
  BY SubSeqEmpty, SubSeqFull
<1>2. s \o <<x>> \in Seq(S) /\ (s \o <<x>>) \o <<>> = s \o <<x>>
  BY ConcatEmptySeq
<1>3. Append(s, x) = s \o <<x>>
  BY AppendIsConcat
<1> QED
  BY <1>1, <1>2, <1>3 DEF InsertAt

------------------------------------------------------------------------------
(* What an event does to the server's order.                                *)
LEMMA PlacedOrder ==
  ASSUME NEW s \in Seq(Id), IsInjective(s), NEW id \in Id,
         NEW k \in 1 .. Len(Without(s, id)) + 1
  PROVE  LET r == Without(s, id)
             q == InsertAt(r, k, id)
         IN  /\ q \in Seq(Id) /\ IsInjective(q) /\ ToSet(q) = ToSet(s) \cup {id}
             /\ \A y, z : Above(s, y, z) /\ y # id /\ z # id => Above(q, y, z)
             /\ \A i \in 1 .. k - 1 : Above(q, r[i], id)
             /\ \A i \in k .. Len(r) : Above(q, id, r[i])
<1> DEFINE r == Without(s, id)
           q == InsertAt(r, k, id)
<1>1. /\ r \in Seq(Id) /\ IsInjective(r) /\ ToSet(r) = ToSet(s) \ {id}
      /\ \A y, z : Above(s, y, z) /\ y # id /\ z # id => Above(r, y, z)
  BY WithoutOrder
<1>2. k \in 1 .. Len(r) + 1
  OBVIOUS
<1> HIDE DEF r
<1>3. id \notin ToSet(r)
  BY <1>1
<1>4. /\ q \in Seq(Id) /\ IsInjective(q) /\ ToSet(q) = ToSet(r) \cup {id}
      /\ \A y, z : Above(r, y, z) => Above(q, y, z)
      /\ \A i \in 1 .. k - 1 : Above(q, r[i], id)
      /\ \A i \in k .. Len(r) : Above(q, id, r[i])
  BY <1>1, <1>2, <1>3, InsertOrder
<1> HIDE DEF q
<1>5. ToSet(q) = ToSet(s) \cup {id}
  BY <1>1, <1>4
<1> QED
  BY <1>1, <1>4, <1>5 DEF q, r

LEMMA OnTopOrder ==
  ASSUME NEW s \in Seq(Id), IsInjective(s), NEW id \in Id
  PROVE  /\ OnTop(s, id) \in Seq(Id) /\ IsInjective(OnTop(s, id))
         /\ ToSet(OnTop(s, id)) = ToSet(s) \cup {id}
         /\ \A y, z : Above(s, y, z) /\ y # id /\ z # id => Above(OnTop(s, id), y, z)
         /\ \A y \in ToSet(s) : y # id => Above(OnTop(s, id), id, y)
<1> DEFINE r == Without(s, id)
           q == OnTop(s, id)
<1>1. r \in Seq(Id) /\ ToSet(r) = ToSet(s) \ {id}
  BY WithoutOrder
<1>2. q = InsertAt(r, 1, id) /\ 1 \in 1 .. Len(r) + 1
  BY <1>1, ConsIsInsert DEF OnTop
<1>3. /\ q \in Seq(Id) /\ IsInjective(q) /\ ToSet(q) = ToSet(s) \cup {id}
      /\ \A y, z : Above(s, y, z) /\ y # id /\ z # id => Above(q, y, z)
      /\ \A i \in 1 .. Len(r) : Above(q, id, r[i])
  BY <1>2, PlacedOrder
<1> HIDE DEF q, r
<1>4. ASSUME NEW y \in ToSet(s), y # id PROVE Above(q, id, y)
  <2>1. PICK i \in DOMAIN r : r[i] = y
    BY <1>1, <1>4 DEF ToSet
  <2>2. i \in 1 .. Len(r)
    BY <1>1
  <2> QED
    BY <1>3, <2>1, <2>2
<1> QED
  BY <1>3, <1>4 DEF q

LEMMA AtBottomOrder ==
  ASSUME NEW s \in Seq(Id), IsInjective(s), NEW id \in Id
  PROVE  /\ AtBottom(s, id) \in Seq(Id) /\ IsInjective(AtBottom(s, id))
         /\ ToSet(AtBottom(s, id)) = ToSet(s) \cup {id}
         /\ \A y, z : Above(s, y, z) /\ y # id /\ z # id => Above(AtBottom(s, id), y, z)
         /\ \A y \in ToSet(s) : y # id => Above(AtBottom(s, id), y, id)
<1> DEFINE r == Without(s, id)
           q == AtBottom(s, id)
<1>1. r \in Seq(Id) /\ ToSet(r) = ToSet(s) \ {id}
  BY WithoutOrder
<1>2. q = InsertAt(r, Len(r) + 1, id) /\ Len(r) + 1 \in 1 .. Len(r) + 1
  BY <1>1, AppendIsInsert DEF AtBottom
<1>3. /\ q \in Seq(Id) /\ IsInjective(q) /\ ToSet(q) = ToSet(s) \cup {id}
      /\ \A y, z : Above(s, y, z) /\ y # id /\ z # id => Above(q, y, z)
      /\ \A i \in 1 .. Len(r) + 1 - 1 : Above(q, r[i], id)
  BY <1>2, PlacedOrder
<1> HIDE DEF q, r
<1>4. ASSUME NEW y \in ToSet(s), y # id PROVE Above(q, y, id)
  <2>1. PICK i \in DOMAIN r : r[i] = y
    BY <1>1, <1>4 DEF ToSet
  <2>2. i \in 1 .. Len(r) + 1 - 1
    BY <1>1
  <2> QED
    BY <1>3, <2>1, <2>2
<1> QED
  BY <1>3, <1>4 DEF q

(* Above a sibling: where the sibling is, with respect to the others.       *)
LEMMA PutAboveOrder ==
  ASSUME NEW s \in Seq(Id), IsInjective(s), NEW id \in Id,
         NEW sibling \in ToSet(s), sibling # id, sibling # None
  PROVE  LET q == PutAbove(s, id, sibling)
         IN  /\ q \in Seq(Id) /\ IsInjective(q) /\ ToSet(q) = ToSet(s) \cup {id}
             /\ \A y, z : Above(s, y, z) /\ y # id /\ z # id => Above(q, y, z)
             /\ Above(q, id, sibling)
             /\ \A y : Above(s, sibling, y) /\ y # id => Above(q, id, y)
             /\ \A y : Above(s, y, sibling) /\ y # id => Above(q, y, id)
<1> DEFINE r == Without(s, id)
           k == Position(r, sibling)
           q == PutAbove(s, id, sibling)
<1>1. /\ r \in Seq(Id) /\ IsInjective(r) /\ ToSet(r) = ToSet(s) \ {id}
      /\ \A y, z : Above(s, y, z) /\ y # id /\ z # id => Above(r, y, z)
  BY WithoutOrder
<1>2. q = InsertAt(r, k, id)
  BY DEF PutAbove
<1>3. k \in 1 .. Len(r) /\ r[k] = sibling
  <2>1. \E i \in DOMAIN r : r[i] = sibling
    BY <1>1 DEF ToSet
  <2> HIDE DEF r
  <2>2. k \in DOMAIN r /\ r[k] = sibling
    BY <2>1, Zenon DEF Position
  <2> QED
    BY <1>1, <2>2
<1>4. k \in 1 .. Len(r) + 1
  BY <1>1, <1>3
<1> HIDE DEF k, q
<1>5. /\ q \in Seq(Id) /\ IsInjective(q) /\ ToSet(q) = ToSet(s) \cup {id}
      /\ \A y, z : Above(s, y, z) /\ y # id /\ z # id => Above(q, y, z)
      /\ \A i \in 1 .. k - 1 : Above(q, r[i], id)
      /\ \A i \in k .. Len(r) : Above(q, id, r[i])
  BY <1>2, <1>4, PlacedOrder
<1> HIDE DEF r
<1>6. Len(r) \in Nat /\ DOMAIN r = 1 .. Len(r) /\ \A m, n \in 1 .. Len(r) : r[m] = r[n] => m = n
  BY <1>1 DEF IsInjective
<1>7. Above(q, id, sibling)
  BY <1>3, <1>5, <1>6
<1>8. ASSUME NEW y, Above(s, sibling, y), y # id PROVE Above(q, id, y)
  <2>1. PICK i \in 1 .. Len(r), j \in 1 .. Len(r) : i < j /\ r[i] = sibling /\ r[j] = y
    <3>1. Above(r, sibling, y)
      BY <1>1, <1>8
    <3> QED
      BY <1>6, <3>1 DEF Above
  <2>2. i = k /\ j \in k .. Len(r)
    BY <1>3, <1>6, <2>1
  <2> QED
    BY <1>5, <2>1, <2>2
<1>9. ASSUME NEW y, Above(s, y, sibling), y # id PROVE Above(q, y, id)
  <2>1. PICK i \in 1 .. Len(r), j \in 1 .. Len(r) : i < j /\ r[i] = y /\ r[j] = sibling
    <3>1. Above(r, y, sibling)
      BY <1>1, <1>9
    <3> QED
      BY <1>6, <3>1 DEF Above
  <2>2. j = k
    BY <1>3, <1>6, <2>1
  <2>3. i \in 1 .. k - 1
    BY <1>3, <1>6, <2>1, <2>2
  <2> QED
    BY <1>5, <2>1, <2>3
<1> QED
  BY <1>5, <1>7, <1>8, <1>9 DEF q

(* In terms of an event: the order q it makes of the order s.               *)
Reordered(s, e, q) ==
  /\ q \in Seq(Id) /\ IsInjective(q)
  /\ ToSet(q) = IF e.type = "leave" THEN ToSet(s) \ {e.id} ELSE ToSet(s) \cup {e.id}
  /\ \A y, z : Above(s, y, z) /\ y # e.id /\ z # e.id => Above(q, y, z)
  /\ e.type \in {"enter", "top"} =>
       \A y \in ToSet(s) : y # e.id => Above(q, e.id, y)
  /\ e.type = "bottom" \/ (e.type = "configure" /\ e.above = None) =>
       \A y \in ToSet(s) : y # e.id => Above(q, y, e.id)
  /\ e.type = "configure" /\ e.above # None =>
       /\ Above(q, e.id, e.above)
       /\ \A y : Above(s, e.above, y) /\ y # e.id => Above(q, e.id, y)
       /\ \A y : Above(s, y, e.above) /\ y # e.id => Above(q, y, e.id)

LEMMA AppliedOrder ==
  ASSUME NEW s \in Seq(Id), IsInjective(s), NEW e \in Event, Legal(s, e)
  PROVE  Reordered(s, e, Applied(s, e))
<1>1. e.id \in Id /\ e.type \in {"enter", "leave", "top", "bottom", "configure"}
  BY DEF Event
<1>2. CASE e.type \in {"enter", "top"}
  <2>1. Applied(s, e) = OnTop(s, e.id)
    BY <1>2 DEF Applied
  <2>2. PICK q : q = OnTop(s, e.id)
    OBVIOUS
  <2>3. /\ q \in Seq(Id) /\ IsInjective(q) /\ ToSet(q) = ToSet(s) \cup {e.id}
        /\ \A y, z : Above(s, y, z) /\ y # e.id /\ z # e.id => Above(q, y, z)
        /\ \A y \in ToSet(s) : y # e.id => Above(q, e.id, y)
    BY <1>1, <2>2, OnTopOrder
  <2>4. e.type # "leave" /\ e.type # "bottom" /\ e.type # "configure"
    BY <1>2
  <2>5. Reordered(s, e, q)
    BY <2>3, <2>4 DEF Reordered
  <2> QED
    BY <2>1, <2>2, <2>5
<1>3. CASE e.type = "leave"
  <2>1. Applied(s, e) = Without(s, e.id)
    BY <1>3 DEF Applied
  <2> QED
    BY <1>1, <1>3, <2>1, WithoutOrder DEF Reordered
<1>4. CASE e.type = "bottom"
  <2>1. Applied(s, e) = AtBottom(s, e.id)
    BY <1>4 DEF Applied
  <2> QED
    BY <1>1, <1>4, <2>1, AtBottomOrder DEF Reordered
<1>5. CASE e.type = "configure"
  <2>1. Applied(s, e) = PutAbove(s, e.id, e.above)
    BY <1>5 DEF Applied
  <2>2. CASE e.above = None
    <3>1. Applied(s, e) = AtBottom(s, e.id)
      BY <2>1, <2>2 DEF PutAbove, AtBottom
    <3> QED
      BY <1>1, <1>5, <2>2, <3>1, AtBottomOrder DEF Reordered
  <2>3. CASE e.above # None
    <3>1. e.above \in ToSet(s) /\ e.above # e.id
      BY <1>5, <2>3 DEF Legal
    <3> QED
      BY <1>1, <1>5, <2>1, <2>3, <3>1, PutAboveOrder DEF Reordered
  <2> QED
    BY <2>2, <2>3
<1> QED
  BY <1>1, <1>2, <1>3, <1>4, <1>5

------------------------------------------------------------------------------
(* The list.  Structs may go, and live ones be destroyed: the live ones     *)
(* left keep their order.                                                   *)
LEMMA FewerLive ==
  ASSUME NEW l \in Seq(Struct), NEW m \in Seq(Struct),
         NEW f \in [1 .. Len(m) -> 1 .. Len(l)],
         \A i, j \in 1 .. Len(m) : i < j => f[i] < f[j],
         \A i \in 1 .. Len(m) :
           m[i].id = l[f[i]].id /\ (~m[i].destroyed => ~l[f[i]].destroyed)
  PROVE  /\ LiveOnce(l) => LiveOnce(m)
         /\ \A s : Ordered(l, s) => Ordered(m, s)
<1>1. DOMAIN m = 1 .. Len(m) /\ DOMAIN l = 1 .. Len(l) /\ Len(m) \in Nat /\ Len(l) \in Nat
  OBVIOUS
<1>2. ASSUME LiveOnce(l) PROVE LiveOnce(m)
  <2> SUFFICES ASSUME NEW i \in 1 .. Len(m), NEW j \in 1 .. Len(m),
                      ~m[i].destroyed, ~m[j].destroyed, m[i].id = m[j].id
               PROVE  i = j
    BY <1>1 DEF LiveOnce, IsLive
  <2>1. f[i] = f[j]
    BY <1>1, <1>2 DEF LiveOnce, IsLive
  <2>2. ~(f[i] < f[j]) /\ ~(f[j] < f[i])
    BY <1>1, <2>1
  <2> QED
    BY <2>2
<1>3. ASSUME NEW s, Ordered(l, s) PROVE Ordered(m, s)
  <2> SUFFICES ASSUME NEW j \in 1 .. Len(m), ~m[j].destroyed
               PROVE  /\ m[j].id \in ToSet(s)
                      /\ \A i \in 1 .. j - 1 : ~m[i].destroyed => Above(s, m[i].id, m[j].id)
    BY <1>1 DEF Ordered
  <2>1. f[j] \in 1 .. Len(l) /\ ~l[f[j]].destroyed /\ m[j].id = l[f[j]].id
    OBVIOUS
  <2>2. /\ l[f[j]].id \in ToSet(s)
        /\ \A i \in 1 .. f[j] - 1 : ~l[i].destroyed => Above(s, l[i].id, l[f[j]].id)
    BY <1>1, <1>3, <2>1 DEF Ordered
  <2>3. ASSUME NEW i \in 1 .. j - 1, ~m[i].destroyed PROVE Above(s, m[i].id, m[j].id)
    <3>1. i \in 1 .. Len(m) /\ i < j
      BY <1>1, <2>3
    <3>2. f[i] \in 1 .. Len(l) /\ f[i] < f[j] /\ ~l[f[i]].destroyed /\ m[i].id = l[f[i]].id
      BY <2>3, <3>1
    <3>3. f[i] \in 1 .. f[j] - 1
      BY <1>1, <2>1, <3>2
    <3> QED
      BY <2>1, <2>2, <3>2, <3>3
  <2> QED
    BY <2>1, <2>2, <2>3
<1> QED
  BY <1>2, <1>3

(* Structs whose flags change in place.                                     *)
Looks(l, m) ==
  /\ m \in Seq(Struct) /\ Len(m) = Len(l)
  /\ \A i \in 1 .. Len(l) : m[i].id = l[i].id /\ (~m[i].destroyed => ~l[i].destroyed)

LEMMA LooksKept ==
  ASSUME NEW l \in Seq(Struct), NEW m, Looks(l, m)
  PROVE  /\ LiveOnce(l) => LiveOnce(m)
         /\ \A s : Ordered(l, s) => Ordered(m, s)
<1>1. PICK f : f = [i \in 1 .. Len(m) |-> i]
  OBVIOUS
<1>2. f \in [1 .. Len(m) -> 1 .. Len(l)] /\ \A i \in 1 .. Len(m) : f[i] = i
  BY <1>1 DEF Looks
<1>3. m \in Seq(Struct) /\ \A i \in 1 .. Len(m) :
           m[i].id = l[f[i]].id /\ (~m[i].destroyed => ~l[f[i]].destroyed)
  BY <1>2 DEF Looks
<1>4. \A i, j \in 1 .. Len(m) : i < j => f[i] < f[j]
  BY <1>2
<1> QED
  BY <1>2, <1>3, <1>4, FewerLive

LEMMA RemovedLive ==
  ASSUME NEW l \in Seq(Struct), NEW k \in 1 .. Len(l)
  PROVE  /\ LiveOnce(l) => LiveOnce(RemoveAt(l, k))
         /\ \A s : Ordered(l, s) => Ordered(RemoveAt(l, k), s)
<1>1. PICK m : m = RemoveAt(l, k)
  OBVIOUS
<1>2. /\ m \in Seq(Struct) /\ Len(m) = Len(l) - 1
      /\ \A i \in 1 .. Len(l) - 1 : m[i] = IF i < k THEN l[i] ELSE l[i + 1]
  BY <1>1, RemoveAtElements
<1>3. PICK f : f = [i \in 1 .. Len(m) |-> IF i < k THEN i ELSE i + 1]
  OBVIOUS
<1>4. Len(l) \in Nat
  OBVIOUS
<1>5. \A i \in 1 .. Len(m) : (IF i < k THEN i ELSE i + 1) \in 1 .. Len(l)
  BY <1>2, <1>4
<1>6. f \in [1 .. Len(m) -> 1 .. Len(l)]
  BY <1>3, <1>5
<1>7. \A i \in 1 .. Len(m) : f[i] = IF i < k THEN i ELSE i + 1
  BY <1>3
<1>8. \A i, j \in 1 .. Len(m) : i < j => f[i] < f[j]
  BY <1>4, <1>7
<1>9. \A i \in 1 .. Len(m) :
        m[i].id = l[f[i]].id /\ (~m[i].destroyed => ~l[f[i]].destroyed)
  BY <1>2, <1>7
<1> QED
  <2>1. (LiveOnce(l) => LiveOnce(m)) /\ \A s : Ordered(l, s) => Ordered(m, s)
    <3>1. m \in Seq(Struct)
      BY <1>2
    <3> QED
      BY <1>6, <1>8, <1>9, <3>1, FewerLive
  <2> QED
    BY <1>1, <2>1

(* A live struct that is put in where it belongs.                           *)
LEMMA InsertedLive ==
  ASSUME NEW r \in Seq(Struct), NEW k \in 1 .. Len(r) + 1, NEW w \in Struct,
         ~Known(r, w.id)
  PROVE  /\ LiveOnce(r) => LiveOnce(InsertAt(r, k, w))
         /\ \A s :
              /\ Ordered(r, s) /\ w.id \in ToSet(s)
              /\ \A i \in 1 .. k - 1 : ~r[i].destroyed => Above(s, r[i].id, w.id)
              /\ \A i \in k .. Len(r) : ~r[i].destroyed => Above(s, w.id, r[i].id)
              => Ordered(InsertAt(r, k, w), s)
<1>1. PICK q : q = InsertAt(r, k, w)
  OBVIOUS
<1>2. /\ q \in Seq(Struct) /\ Len(q) = Len(r) + 1
      /\ \A i \in 1 .. Len(r) + 1 : q[i] = IF i < k THEN r[i] ELSE IF i = k THEN w ELSE r[i - 1]
  BY <1>1, InsertAtElements
<1>3. /\ Len(r) \in Nat /\ DOMAIN r = 1 .. Len(r) /\ DOMAIN q = 1 .. Len(r) + 1
  BY <1>2
<1>4. \A i \in 1 .. Len(r) : ~r[i].destroyed => r[i].id # w.id
  BY <1>3 DEF Known, IsLive
<1>5. PICK f : f = [i \in 1 .. Len(q) |-> IF i < k THEN i ELSE i - 1]
  OBVIOUS
<1>6. \A i \in 1 .. Len(q) : f[i] = IF i < k THEN i ELSE i - 1
  BY <1>5
<1>7. /\ \A i \in 1 .. Len(q) : i # k => f[i] \in 1 .. Len(r) /\ q[i] = r[f[i]]
      /\ \A i, j \in 1 .. Len(q) : i # k /\ j # k /\ i < j => f[i] < f[j]
      /\ \A i \in 1 .. Len(q) : i < k => f[i] \in 1 .. k - 1
      /\ \A i \in 1 .. Len(q) : i > k => f[i] \in k .. Len(r)
      /\ q[k] = w
  BY <1>2, <1>3, <1>6
<1>8. ASSUME LiveOnce(r) PROVE LiveOnce(q)
  <2> SUFFICES ASSUME NEW i \in 1 .. Len(q), NEW j \in 1 .. Len(q),
                      ~q[i].destroyed, ~q[j].destroyed, q[i].id = q[j].id
               PROVE  i = j
    BY <1>2, <1>3 DEF LiveOnce, IsLive
  <2>1. CASE i = k \/ j = k
    BY <1>4, <1>7, <2>1
  <2>2. CASE i # k /\ j # k
    <3>1. f[i] = f[j]
      BY <1>3, <1>7, <1>8, <2>2 DEF LiveOnce, IsLive
    <3>2. ~(f[i] < f[j]) /\ ~(f[j] < f[i])
      BY <1>3, <1>7, <2>2, <3>1
    <3> QED
      BY <1>7, <2>2, <3>2
  <2> QED
    BY <2>1, <2>2
<1>9. ASSUME NEW s, Ordered(r, s), w.id \in ToSet(s),
             \A i \in 1 .. k - 1 : ~r[i].destroyed => Above(s, r[i].id, w.id),
             \A i \in k .. Len(r) : ~r[i].destroyed => Above(s, w.id, r[i].id)
      PROVE  Ordered(q, s)
  <2> SUFFICES ASSUME NEW j \in 1 .. Len(q), ~q[j].destroyed
               PROVE  /\ q[j].id \in ToSet(s)
                      /\ \A i \in 1 .. j - 1 : ~q[i].destroyed => Above(s, q[i].id, q[j].id)
    BY <1>2, <1>3 DEF Ordered
  <2>1. q[j].id \in ToSet(s)
    BY <1>3, <1>7, <1>9 DEF Ordered
  <2>2. ASSUME NEW i \in 1 .. j - 1, ~q[i].destroyed PROVE Above(s, q[i].id, q[j].id)
    <3>1. i \in 1 .. Len(q) /\ i < j
      BY <1>2, <1>3, <2>2
    <3>2. CASE i = k
      <4>1. f[j] \in k .. Len(r) /\ q[j] = r[f[j]]
        BY <1>7, <3>1, <3>2
      <4> QED
        BY <1>7, <1>9, <3>2, <4>1
    <3>3. CASE j = k
      <4>1. f[i] \in 1 .. k - 1 /\ q[i] = r[f[i]]
        BY <1>7, <3>1, <3>3
      <4> QED
        BY <1>7, <1>9, <2>2, <3>3, <4>1
    <3>4. CASE i # k /\ j # k
      <4>1. /\ f[i] \in 1 .. Len(r) /\ f[j] \in 1 .. Len(r) /\ f[i] < f[j]
            /\ q[i] = r[f[i]] /\ q[j] = r[f[j]]
        BY <1>7, <3>1, <3>4
      <4>2. f[i] \in 1 .. f[j] - 1
        BY <1>3, <4>1
      <4> QED
        BY <1>3, <1>9, <2>2, <4>1, <4>2 DEF Ordered
    <3> QED
      BY <3>2, <3>3, <3>4
  <2> QED
    BY <2>1, <2>2
<1> QED
  BY <1>1, <1>8, <1>9

(* What an event reorders, other windows than its own are not.              *)
LEMMA OthersOrdered ==
  ASSUME NEW l \in Seq(Struct), NEW s, NEW e, NEW q, Reordered(s, e, q),
         Ordered(l, s), ~Known(l, e.id)
  PROVE  Ordered(l, q)
<1>1. \A i \in DOMAIN l : ~l[i].destroyed => l[i].id # e.id
  BY DEF Known, IsLive
<1>2. ASSUME NEW y \in ToSet(s), y # e.id PROVE y \in ToSet(q)
  BY <1>2 DEF Reordered
<1>3. \A j \in DOMAIN l : \A i \in 1 .. j - 1 : i \in DOMAIN l
  OBVIOUS
<1> QED
  BY <1>1, <1>2, <1>3 DEF Ordered, Reordered

(* The first live struct of r from the k-th on is that of the window above, *)
(* or there is none.                                                        *)
Placed(r, k, above) ==
  IF above = None THEN \A j \in k .. Len(r) : r[j].destroyed
  ELSE \E j \in k .. Len(r) : IsLive(r, j, above) /\ \A i \in k .. j - 1 : r[i].destroyed

LEMMA FoundLive ==
  ASSUME NEW l, NEW id, Known(l, id)
  PROVE  Find(l, id) \in DOMAIN l /\ IsLive(l, Find(l, id), id)
BY Zenon DEF Known, Find

(* restack_win takes the struct out and puts it in again, directly above    *)
(* the window it must be above unless there is a cause.                     *)
LEMMA RestackEffect ==
  ASSUME NEW l \in Seq(Struct), LiveOnce(l), NEW i \in 1 .. Len(l), ~l[i].destroyed,
         NEW above \in Id \cup {None}
  PROVE  LET r == RemoveAt(l, i)
         IN  /\ ~Known(r, l[i].id)
             /\ \E k \in 1 .. Len(r) + 1 :
                  /\ RestackWin(l, i, above) = InsertAt(r, k, l[i])
                  /\ above = l[i].id => k = i
                  /\ above # l[i].id /\ CauseOf(l, i, above) = "none" => Placed(r, k, above)
<1> DEFINE r == RemoveAt(l, i)
<1>1. /\ r \in Seq(Struct) /\ Len(r) = Len(l) - 1
      /\ \A j \in 1 .. Len(l) - 1 : r[j] = IF j < i THEN l[j] ELSE l[j + 1]
  BY RemoveAtElements
<1>2. Len(l) \in Nat /\ DOMAIN l = 1 .. Len(l) /\ DOMAIN r = 1 .. Len(r)
  BY <1>1
<1> HIDE DEF r
<1>3. ~Known(r, l[i].id)
  <2> SUFFICES ASSUME NEW j \in 1 .. Len(r), IsLive(r, j, l[i].id) PROVE FALSE
    BY <1>2 DEF Known
  <2>1. PICK n \in 1 .. Len(l) : n # i /\ r[j] = l[n]
    <3>1. CASE j < i
      BY <1>1, <1>2, <3>1
    <3>2. CASE ~(j < i)
      <4>1. j + 1 \in 1 .. Len(l) /\ j + 1 # i /\ r[j] = l[j + 1]
        BY <1>1, <1>2, <3>2
      <4> QED
        BY <4>1
    <3> QED
      BY <3>1, <3>2
  <2> QED
    BY <1>2, <2>1 DEF LiveOnce, IsLive
<1>4. l = InsertAt(r, i, l[i]) /\ i \in 1 .. Len(r) + 1
  BY <1>1, <1>2, PutBack DEF r
<1>5. CASE above = l[i].id
  <2>1. RestackWin(l, i, above) = l
    BY <1>5 DEF RestackWin, Moved
  <2> QED
    BY <1>3, <1>4, <1>5, <2>1 DEF r
<1>6. CASE above # l[i].id /\ Settled(l, i, above)
  <2>1. RestackWin(l, i, above) = l
    BY <1>6 DEF RestackWin
  <2>2. ASSUME CauseOf(l, i, above) = "none" PROVE Placed(r, i, above)
    <3>1. CASE above = None
      <4>1. i = Len(l)
        <5>1. ASSUME i < Len(l) PROVE FALSE
          <6>1. i + 1 \in 1 .. Len(l)
            BY <1>2, <5>1
          <6>2. l[i + 1].id \in Id
            <7>1. l[i + 1] \in Struct
              BY <6>1
            <7> QED
              BY <7>1 DEF Struct
          <6> QED
            BY <1>6, <3>1, <5>1, <6>2, StackAssumption DEF Settled, NextId
        <5>2. ~(i < Len(l)) /\ Len(l) \in Nat
          BY <1>2, <5>1
        <5>3. ASSUME NEW n \in Nat, ~(i < n), i \in 1 .. n PROVE i = n
          BY <5>3
        <5> QED
          BY <5>2, <5>3
      <4> QED
        BY <1>1, <1>2, <3>1, <4>1 DEF Placed
    <3>2. CASE above # None
      <4>1. NextIsLive(l, i, above)
        BY <1>6, <2>2, <3>2 DEF CauseOf
      <4>2. PICK j \in i + 1 .. Len(l) :
              IsLive(l, j, above) /\ \A n \in i + 1 .. j - 1 : l[n].destroyed
        BY <4>1 DEF NextIsLive
      <4>3. PICK m \in i .. Len(r) : m = j - 1
        BY <1>1, <1>2, <4>2
      <4>4. IsLive(r, m, above)
        <5>1. m \in 1 .. Len(l) - 1 /\ ~(m < i) /\ m + 1 = j
          BY <1>1, <1>2, <4>3
        <5> QED
          BY <1>1, <4>2, <5>1 DEF IsLive
      <4>5. ASSUME NEW n \in i .. m - 1 PROVE r[n].destroyed
        <5>1. n \in 1 .. Len(l) - 1 /\ ~(n < i) /\ n + 1 \in i + 1 .. j - 1
          BY <1>1, <1>2, <4>3
        <5> QED
          BY <1>1, <4>2, <5>1
      <4> QED
        BY <3>2, <4>3, <4>4, <4>5 DEF Placed
    <3> QED
      BY <3>1, <3>2
  <2> QED
    BY <1>3, <1>4, <1>6, <2>1, <2>2 DEF r
<1>7. CASE above # l[i].id /\ ~Settled(l, i, above) /\ Lost(l, i, above)
  <2>1. RestackWin(l, i, above) = l /\ CauseOf(l, i, above) = "unknown"
    BY <1>7 DEF RestackWin, CauseOf
  <2> QED
    BY <1>3, <1>4, <1>7, <2>1 DEF r
<1>8. CASE above # l[i].id /\ ~Settled(l, i, above) /\ ~Lost(l, i, above)
  <2>1. PICK k : k = IF above = None THEN Len(r) + 1 ELSE Find(r, above)
    OBVIOUS
  <2>2. RestackWin(l, i, above) = InsertAt(r, k, l[i])
    BY <1>8, <2>1 DEF RestackWin, Moved, r
  <2>3. k \in 1 .. Len(r) + 1 /\ Placed(r, k, above)
    <3>1. CASE above = None
      BY <1>1, <1>2, <2>1, <3>1 DEF Placed
    <3>2. CASE above # None
      <4>1. PICK j \in 1 .. Len(l) : IsLive(l, j, above)
        BY <1>2, <1>8, <3>2 DEF Lost, Known
      <4>2. j # i
        BY <1>8, <4>1 DEF IsLive
      <4>3. Known(r, above)
        <5>1. CASE j < i
          BY <1>1, <1>2, <4>1, <5>1 DEF Known, IsLive
        <5>2. CASE j > i
          <6>1. j - 1 \in 1 .. Len(l) - 1 /\ ~(j - 1 < i) /\ (j - 1) + 1 = j
            BY <1>2, <5>2
          <6>2. r[j - 1] = l[j] /\ j - 1 \in DOMAIN r
            BY <1>1, <1>2, <6>1
          <6> QED
            BY <4>1, <6>2 DEF Known, IsLive
        <5> QED
          BY <1>2, <4>2, <5>1, <5>2
      <4>4. k \in 1 .. Len(r) /\ IsLive(r, k, above)
        BY <1>2, <2>1, <3>2, <4>3, FoundLive
      <4> QED
        BY <1>1, <1>2, <3>2, <4>4 DEF Placed
    <3> QED
      BY <3>1, <3>2
  <2> QED
    BY <1>3, <1>8, <2>2, <2>3 DEF r
<1> QED
  BY <1>5, <1>6, <1>7, <1>8

(* A window that an event puts above another one, or at the bottom, is in   *)
(* order again where Placed has it.                                         *)
LEMMA PlacedOrdered ==
  ASSUME NEW r \in Seq(Struct), NEW k \in 1 .. Len(r) + 1, NEW w \in Struct,
         LiveOnce(r), ~Known(r, w.id),
         NEW s, NEW e, NEW q, Ordered(r, s), Reordered(s, e, q),
         e.id = w.id, w.id \in ToSet(s), NEW above, Placed(r, k, above),
         \/ e.type = "configure" /\ e.above = above
         \/ e.type = "bottom" /\ above = None
  PROVE  Ordered(InsertAt(r, k, w), q)
<1>1. Ordered(r, q)
  BY OthersOrdered
<1>2. Len(r) \in Nat /\ DOMAIN r = 1 .. Len(r)
  OBVIOUS
<1>3. \A i \in 1 .. Len(r) : ~r[i].destroyed => r[i].id # w.id /\ r[i].id \in ToSet(s)
  BY <1>2 DEF Known, IsLive, Ordered
<1>4. w.id \in ToSet(q)
  BY DEF Reordered
<1>5. CASE above = None
  <2>1. \A y \in ToSet(s) : y # e.id => Above(q, y, e.id)
    BY <1>5 DEF Reordered
  <2>2. \A i \in k .. Len(r) : r[i].destroyed
    BY <1>5 DEF Placed
  <2>3. ASSUME NEW i \in 1 .. k - 1, ~r[i].destroyed PROVE Above(q, r[i].id, w.id)
    <3>1. i \in 1 .. Len(r)
      BY <1>2
    <3> QED
      BY <1>3, <2>1, <2>3, <3>1
  <2> QED
    BY <1>1, <1>4, <2>2, <2>3, InsertedLive
<1>6. CASE above # None
  <2>1. PICK j \in k .. Len(r) : IsLive(r, j, above) /\ \A i \in k .. j - 1 : r[i].destroyed
    BY <1>6 DEF Placed
  <2>2. /\ Above(q, w.id, above)
        /\ \A y : Above(s, above, y) /\ y # w.id => Above(q, w.id, y)
        /\ \A y : Above(s, y, above) /\ y # w.id => Above(q, y, w.id)
    BY <1>6 DEF Reordered
  <2>3. r[j].id = above /\ ~r[j].destroyed /\ j \in 1 .. Len(r)
    BY <1>2, <2>1 DEF IsLive
  <2>4. ASSUME NEW i \in 1 .. k - 1, ~r[i].destroyed PROVE Above(q, r[i].id, w.id)
    <3>1. i \in 1 .. Len(r) /\ i \in 1 .. j - 1
      BY <1>2, <2>1
    <3>2. Above(s, r[i].id, above)
      BY <1>2, <2>3, <2>4, <3>1 DEF Ordered
    <3> QED
      BY <1>3, <2>2, <2>4, <3>1, <3>2
  <2>5. ASSUME NEW i \in k .. Len(r), ~r[i].destroyed PROVE Above(q, w.id, r[i].id)
    <3>1. i \in 1 .. Len(r)
      BY <1>2
    <3>2. CASE i < j
      <4>1. i \in k .. j - 1
        BY <1>2, <3>1, <3>2
      <4> QED
        BY <2>1, <2>5, <4>1
    <3>3. CASE i = j
      BY <2>2, <2>3, <3>3
    <3>4. CASE i > j
      <4>1. j \in 1 .. i - 1
        BY <1>2, <2>3, <3>1, <3>4
      <4>2. Above(s, above, r[i].id)
        BY <1>2, <2>3, <2>5, <3>1, <4>1 DEF Ordered
      <4> QED
        BY <1>3, <2>2, <2>5, <3>1, <4>2
    <3> QED
      BY <1>2, <2>1, <3>1, <3>2, <3>3, <3>4
  <2> QED
    BY <1>1, <1>4, <2>4, <2>5, InsertedLive
<1> QED
  BY <1>5, <1>6

------------------------------------------------------------------------------
(* The server's steps.                                                      *)
Sender(e) == Sent(e) /\ Legal(tree, e) /\ e \in Event

LEMMA SentStep ==
  ASSUME IInv, NEW e, Sender(e) PROVE IInv'
<1>1. /\ scan = 0 /\ Len(evq) < MaxQueue /\ evq' = Append(evq, e) /\ tree' = Applied(tree, e)
      /\ UNCHANGED <<scan, list, order, refused>> /\ Legal(tree, e) /\ e \in Event
  BY DEF Sender, Sent
<1>2. /\ evq \in Seq(Event) /\ list \in Seq(Struct) /\ LiveOnce(list)
      /\ order \in Seq(Id) /\ refused \in Cause
  BY DEF IInv, TypeOK
<1>3. PICK n \in Nat : n = Len(evq)
  BY <1>2
<1>4. PICK h : Replayed(h, evq) /\ h[0] = order /\ h[n] = tree
  BY <1>3 DEF IInv, Caught
<1>5. PICK t : t = Applied(tree, e)
  OBVIOUS
<1>6. t \in Seq(Id) /\ IsInjective(t)
  <2>1. tree \in Seq(Id) /\ IsInjective(tree)
    BY <1>3, <1>4 DEF Replayed
  <2> QED
    BY <1>1, <1>5, <2>1, AppliedOrder DEF Reordered
<1>7. /\ evq' \in Seq(Event) /\ Len(evq') = n + 1 /\ evq'[n + 1] = e
      /\ \A k \in 1 .. n : evq'[k] = evq[k]
  BY <1>1, <1>2, <1>3, AppendProperties
<1>8. Caught'
  <2>1. PICK g : g = [k \in 0 .. n + 1 |-> IF k <= n THEN h[k] ELSE t]
    OBVIOUS
  <2>2. (\A k \in 0 .. n : g[k] = h[k]) /\ g[n + 1] = t
    BY <2>1
  <2>3. ASSUME NEW k \in 0 .. n + 1 PROVE g[k] \in Seq(Id) /\ IsInjective(g[k])
    <3>1. CASE k \in 0 .. n
      BY <1>3, <1>4, <2>2, <3>1 DEF Replayed
    <3>2. CASE k = n + 1
      BY <1>6, <2>2, <3>2
    <3> QED
      BY <3>1, <3>2
  <2>4. ASSUME NEW k \in 1 .. n + 1
        PROVE  Legal(g[k - 1], evq'[k]) /\ g[k] = Applied(g[k - 1], evq'[k])
    <3>1. CASE k \in 1 .. n
      <4>1. k - 1 \in 0 .. n /\ k \in 0 .. n
        BY <3>1
      <4>2. Legal(h[k - 1], evq[k]) /\ h[k] = Applied(h[k - 1], evq[k])
        BY <1>3, <1>4, <3>1 DEF Replayed
      <4> QED
        BY <1>7, <2>2, <3>1, <4>1, <4>2
    <3>2. CASE k = n + 1
      <4>1. g[k - 1] = tree /\ evq'[k] = e /\ g[k] = t
        BY <1>4, <1>7, <2>2, <3>2
      <4> QED
        BY <1>1, <1>5, <4>1
    <3> QED
      BY <3>1, <3>2
  <2>5. Replayed(g, evq')
    BY <1>7, <2>3, <2>4 DEF Replayed
  <2>6. g[0] = order' /\ g[Len(evq')] = tree'
    BY <1>1, <1>4, <1>5, <1>7, <2>2
  <2> QED
    BY <2>5, <2>6 DEF Caught
<1>9. TypeOK'
  <2>1. Len(evq') <= MaxQueue
    BY <1>1, <1>3, <1>7, StackAssumption
  <2>2. tree' \in Seq(Id) /\ scan' \in 0 .. Len(tree')
    BY <1>1, <1>5, <1>6
  <2> QED
    BY <1>1, <1>2, <1>7, <2>1, <2>2 DEF TypeOK
<1>10. ScanKept' /\ NeedHidden(list)' /\ InOrder'
  BY <1>1 DEF IInv, ScanKept, NeedHidden, InOrder
<1> QED
  BY <1>8, <1>9, <1>10 DEF IInv

LEMMA ServerSends ==
  ASSUME IInv, NEW id \in Id,
         \/ Enter(id) \/ Leave(id)
         \/ \E above \in Id \cup {None} : Restack(id, above)
         \/ \E place \in {"top", "bottom"} : Circulate(id, place)
  PROVE  \E e : Sender(e)
<1>1. CASE Enter(id)
  <2>1. PICK e : e = [type |-> "enter", id |-> id]
    OBVIOUS
  <2>2. e.type = "enter" /\ e.id = id /\ e \in Event
    BY <2>1 DEF Event
  <2> QED
    BY <1>1, <2>1, <2>2 DEF Enter, Sender, Legal, InTree
<1>2. CASE Leave(id)
  <2>1. PICK e : e = [type |-> "leave", id |-> id]
    OBVIOUS
  <2>2. e.type = "leave" /\ e.id = id /\ e \in Event
    BY <2>1 DEF Event
  <2> QED
    BY <1>2, <2>1, <2>2 DEF Leave, Sender, Legal, InTree
<1>3. CASE \E above \in Id \cup {None} : Restack(id, above)
  <2>1. PICK above \in Id \cup {None} : Restack(id, above)
    BY <1>3
  <2>2. PICK e : e = [type |-> "configure", id |-> id, above |-> above]
    OBVIOUS
  <2>3. e.type = "configure" /\ e.id = id /\ e.above = above /\ e \in Event
    BY <2>2 DEF Event
  <2> QED
    BY <2>1, <2>2, <2>3 DEF Restack, Sender, Legal, InTree
<1>4. CASE \E place \in {"top", "bottom"} : Circulate(id, place)
  <2>1. PICK place \in {"top", "bottom"} : Circulate(id, place)
    BY <1>4
  <2>2. PICK e : e = [type |-> place, id |-> id]
    OBVIOUS
  <2>3. e.type = place /\ e.id = id /\ e \in Event
    BY <2>2 DEF Event
  <2> QED
    BY <2>1, <2>2, <2>3 DEF Circulate, Sender, Legal, InTree
<1> QED
  BY <1>1, <1>2, <1>3, <1>4

------------------------------------------------------------------------------
(* The handlers.  Taking an event brings the order compton has caught up    *)
(* with to what the server's was when it sent the event.                    *)
LEMMA TookEvent ==
  ASSUME IInv, NEW type, Took(type)
  PROVE  /\ scan' = 0 /\ Head(evq) \in Event /\ Head(evq).type \in type
         /\ Legal(order, Head(evq)) /\ Reordered(order, Head(evq), order')
         /\ tree' \in Seq(Id) /\ order' \in Seq(Id) /\ scan' \in 0 .. Len(tree')
         /\ evq' \in Seq(Event) /\ Len(evq') <= MaxQueue
         /\ Caught' /\ ScanKept'
<1>1. /\ evq # <<>> /\ Head(evq).type \in type /\ evq' = Tail(evq)
      /\ order' = Applied(order, Head(evq)) /\ UNCHANGED <<tree, scan>>
  BY DEF Took
<1>2. evq \in Seq(Event) /\ Len(evq) <= MaxQueue /\ tree \in Seq(Id) /\ scan \in 0 .. Len(tree)
  BY DEF IInv, TypeOK
<1>3. PICK n \in Nat : n = Len(evq)
  BY <1>2
<1>4. scan = 0
  BY <1>1, <1>2 DEF IInv, ScanKept
<1>5. PICK h : Replayed(h, evq) /\ h[0] = order /\ h[n] = tree
  BY <1>3 DEF IInv, Caught
<1>6. n >= 1 /\ Head(evq) = evq[1] /\ Head(evq) \in Event
  BY <1>1, <1>2, <1>3
<1>7. /\ evq' \in Seq(Event) /\ Len(evq') = n - 1
      /\ \A k \in 1 .. n - 1 : evq'[k] = evq[k + 1]
  BY <1>1, <1>2, <1>3, HeadTailProperties
<1>8. Legal(h[0], evq[1]) /\ h[1] = Applied(h[0], evq[1])
  <2>1. 1 \in 1 .. Len(evq) /\ 1 - 1 = 0
    BY <1>3, <1>6
  <2> QED
    BY <1>5, <2>1 DEF Replayed
<1>9. order \in Seq(Id) /\ IsInjective(order)
  BY <1>3, <1>5 DEF Replayed
<1>10. Legal(order, Head(evq)) /\ Reordered(order, Head(evq), order')
  BY <1>1, <1>5, <1>6, <1>8, <1>9, AppliedOrder
<1>11. Caught'
  <2>1. PICK g : g = [k \in 0 .. n - 1 |-> h[k + 1]]
    OBVIOUS
  <2>2. \A k \in 0 .. n - 1 : g[k] = h[k + 1] /\ k + 1 \in 0 .. n
    BY <1>3, <2>1
  <2>3. \A k \in 0 .. n - 1 : g[k] \in Seq(Id) /\ IsInjective(g[k])
    BY <1>3, <1>5, <2>2 DEF Replayed
  <2>4. ASSUME NEW k \in 1 .. n - 1
        PROVE  Legal(g[k - 1], evq'[k]) /\ g[k] = Applied(g[k - 1], evq'[k])
    <3>1. k + 1 \in 1 .. n /\ (k + 1) - 1 = k
      BY <1>3
    <3>2. Legal(h[k], evq[k + 1]) /\ h[k + 1] = Applied(h[k], evq[k + 1])
      BY <1>3, <1>5, <3>1 DEF Replayed
    <3>3. k - 1 \in 0 .. n - 1 /\ (k - 1) + 1 = k /\ k \in 0 .. n - 1
      BY <1>3
    <3> QED
      BY <1>7, <2>2, <3>2, <3>3
  <2>5. Replayed(g, evq')
    BY <1>7, <2>3, <2>4 DEF Replayed
  <2>6. g[0] = order' /\ g[Len(evq')] = tree'
    <3>1. g[0] = h[1] /\ g[n - 1] = h[n]
      BY <1>3, <1>6, <2>2
    <3> QED
      BY <1>1, <1>5, <1>6, <1>7, <1>8, <3>1
  <2> QED
    BY <2>5, <2>6 DEF Caught
<1>12. Len(evq') <= MaxQueue
  BY <1>2, <1>3, <1>7, StackAssumption
<1>13. order' \in Seq(Id)
  BY <1>10 DEF Reordered
<1> QED
  BY <1>1, <1>2, <1>4, <1>6, <1>7, <1>10, <1>11, <1>12, <1>13 DEF ScanKept

(* What is left to show of a handler: what it does to the list.             *)
ListKept ==
  /\ list' \in Seq(Struct) /\ LiveOnce(list') /\ NeedHidden(list') /\ refused' \in Cause
  /\ InOrder'

LEMMA HandlerStep ==
  ASSUME IInv, NEW type, Took(type), ListKept PROVE IInv'
BY TookEvent DEF IInv, ListKept, TypeOK, NeedHidden, LiveOnce

LEMMA HandleEnterStep ==
  ASSUME IInv, HandleEnter PROVE IInv'
<1>1. Took({"enter"}) /\ AddWin(Head(evq).id) /\ refused' = refused
  BY DEF HandleEnter
<1>2. PICK e : e = Head(evq)
  OBVIOUS
<1>3. e \in Event /\ e.type = "enter" /\ Legal(order, e) /\ Reordered(order, e, order')
  BY <1>1, <1>2, TookEvent
<1>4. e.id \in Id
  BY <1>3 DEF Event
<1>5. list \in Seq(Struct) /\ LiveOnce(list) /\ NeedHidden(list) /\ refused \in Cause /\ InOrder
  BY DEF IInv, TypeOK
<1>6. e.id \notin ToSet(order)
  BY <1>3 DEF Legal
<1>7. CASE /\ ~Known(list, e.id)
           /\ \E viewable \in BOOLEAN :
                list' = <<[id |-> e.id, destroyed |-> FALSE,
                           viewable |-> viewable, need |-> FALSE]>> \o list
  <2>0. PICK viewable \in BOOLEAN :
         list' = <<[id |-> e.id, destroyed |-> FALSE,
                    viewable |-> viewable, need |-> FALSE]>> \o list
    BY <1>7
  <2>1. PICK w :
          /\ w = [id |-> e.id, destroyed |-> FALSE, viewable |-> viewable, need |-> FALSE]
          /\ list' = <<w>> \o list
    BY <2>0
  <2>2. w \in Struct /\ w.id = e.id /\ ~w.destroyed /\ ~w.need
    BY <1>4, <2>1 DEF Struct
  <2>3. list' = InsertAt(list, 1, w) /\ 1 \in 1 .. Len(list) + 1
    <3>1. list' = InsertAt(list, 1, w)
      BY <1>5, <2>1, <2>2, ConsIsInsert
    <3> QED
      BY <1>5, <3>1
  <2>4. list' \in Seq(Struct) /\ LiveOnce(list')
    BY <1>5, <1>7, <2>2, <2>3, InsertedLive, InsertAtElements
  <2>5. NeedHidden(list')
    <3>1. /\ Len(list') = Len(list) + 1 /\ Len(list) \in Nat
          /\ \A i \in 1 .. Len(list) + 1 : list'[i] = IF i = 1 THEN w ELSE list[i - 1]
      <4>1. /\ Len(list') = Len(list) + 1 /\ Len(list) \in Nat
            /\ \A i \in 1 .. Len(list) + 1 :
                 list'[i] = IF i < 1 THEN list[i] ELSE IF i = 1 THEN w ELSE list[i - 1]
        <5>1. PICK k \in 1 .. Len(list) + 1 : k = 1
          BY <2>3
        <5>2. list' = InsertAt(list, k, w)
          BY <2>3, <5>1
        <5>3. /\ Len(list') = Len(list) + 1 /\ Len(list) \in Nat
              /\ \A i \in 1 .. Len(list) + 1 :
                   list'[i] = IF i < k THEN list[i] ELSE IF i = k THEN w ELSE list[i - 1]
          BY <1>5, <2>2, <5>2, InsertAtElements
        <5> QED
          BY <5>1, <5>3
      <4>2. \A i \in 1 .. Len(list) + 1 : ~(i < 1)
        BY <4>1
      <4> QED
        BY <4>1, <4>2
    <3>2. ASSUME NEW i \in DOMAIN list', list'[i].viewable PROVE ~list'[i].need
      <4>1. i \in 1 .. Len(list) + 1
        BY <2>4, <3>1
      <4>2. CASE i = 1
        BY <2>2, <3>1, <4>1, <4>2
      <4>3. CASE i # 1
        <5>1. i - 1 \in DOMAIN list /\ list'[i] = list[i - 1]
          BY <1>5, <3>1, <4>1, <4>3
        <5> QED
          BY <1>5, <3>2, <5>1 DEF NeedHidden
      <4> QED
        BY <4>2, <4>3
    <3> QED
      BY <3>2 DEF NeedHidden
  <2>6. ASSUME refused = "none" PROVE Ordered(list', order')
    <3>1. Ordered(list, order)
      BY <1>5, <2>6 DEF InOrder
    <3>2. Ordered(list, order')
      BY <1>3, <1>5, <1>7, <3>1, OthersOrdered
    <3>3. e.id \in ToSet(order')
      BY <1>3 DEF Reordered
    <3>4. ASSUME NEW i \in 1 .. Len(list), ~list[i].destroyed PROVE Above(order', e.id, list[i].id)
      <4>1. list[i].id \in ToSet(order)
        BY <1>5, <3>1, <3>4 DEF Ordered
      <4>2. list[i].id # e.id
        BY <1>6, <4>1
      <4> QED
        BY <1>3, <4>1, <4>2 DEF Reordered
    <3>5. \A i \in 1 .. 1 - 1 : ~list[i].destroyed => Above(order', list[i].id, w.id)
      OBVIOUS
    <3> QED
      BY <1>5, <1>7, <2>2, <2>3, <3>2, <3>3, <3>4, <3>5, InsertedLive
  <2> QED
    BY <1>1, <1>5, <2>4, <2>5, <2>6, HandlerStep DEF ListKept, InOrder
<1>8. CASE UNCHANGED list
  <2>1. ASSUME refused = "none" PROVE Ordered(list, order')
    <3>1. Ordered(list, order)
      BY <1>5, <2>1 DEF InOrder
    <3>2. ~Known(list, e.id)
      BY <1>6, <3>1 DEF Ordered, Known, IsLive
    <3> QED
      BY <1>3, <1>5, <3>1, <3>2, OthersOrdered
  <2> QED
    BY <1>1, <1>5, <1>8, <2>1, HandlerStep DEF ListKept, InOrder
<1> QED
  BY <1>1, <1>2, <1>7, <1>8 DEF AddWin

(* An event for a window compton does not have.                             *)
LEMMA UnknownStep ==
  ASSUME IInv, NEW type, Took(type), ~Known(list, Head(evq).id), UNCHANGED <<list, refused>>
  PROVE  IInv'
<1>1. list \in Seq(Struct) /\ LiveOnce(list) /\ NeedHidden(list) /\ refused \in Cause /\ InOrder
  BY DEF IInv, TypeOK
<1>2. Reordered(order, Head(evq), order')
  BY TookEvent
<1>3. ASSUME refused = "none" PROVE Ordered(list, order')
  <2>1. Ordered(list, order)
    BY <1>1, <1>3 DEF InOrder
  <2> QED
    BY <1>1, <1>2, <2>1, OthersOrdered
<1> QED
  BY <1>1, <1>3, HandlerStep DEF ListKept, InOrder

LEMMA HandleLeaveStep ==
  ASSUME IInv, HandleLeave PROVE IInv'
<1>1. Took({"leave"}) /\ DestroyWin(Head(evq).id) /\ refused' = refused
  BY DEF HandleLeave
<1>2. PICK e : e = Head(evq)
  OBVIOUS
<1>3. Reordered(order, e, order')
  BY <1>1, <1>2, TookEvent
<1>4. list \in Seq(Struct) /\ LiveOnce(list) /\ NeedHidden(list) /\ refused \in Cause /\ InOrder
  BY DEF IInv, TypeOK
<1>5. CASE ~Known(list, e.id)
  <2>1. UNCHANGED <<list, refused>>
    BY <1>1, <1>2, <1>5 DEF DestroyWin
  <2> QED
    BY <1>1, <1>2, <1>5, <2>1, UnknownStep
<1>6. CASE Known(list, e.id)
  <2>1. PICK n : n = Find(list, e.id)
    OBVIOUS
  <2>2. n \in 1 .. Len(list) /\ IsLive(list, n, e.id) /\ DOMAIN list = 1 .. Len(list)
    BY <1>4, <1>6, <2>1, FoundLive
  <2>3. list' = [list EXCEPT ![n].destroyed = TRUE, ![n].viewable = FALSE, ![n].need = FALSE]
    BY <1>1, <1>2, <1>6, <2>1 DEF DestroyWin
  <2>4. PICK w : w = [list[n] EXCEPT !.destroyed = TRUE, !.viewable = FALSE, !.need = FALSE]
    OBVIOUS
  <2>5. w \in Struct /\ w.id = list[n].id /\ w.destroyed /\ ~w.viewable
    <3>1. list[n] \in Struct
      BY <1>4, <2>2
    <3> QED
      BY <2>4, <3>1, Zenon DEF Struct
  <2>6. list' = [list EXCEPT ![n] = w]
    BY <2>3, <2>4
  <2>7. /\ list' \in Seq(Struct) /\ Len(list') = Len(list)
        /\ \A j \in 1 .. Len(list) : list'[j] = IF j = n THEN w ELSE list[j]
    BY <1>4, <2>2, <2>5, <2>6, ExceptSeq
  <2>8. Looks(list, list')
    BY <2>2, <2>5, <2>7 DEF Looks, IsLive
  <2>9. LiveOnce(list') /\ \A s : Ordered(list, s) => Ordered(list', s)
    BY <1>4, <2>8, LooksKept
  <2>10. DOMAIN list' = 1 .. Len(list)
    BY <2>7
  <2>11. NeedHidden(list')
    BY <1>4, <2>2, <2>5, <2>7, <2>10 DEF NeedHidden
  <2>12. ~Known(list', e.id)
    BY <1>4, <2>2, <2>5, <2>7, <2>10 DEF Known, IsLive, LiveOnce
  <2>13. ASSUME refused = "none" PROVE Ordered(list', order')
    <3>1. Ordered(list', order)
      BY <1>4, <2>9, <2>13 DEF InOrder
    <3> QED
      BY <1>3, <2>7, <2>12, <3>1, OthersOrdered
  <2> QED
    BY <1>1, <1>4, <2>7, <2>9, <2>11, <2>13, HandlerStep DEF ListKept, InOrder
<1> QED
  BY <1>5, <1>6

(* The restack of the i-th struct, as Placed or not.                        *)
LEMMA RestackKept ==
  ASSUME NEW l \in Seq(Struct), LiveOnce(l), NEW i \in 1 .. Len(l), ~l[i].destroyed,
         NEW above \in Id \cup {None}
  PROVE  LET m == RestackWin(l, i, above)
         IN  /\ m \in Seq(Struct) /\ LiveOnce(m) /\ Known(m, l[i].id)
             /\ NeedHidden(l) => NeedHidden(m)
             /\ \A s, e, q :
                  /\ Ordered(l, s) /\ Reordered(s, e, q) /\ e.id = l[i].id
                  /\ CauseOf(l, i, above) = "none" \/ above = e.id
                  => /\ (above # e.id /\ (\/ e.type = "configure" /\ e.above = above
                                          \/ e.type = "bottom" /\ above = None))
                          => Ordered(m, q)
                     /\ e.type = "top" /\ above = l[1].id /\ ~l[1].destroyed
                          => Ordered(m, q)
<1>1. PICK r : r = RemoveAt(l, i)
  OBVIOUS
<1>2. /\ r \in Seq(Struct) /\ Len(r) = Len(l) - 1
      /\ \A j \in 1 .. Len(l) - 1 : r[j] = IF j < i THEN l[j] ELSE l[j + 1]
  BY <1>1, RemoveAtElements
<1>3. PICK w \in Struct : w = l[i]
  OBVIOUS
<1>4. ~Known(r, w.id) /\ ~w.destroyed
  BY <1>1, <1>3, RestackEffect
<1>5. PICK k \in 1 .. Len(r) + 1 :
        /\ RestackWin(l, i, above) = InsertAt(r, k, w)
        /\ above = w.id => k = i
        /\ above # w.id /\ CauseOf(l, i, above) = "none" => Placed(r, k, above)
  BY <1>1, <1>3, RestackEffect
<1>6. PICK m : m = InsertAt(r, k, w)
  OBVIOUS
<1>7. m \in Seq(Struct) /\ Len(m) = Len(r) + 1
  BY <1>2, <1>6, InsertAtElements
<1>8. \A j \in 1 .. Len(r) + 1 :
        m[j] = IF j < k THEN r[j] ELSE IF j = k THEN w ELSE r[j - 1]
  BY <1>2, <1>6, InsertAtElement
<1>9. LiveOnce(r) /\ \A s : Ordered(l, s) => Ordered(r, s)
  BY <1>1, RemovedLive
<1>10. LiveOnce(m)
  BY <1>2, <1>4, <1>6, <1>9, InsertedLive
<1>11. Len(l) \in Nat /\ DOMAIN l = 1 .. Len(l) /\ DOMAIN m = 1 .. Len(r) + 1
       /\ DOMAIN r = 1 .. Len(r)
  BY <1>2, <1>7
<1>12. Known(m, l[i].id)
  <2>1. m[k] = w
    BY <1>8
  <2> QED
    BY <1>3, <1>4, <1>11, <2>1 DEF Known, IsLive
<1>13. ASSUME NeedHidden(l) PROVE NeedHidden(m)
  <2>1. \A j \in 1 .. Len(r) : r[j].viewable => ~r[j].need
    <3> SUFFICES ASSUME NEW j \in 1 .. Len(r), r[j].viewable PROVE ~r[j].need
      OBVIOUS
    <3>1. PICK n \in 1 .. Len(l) : r[j] = l[n]
      <4>1. CASE j < i
        BY <1>2, <1>11, <4>1
      <4>2. CASE ~(j < i)
        <5>1. j + 1 \in 1 .. Len(l) /\ r[j] = l[j + 1]
          BY <1>2, <1>11, <4>2
        <5> QED
          BY <5>1
      <4> QED
        BY <4>1, <4>2
    <3> QED
      BY <1>11, <1>13, <3>1 DEF NeedHidden
  <2>2. ASSUME NEW j \in 1 .. Len(r) + 1, m[j].viewable PROVE ~m[j].need
    <3>1. CASE j = k
      BY <1>3, <1>8, <1>11, <1>13, <2>2, <3>1 DEF NeedHidden
    <3>2. CASE j < k
      <4>1. m[j] = r[j] /\ j \in 1 .. Len(r)
        BY <1>2, <1>8, <1>11, <3>2
      <4> QED
        BY <2>1, <2>2, <4>1
    <3>3. CASE j > k
      <4>1. m[j] = r[j - 1] /\ j - 1 \in 1 .. Len(r)
        BY <1>2, <1>8, <1>11, <3>3
      <4> QED
        BY <2>1, <2>2, <4>1
    <3> QED
      BY <1>2, <1>11, <3>1, <3>2, <3>3
  <2> QED
    BY <1>11, <2>2 DEF NeedHidden
<1>14. ASSUME NEW s, NEW e, NEW q, Ordered(l, s), Reordered(s, e, q), e.id = w.id,
              CauseOf(l, i, above) = "none", above # e.id,
              \/ e.type = "configure" /\ e.above = above
              \/ e.type = "bottom" /\ above = None
       PROVE  Ordered(m, q)
  <2>1. w.id \in ToSet(s)
    BY <1>3, <1>4, <1>11, <1>14 DEF Ordered
  <2>2. Ordered(r, s) /\ Placed(r, k, above)
    BY <1>5, <1>9, <1>14
  <2> QED
    BY <1>2, <1>4, <1>6, <1>9, <1>14, <2>1, <2>2, PlacedOrdered
<1>15. ASSUME NEW s, NEW e, NEW q, Ordered(l, s), Reordered(s, e, q), e.id = w.id,
              CauseOf(l, i, above) = "none" \/ above = e.id, e.type = "top",
              above = l[1].id, ~l[1].destroyed
       PROVE  Ordered(m, q)
  <2>1. Ordered(r, q) /\ w.id \in ToSet(q)
    <3>1. Ordered(r, s)
      BY <1>9, <1>15
    <3> QED
      BY <1>2, <1>4, <1>15, <3>1, OthersOrdered DEF Reordered
  <2>2. \A j \in 1 .. Len(r) : ~r[j].destroyed => Above(q, w.id, r[j].id)
    <3>1. Ordered(r, s)
      BY <1>9, <1>15
    <3> QED
      BY <1>4, <1>11, <1>15, <3>1 DEF Reordered, Ordered, Known, IsLive
  <2>3. k = 1
    <3>1. CASE above = w.id
      <4>1. 1 \in 1 .. Len(l)
        BY <1>11
      <4>2. i = 1
        BY <1>3, <1>11, <1>15, <3>1, <4>1 DEF LiveOnce, IsLive
      <4> QED
        BY <1>5, <3>1, <4>2
    <3>2. CASE above # w.id
      <4>1. i # 1
        BY <1>3, <1>15, <3>2
      <4>2. 1 \in 1 .. Len(r) /\ r[1] = l[1]
        BY <1>2, <1>11, <4>1
      <4>3. l[1].id # None
        <5>1. l[1] \in Struct
          BY <1>11
        <5> QED
          BY <5>1, StackAssumption DEF Struct
      <4>4. Placed(r, k, above)
        BY <1>5, <1>15, <3>2
      <4>5. PICK j \in k .. Len(r) : IsLive(r, j, above) /\ \A n \in k .. j - 1 : r[n].destroyed
        BY <1>15, <4>3, <4>4 DEF Placed
      <4>6. j \in 1 .. Len(r)
        BY <1>2, <1>11, <4>5
      <4>7. j = 1
        BY <1>9, <1>11, <1>15, <4>2, <4>5, <4>6 DEF LiveOnce, IsLive
      <4> QED
        BY <1>11, <4>5, <4>7
    <3> QED
      BY <3>1, <3>2
  <2>4. \A j \in 1 .. k - 1 : ~r[j].destroyed => Above(q, r[j].id, w.id)
    BY <2>3
  <2> QED
    BY <1>2, <1>4, <1>6, <2>1, <2>2, <2>3, <2>4, InsertedLive
<1> QED
  BY <1>3, <1>5, <1>6, <1>7, <1>10, <1>12, <1>13, <1>14, <1>15

(* A change of flags: no struct is destroyed by it.                         *)
SameLooks(l, m) ==
  /\ m \in Seq(Struct) /\ Len(m) = Len(l)
  /\ \A i \in 1 .. Len(l) : m[i].id = l[i].id /\ m[i].destroyed = l[i].destroyed

LEMMA FlagsKept ==
  ASSUME NEW l \in Seq(Struct), NEW m, SameLooks(l, m)
  PROVE  /\ LiveOnce(l) => LiveOnce(m)
         /\ \A s : Ordered(l, s) => Ordered(m, s)
         /\ \A i \in 1 .. Len(l) : \A above : CauseOf(m, i, above) = CauseOf(l, i, above)
<1>1. Looks(l, m)
  BY DEF Looks, SameLooks
<1>2. /\ Len(m) = Len(l) /\ Len(l) \in Nat /\ DOMAIN l = 1 .. Len(l) /\ DOMAIN m = 1 .. Len(l)
      /\ \A i \in 1 .. Len(l) : m[i].id = l[i].id /\ m[i].destroyed = l[i].destroyed
  BY DEF SameLooks
<1>3. ASSUME NEW i \in 1 .. Len(l), NEW above PROVE CauseOf(m, i, above) = CauseOf(l, i, above)
  <2>1. Settled(m, i, above) = Settled(l, i, above)
    <3>1. i < Len(l) => i + 1 \in 1 .. Len(l)
      BY <1>2
    <3>2. NextId(m, i) = NextId(l, i)
      BY <1>2, <3>1 DEF NextId
    <3> QED
      BY <3>2 DEF Settled
  <2>2. Known(m, above) <=> Known(l, above)
    BY <1>2 DEF Known, IsLive
  <2>3. NextIsLive(m, i, above) <=> NextIsLive(l, i, above)
    <3>1. \A j \in i + 1 .. Len(l) :
            /\ j \in 1 .. Len(l)
            /\ \A k \in i + 1 .. j - 1 : k \in 1 .. Len(l)
      BY <1>2
    <3>2. \A j \in i + 1 .. Len(l) :
            /\ IsLive(m, j, above) <=> IsLive(l, j, above)
            /\ \A k \in i + 1 .. j - 1 : m[k].destroyed = l[k].destroyed
      BY <1>2, <3>1 DEF IsLive
    <3> QED
      BY <1>2, <3>2 DEF NextIsLive
  <2>4. (above # None /\ ~NextIsLive(m, i, above)) <=> (above # None /\ ~NextIsLive(l, i, above))
    BY <2>3
  <2>5. Lost(m, i, above) <=> Lost(l, i, above)
    BY <2>2 DEF Lost
  <2>6. CASE Settled(l, i, above)
    BY <2>1, <2>4, <2>6 DEF CauseOf
  <2>7. CASE ~Settled(l, i, above)
    BY <2>1, <2>5, <2>7 DEF CauseOf
  <2> QED
    BY <2>6, <2>7
<1> QED
  BY <1>1, <1>3, LooksKept

LEMMA NeedSet ==
  ASSUME NEW l \in Seq(Struct), NEW i \in 1 .. Len(l), NEW b \in BOOLEAN,
         b => ~l[i].viewable
  PROVE  /\ SameLooks(l, [l EXCEPT ![i].need = b])
         /\ NeedHidden(l) => NeedHidden([l EXCEPT ![i].need = b])
<1>1. PICK w : w = [l[i] EXCEPT !.need = b]
  OBVIOUS
<1>2. /\ w \in Struct /\ w.id = l[i].id /\ w.destroyed = l[i].destroyed
      /\ w.viewable = l[i].viewable /\ w.need = b
  <2>1. l[i] \in Struct
    OBVIOUS
  <2> QED
    BY <1>1, <2>1, Zenon DEF Struct
<1>3. PICK m : m = [l EXCEPT ![i].need = b]
  OBVIOUS
<1>4. m = [l EXCEPT ![i] = w]
  BY <1>1, <1>3
<1>5. /\ m \in Seq(Struct) /\ Len(m) = Len(l)
      /\ \A j \in 1 .. Len(l) : m[j] = IF j = i THEN w ELSE l[j]
  BY <1>2, <1>4, ExceptSeq
<1>6. DOMAIN m = 1 .. Len(l) /\ DOMAIN l = 1 .. Len(l)
  BY <1>5
<1>7. SameLooks(l, m)
  BY <1>2, <1>5 DEF SameLooks
<1>8. NeedHidden(l) => NeedHidden(m)
  BY <1>2, <1>5, <1>6 DEF NeedHidden
<1> QED
  BY <1>3, <1>7, <1>8

(* configure_win, whether or not the window is mapped.                      *)
LEMMA ConfigureKept ==
  ASSUME NEW l \in Seq(Struct), LiveOnce(l), NeedHidden(l),
         NEW i \in 1 .. Len(l), ~l[i].destroyed, NEW above \in Id \cup {None}
  PROVE  LET m == ConfigureWin(l, i, above)
         IN  /\ m \in Seq(Struct) /\ LiveOnce(m) /\ NeedHidden(m)
             /\ \A s, e, q :
                  /\ Ordered(l, s) /\ Reordered(s, e, q) /\ e.id = l[i].id
                  /\ CauseOf(l, i, above) = "none"
                  /\ e.type = "configure" /\ e.above = above /\ above # e.id
                  => Ordered(m, q)
<1>1. DOMAIN l = 1 .. Len(l)
  OBVIOUS
<1>2. CASE l[i].viewable
  <2>1. PICK m : m = RestackWin(l, i, above)
    OBVIOUS
  <2>2. ~l[i].need
    BY <1>1, <1>2 DEF NeedHidden
  <2>3. PICK n : n = Find(m, l[i].id)
    OBVIOUS
  <2>4. ConfigureWin(l, i, above) = [m EXCEPT ![n].need = FALSE]
    BY <1>2, <2>1, <2>2, <2>3 DEF ConfigureWin
  <2>5. m \in Seq(Struct) /\ LiveOnce(m) /\ Known(m, l[i].id) /\ NeedHidden(m)
    BY <2>1, RestackKept
  <2>6. n \in 1 .. Len(m)
    BY <2>3, <2>5, FoundLive
  <2>7. PICK p : p = [m EXCEPT ![n].need = FALSE]
    OBVIOUS
  <2>8. SameLooks(m, p) /\ NeedHidden(p)
    BY <2>5, <2>6, <2>7, NeedSet
  <2>9. LiveOnce(p) /\ \A s : Ordered(m, s) => Ordered(p, s)
    BY <2>5, <2>8, FlagsKept
  <2>10. ASSUME NEW s, NEW e, NEW q,
                Ordered(l, s), Reordered(s, e, q), e.id = l[i].id,
                CauseOf(l, i, above) = "none",
                e.type = "configure", e.above = above, above # e.id
         PROVE  Ordered(p, q)
    <3>1. Ordered(m, q)
      BY <2>1, <2>10, RestackKept
    <3> QED
      BY <2>9, <3>1
  <2> QED
    BY <2>4, <2>7, <2>8, <2>9, <2>10 DEF SameLooks
<1>3. CASE ~l[i].viewable
  <2>1. PICK p : p = [l EXCEPT ![i].need = TRUE]
    OBVIOUS
  <2>2. SameLooks(l, p) /\ NeedHidden(p)
    BY <1>3, <2>1, NeedSet
  <2>3. p \in Seq(Struct) /\ i \in 1 .. Len(p) /\ p[i].id = l[i].id /\ ~p[i].destroyed
    BY <2>2 DEF SameLooks
  <2>4. /\ LiveOnce(p) /\ CauseOf(p, i, above) = CauseOf(l, i, above)
        /\ \A s : Ordered(l, s) => Ordered(p, s)
    BY <2>2, FlagsKept
  <2>5. ConfigureWin(l, i, above) = RestackWin(p, i, above)
    BY <1>3, <2>1 DEF ConfigureWin
  <2>6. PICK m : m = RestackWin(p, i, above)
    OBVIOUS
  <2>7. m \in Seq(Struct) /\ LiveOnce(m) /\ NeedHidden(m)
    BY <2>2, <2>3, <2>4, <2>6, RestackKept
  <2>8. ASSUME NEW s, NEW e, NEW q,
               Ordered(l, s), Reordered(s, e, q), e.id = l[i].id,
               CauseOf(l, i, above) = "none",
               e.type = "configure", e.above = above, above # e.id
        PROVE  Ordered(m, q)
    <3>1. Ordered(p, s) /\ CauseOf(p, i, above) = "none" /\ e.id = p[i].id
      BY <2>3, <2>4, <2>8
    <3> QED
      BY <2>3, <2>4, <2>6, <2>8, <3>1, RestackKept
  <2> QED
    BY <2>5, <2>6, <2>7, <2>8
<1> QED
  BY <1>2, <1>3

LEMMA HandleConfigureStep ==
  ASSUME IInv, HandleConfigure PROVE IInv'
<1>1. PICK e : e = Head(evq)
  OBVIOUS
<1>2. /\ Took({"configure"})
      /\ IF Known(list, e.id)
         THEN /\ list' = ConfigureWin(list, Find(list, e.id), e.above)
              /\ Blame(CauseOf(list, Find(list, e.id), e.above))
         ELSE UNCHANGED <<list, refused>>
  BY <1>1 DEF HandleConfigure
<1>3. e \in Event /\ e.type = "configure" /\ Legal(order, e) /\ Reordered(order, e, order')
  BY <1>1, <1>2, TookEvent
<1>4. e.above \in Id \cup {None} /\ e.above # e.id
  BY <1>3 DEF Event, Legal
<1>5. list \in Seq(Struct) /\ LiveOnce(list) /\ NeedHidden(list) /\ refused \in Cause /\ InOrder
  BY DEF IInv, TypeOK
<1>6. CASE ~Known(list, e.id)
  BY <1>1, <1>2, <1>6, UnknownStep
<1>7. CASE Known(list, e.id)
  <2>1. PICK n : n = Find(list, e.id)
    OBVIOUS
  <2>2. n \in 1 .. Len(list) /\ list[n].id = e.id /\ ~list[n].destroyed
    BY <1>5, <1>7, <2>1, FoundLive DEF IsLive
  <2>3. PICK m : m = ConfigureWin(list, n, e.above)
    OBVIOUS
  <2>4. list' = m /\ Blame(CauseOf(list, n, e.above))
    BY <1>2, <1>7, <2>1, <2>3
  <2>5. m \in Seq(Struct) /\ LiveOnce(m) /\ NeedHidden(m)
    BY <1>4, <1>5, <2>2, <2>3, ConfigureKept
  <2>6. CauseOf(list, n, e.above) \in Cause
    BY DEF CauseOf, Cause
  <2>7. refused' \in Cause
    BY <1>5, <2>4, <2>6 DEF Blame
  <2>8. ASSUME refused' = "none" PROVE Ordered(m, order')
    <3>1. refused = "none" /\ CauseOf(list, n, e.above) = "none"
      BY <2>4, <2>8 DEF Blame
    <3>2. Ordered(list, order)
      BY <1>5, <3>1 DEF InOrder
    <3> QED
      BY <1>3, <1>4, <1>5, <2>2, <2>3, <3>1, <3>2, ConfigureKept
  <2> QED
    BY <1>2, <2>4, <2>5, <2>7, <2>8, HandlerStep DEF ListKept, InOrder
<1> QED
  BY <1>6, <1>7

LEMMA HandleCirculateStep ==
  ASSUME IInv, HandleCirculate PROVE IInv'
<1>1. PICK e : e = Head(evq)
  OBVIOUS
<1>2. PICK n : n = Find(list, e.id)
  OBVIOUS
<1>3. PICK above : above = CirculateAbove(list, e.type)
  OBVIOUS
<1>4. /\ Took({"top", "bottom"})
      /\ IF Known(list, e.id)
         THEN /\ list' = RestackWin(list, n, above)
              /\ Blame(IF above # None /\ list[1].destroyed THEN "head"
                       ELSE IF above = e.id THEN "none"
                       ELSE CauseOf(list, n, above))
         ELSE UNCHANGED <<list, refused>>
  BY <1>1, <1>2, <1>3 DEF HandleCirculate
<1>5. e \in Event /\ e.type \in {"top", "bottom"} /\ Reordered(order, e, order')
  BY <1>1, <1>4, TookEvent
<1>6. list \in Seq(Struct) /\ LiveOnce(list) /\ NeedHidden(list) /\ refused \in Cause /\ InOrder
  BY DEF IInv, TypeOK
<1>7. CASE ~Known(list, e.id)
  BY <1>1, <1>4, <1>7, UnknownStep
<1>8. CASE Known(list, e.id)
  <2>1. n \in 1 .. Len(list) /\ list[n].id = e.id /\ ~list[n].destroyed
    BY <1>2, <1>6, <1>8, FoundLive DEF IsLive
  <2>2. list[1] \in Struct /\ list[n] \in Struct
    BY <1>6, <2>1
  <2>3. list[1].id \in Id /\ e.id \in Id
    BY <2>1, <2>2 DEF Struct
  <2>4. above = IF e.type = "top" THEN list[1].id ELSE None
    BY <1>3 DEF CirculateAbove
  <2>5. above \in Id \cup {None} /\ None \notin Id
    BY <2>3, <2>4, StackAssumption
  <2>6. PICK cause : cause = IF above # None /\ list[1].destroyed THEN "head"
                             ELSE IF above = e.id THEN "none" ELSE CauseOf(list, n, above)
    OBVIOUS
  <2>7. PICK m : m = RestackWin(list, n, above)
    OBVIOUS
  <2>8. list' = m /\ Blame(cause)
    BY <1>4, <1>8, <2>6, <2>7
  <2>9. m \in Seq(Struct) /\ LiveOnce(m) /\ NeedHidden(m)
    BY <1>6, <2>1, <2>5, <2>7, RestackKept
  <2>10. cause \in Cause
    BY <2>6 DEF CauseOf, Cause
  <2>11. refused' \in Cause
    BY <1>6, <2>8, <2>10 DEF Blame
  <2>12. ASSUME refused' = "none" PROVE Ordered(m, order')
    <3>1. refused = "none" /\ cause = "none"
      BY <2>8, <2>12 DEF Blame
    <3>2. Ordered(list, order)
      BY <1>6, <3>1 DEF InOrder
    <3>3. above = None \/ ~list[1].destroyed
      BY <2>6, <3>1
    <3>4. CASE e.type = "top"
      <4>1. above = list[1].id /\ above # None
        BY <2>3, <2>4, <2>5, <3>4
      <4>2. ~list[1].destroyed /\ (CauseOf(list, n, above) = "none" \/ above = e.id)
        BY <2>6, <3>1, <3>3, <4>1
      <4> QED
        BY <1>5, <1>6, <2>1, <2>5, <2>7, <3>2, <3>4, <4>1, <4>2, RestackKept
    <3>5. CASE e.type = "bottom"
      <4>1. above = None /\ above # e.id /\ CauseOf(list, n, above) = "none"
        BY <2>3, <2>4, <2>5, <2>6, <3>1, <3>5
      <4> QED
        BY <1>5, <1>6, <2>1, <2>5, <2>7, <3>2, <3>5, <4>1, RestackKept
    <3> QED
      BY <1>5, <3>4, <3>5
  <2> QED
    BY <1>4, <2>8, <2>9, <2>11, <2>12, HandlerStep DEF ListKept, InOrder
<1> QED
  BY <1>7, <1>8

------------------------------------------------------------------------------
(* The other steps.                                                         *)
LEMMA QuietStep ==
  ASSUME IInv, scan = 0, UNCHANGED <<tree, scan, evq, order, refused>>,
         list' \in Seq(Struct), LiveOnce(list'), NeedHidden(list'),
         Ordered(list, order) => Ordered(list', order)
  PROVE  IInv'
<1>1. TypeOK'
  BY DEF IInv, TypeOK, LiveOnce
<1>2. Caught'
  BY DEF IInv, Caught, Replayed, Legal
<1>3. ScanKept' /\ NeedHidden(list)' /\ InOrder'
  BY DEF IInv, ScanKept, NeedHidden, InOrder
<1> QED
  BY <1>1, <1>2, <1>3 DEF IInv

LEMMA MapUnmapStep ==
  ASSUME IInv, MapUnmap PROVE IInv'
<1>1. list \in Seq(Struct) /\ LiveOnce(list) /\ NeedHidden(list) /\ DOMAIN list = 1 .. Len(list)
  BY DEF IInv, TypeOK
<1>2. PICK i \in 1 .. Len(list) :
        /\ ~list[i].destroyed
        /\ list' = IF list[i].viewable THEN [list EXCEPT ![i].viewable = FALSE]
                   ELSE [list EXCEPT ![i].viewable = TRUE, ![i].need = FALSE]
  BY <1>1 DEF MapUnmap
<1>3. PICK w : w = IF list[i].viewable THEN [list[i] EXCEPT !.viewable = FALSE]
                   ELSE [list[i] EXCEPT !.viewable = TRUE, !.need = FALSE]
  OBVIOUS
<1>4. /\ w \in Struct /\ w.id = list[i].id /\ w.destroyed = list[i].destroyed
      /\ w.viewable => ~w.need
  <2>1. PICK v \in Struct : v = list[i]
    BY <1>1
  <2>2. /\ [v EXCEPT !.viewable = FALSE] \in Struct
        /\ [v EXCEPT !.viewable = TRUE, !.need = FALSE] \in Struct
    BY Zenon DEF Struct
  <2>3. w = IF v.viewable THEN [v EXCEPT !.viewable = FALSE]
            ELSE [v EXCEPT !.viewable = TRUE, !.need = FALSE]
    BY <1>3, <2>1
  <2>4. CASE v.viewable
    <3>1. w = [v EXCEPT !.viewable = FALSE]
      BY <2>3, <2>4
    <3>2. w.id = v.id /\ w.destroyed = v.destroyed /\ w.viewable = FALSE
      BY <3>1, Zenon DEF Struct
    <3> QED
      BY <2>1, <2>2, <3>1, <3>2
  <2>5. CASE ~v.viewable
    <3>1. w = [v EXCEPT !.viewable = TRUE, !.need = FALSE]
      BY <2>3, <2>5
    <3>2. w.id = v.id /\ w.destroyed = v.destroyed /\ w.need = FALSE
      BY <3>1, Zenon DEF Struct
    <3> QED
      BY <2>1, <2>2, <3>1, <3>2
  <2> QED
    BY <2>4, <2>5
<1>5. list' = [list EXCEPT ![i] = w]
  BY <1>2, <1>3
<1>6. /\ list' \in Seq(Struct) /\ Len(list') = Len(list)
      /\ \A j \in 1 .. Len(list) : list'[j] = IF j = i THEN w ELSE list[j]
  BY <1>1, <1>4, <1>5, ExceptSeq
<1>7. SameLooks(list, list')
  BY <1>4, <1>6 DEF SameLooks
<1>8. LiveOnce(list') /\ (Ordered(list, order) => Ordered(list', order))
  BY <1>1, <1>7, FlagsKept
<1>9. NeedHidden(list')
  <2>1. DOMAIN list' = 1 .. Len(list)
    BY <1>6
  <2> QED
    BY <1>1, <1>4, <1>6, <2>1 DEF NeedHidden
<1>10. scan = 0 /\ UNCHANGED <<tree, scan, evq, order, refused>>
  BY DEF MapUnmap
<1> QED
  BY <1>6, <1>8, <1>9, <1>10, QuietStep

(* There is a first one among the structs that match.                       *)
LEMMA FirstOf ==
  ASSUME NEW A, A \subseteq Nat, A # {}
  PROVE  (CHOOSE i \in A : \A j \in A : i <= j) \in A
<1> DEFINE R == OpToRel(<, Nat)
<1>1. IsWellFoundedOn(R, Nat)
  BY NatLessThanWellFounded
<1>2. \A x, y \in Nat : y < x => <<y, x>> \in R
  BY DEF OpToRel
<1> HIDE DEF R
<1>3. PICK i \in A : \A j \in A : ~(<<j, i>> \in R)
  BY <1>1, WFMin
<1>4. ASSUME NEW j \in A PROVE i <= j
  <2>1. i \in Nat /\ j \in Nat
    OBVIOUS
  <2>2. ~(j < i)
    BY <1>2, <1>3, <2>1
  <2> QED
    BY <2>1, <2>2
<1> QED
  BY <1>4, Zenon

LEMMA FinishDestroyStep ==
  ASSUME IInv, FinishDestroy PROVE IInv'
<1>1. list \in Seq(Struct) /\ LiveOnce(list) /\ NeedHidden(list) /\ DOMAIN list = 1 .. Len(list)
  BY DEF IInv, TypeOK
<1>2. PICK id, gone :
        /\ gone = {i \in DOMAIN list : list[i].id = id /\ list[i].destroyed} /\ gone # {}
        /\ list' = RemoveAt(list, CHOOSE i \in gone : \A j \in gone : i <= j)
  BY DEF FinishDestroy
<1>3. PICK k : k = CHOOSE i \in gone : \A j \in gone : i <= j
  OBVIOUS
<1>4. k \in 1 .. Len(list)
  <2>1. gone \subseteq Nat
    BY <1>1, <1>2
  <2>2. k \in gone
    BY <1>2, <1>3, <2>1, FirstOf
  <2> QED
    BY <1>1, <1>2, <2>2
<1>5. list' = RemoveAt(list, k)
  BY <1>2, <1>3
<1>6. /\ list' \in Seq(Struct) /\ Len(list') = Len(list) - 1
      /\ \A i \in 1 .. Len(list) - 1 : list'[i] = IF i < k THEN list[i] ELSE list[i + 1]
  BY <1>1, <1>4, <1>5, RemoveAtElements
<1>7. LiveOnce(list') /\ (Ordered(list, order) => Ordered(list', order))
  BY <1>1, <1>4, <1>5, RemovedLive
<1>8. NeedHidden(list')
  <2>1. DOMAIN list' = 1 .. Len(list) - 1 /\ Len(list) \in Nat
    BY <1>1, <1>6
  <2>2. ASSUME NEW i \in 1 .. Len(list) - 1, list'[i].viewable PROVE ~list'[i].need
    <3>1. i \in DOMAIN list /\ i + 1 \in DOMAIN list
      BY <1>1, <2>1
    <3> QED
      BY <1>1, <1>6, <2>2, <3>1 DEF NeedHidden
  <2> QED
    BY <2>1, <2>2 DEF NeedHidden
<1>9. scan = 0 /\ UNCHANGED <<tree, scan, evq, order, refused>>
  BY DEF FinishDestroy
<1> QED
  BY <1>6, <1>7, <1>8, <1>9, QuietStep

(* session_init adds the next child of the root: all on the list are below  *)
(* it, and the last added is at the head unless that was the overlay.       *)
LEMMA ScanStep ==
  ASSUME IInv, ScanNext PROVE IInv'
<1>1. /\ tree \in Seq(Id) /\ scan \in 0 .. Len(tree) /\ evq \in Seq(Event) /\ order \in Seq(Id)
      /\ Len(evq) <= MaxQueue /\ list \in Seq(Struct) /\ LiveOnce(list)
      /\ NeedHidden(list) /\ refused \in Cause
  BY DEF IInv, TypeOK
<1>2. scan > 0 /\ scan' = scan - 1 /\ UNCHANGED <<tree, evq, order>>
  BY DEF ScanNext
<1>3. /\ Len(tree) \in Nat /\ scan \in 1 .. Len(tree) /\ DOMAIN tree = 1 .. Len(tree)
      /\ DOMAIN list = 1 .. Len(list) /\ Len(list) \in Nat
  BY <1>1, <1>2
<1>4. /\ evq = <<>>
      /\ \A i \in DOMAIN list :
           list[i].id # Overlay /\ \E k \in scan + 1 .. Len(tree) : list[i].id = tree[k]
      /\ refused = "none" /\ scan < Len(tree) /\ tree[scan + 1] # Overlay =>
           list # <<>> /\ IsLive(list, 1, tree[scan + 1])
  BY <1>2 DEF IInv, ScanKept
<1>5. IsInjective(tree) /\ order = tree
  BY <1>4 DEF IInv, Caught, Replayed
<1>6. Caught'
  BY <1>2 DEF IInv, Caught, Replayed, Legal
<1>7. PICK id \in Id : id = tree[scan]
  BY <1>1, <1>3
<1>8. PICK prev : prev = IF scan = Len(tree) THEN None ELSE tree[scan + 1]
  OBVIOUS
<1>9. CASE id = Overlay
  <2>1. UNCHANGED <<list, refused>>
    BY <1>7, <1>9 DEF ScanNext
  <2>2. ScanKept'
    <3>1. \A k \in scan + 1 .. Len(tree) : k \in scan' + 1 .. Len(tree)
      BY <1>2, <1>3
    <3>2. scan' + 1 = scan
      BY <1>2, <1>3
    <3> QED
      BY <1>2, <1>4, <1>7, <1>9, <2>1, <3>1, <3>2 DEF ScanKept
  <2>3. TypeOK' /\ NeedHidden(list)' /\ InOrder'
    BY <1>1, <1>2, <1>3, <2>1 DEF IInv, TypeOK, NeedHidden, LiveOnce, InOrder
  <2> QED
    BY <1>6, <2>2, <2>3 DEF IInv
<1>10. CASE id # Overlay
  <2>1. PICK w : w = [id |-> id, destroyed |-> FALSE, viewable |-> TRUE, need |-> FALSE]
    OBVIOUS
  <2>2. w \in Struct /\ w.id = id /\ ~w.destroyed /\ ~w.need
    BY <2>1 DEF Struct
  <2>3. PICK k : k = IF prev = None THEN 1
                     ELSE IF Known(list, prev) THEN Find(list, prev) ELSE Len(list) + 1
    OBVIOUS
  <2>4. /\ list' = InsertAt(list, k, w)
        /\ Blame(IF prev = None \/ Known(list, prev) \/ list = <<>> THEN "none" ELSE "unknown")
    BY <1>7, <1>8, <1>10, <2>1, <2>3 DEF ScanNext, Inserted
  <2>5. k \in 1 .. Len(list) + 1
    <3>1. Known(list, prev) => Find(list, prev) \in 1 .. Len(list)
      BY <1>3, FoundLive
    <3> QED
      BY <1>3, <2>3, <3>1
  <2>6. /\ list' \in Seq(Struct) /\ Len(list') = Len(list) + 1
        /\ \A i \in 1 .. Len(list) + 1 :
             list'[i] = IF i < k THEN list[i] ELSE IF i = k THEN w ELSE list[i - 1]
    BY <1>1, <2>2, <2>4, <2>5, InsertAtElements
  <2>7. ASSUME NEW i \in DOMAIN list
        PROVE  /\ list[i].id # id
               /\ \E j \in scan + 1 .. Len(tree) : list[i].id = tree[j] /\ Above(tree, id, list[i].id)
    <3>1. PICK j \in scan + 1 .. Len(tree) : list[i].id = tree[j]
      BY <1>4
    <3>2. j \in DOMAIN tree /\ scan \in DOMAIN tree /\ scan < j
      BY <1>3, <3>1
    <3>3. list[i].id # id
      BY <1>5, <1>7, <3>1, <3>2 DEF IsInjective
    <3> QED
      BY <1>7, <3>1, <3>2, <3>3 DEF Above
  <2>8. ~Known(list, w.id)
    BY <2>2, <2>7 DEF Known, IsLive
  <2>9. LiveOnce(list')
    BY <1>1, <2>2, <2>4, <2>5, <2>8, InsertedLive
  <2>10. ASSUME NEW i \in DOMAIN list'
         PROVE  list'[i] = w \/ \E n \in DOMAIN list : list'[i] = list[n]
    <3>1. i \in 1 .. Len(list) + 1
      BY <2>6
    <3>2. CASE i < k
      BY <1>3, <2>5, <2>6, <3>1, <3>2
    <3>3. CASE i = k
      BY <2>6, <3>1, <3>3
    <3>4. CASE i > k
      <4>1. i - 1 \in DOMAIN list /\ list'[i] = list[i - 1]
        BY <1>3, <2>5, <2>6, <3>1, <3>4
      <4> QED
        BY <4>1
    <3> QED
      BY <2>5, <3>1, <3>2, <3>3, <3>4
  <2>11. NeedHidden(list')
    BY <1>1, <2>2, <2>10 DEF NeedHidden
  <2>12. refused' \in Cause /\ (refused' = "none" =>
           refused = "none" /\ (prev = None \/ Known(list, prev) \/ list = <<>>))
    BY <1>1, <2>4 DEF Blame, Cause
  <2>13. ASSUME refused' = "none" PROVE k = 1
    <3>1. CASE prev = None \/ list = <<>>
      <4>1. CASE prev = None
        BY <2>3, <4>1
      <4>2. CASE prev # None /\ list = <<>>
        <5>1. ~Known(list, prev) /\ Len(list) = 0
          BY <4>2 DEF Known
        <5> QED
          BY <2>3, <4>2, <5>1
      <4> QED
        BY <3>1, <4>1, <4>2
    <3>2. CASE prev # None /\ Known(list, prev) /\ list # <<>>
      <4>1. scan < Len(tree) /\ prev = tree[scan + 1]
        <5>1. scan # Len(tree)
          BY <1>8, <3>2
        <5>2. \A m \in Nat : \A n \in 1 .. m : n # m => n < m
          OBVIOUS
        <5>3. Len(tree) \in Nat /\ scan \in 1 .. Len(tree)
          BY <1>3
        <5>4. scan < Len(tree)
          BY <5>1, <5>2, <5>3
        <5> QED
          BY <1>8, <5>1, <5>4
      <4>2. PICK j \in DOMAIN list : IsLive(list, j, prev)
        BY <3>2 DEF Known
      <4>3. prev # Overlay
        BY <1>4, <4>2 DEF IsLive
      <4>4. IsLive(list, 1, prev) /\ 1 \in DOMAIN list
        BY <1>3, <1>4, <2>12, <2>13, <3>2, <4>1, <4>3
      <4>5. k \in DOMAIN list /\ IsLive(list, k, prev)
        BY <2>3, <3>2, FoundLive
      <4> QED
        BY <1>1, <4>4, <4>5 DEF LiveOnce, IsLive
    <3> QED
      BY <2>12, <2>13, <3>1, <3>2
  <2>14. InOrder'
    <3>1. SUFFICES ASSUME refused' = "none" PROVE Ordered(list', tree)
      BY <1>2, <1>5 DEF InOrder
    <3>2. Ordered(list, tree)
      BY <1>5, <2>12, <3>1 DEF IInv, InOrder
    <3>3. id \in ToSet(tree)
      BY <1>3, <1>7 DEF ToSet
    <3>4. \A i \in k .. Len(list) : ~list[i].destroyed => Above(tree, w.id, list[i].id)
      BY <1>3, <2>2, <2>5, <2>7
    <3>5. \A i \in 1 .. k - 1 : ~list[i].destroyed => Above(tree, list[i].id, w.id)
      BY <2>13, <3>1
    <3> QED
      BY <1>1, <2>2, <2>4, <2>5, <2>8, <3>2, <3>3, <3>4, <3>5, InsertedLive
  <2>15. ScanKept'
    <3>1. scan' + 1 = scan
      BY <1>2, <1>3
    <3>2. ASSUME NEW i \in DOMAIN list' 
          PROVE  /\ list'[i].id # Overlay
                 /\ \E j \in scan' + 1 .. Len(tree) : list'[i].id = tree[j]
      <4>1. scan \in scan' + 1 .. Len(tree)
        BY <1>3, <3>1
      <4>2. CASE list'[i] = w
        BY <1>7, <1>10, <2>2, <4>1, <4>2
      <4>3. CASE list'[i] # w
        <5>1. PICK n \in DOMAIN list : list'[i] = list[n]
          BY <2>10, <4>3
        <5>2. PICK j \in scan + 1 .. Len(tree) : list[n].id = tree[j]
          BY <2>7
        <5>3. j \in scan' + 1 .. Len(tree)
          BY <1>3, <3>1
        <5> QED
          BY <1>4, <5>1, <5>2, <5>3
      <4> QED
        BY <4>2, <4>3
    <3>3. ASSUME refused' = "none" PROVE list' # <<>> /\ IsLive(list', 1, tree[scan' + 1])
      <4>1. k = 1 /\ 1 \in 1 .. Len(list) + 1
        BY <1>3, <2>13, <3>3
      <4>2. list'[1] = w /\ list' # <<>>
        BY <1>3, <2>6, <4>1
      <4> QED
        BY <1>7, <2>2, <3>1, <4>2 DEF IsLive
    <3> QED
      BY <1>2, <1>4, <3>2, <3>3 DEF ScanKept
  <2>16. TypeOK'
    BY <1>1, <1>2, <1>3, <2>6, <2>9, <2>12 DEF TypeOK, LiveOnce
  <2> QED
    BY <1>6, <2>11, <2>14, <2>15, <2>16 DEF IInv, NeedHidden
<1> QED
  BY <1>9, <1>10

------------------------------------------------------------------------------
(* At the start compton has caught up with the server, and has everything   *)
(* still to add.                                                            *)
LEMMA StackInit ==
  Init => IInv
<1> SUFFICES ASSUME Init PROVE IInv
  OBVIOUS
<1>1. /\ tree \in SetToAllKPermutations(Id) /\ scan = Len(tree) /\ evq = <<>>
      /\ order = tree /\ list = <<>> /\ refused = "none"
  BY DEF Init
<1>2. PICK S \in SUBSET Id : tree \in SetToSeqs(S)
  BY <1>1 DEF SetToAllKPermutations
<1>3. PICK n : n = Cardinality(S)
  OBVIOUS
<1>4. n \in Nat
  BY <1>3, StackAssumption, FS_Subset, FS_CardinalityType DEF StackAssumption
<1>5. tree \in [1 .. n -> S] /\ \A i, j \in 1 .. n : i # j => tree[i] # tree[j]
  BY <1>2, <1>3 DEF SetToSeqs
<1>6. tree \in Seq(Id) /\ Len(tree) = n
  BY <1>4, <1>5
<1>7. IsInjective(tree)
  BY <1>5 DEF IsInjective
<1>8. list \in Seq(Struct) /\ DOMAIN list = {} /\ evq \in Seq(Event) /\ Len(evq) = 0
  BY <1>1
<1>9. TypeOK
  <2>1. scan \in 0 .. Len(tree) /\ Len(evq) <= MaxQueue
    BY <1>1, <1>4, <1>6, <1>8, StackAssumption DEF StackAssumption
  <2>2. LiveOnce(list) /\ refused \in Cause
    BY <1>1, <1>8 DEF LiveOnce, Cause
  <2> QED
    BY <1>1, <1>6, <1>8, <2>1, <2>2 DEF TypeOK
<1>10. Caught
  <2>1. PICK h : h = [k \in 0 .. 0 |-> tree]
    OBVIOUS
  <2>2. h[0] = tree /\ \A k \in 0 .. 0 : h[k] = tree
    BY <2>1
  <2>3. Replayed(h, evq)
    BY <1>6, <1>7, <1>8, <2>2 DEF Replayed
  <2> QED
    BY <1>1, <1>8, <2>2, <2>3 DEF Caught
<1>11. ScanKept
  BY <1>1, <1>8 DEF ScanKept
<1>12. NeedHidden(list) /\ InOrder
  BY <1>8 DEF NeedHidden, InOrder, Ordered
<1> QED
  BY <1>9, <1>10, <1>11, <1>12 DEF IInv

LEMMA StackNext ==
  IInv /\ [Next]_vars => IInv'
<1> SUFFICES ASSUME IInv, [Next]_vars PROVE IInv'
  OBVIOUS
<1>1. ASSUME NEW id \in Id,
             \/ Enter(id) \/ Leave(id)
             \/ \E above \in Id \cup {None} : Restack(id, above)
             \/ \E place \in {"top", "bottom"} : Circulate(id, place)
      PROVE  IInv'
  <2>1. PICK e : Sender(e)
    BY <1>1, ServerSends
  <2> QED
    BY <2>1, SentStep
<1>2. CASE HandleEnter
  BY <1>2, HandleEnterStep
<1>3. CASE HandleLeave
  BY <1>3, HandleLeaveStep
<1>4. CASE HandleConfigure
  BY <1>4, HandleConfigureStep
<1>5. CASE HandleCirculate
  BY <1>5, HandleCirculateStep
<1>6. CASE ScanNext
  BY <1>6, ScanStep
<1>7. CASE MapUnmap
  BY <1>7, MapUnmapStep
<1>8. CASE FinishDestroy
  BY <1>8, FinishDestroyStep
<1>9. CASE UNCHANGED vars
  <2>1. tree' = tree /\ scan' = scan /\ evq' = evq /\ list' = list /\ order' = order
        /\ refused' = refused
    BY <1>9 DEF vars
  <2> QED
    BY <2>1 DEF IInv, TypeOK, Caught, Replayed, Legal, ScanKept, NeedHidden, LiveOnce, IsLive,
                InOrder
<1> QED
  BY <1>1, <1>2, <1>3, <1>4, <1>5, <1>6, <1>7, <1>8, <1>9 DEF Next

LEMMA StackInv ==
  Spec => []IInv
  BY StackInit, StackNext, PTL DEF Spec

(* The list never has two live structs of one window, whatever the events   *)
(* that wait, the structs of gone windows with the same id that still fade, *)
(* and the windows session_init and a CreateNotify both tell of.            *)
THEOREM TypesKept ==
  Spec => []TypeOK
  BY StackInv, PTL DEF IInv

(* Unless a restack was left out (the window to be above was not known, a   *)
(* dead struct with its id came next, or the head of the list was dead when *)
(* a window circulated to the top), the live windows stand in the order the *)
(* server had when it sent the last handled event.                          *)
THEOREM OrderKept ==
  Spec => []InOrder
  BY StackInv, PTL DEF IInv
==============================================================================
