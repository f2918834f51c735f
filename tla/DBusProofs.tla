------------------------------ MODULE DBusProofs ------------------------------
(****************************************************************************)
(* Theorems about DBus, for any requests, any timeouts of libdbus and any   *)
(* delay before the screen is unredirected.                                 *)
(****************************************************************************)
EXTENDS DBus, SequenceTheorems, TLAPS

Timeouts == Timeout \cup {Unredir}

(* timeout_run walks only at its place in the loop; select() comes after    *)
(* the queue of libdbus has been emptied and no reset was asked for.        *)
LoopOrdered ==
  /\ pc \notin {"timeouts", "crashed"} => cur = Null
  /\ pc \in {"select", "asleep"} => inq = 0 /\ ~session.reset
  /\ pc = "asleep" => ~session.ev

(* The socket is watched for as long as anything can come over it.          *)
SocketWatched == IF connected THEN "read" \in fds ELSE wire = 0

(* libdbus never removes the timeout of the unredirection.                  *)
UnredirListed == Unredir \in ToSet(tmouts)

(* What is out of date on the screen is damage, and an event makes the loop *)
(* paint it.                                                                *)
StaleNoticed ==
  screen = "stale" => session.redirected /\ session.damage /\ session.ev

(* A request for a forced redirection is an event until a cycle honours it. *)
ForceNoticed ==
  ~session.ev =>
    /\ opts.redirected_force = ON => session.redirected \/ session.empty
    /\ opts.redirected_force = OFF /\ delay = 0 => ~session.redirected

IInv ==
  /\ TypeOK /\ LoopOrdered /\ SocketWatched /\ UnredirListed
  /\ StaleNoticed /\ ForceNoticed
  /\ AnsweredOnce /\ NextTimeoutLive /\ IntervalPositive /\ VSyncReady

------------------------------------------------------------------------------
(* The list of timeouts.                                                    *)
LEMMA PositionFound ==
  ASSUME NEW S, NEW l \in Seq(S), NEW x \in ToSet(l)
  PROVE  Position(l, x) \in 1 .. Len(l) /\ l[Position(l, x)] = x
BY DEF Position, ToSet

(* timeout_drop takes just this timeout off the list.                       *)
LEMMA DroppedGone ==
  ASSUME NEW S, NEW l \in Seq(S), IsInjective(l), NEW x \in ToSet(l)
  PROVE  /\ Dropped(l, x) \in Seq(S)
         /\ IsInjective(Dropped(l, x))
         /\ ToSet(Dropped(l, x)) = ToSet(l) \ {x}
<1> DEFINE i == Position(l, x)
           d == Dropped(l, x)
           a == SubSeq(l, 1, i - 1)
           b == SubSeq(l, i + 1, Len(l))
<1>1. i \in 1 .. Len(l) /\ l[i] = x /\ Len(l) \in Nat
  BY PositionFound
<1>2. d = a \o b
  BY DEF Dropped, RemoveAt
<1> HIDE DEF i, d
<1>3. /\ a \in Seq(S) /\ Len(a) = i - 1
      /\ \A j \in 1 .. i - 1 : a[j] = l[j]
  BY <1>1, SubSeqProperties
<1>4. /\ b \in Seq(S) /\ Len(b) = Len(l) - i
      /\ \A j \in 1 .. Len(l) - i : b[j] = l[i + j]
  BY <1>1, SubSeqProperties
<1> HIDE DEF a, b
<1>5. /\ d \in Seq(S) /\ Len(d) = Len(l) - 1
      /\ \A j \in 1 .. Len(l) - 1 : d[j] = IF j < i THEN l[j] ELSE l[j + 1]
  <2>1. d \in Seq(S) /\ Len(d) = Len(a) + Len(b)
    BY <1>2, <1>3, <1>4, ConcatProperties
  <2>2. ASSUME NEW j \in 1 .. Len(l) - 1
        PROVE  d[j] = IF j < i THEN l[j] ELSE l[j + 1]
    <3>1. CASE j < i
      BY <1>1, <1>2, <1>3, <1>4, <3>1
    <3>2. CASE ~(j < i)
      <4>1. d[j] = b[j - (i - 1)] /\ j - (i - 1) \in 1 .. Len(l) - i
        <5>1. j \in Len(a) + 1 .. Len(a) + Len(b) /\ j - Len(a) = j - (i - 1)
          BY <1>1, <1>3, <1>4, <3>2
        <5>2. d[j] = b[j - Len(a)]
          BY <1>2, <1>3, <1>4, <5>1, ConcatProperties
        <5> QED
          BY <1>1, <3>2, <5>1, <5>2
      <4>2. i + (j - (i - 1)) = j + 1
        BY <1>1
      <4> QED
        BY <1>4, <3>2, <4>1, <4>2
    <3> QED
      BY <3>1, <3>2
  <2> QED
    BY <1>1, <1>3, <1>4, <2>1, <2>2
<1>6. DOMAIN d = 1 .. Len(l) - 1 /\ DOMAIN l = 1 .. Len(l)
  BY <1>5
<1>7. IsInjective(d)
  <2> SUFFICES ASSUME NEW j \in 1 .. Len(l) - 1, NEW k \in 1 .. Len(l) - 1, d[j] = d[k]
               PROVE  j = k
    BY <1>6 DEF IsInjective
  <2> DEFINE up(n) == IF n < i THEN n ELSE n + 1
  <2>1. d[j] = l[up(j)] /\ d[k] = l[up(k)]
    BY <1>5
  <2>2. up(j) \in 1 .. Len(l) /\ up(k) \in 1 .. Len(l)
    BY <1>1
  <2>3. up(j) = up(k)
    BY <1>6, <2>1, <2>2 DEF IsInjective
  <2> QED
    BY <1>1, <2>3
<1>8. ASSUME NEW y \in ToSet(d) PROVE y \in ToSet(l) \ {x}
  <2>1. PICK j \in 1 .. Len(l) - 1 : y = d[j]
    BY <1>6 DEF ToSet
  <2>2. PICK k \in 1 .. Len(l) : y = l[k] /\ k # i
    BY <1>1, <1>5, <2>1
  <2> QED
    BY <1>1, <1>6, <2>2 DEF ToSet, IsInjective
<1>9. ASSUME NEW y \in ToSet(l) \ {x} PROVE y \in ToSet(d)
  <2>1. PICK k \in 1 .. Len(l) : y = l[k]
    BY <1>6 DEF ToSet
  <2>2. k # i
    BY <1>1, <2>1
  <2>3. PICK j \in 1 .. Len(l) - 1 : y = d[j]
    <3>1. CASE k < i
      BY <1>1, <1>5, <2>1, <3>1
    <3>2. CASE k > i
      <4>1. k - 1 \in 1 .. Len(l) - 1 /\ ~(k - 1 < i) /\ (k - 1) + 1 = k
        BY <1>1, <3>2
      <4> QED
        BY <1>5, <2>1, <4>1
    <3> QED
      BY <1>1, <2>2, <3>1, <3>2
  <2> QED
    BY <1>6, <2>3 DEF ToSet
<1> QED
  BY <1>5, <1>7, <1>8, <1>9 DEF d

LEMMA InsertedAdds ==
  ASSUME NEW S, NEW l \in Seq(S), IsInjective(l), NEW x \in S, x \notin ToSet(l)
  PROVE  /\ Inserted(l, x) \in Seq(S)
         /\ IsInjective(Inserted(l, x))
         /\ ToSet(Inserted(l, x)) = ToSet(l) \cup {x}
<1> DEFINE d == Inserted(l, x)
<1>1. /\ d \in Seq(S) /\ Len(d) = Len(l) + 1 /\ Len(l) \in Nat
      /\ \A j \in 1 .. Len(d) : d[j] = IF j = 1 THEN x ELSE l[j - 1]
  BY DEF Inserted
<1>2. DOMAIN d = 1 .. Len(l) + 1 /\ DOMAIN l = 1 .. Len(l)
  BY <1>1
<1> HIDE DEF d
<1>3. \A j \in 1 .. Len(l) : l[j] # x
  BY <1>2 DEF ToSet
<1>4. IsInjective(d)
  <2> SUFFICES ASSUME NEW j \in 1 .. Len(l) + 1, NEW k \in 1 .. Len(l) + 1, d[j] = d[k]
               PROVE  j = k
    BY <1>2 DEF IsInjective
  <2>1. CASE j = 1 \/ k = 1
    <3>1. ASSUME NEW n \in 1 .. Len(l) + 1, n # 1 PROVE d[n] # x
      <4>1. n - 1 \in 1 .. Len(l) /\ d[n] = l[n - 1]
        BY <1>1, <3>1
      <4> QED
        BY <1>3, <4>1
    <3>2. d[1] = x
      BY <1>1
    <3> QED
      BY <2>1, <3>1, <3>2
  <2>2. CASE j # 1 /\ k # 1
    <3>1. j - 1 \in DOMAIN l /\ k - 1 \in DOMAIN l /\ l[j - 1] = l[k - 1]
      BY <1>1, <1>2, <2>2
    <3> QED
      BY <3>1 DEF IsInjective
  <2> QED
    BY <2>1, <2>2
<1>5. ToSet(d) \subseteq ToSet(l) \cup {x}
  <2> SUFFICES ASSUME NEW j \in 1 .. Len(l) + 1 PROVE d[j] \in ToSet(l) \cup {x}
    BY <1>2 DEF ToSet
  <2> QED
    BY <1>1, <1>2 DEF ToSet
<1>6. ToSet(l) \cup {x} \subseteq ToSet(d)
  <2>1. x \in ToSet(d)
    BY <1>1, <1>2 DEF ToSet
  <2>2. ASSUME NEW j \in 1 .. Len(l) PROVE l[j] \in ToSet(d)
    <3>1. j + 1 \in 1 .. Len(l) + 1 /\ d[j + 1] = l[j]
      BY <1>1
    <3> QED
      BY <1>2, <3>1 DEF ToSet
  <2> QED
    BY <1>2, <2>1, <2>2 DEF ToSet
<1> QED
  BY <1>1, <1>4, <1>5, <1>6 DEF d

(* The timeout after this one is another one of the list.                   *)
LEMMA NextIsOther ==
  ASSUME NEW S, NEW l \in Seq(S), IsInjective(l), NEW x \in ToSet(l)
  PROVE  NextOf(l, x) # Null => NextOf(l, x) \in ToSet(l) \ {x}
<1>1. Position(l, x) \in 1 .. Len(l) /\ l[Position(l, x)] = x /\ DOMAIN l = 1 .. Len(l)
  BY PositionFound
<1> SUFFICES ASSUME Position(l, x) # Len(l)
             PROVE  NextOf(l, x) \in ToSet(l) \ {x}
  BY DEF NextOf
<1>2. Position(l, x) + 1 \in DOMAIN l /\ Position(l, x) + 1 # Position(l, x)
  BY <1>1
<1> QED
  BY <1>1, <1>2 DEF NextOf, ToSet, IsInjective
------------------------------------------------------------------------------
(* Steps that touch neither the requests nor the timeouts.                  *)
LEMMA ReadsTyped ==
  ASSUME TypeOK, NEW n \in 0 .. wire, NEW queue \in Nat, queue <= inq, Reads(n, queue)
  PROVE  /\ wire' \in Nat /\ inq' \in Nat /\ wire' + inq' <= MaxWaiting
         /\ wire = 0 => wire' = 0
BY DBusAssumption DEF TypeOK, Reads

LEMMA ClientKeeps == ASSUME IInv, Client PROVE IInv'
<1> USE DEF loopVars, watchVars, timeoutVars, optionVars
<1>1. TypeOK'
  <2>1. wire' \in Nat /\ wire' + inq <= MaxWaiting
    BY DBusAssumption DEF IInv, TypeOK, Client
  <2> QED
    BY <2>1 DEF IInv, TypeOK, Client
<1>2. (LoopOrdered /\ SocketWatched /\ UnredirListed /\ StaleNoticed /\ ForceNoticed)'
  BY DEF IInv, LoopOrdered, SocketWatched, UnredirListed, StaleNoticed, ForceNoticed, Client
<1>3. (AnsweredOnce /\ NextTimeoutLive /\ IntervalPositive /\ VSyncReady)'
  BY DEF IInv, AnsweredOnce, NextTimeoutLive, IntervalPositive, VSyncReady, Client
<1> QED
  BY <1>1, <1>2, <1>3 DEF IInv

(* The steps of the loop itself.                                            *)
Quiet == TimeoutsRun \/ NoXEvent \/ Select \/ Wake \/ DBusDone \/ ReadWrite

LEMMA HeadIsListed == ASSUME IInv PROVE HeadOf(tmouts) \in ToSet(tmouts)
<1>1. tmouts \in Seq(Timeouts) /\ tmouts # <<>>
  BY DEF IInv, TypeOK, UnredirListed, ToSet, Timeouts
<1>2. 1 \in DOMAIN tmouts
  BY <1>1
<1> QED
  BY <1>1, <1>2 DEF HeadOf, ToSet

LEMMA ListedIsTimeout == ASSUME IInv PROVE ToSet(tmouts) \subseteq Timeouts /\ Null \notin Timeouts
BY DBusAssumption DEF IInv, TypeOK, ToSet, Timeouts, Null, Unredir

LEMMA QuietKeeps == ASSUME IInv, Quiet PROVE IInv'
<1> USE DEF messageVars, watchVars, timeoutVars, optionVars
<1>0. HeadOf(tmouts) \in Timeout \cup {Unredir, Null}
  BY HeadIsListed, ListedIsTimeout DEF Timeouts
<1>1. TypeOK'
  <2>1. CASE ReadWrite
    <3>1. wire' \in Nat /\ inq' \in Nat /\ wire' + inq' <= MaxWaiting
      BY <2>1, ReadsTyped DEF IInv, TypeOK, ReadWrite
    <3> QED
      BY <2>1, <3>1 DEF IInv, TypeOK, ReadWrite
  <2>2. CASE DBusDone
    <3>1. answered' \in [call : BOOLEAN, noreply : BOOLEAN, replies : Nat]
      BY <2>2 DEF DBusDone, Nothing
    <3> QED
      BY <2>2, <3>1 DEF IInv, TypeOK, DBusDone
  <2>3. CASE TimeoutsRun \/ NoXEvent \/ Select
    BY <2>3 DEF IInv, TypeOK, TimeoutsRun, NoXEvent, Select
  <2>4. CASE Wake
    BY <1>0, <2>4 DEF IInv, TypeOK, Wake
  <2> QED
    BY <2>1, <2>2, <2>3, <2>4 DEF Quiet
<1>2. LoopOrdered'
  BY DEF IInv, TypeOK, LoopOrdered, Quiet, TimeoutsRun, NoXEvent, Select, Wake, DBusDone, ReadWrite, LoopDone
<1>3. SocketWatched'
  <2>1. wire = 0 => wire' = 0
    BY ReadsTyped DEF IInv, TypeOK, Quiet, TimeoutsRun, NoXEvent, Select, Wake, DBusDone, ReadWrite
  <2> QED
    BY <2>1 DEF IInv, SocketWatched, Quiet, TimeoutsRun, NoXEvent, Select, Wake, DBusDone, ReadWrite
<1>4. (UnredirListed /\ StaleNoticed /\ ForceNoticed)'
  BY DEF IInv, UnredirListed, StaleNoticed, ForceNoticed, Quiet, TimeoutsRun, NoXEvent,
    Select, Wake, DBusDone, ReadWrite
<1>5. AnsweredOnce'
  BY DEF IInv, AnsweredOnce, Nothing, Quiet, TimeoutsRun, NoXEvent, Select, Wake, DBusDone, ReadWrite
<1>6. (NextTimeoutLive /\ IntervalPositive /\ VSyncReady)'
  BY HeadIsListed DEF IInv, NextTimeoutLive, IntervalPositive, VSyncReady, Quiet, TimeoutsRun,
    NoXEvent, Select, Wake, DBusDone, ReadWrite
<1> QED
  BY <1>1, <1>2, <1>3, <1>4, <1>5, <1>6 DEF IInv

LEMMA WatchKeeps == ASSUME IInv, ToggleWatch \/ Disconnect PROVE IInv'
<1> USE DEF loopVars, messageVars, timeoutVars, optionVars, WatchToggled, FdsInsert, FdsDrop
<1>1. TypeOK'
  <2>1. CASE ToggleWatch
    <3>1. fds' \subseteq {"read", "write"}
      BY <2>1 DEF IInv, TypeOK, ToggleWatch
    <3> QED
      BY <2>1, <3>1 DEF IInv, TypeOK, ToggleWatch
  <2>2. CASE Disconnect
    <3>1. fds' \subseteq {"read", "write"}
      BY <2>2 DEF IInv, TypeOK, Disconnect
    <3>2. wire' = 0 /\ inq <= MaxWaiting
      BY <2>2, DBusAssumption DEF IInv, TypeOK, Disconnect
    <3>3. connected' \in BOOLEAN
      BY <2>2 DEF Disconnect
    <3> QED
      BY <2>2, <3>1, <3>2, <3>3 DEF IInv, TypeOK, Disconnect
  <2> QED
    BY <2>1, <2>2
<1>2. SocketWatched'
  BY DEF IInv, SocketWatched, ToggleWatch, Disconnect
<1>3. (LoopOrdered /\ UnredirListed /\ StaleNoticed /\ ForceNoticed)'
  BY DEF IInv, LoopOrdered, UnredirListed, StaleNoticed, ForceNoticed, ToggleWatch, Disconnect
<1>4. (AnsweredOnce /\ NextTimeoutLive /\ IntervalPositive /\ VSyncReady)'
  BY DEF IInv, AnsweredOnce, NextTimeoutLive, IntervalPositive, VSyncReady, ToggleWatch, Disconnect
<1> QED
  BY <1>1, <1>2, <1>3, <1>4 DEF IInv

------------------------------------------------------------------------------
(* Steps on the timeouts.                                                   *)

(* What a turn of timeout_run, or libdbus between two, may leave: a list    *)
(* with the timeout of the unredirection, and enabled only those on it.     *)
GoodList(l, on) ==
  /\ l \in Seq(Timeouts) /\ IsInjective(l)
  /\ Unredir \in ToSet(l) /\ on \subseteq ToSet(l)

LEMMA ListGood == ASSUME IInv PROVE GoodList(tmouts, enabled)
BY DEF IInv, TypeOK, UnredirListed, GoodList, Timeouts

LEMMA DroppedGood ==
  ASSUME NEW l, NEW on, GoodList(l, on), NEW x \in ToSet(l), x # Unredir
  PROVE  GoodList(Dropped(l, x), on \ {x}) /\ ToSet(Dropped(l, x)) = ToSet(l) \ {x}
BY DroppedGone DEF GoodList

LEMMA InsertedGood ==
  ASSUME NEW l, NEW on, GoodList(l, on), NEW x \in Timeout, x \notin ToSet(l)
  PROVE  GoodList(Inserted(l, x), on \cup {x}) /\ ToSet(Inserted(l, x)) = ToSet(l) \cup {x}
BY InsertedAdds DEF GoodList, Timeouts

(* A turn of timeout_run leaves a good list on which its own timeout may be *)
(* missing, and no other; only the timeout of the unredirection is disabled *)
(* by its callback.                                                         *)
LEMMA RunTimeoutLists ==
  ASSUME IInv, RunTimeout
  PROVE  /\ GoodList(tmouts', enabled')
         /\ ToSet(tmouts) \ {cur} \subseteq ToSet(tmouts')
         /\ Unredir \in enabled' => Unredir \in enabled
         /\ cur' = NextOf(tmouts, cur)
         /\ session' \in [ev : BOOLEAN, reset : BOOLEAN, damage : BOOLEAN,
                          redirected : BOOLEAN, hit : BOOLEAN, empty : BOOLEAN]
         /\ session'.ev = session.ev /\ session'.redirected = session.redirected
         /\ session'.damage = session.damage /\ session'.empty = session.empty
<1>1. GoodList(tmouts, enabled) /\ cur \in ToSet(tmouts) /\ Unredir \notin Timeout
  BY ListGood, DBusAssumption DEF IInv, NextTimeoutLive, RunTimeout
<1>2. session \in [ev : BOOLEAN, reset : BOOLEAN, damage : BOOLEAN,
                   redirected : BOOLEAN, hit : BOOLEAN, empty : BOOLEAN]
  BY DEF IInv, TypeOK
<1>3. CASE Runs(cur, tmouts, enabled, session.hit)
  BY <1>1, <1>2, <1>3 DEF Runs, NextTimeout
<1>4. CASE Runs(cur, tmouts, enabled \ {Unredir}, TRUE)
  BY <1>1, <1>2, <1>4 DEF Runs, NextTimeout, GoodList
<1>5. CASE /\ cur \in Timeout \cap enabled
           /\ \E removed \in BOOLEAN :
                LET kept == IF removed THEN Dropped(tmouts, cur) ELSE tmouts
                    on == IF removed THEN enabled \ {cur} ELSE enabled
                IN  \/ Runs(cur, kept, on, session.hit)
                    \/ \E new \in Timeout \ ToSet(tmouts) :
                         Runs(cur, Inserted(kept, new), on \cup {new}, session.hit)
  <2> PICK removed \in BOOLEAN :
        LET kept == IF removed THEN Dropped(tmouts, cur) ELSE tmouts
            on == IF removed THEN enabled \ {cur} ELSE enabled
        IN  \/ Runs(cur, kept, on, session.hit)
            \/ \E new \in Timeout \ ToSet(tmouts) :
                 Runs(cur, Inserted(kept, new), on \cup {new}, session.hit)
    BY <1>5
  <2> DEFINE kept == IF removed THEN Dropped(tmouts, cur) ELSE tmouts
             on == IF removed THEN enabled \ {cur} ELSE enabled
  <2>1. /\ GoodList(kept, on) /\ on \subseteq enabled
        /\ ToSet(tmouts) \ {cur} \subseteq ToSet(kept) /\ ToSet(kept) \subseteq ToSet(tmouts)
    <3>1. cur # Unredir
      BY <1>1, <1>5
    <3> QED
      BY <1>1, <3>1, DroppedGood
  <2>2. \/ Runs(cur, kept, on, session.hit)
        \/ \E new \in Timeout \ ToSet(tmouts) :
             Runs(cur, Inserted(kept, new), on \cup {new}, session.hit)
    OBVIOUS
  <2> HIDE DEF kept, on
  <2>3. CASE Runs(cur, kept, on, session.hit)
    BY <1>1, <1>2, <2>1, <2>3 DEF Runs, NextTimeout
  <2>4. ASSUME NEW new \in Timeout \ ToSet(tmouts),
               Runs(cur, Inserted(kept, new), on \cup {new}, session.hit)
        PROVE  /\ GoodList(tmouts', enabled')
               /\ ToSet(tmouts) \ {cur} \subseteq ToSet(tmouts')
               /\ Unredir \in enabled' => Unredir \in enabled
               /\ cur' = NextOf(tmouts, cur)
               /\ session' = [session EXCEPT !.hit = session.hit]
    <3>1. new \notin ToSet(kept) /\ new # Unredir
      BY <1>1, <2>1, <2>4
    <3>2. GoodList(Inserted(kept, new), on \cup {new})
          /\ ToSet(Inserted(kept, new)) = ToSet(kept) \cup {new}
      BY <2>1, <3>1, InsertedGood
    <3> QED
      BY <1>1, <1>2, <2>1, <2>4, <3>1, <3>2 DEF Runs, NextTimeout
  <2> QED
    BY <1>2, <2>2, <2>3, <2>4
<1> QED
  BY <1>3, <1>4, <1>5 DEF RunTimeout


LEMMA RunTimeoutKeeps == ASSUME IInv, RunTimeout PROVE IInv'
<1> USE DEF messageVars, watchVars, optionVars
<1>1. UNCHANGED <<pc, screen, wire, inq, connected, answered, fds, opts, vsync, delay>>
  BY DEF RunTimeout
<1>2. GoodList(tmouts', enabled') /\ cur' = NextOf(tmouts, cur) /\ pc = "timeouts"
  BY RunTimeoutLists DEF RunTimeout
<1>3. cur \in ToSet(tmouts) /\ GoodList(tmouts, enabled)
  BY ListGood DEF IInv, NextTimeoutLive, RunTimeout
<1>4. cur' # Null => cur' \in ToSet(tmouts) /\ cur' \in ToSet(tmouts')
  BY <1>2, <1>3, NextIsOther, RunTimeoutLists DEF GoodList
<1>5. TypeOK'
  <2>1. cur' \in Timeout \cup {Unredir, Null}
    BY <1>4, ListedIsTimeout DEF Timeouts
  <2>2. tmouts' \in Seq(Timeout \cup {Unredir}) /\ IsInjective(tmouts') /\ enabled' \subseteq ToSet(tmouts')
    BY <1>2 DEF GoodList, Timeouts
  <2> QED
    BY <1>1, <2>1, <2>2, RunTimeoutLists DEF IInv, TypeOK
<1>6. (LoopOrdered /\ SocketWatched /\ UnredirListed)'
  BY <1>1, <1>2 DEF IInv, LoopOrdered, SocketWatched, UnredirListed, GoodList
<1>7. (StaleNoticed /\ ForceNoticed)'
  BY <1>1, RunTimeoutLists DEF IInv, StaleNoticed, ForceNoticed
<1>8. (AnsweredOnce /\ NextTimeoutLive /\ IntervalPositive /\ VSyncReady)'
  BY <1>1, <1>4, RunTimeoutLists
  DEF IInv, AnsweredOnce, NextTimeoutLive, IntervalPositive, VSyncReady
<1> QED
  BY <1>5, <1>6, <1>7, <1>8 DEF IInv

LEMMA ChangeTimeoutKeeps == ASSUME IInv, ChangeTimeout PROVE IInv'
<1> USE DEF loopVars, messageVars, watchVars, optionVars
<1>1. /\ UNCHANGED <<pc, session, screen, wire, inq, connected, answered, fds, cur, opts, vsync, delay>>
      /\ pc = "dbus"
  BY DEF ChangeTimeout
<1>2. PICK x \in Timeout :
        \/ x \notin ToSet(tmouts) /\ tmouts' = Inserted(tmouts, x) /\ enabled' = enabled \cup {x}
        \/ x \in ToSet(tmouts) /\ tmouts' = Dropped(tmouts, x) /\ enabled' = enabled \ {x}
        \/ /\ x \in ToSet(tmouts) /\ UNCHANGED tmouts
           /\ enabled' = IF x \in enabled THEN enabled \ {x} ELSE enabled \cup {x}
  BY DEF ChangeTimeout
<1>3. x # Unredir /\ GoodList(tmouts, enabled)
  BY ListGood, DBusAssumption
<1>4. GoodList(tmouts', enabled') /\ (Unredir \in enabled' => Unredir \in enabled)
  <2>1. CASE x \notin ToSet(tmouts) /\ tmouts' = Inserted(tmouts, x) /\ enabled' = enabled \cup {x}
    BY <1>3, <2>1, InsertedGood
  <2>2. CASE x \in ToSet(tmouts) /\ tmouts' = Dropped(tmouts, x) /\ enabled' = enabled \ {x}
    BY <1>3, <2>2, DroppedGood
  <2>3. CASE /\ x \in ToSet(tmouts) /\ UNCHANGED tmouts
             /\ enabled' = IF x \in enabled THEN enabled \ {x} ELSE enabled \cup {x}
    BY <1>3, <2>3 DEF GoodList
  <2> QED
    BY <1>2, <2>1, <2>2, <2>3
<1>5. TypeOK'
  BY <1>1, <1>4 DEF IInv, TypeOK, GoodList, Timeouts
<1>6. cur' = Null
  BY <1>1 DEF IInv, LoopOrdered
<1>7. (LoopOrdered /\ SocketWatched /\ UnredirListed /\ StaleNoticed /\ ForceNoticed)'
  BY <1>1, <1>4 DEF IInv, LoopOrdered, SocketWatched, UnredirListed, GoodList, StaleNoticed, ForceNoticed
<1>8. (AnsweredOnce /\ NextTimeoutLive /\ IntervalPositive /\ VSyncReady)'
  BY <1>1, <1>4, <1>6 DEF IInv, AnsweredOnce, NextTimeoutLive, IntervalPositive, VSyncReady
<1> QED
  BY <1>5, <1>7, <1>8 DEF IInv

------------------------------------------------------------------------------
(* Steps that change the session and the options.                           *)
Sessions ==
  [ev : BOOLEAN, reset : BOOLEAN, damage : BOOLEAN, redirected : BOOLEAN,
   hit : BOOLEAN, empty : BOOLEAN]
Options ==
  [fade_delta : Nat \ {0}, unredir_if_possible : Int,
   vsync : VSync,
   redirected_force : Int, stoppaint_force : Int]
VSyncs ==
  [context : {"none", "current", "lost"}, loaded : SUBSET VSync, interval : BOOLEAN]

(* A message is answered at most once, and a call that wants a reply gets   *)
(* one, whatever is wrong with it.                                          *)
LEMMA RepliesOnce ==
  ASSUME NEW m \in Request, NEW works
  PROVE  /\ Replies(m, works) \in {0, 1}
         /\ m.method = "signal" => Replies(m, works) = 0
         /\ m.method # "signal" /\ ~m.noreply => Replies(m, works) = 1
<1> DEFINE bad == m.fault \in {"arguments", "value"}
           own == IF bad \/ (OnRequest(m, works) /\ m.noreply) THEN 0 ELSE 1
           unknown == IF Handled(m) \/ m.noreply THEN 0 ELSE 1
<1>1. Replies(m, works) = IF m.method = "signal" THEN 0 ELSE own + unknown
  BY DEF Replies
<1>2. Handled(m) <=> ~bad
  BY DEF Handled
<1>3. own + unknown \in {0, 1} /\ (~m.noreply => own + unknown = 1)
  BY <1>2
<1> HIDE DEF own, unknown
<1> QED
  BY <1>1, <1>3

(* vsync_deinit leaves no swap interval.                                    *)
LEMMA OffIsOff ==
  ASSUME vsync \in VSyncs, VSyncReady
  PROVE  /\ VSyncOff \in VSyncs /\ ~VSyncOff.interval
         /\ VSyncOff.context = vsync.context /\ VSyncOff.loaded = vsync.loaded
BY DEF VSyncs, VSyncOff, VSyncReady

(* vsync_init leaves a method that is set up, or none.                      *)
LEMMA InitLeavesReady ==
  ASSUME opts \in Options, NEW v \in VSyncs, ~v.interval, NEW method \in VSync,
         NEW works \in BOOLEAN, VSyncInit(v, method, works)
  PROVE  /\ opts' \in Options /\ vsync' \in VSyncs /\ VSyncReady'
         /\ opts'.redirected_force = opts.redirected_force
<1>1. /\ opts' \in Options /\ opts'.redirected_force = opts.redirected_force
      /\ opts'.vsync = IF works THEN method ELSE VSYNC_NONE
  <2>1. VSYNC_NONE \in VSync
    BY DEF VSync
  <2> QED
    BY <2>1 DEF VSyncInit, Options
<1>2. /\ vsync' \in VSyncs
      /\ method \in GLXMethod => vsync'.context = "current"
      /\ works /\ method # VSYNC_NONE => method \in vsync'.loaded
      /\ vsync'.interval => works /\ method = VSYNC_SWC
  <2> DEFINE made == [v EXCEPT !.context = IF method \in GLXMethod THEN "current" ELSE @]
  <2>1. /\ made \in VSyncs /\ ~made.interval
        /\ method \in GLXMethod => made.context = "current"
    BY DEF VSyncs
  <2>2. vsync' = IF works /\ method # VSYNC_NONE
                 THEN [made EXCEPT !.loaded = @ \cup {method},
                                   !.interval = @ \/ method = VSYNC_SWC]
                 ELSE made
    BY DEF VSyncInit, Inited
  <2> HIDE DEF made
  <2> QED
    BY <2>1, <2>2 DEF VSyncs
<1>3. VSYNC_NONE \notin GLXMethod /\ VSYNC_SWC # VSYNC_NONE
  BY DEF GLXMethod, VSYNC_NONE, VSYNC_OPENGL, VSYNC_SWC
<1> QED
  BY <1>1, <1>2, <1>3 DEF VSyncReady

(* glx_reinit leaves the method set up for the new context, or troubles.    *)
LEMMA ReinitLeavesReady ==
  ASSUME opts \in Options, vsync \in VSyncs, VSyncReady, GLXReinit
  PROVE  opts' \in Options /\ vsync' \in VSyncs /\ VSyncReady'
<1> DEFINE gone == [VSyncOff EXCEPT !.context = "lost", !.loaded = @ \ GLXMethod]
           made == [gone EXCEPT !.context = "current"]
<1>1. /\ gone \in VSyncs /\ ~gone.interval /\ gone.context = "lost"
      /\ gone.loaded = vsync.loaded \ GLXMethod
      /\ made \in VSyncs /\ ~made.interval
  BY OffIsOff DEF VSyncs
<1> HIDE DEF gone, made
<1>2. CASE vsync' = gone /\ UNCHANGED opts
  <2>1. opts.vsync # VSYNC_NONE => opts.vsync \in vsync.loaded \/ opts.vsync \in GLXMethod
    BY DEF VSyncReady
  <2> QED
    BY <1>1, <1>2, <2>1 DEF VSyncReady
<1>3. ASSUME NEW works \in BOOLEAN, VSyncInit(made, opts.vsync, works)
      PROVE  opts' \in Options /\ vsync' \in VSyncs /\ VSyncReady'
  <2>1. opts.vsync \in VSync
    BY DEF Options
  <2> QED
    BY <1>1, <1>3, <2>1, InitLeavesReady
<1> QED
  BY <1>2, <1>3 DEF GLXReinit, gone, made

(* What handling a request leaves: the options stay sensible, what it       *)
(* changed of the screen will be painted, and vsync is set up.              *)
LEMMA EffectGood ==
  ASSUME IInv, NEW m \in Requests, NEW works \in BOOLEAN, Effect(m, works)
  PROVE  /\ session' \in Sessions /\ opts' \in Options /\ vsync' \in VSyncs
         /\ screen' \in {"current", "stale", "dropped"}
         /\ screen' = "stale" => session'.redirected /\ session'.damage /\ session'.ev
         /\ ~session'.ev =>
              /\ opts'.redirected_force = ON => session'.redirected \/ session'.empty
              /\ opts'.redirected_force = OFF /\ delay = 0 => ~session'.redirected
         /\ VSyncReady'
<1> DEFINE Good ==
      /\ session' \in Sessions /\ opts' \in Options /\ vsync' \in VSyncs
      /\ screen' \in {"current", "stale", "dropped"}
      /\ screen' = "stale" => session'.redirected /\ session'.damage /\ session'.ev
      /\ ~session'.ev =>
           /\ opts'.redirected_force = ON => session'.redirected \/ session'.empty
           /\ opts'.redirected_force = OFF /\ delay = 0 => ~session'.redirected
      /\ VSyncReady'
<1> SUFFICES Good
  OBVIOUS
<1> m \in Request
  BY DBusAssumption
<1>0. /\ session \in Sessions /\ opts \in Options /\ vsync \in VSyncs
      /\ screen \in {"current", "stale", "dropped"}
      /\ screen = "stale" => session.redirected /\ session.damage /\ session.ev
      /\ ~session.ev =>
           /\ opts.redirected_force = ON => session.redirected \/ session.empty
           /\ opts.redirected_force = OFF /\ delay = 0 => ~session.redirected
      /\ VSyncReady
  BY DEF IInv, TypeOK, Sessions, Options, VSyncs, StaleNoticed, ForceNoticed
<1>1. CASE UNCHANGED <<session, screen, opts, vsync>>
  BY <1>0, <1>1 DEF VSyncReady
<1>2. CASE session' = [session EXCEPT !.reset = TRUE] /\ UNCHANGED <<screen, opts, vsync>>
  BY <1>0, <1>2 DEF Sessions, VSyncReady
<1>3. CASE session' = ForceRepaint(session) /\ screen' = Outdated /\ UNCHANGED <<opts, vsync>>
  BY <1>0, <1>3 DEF Sessions, ForceRepaint, Outdated, VSyncReady
<1>4. CASE session' = EvReceived(session) /\ UNCHANGED <<screen, opts, vsync>>
  BY <1>0, <1>4 DEF Sessions, EvReceived, VSyncReady
<1>5. CASE m.target = "vsync" /\ VSyncSet(m.value, works) /\ UNCHANGED <<session, screen>>
  <2>1. m.value \in VSync \cup {BadVsync}
    BY <1>5, DBusAssumption
  <2>2. VSyncOff \in VSyncs /\ ~VSyncOff.interval
        /\ VSyncOff.context = vsync.context /\ VSyncOff.loaded = vsync.loaded
    BY <1>0, OffIsOff
  <2>3. CASE m.value = BadVsync /\ vsync' = VSyncOff /\ UNCHANGED opts
    <3>1. VSyncReady'
      BY <1>0, <2>2, <2>3 DEF VSyncReady
    <3> QED
      BY <1>0, <1>5, <2>2, <2>3, <3>1
  <2>4. CASE m.value # BadVsync /\ VSyncInit(VSyncOff, m.value, works)
    <3>1. /\ opts' \in Options /\ vsync' \in VSyncs /\ VSyncReady'
          /\ opts'.redirected_force = opts.redirected_force
      BY <1>0, <2>1, <2>2, <2>4, InitLeavesReady
    <3> QED
      BY <1>0, <1>5, <3>1
  <2> QED
    BY <1>5, <2>3, <2>4 DEF VSyncSet
<1>6. CASE /\ m.target # "vsync" /\ session' = SessionSet(m, session) /\ opts' = OptionSet(m)
           /\ UNCHANGED <<screen, vsync>>
  <2>1. opts' \in Options /\ opts'.vsync = opts.vsync
    <3>1. FadeDelta(m.value) \in Nat \ {0} /\ m.value \in Int
      BY DEF FadeDelta, Request
    <3> QED
      BY <1>0, <1>6, <3>1 DEF OptionSet, Options
  <2>2. /\ session' \in Sessions
        /\ session'.redirected = session.redirected
        /\ session.damage => session'.damage
        /\ session.ev => session'.ev
    BY <1>0, <1>6 DEF SessionSet, RedirectedForce, ForceRepaint, EvReceived, Sessions
  <2>3. ~session'.ev => session' = session /\ opts'.redirected_force = opts.redirected_force
    BY <1>0, <1>6 DEF SessionSet, RedirectedForce, ForceRepaint, EvReceived, Sessions, OptionSet, Options
  <2>4. VSyncReady'
    BY <1>0, <1>6, <2>1 DEF VSyncReady
  <2> QED
    BY <1>0, <1>6, <2>1, <2>2, <2>3, <2>4
<1> QED
  BY <1>1, <1>2, <1>3, <1>4, <1>5, <1>6 DEF Effect


LEMMA ProcessKeeps == ASSUME IInv, Process PROVE IInv'
<1> USE DEF watchVars, timeoutVars
<1>1. UNCHANGED <<pc, delay, connected, fds, tmouts, enabled, cur>> /\ pc = "process"
  BY DEF Process
<1>2. PICK m \in Requests, works \in BOOLEAN, n \in 0 .. wire :
        /\ answered' = [call |-> m.method # "signal", noreply |-> m.noreply,
                        replies |-> Replies(m, works)]
        /\ Reads(n, inq - 1) /\ Effect(m, works)
  BY DEF Process
<1>3. m \in Request /\ inq - 1 \in Nat /\ inq - 1 <= inq
  BY DBusAssumption DEF IInv, TypeOK, Process
<1>4. /\ session' \in Sessions /\ opts' \in Options /\ vsync' \in VSyncs
      /\ screen' \in {"current", "stale", "dropped"}
      /\ screen' = "stale" => session'.redirected /\ session'.damage /\ session'.ev
      /\ ~session'.ev =>
           /\ opts'.redirected_force = ON => session'.redirected \/ session'.empty
           /\ opts'.redirected_force = OFF /\ delay = 0 => ~session'.redirected
      /\ VSyncReady'
  BY <1>2, <1>3, EffectGood
<1>5. /\ wire' \in Nat /\ inq' \in Nat /\ wire' + inq' <= MaxWaiting
      /\ wire = 0 => wire' = 0
  BY <1>2, <1>3, ReadsTyped DEF IInv
<1>6. answered' \in [call : BOOLEAN, noreply : BOOLEAN, replies : Nat] /\ AnsweredOnce'
  <2>1. m.noreply \in BOOLEAN
    BY <1>3 DEF Request
  <2>2. Replies(m, works) \in {0, 1}
        /\ (m.method = "signal" => Replies(m, works) = 0)
        /\ (m.method # "signal" /\ ~m.noreply => Replies(m, works) = 1)
    BY <1>3, RepliesOnce
  <2>3. (m.method # "signal") \in BOOLEAN
    OBVIOUS
  <2>4. answered' \in [call : BOOLEAN, noreply : BOOLEAN, replies : Nat]
    BY <1>2, <2>1, <2>2, <2>3
  <2>5. AnsweredOnce'
    <3>1. /\ answered'.replies = Replies(m, works) /\ answered'.noreply = m.noreply
          /\ answered'.call = (m.method # "signal")
      BY <1>2
    <3>2. CASE m.method = "signal"
      <4>1. answered'.replies = 0 /\ answered'.call = FALSE
        BY <2>2, <3>1, <3>2
      <4> QED
        BY <4>1 DEF AnsweredOnce
    <3>3. CASE m.method # "signal"
      <4>1. answered'.replies \in {0, 1} /\ answered'.call = TRUE
        BY <2>2, <3>1, <3>3
      <4>2. ~answered'.noreply => answered'.replies = 1
        BY <2>2, <3>1, <3>3
      <4> QED
        BY <4>1, <4>2 DEF AnsweredOnce
    <3> QED
      BY <3>2, <3>3
  <2> QED
    BY <2>4, <2>5
<1>7. TypeOK'
  BY <1>1, <1>4, <1>5, <1>6 DEF IInv, TypeOK, Sessions, Options, VSyncs
<1>8. (LoopOrdered /\ SocketWatched /\ UnredirListed)'
  BY <1>1, <1>5 DEF IInv, LoopOrdered, SocketWatched, UnredirListed
<1>9. (StaleNoticed /\ ForceNoticed /\ VSyncReady)'
  BY <1>1, <1>4 DEF StaleNoticed, ForceNoticed
<1>10. (NextTimeoutLive /\ IntervalPositive)'
  BY <1>1 DEF IInv, NextTimeoutLive, IntervalPositive
<1> QED
  BY <1>6, <1>7, <1>8, <1>9, <1>10 DEF IInv

(* A request on which compton crashes.                                      *)
LEMMA CrashKeeps == ASSUME IInv, Crash PROVE IInv'
<1> USE DEF watchVars, timeoutVars, optionVars
<1>1. PICK m \in Requests : answered' = [call |-> TRUE, noreply |-> m.noreply, replies |-> 0]
  BY DEF Crash
<1>2. m.noreply \in BOOLEAN
  BY DBusAssumption DEF Request
<1>3. answered' \in [call : BOOLEAN, noreply : BOOLEAN, replies : Nat] /\ AnsweredOnce'
  <2>1. pc' = "crashed"
    BY DEF Crash
  <2> QED
    BY <1>1, <1>2, <2>1 DEF AnsweredOnce
<1>4. inq' \in Nat /\ wire + inq' <= MaxWaiting
  BY DBusAssumption DEF IInv, TypeOK, Crash
<1>5. TypeOK'
  BY <1>3, <1>4 DEF IInv, TypeOK, Crash
<1>6. (LoopOrdered /\ SocketWatched /\ UnredirListed /\ StaleNoticed /\ ForceNoticed)'
  BY DEF IInv, LoopOrdered, SocketWatched, UnredirListed, StaleNoticed, ForceNoticed, Crash
<1>7. (NextTimeoutLive /\ IntervalPositive /\ VSyncReady)'
  BY DEF IInv, NextTimeoutLive, IntervalPositive, VSyncReady, Crash
<1> QED
  BY <1>3, <1>5, <1>6, <1>7 DEF IInv

LEMMA XEventKeeps == ASSUME IInv, XEvent PROVE IInv'
<1> USE DEF watchVars
<1>1. /\ UNCHANGED <<connected, answered, fds, tmouts, enabled, delay>>
      /\ pc' = "timeouts" /\ cur' = HeadOf(tmouts)
  BY DEF XEvent
<1>2. cur' \in ToSet(tmouts) /\ cur' \in Timeout \cup {Unredir, Null}
  BY <1>1, HeadIsListed, ListedIsTimeout DEF Timeouts
<1>3. /\ wire' \in Nat /\ inq' \in Nat /\ wire' + inq' <= MaxWaiting
      /\ wire = 0 => wire' = 0
  BY ReadsTyped DEF IInv, TypeOK, XEvent
<1>4. /\ session' \in Sessions /\ session'.ev
      /\ screen' \in {"current", "stale", "dropped"}
      /\ screen' = "stale" => session'.redirected /\ session'.damage
  <2>1. /\ session \in Sessions /\ screen \in {"current", "stale", "dropped"}
        /\ screen = "stale" => session.redirected /\ session.damage
    BY DEF IInv, TypeOK, StaleNoticed, Sessions
  <2>2. CASE session' = [session EXCEPT !.ev = TRUE, !.damage = TRUE] /\ screen' = Outdated
    BY <2>1, <2>2 DEF Sessions, Outdated
  <2>3. CASE session' = EvReceived(session) /\ screen' = screen
    BY <2>1, <2>3 DEF Sessions, EvReceived
  <2> QED
    BY <2>2, <2>3 DEF XEvent
<1>5. opts' \in Options /\ vsync' \in VSyncs /\ VSyncReady'
  <2>1. opts \in Options /\ vsync \in VSyncs /\ VSyncReady
    BY DEF IInv, TypeOK, Options, VSyncs
  <2>2. GLXReinit \/ UNCHANGED <<opts, vsync>>
    BY DEF XEvent
  <2> QED
    BY <2>1, <2>2, ReinitLeavesReady DEF VSyncReady
<1>6. TypeOK'
  BY <1>1, <1>2, <1>3, <1>4, <1>5 DEF IInv, TypeOK, Sessions, Options, VSyncs
<1>7. (LoopOrdered /\ SocketWatched /\ UnredirListed /\ StaleNoticed /\ ForceNoticed)'
  BY <1>1, <1>3, <1>4 DEF IInv, LoopOrdered, SocketWatched, UnredirListed, StaleNoticed, ForceNoticed
<1>8. (AnsweredOnce /\ NextTimeoutLive /\ IntervalPositive)'
  BY <1>1, <1>2 DEF IInv, AnsweredOnce, NextTimeoutLive, IntervalPositive, XEvent
<1> QED
  BY <1>5, <1>6, <1>7, <1>8 DEF IInv

LEMMA CycleKeeps == ASSUME IInv, Cycle PROVE IInv'
<1> USE DEF messageVars, watchVars, optionVars
<1>1. /\ UNCHANGED <<wire, inq, connected, answered, fds, tmouts, opts, vsync, delay>>
      /\ pc' \in {"timeouts", "crashed"} /\ cur' = HeadOf(tmouts) /\ pc = "paint"
  BY DEF Cycle
<1>2. cur' \in ToSet(tmouts) /\ cur' \in Timeout \cup {Unredir, Null}
  BY <1>1, HeadIsListed, ListedIsTimeout DEF Timeouts
<1>3. PICK windows \in {"none", "fullscreen", "other"} :
        /\ enabled' = Timer(UnredirPossible(windows))
        /\ session' = [Redirect(UnredirPossible(windows)) EXCEPT
                         !.hit = FALSE, !.ev = FALSE, !.damage = FALSE, !.empty = windows = "none"]
        /\ screen' = Shown(Redirect(UnredirPossible(windows)))
  BY DEF Cycle
<1> DEFINE possible == UnredirPossible(windows)
           s == Redirect(possible)
<1>4. session \in Sessions /\ delay \in Nat /\ possible \in BOOLEAN
  BY DBusAssumption DEF IInv, TypeOK, Sessions, UnredirPossible
<1>5. /\ opts.redirected_force = ON /\ possible => windows = "none" /\ ~session.redirected
      /\ opts.redirected_force = OFF => possible
  BY DEF UnredirPossible, ON, OFF, UNSET
<1> HIDE DEF possible
<1>6. /\ s \in Sessions
      /\ ~possible => s.redirected
      /\ possible /\ ~session.redirected => ~s.redirected
      /\ possible /\ AtOnce(session) => ~s.redirected
      /\ s.redirected /\ ~session.redirected => s.damage
      /\ s.redirected /\ session.redirected => s = session
  BY <1>4 DEF Redirect, Sessions, ForceRepaint
<1>7. /\ enabled' \subseteq ToSet(tmouts)
      /\ Unredir \in enabled' => delay > 0
  BY <1>3, <1>4 DEF IInv, TypeOK, UnredirListed, IntervalPositive, Timer, AtOnce, possible
<1>8. screen' \in {"current", "stale", "dropped"} /\ screen' # "stale"
  <2>1. screen' = Shown(s)
    BY <1>3 DEF possible
  <2>2. s.redirected /\ ~s.damage => session.redirected /\ screen # "stale"
    BY <1>6 DEF IInv, StaleNoticed
  <2>3. screen \in {"current", "stale", "dropped"}
    BY DEF IInv, TypeOK
  <2> HIDE DEF s
  <2> QED
    BY <2>1, <2>2, <2>3, <1>6 DEF Shown, Sessions
<1>9. /\ session' \in Sessions
      /\ session'.redirected = s.redirected
      /\ session'.empty = (windows = "none")
  <2>1. session' = [s EXCEPT !.hit = FALSE, !.ev = FALSE, !.damage = FALSE, !.empty = windows = "none"]
    BY <1>3 DEF possible
  <2> HIDE DEF s
  <2> QED
    BY <1>6, <2>1 DEF Sessions
<1>10. TypeOK'
  BY <1>1, <1>2, <1>7, <1>8, <1>9 DEF IInv, TypeOK, Sessions
<1>11. (LoopOrdered /\ SocketWatched /\ UnredirListed /\ StaleNoticed)'
  BY <1>1, <1>8 DEF IInv, LoopOrdered, SocketWatched, UnredirListed, StaleNoticed
<1>12. ForceNoticed'
  <2>1. delay = 0 => AtOnce(session)
    BY DEF AtOnce
  <2> HIDE DEF s
  <2> QED
    BY <1>1, <1>4, <1>5, <1>6, <1>9, <2>1 DEF ForceNoticed
<1>13. (AnsweredOnce /\ NextTimeoutLive /\ IntervalPositive /\ VSyncReady)'
  BY <1>1, <1>2, <1>7 DEF IInv, AnsweredOnce, NextTimeoutLive, IntervalPositive, VSyncReady
<1> QED
  BY <1>10, <1>11, <1>12, <1>13 DEF IInv

------------------------------------------------------------------------------
(* A new session, the first or one after a reset.                           *)
LEMMA FreshSession ==
  /\ <<Unredir>> \in Seq(Timeout \cup {Unredir}) /\ IsInjective(<<Unredir>>)
  /\ ToSet(<<Unredir>>) = {Unredir}
  /\ NewSession \in Sessions /\ DefaultOpts \in Options
  /\ NewVSync \in VSyncs /\ ~NewVSync.interval
  /\ DefaultOpts.vsync = VSYNC_NONE /\ VSYNC_NONE \notin GLXMethod
  /\ Nothing \in [call : BOOLEAN, noreply : BOOLEAN, replies : Nat]
<1>1. <<Unredir>> \in Seq(Timeout \cup {Unredir})
  OBVIOUS
<1>2. IsInjective(<<Unredir>>) /\ ToSet(<<Unredir>>) = {Unredir}
  BY DEF IsInjective, ToSet
<1>3. NewSession \in Sessions
  BY DEF NewSession, Sessions
<1>4. DefaultOpts \in Options /\ DefaultOpts.vsync = VSYNC_NONE /\ VSYNC_NONE \notin GLXMethod
  BY DEF DefaultOpts, Options, OFF, UNSET, VSync, VSYNC_NONE, VSYNC_DRM, VSYNC_OPENGL, VSYNC_SWC, GLXMethod
<1>5. NewVSync \in VSyncs /\ ~NewVSync.interval
  BY DEF NewVSync, VSyncs
<1>6. Nothing \in [call : BOOLEAN, noreply : BOOLEAN, replies : Nat]
  BY DEF Nothing
<1> QED
  BY <1>1, <1>2, <1>3, <1>4, <1>5, <1>6

LEMMA RestartKeeps == ASSUME IInv, Restart PROVE IInv'
<1>1. TypeOK'
  <2>1. 0 \in Nat /\ 0 + 0 <= MaxWaiting
    BY DBusAssumption
  <2> QED
    BY <2>1, FreshSession DEF IInv, TypeOK, Restart, Sessions, Options, VSyncs
<1>2. (LoopOrdered /\ SocketWatched /\ UnredirListed)'
  BY FreshSession DEF LoopOrdered, SocketWatched, UnredirListed, Restart
<1>3. (StaleNoticed /\ ForceNoticed)'
  BY DEF StaleNoticed, ForceNoticed, Restart, NewSession, DefaultOpts, ON, OFF, UNSET
<1>4. (AnsweredOnce /\ NextTimeoutLive /\ IntervalPositive /\ VSyncReady)'
  BY FreshSession DEF IInv, AnsweredOnce, NextTimeoutLive, IntervalPositive, VSyncReady, Restart
<1> QED
  BY <1>1, <1>2, <1>3, <1>4 DEF IInv

LEMMA InitHolds == Init => IInv
<1> SUFFICES ASSUME Init PROVE IInv
  OBVIOUS
<1>1. TypeOK
  <2>1. 0 \in Nat /\ 0 + 0 <= MaxWaiting
    BY DBusAssumption
  <2> QED
    BY <2>1, FreshSession DEF TypeOK, Init, Sessions, Options, VSyncs
<1>2. LoopOrdered /\ SocketWatched /\ UnredirListed
  BY FreshSession DEF LoopOrdered, SocketWatched, UnredirListed, Init
<1>3. StaleNoticed /\ ForceNoticed
  BY DEF StaleNoticed, ForceNoticed, Init, NewSession, DefaultOpts, ON, OFF, UNSET
<1>4. AnsweredOnce /\ NextTimeoutLive /\ IntervalPositive /\ VSyncReady
  BY FreshSession DEF AnsweredOnce, Nothing, NextTimeoutLive, IntervalPositive, VSyncReady, Init
<1> QED
  BY <1>1, <1>2, <1>3, <1>4 DEF IInv

LEMMA StutterKeeps == ASSUME IInv, UNCHANGED vars PROVE IInv'
BY DEF IInv, TypeOK, LoopOrdered, SocketWatched, UnredirListed, StaleNoticed, ForceNoticed,
  AnsweredOnce, NextTimeoutLive, IntervalPositive, VSyncReady,
  vars, loopVars, messageVars, watchVars, timeoutVars, optionVars

LEMMA StepKeeps == IInv /\ [Next]_vars => IInv'
BY ClientKeeps, QuietKeeps, WatchKeeps, RunTimeoutKeeps, ChangeTimeoutKeeps, ProcessKeeps, CrashKeeps,
   XEventKeeps, CycleKeeps, RestartKeeps, StutterKeeps
DEF Next, Thread, Quiet

LEMMA Inductive == Spec => []IInv
BY InitHolds, StepKeeps, PTL DEF Spec

------------------------------------------------------------------------------
(* The types; above all, no request makes fade_delta 0, by which the fade   *)
(* clock divides.                                                           *)
THEOREM TypesKept == Spec => []TypeOK
BY Inductive, PTL DEF IInv

(* Whatever message comes and whatever is wrong with it, a call that wants  *)
(* a reply gets exactly one unless compton crashes on it, a call that wants *)
(* none gets one at most, and a signal none.                                *)
THEOREM RepliesExact == Spec => []AnsweredOnce
BY Inductive, PTL DEF IInv

(* The thread never sleeps on a message libdbus has read, a pending event,  *)
(* or a reset, nor on a socket it does not watch.                           *)
THEOREM SleepsOnNothing == Spec => []NothingWaits
<1>1. IInv => NothingWaits
  BY DEF IInv, LoopOrdered, SocketWatched, NothingWaits
<1> QED
  BY <1>1, Inductive, PTL

(* Whatever timeouts libdbus adds and removes while timeout_run walks, the  *)
(* walk never steps to a timeout that has been freed.                       *)
THEOREM WalkSafe == Spec => []NextTimeoutLive
BY Inductive, PTL DEF IInv

(* The interval timeout_get_newrun divides by is never 0.                   *)
THEOREM NeverDividesByZero == Spec => []IntervalPositive
BY Inductive, PTL DEF IInv

(* What requests and events put out of date is painted before the thread    *)
(* sleeps.                                                                  *)
THEOREM PaintsBeforeSleep == Spec => []ScreenCurrent
<1>1. IInv => ScreenCurrent
  BY DEF IInv, LoopOrdered, StaleNoticed, ScreenCurrent
<1> QED
  BY <1>1, Inductive, PTL

(* A forced redirection is in force before the thread sleeps.               *)
THEOREM ForceTakesEffect == Spec => []ForceHonoured
<1>1. IInv => ForceHonoured
  BY DEF IInv, LoopOrdered, ForceNoticed, ForceHonoured
<1> QED
  BY <1>1, Inductive, PTL

(* Whatever requests set the method, whichever initialisation fails, and    *)
(* whenever glx_reinit replaces the context, the method in use is set up;   *)
(* only a context that could not be made again is missing.  The swap        *)
(* interval never outlives opengl-swc.                                      *)
THEOREM VSyncConsistent == Spec => []VSyncReady
BY Inductive, PTL DEF IInv

==============================================================================
