------------------------- MODULE WinDecisionsProofs -------------------------
(****************************************************************************)
(* The decisions of WinData: whatever is decided about a viewable window is *)
(* what its function would decide now, or an event waits that makes compton *)
(* decide again.                                                            *)
(*                                                                          *)
(* A function that writes a field spoils the decisions that depend on it,   *)
(* and one that takes a decision makes it right.  Proper is about all the   *)
(* decisions but a set of them; each function has a lemma that goes from    *)
(* Proper but for one set to Proper but for another, for the window it is   *)
(* about and for the others.                                                *)
(****************************************************************************)
EXTENDS WinDataProofs
------------------------------------------------------------------------------
(* An event waits that makes compton take what the list l decides again.    *)
Later(st, u, l) == "other" \in st.o.lists[l] /\ Of("other", u) \in Pending(st)

LookRight(st, u) ==
  \/ st.win[u].opctChange
  \/ st.win[u].opacityTgt = CalcOpacity(st, u) /\ st.win[u].dimmed = CalcDim(st, u)

(* What is decided about u is right or will be, but for what is in D.       *)
Proper(st, u, D) ==
  /\ \A d \in Decision \ D : Followed(st, d) => Fresh(st, u, d) \/ Later(st, u, d)
  /\ "opacity" \notin D /\ Followed(st, "opacity") => RuleFresh(st, u) \/ Later(st, u, "opacity")
  /\ "look" \notin D => LookRight(st, u)

(* Where groups count, whoever is asked leads itself.                       *)
Sure(st) == TrackLeader(st) /\ Rooted(st) => Grounded(st.win)

LEMMA SameConfig ==
  ASSUME NEW a, NEW b, b.o = a.o
  PROVE  /\ \A d : Followed(b, d) <=> Followed(a, d)
         /\ TrackLeader(b) <=> TrackLeader(a)
         /\ Rooted(b) <=> Rooted(a)
         /\ Listed(b) = Listed(a)
<1>1. TrackLeader(b) <=> TrackLeader(a)
  BY DEF TrackLeader
<1>2. Rooted(b) <=> Rooted(a)
  BY DEF Rooted, EarlyClients
<1>3. Listed(b) = Listed(a)
  BY DEF Listed
<1> QED
  BY <1>1, <1>2, <1>3 DEF Followed

LEMMA SureGood ==
  ASSUME NEW st, Sure(st), NEW d, Followed(st, d)
  PROVE  Good(st, d)
BY DEF Sure, Followed, Good

LEMMA SureKept ==
  ASSUME NEW a, NEW b, NEW w, NEW F, Changes(a, b, w, F), F \cap {"leader", "client"} = {}, Sure(a)
  PROVE  Sure(b)
<1>1. b.o = a.o
  BY DEF Changes
<1>2. Grounded(a.win) => Grounded(b.win)
  BY UpKept
<1> QED
  BY <1>1, <1>2, SameConfig DEF Sure

LEMMA ProperLess ==
  ASSUME NEW st, NEW u, NEW D, NEW E, Proper(st, u, D), D \subseteq E
  PROVE  Proper(st, u, E)
BY DEF Proper

(* From a to b everything about u, but for what is in E, has the same causes*)
(* and is kept or decided again.                                            *)
Alike(a, b, u, E) ==
  /\ b.o = a.o /\ Pending(a) \subseteq Pending(b)
  /\ \A d \in Decision \ E : Followed(a, d) =>
       /\ Decided(b, u, d) = Decided(a, u, d)
       /\ b.win[u].dec[d] \in {a.win[u].dec[d], Decided(a, u, d)}
  /\ "opacity" \notin E /\ Followed(a, "opacity") =>
       /\ Rule(b, u) = Rule(a, u)
       /\ b.win[u].opacitySet \in {a.win[u].opacitySet, Rule(a, u)}
  /\ "look" \notin E /\ LookRight(a, u) => LookRight(b, u)

LEMMA AlikeProper ==
  ASSUME NEW a, NEW b, NEW u, NEW E, Alike(a, b, u, E), NEW D, Proper(a, u, D), E \subseteq D
  PROVE  Proper(b, u, D)
<1>1. b.o = a.o /\ Pending(a) \subseteq Pending(b)
  BY DEF Alike
<1>2. /\ \A d : Followed(b, d) <=> Followed(a, d)
      /\ \A l : Later(a, u, l) => Later(b, u, l)
  BY <1>1, SameConfig DEF Later
<1>3. ASSUME NEW d \in Decision \ D, Followed(b, d) PROVE Fresh(b, u, d) \/ Later(b, u, d)
  <2>1. Fresh(a, u, d) \/ Later(a, u, d)
    BY <1>2, <1>3 DEF Proper
  <2>2. /\ Decided(b, u, d) = Decided(a, u, d)
        /\ b.win[u].dec[d] \in {a.win[u].dec[d], Decided(a, u, d)}
    BY <1>2, <1>3 DEF Alike
  <2> QED
    BY <1>2, <2>1, <2>2 DEF Fresh
<1>4. ASSUME "opacity" \notin D, Followed(b, "opacity")
      PROVE  RuleFresh(b, u) \/ Later(b, u, "opacity")
  <2>1. RuleFresh(a, u) \/ Later(a, u, "opacity")
    BY <1>2, <1>4 DEF Proper
  <2>2. /\ Rule(b, u) = Rule(a, u)
        /\ b.win[u].opacitySet \in {a.win[u].opacitySet, Rule(a, u)}
    BY <1>2, <1>4 DEF Alike
  <2> QED
    BY <1>2, <2>1, <2>2 DEF RuleFresh
<1>5. "look" \notin D => LookRight(b, u)
  BY DEF Alike, Proper
<1> QED
  BY <1>3, <1>4, <1>5 DEF Proper

LookFields == {"viewable", "type", "opacityProp", "opacityClient", "opacityTgt", "dimmed"}

(* The target opacity and the dimming stay right while what they are        *)
(* calculated from stays, or the window is flagged.                         *)
LEMMA LookKept ==
  ASSUME NEW a, NEW b, b.o = a.o, NEW u \in Win,
         \A f \in LookFields : b.win[u][f] = a.win[u][f],
         a.win[u].opctChange => b.win[u].opctChange,
         b.win[u].dec["focus"] # a.win[u].dec["focus"] => b.win[u].opctChange,
         b.activeWin = u <=> a.activeWin = u,
         LookRight(a, u)
  PROVE  LookRight(b, u)
<1>1. /\ b.win[u].viewable = a.win[u].viewable /\ b.win[u].type = a.win[u].type
      /\ b.win[u].opacityProp = a.win[u].opacityProp
      /\ b.win[u].opacityClient = a.win[u].opacityClient
      /\ b.win[u].opacityTgt = a.win[u].opacityTgt /\ b.win[u].dimmed = a.win[u].dimmed
  BY DEF LookFields
<1>2. Plain(b, b.win[u].type) <=> Plain(a, a.win[u].type)
  BY <1>1 DEF Plain
<1>3. CASE b.win[u].opctChange
  BY <1>3 DEF LookRight
<1>4. CASE ~b.win[u].opctChange
  <2>1. b.win[u].dec["focus"] = a.win[u].dec["focus"] /\ ~a.win[u].opctChange
    BY <1>4
  <2>2. CalcOpacity(b, u) = CalcOpacity(a, u)
    BY <1>1, <1>2, <2>1, Zenon DEF CalcOpacity
  <2>3. CalcDim(b, u) = CalcDim(a, u)
    BY <1>1, <2>1 DEF CalcDim
  <2> QED
    BY <1>1, <2>1, <2>2, <2>3 DEF LookRight
<1> QED
  BY <1>3, <1>4

(* Without a change of the focus or of a field that it depends on.          *)
LEMMA LookChanges ==
  ASSUME NEW a, NEW b, NEW w, NEW F, Changes(a, b, w, F), NEW u \in Win,
         u # w \/ F \cap LookFields = {},
         b.activeWin = u <=> a.activeWin = u, LookRight(a, u)
  PROVE  LookRight(b, u)
<1>1. b.o = a.o /\ Touched(a.win[u], b.win[u], IF u = w THEN F ELSE {})
  BY DEF Changes
<1>2. /\ \A f \in Kept : u # w \/ f \notin F => b.win[u][f] = a.win[u][f]
      /\ a.win[u].opctChange => b.win[u].opctChange
      /\ b.win[u].dec["focus"] # a.win[u].dec["focus"] => b.win[u].opctChange
  BY <1>1 DEF Touched
<1>3. LookFields \subseteq Kept
  BY DEF LookFields, Kept
<1>4. \A f \in LookFields : b.win[u][f] = a.win[u][f]
  BY <1>2, <1>3
<1> QED
  BY <1>1, <1>2, <1>4, LookKept

LEMMA StillAlike ==
  ASSUME NEW a, NEW b, Still(a, b), Sure(a), NEW u \in Win, a.win[u].viewable
  PROVE  Alike(a, b, u, {})
<1>1. /\ Changes(a, b, None, {}) /\ Calm(a, b) /\ b.activeWin = a.activeWin
      /\ b.o = a.o /\ Pending(a) \subseteq Pending(b)
  BY DEF Still, Quiet, Changes
<1>2. /\ \A d \in Decision : Good(a, d) => Decided(b, u, d) = Decided(a, u, d)
      /\ Rule(b, u) = Rule(a, u)
  BY StillDecided
<1>3. ASSUME NEW d \in Decision, Followed(a, d)
      PROVE  /\ Decided(b, u, d) = Decided(a, u, d)
             /\ b.win[u].dec[d] \in {a.win[u].dec[d], Decided(a, u, d)}
  <2>1. Good(a, d)
    BY <1>3, SureGood
  <2> QED
    BY <1>1, <1>2, <2>1 DEF Calm
<1>4. b.win[u].opacitySet \in {a.win[u].opacitySet, Rule(a, u)}
  BY <1>1 DEF Calm
<1>5. LookRight(a, u) => LookRight(b, u)
  BY <1>1, LookChanges
<1> QED
  BY <1>1, <1>2, <1>3, <1>4, <1>5 DEF Alike

LEMMA StillProper ==
  ASSUME NEW a, NEW b, Still(a, b), Sure(a), NEW u \in Win, a.win[u].viewable
  PROVE  /\ Sure(b) /\ b.win[u].viewable /\ b.o = a.o
         /\ \A D : Proper(a, u, D) => Proper(b, u, D)
<1>1. Sure(b)
  <2>1. Changes(a, b, None, {})
    BY DEF Still, Quiet
  <2> QED
    BY <2>1, SureKept
<1>2. b.win[u].viewable
  BY StillDecided
<1>3. ASSUME NEW D, Proper(a, u, D) PROVE Proper(b, u, D)
  BY <1>3, StillAlike, AlikeProper
<1>4. b.o = a.o
  BY DEF Still, Quiet, Changes
<1> QED
  BY <1>1, <1>2, <1>3, <1>4

(* What is decided again is right.                                          *)
LEMMA Repaired ==
  ASSUME NEW st, NEW u, NEW D, Proper(st, u, D), NEW E,
         \A d \in Decision \cap E : Followed(st, d) => Fresh(st, u, d),
         "opacity" \in E => RuleFresh(st, u),
         "look" \in E => LookRight(st, u)
  PROVE  Proper(st, u, D \ E)
BY DEF Proper

------------------------------------------------------------------------------
(* What the determine functions make right.                                 *)

LEMMA DetermineProper ==
  ASSUME NEW st \in Session, Sure(st), NEW w \in Win, st.win[w].viewable,
         NEW ds, ds \subseteq Decision \ {"focus"}, NEW b, b = Determine(st, w, ds),
         NEW D, Proper(st, w, D), NEW E, D \ ds \subseteq E
  PROVE  Proper(b, w, E)
<1>1. Still(st, b)
  BY DetermineStill
<1>2. Proper(b, w, D) /\ b.o = st.o
  BY <1>1, StillProper
<1>3. \A d \in ds : b.win[w].dec[d] = Decided(st, w, d)
  <2>1. PICK v : v = st.win[w]
    OBVIOUS
  <2>2. v \in WinType
    BY <2>1, WinIn
  <2>3. PICK new : Redecided(st, w, ds, v, new) /\ b = [st EXCEPT !.win[w] = new]
    BY <2>1, DetermineIs
  <2>4. /\ new \in WinType
        /\ \A d \in Decision : new.dec[d] = IF d \in ds THEN Decided(st, w, d) ELSE v.dec[d]
    BY <2>2, <2>3, RedecidedType
  <2>5. b.win[w] = new
    BY <2>3, <2>4, OneWindow
  <2> QED
    BY <2>4, <2>5
<1>4. ASSUME NEW d \in Decision \cap ds, Followed(b, d) PROVE Fresh(b, w, d)
  <2>1. Good(st, d)
    BY <1>2, <1>4, SameConfig, SureGood
  <2>2. Decided(b, w, d) = Decided(st, w, d)
    BY <1>1, <2>1, StillDecided
  <2> QED
    BY <1>3, <1>4, <2>2 DEF Fresh
<1>5. "opacity" \notin ds /\ "look" \notin ds
  BY DEF Decision
<1>6. Proper(b, w, D \ ds)
  BY <1>2, <1>4, <1>5, Repaired
<1> QED
  BY <1>6, ProperLess

LEMMA UpdateFocusedFresh ==
  ASSUME NEW st \in Session, Sure(st), NEW w \in Win, st.win[w].viewable,
         NEW b, b = UpdateFocused(st, w)
  PROVE  /\ Followed(st, "focus") => Fresh(b, w, "focus")
         /\ LookRight(b, w) /\ Still(st, b)
<1>1. PICK g : g = IF LooksAtLeader(st, w) THEN GotLeader(st, w) ELSE st
  OBVIOUS
<1>2. Still(st, g) /\ g \in Session
  BY <1>1, GotLeaderStill, StillNothing, StillSession
<1>3. b = FocusTaken(g, w)
  BY <1>1, UpdateFocusedIs
<1>4. Still(g, b)
  BY <1>2, <1>3, FocusTakenStill
<1>5. Sure(g) /\ g.win[w].viewable /\ g.o = st.o
  BY <1>2, StillProper
<1>6. b.win[w].dec["focus"] = Decided(g, w, "focus") /\ b.win[w].opctChange
  <2>1. PICK new : Refocused(g, w, g.win[w], new) /\ b = [g EXCEPT !.win[w] = new]
    BY <1>2, <1>3, FocusTakenIs
  <2>2. new \in WinType /\ new.opctChange /\ new.dec["focus"] = Decided(g, w, "focus")
    BY <2>1 DEF Refocused
  <2>3. b.win[w] = new
    BY <1>2, <2>1, <2>2, OneWindow
  <2> QED
    BY <2>2, <2>3
<1>7. ASSUME Followed(st, "focus") PROVE Fresh(b, w, "focus")
  <2>1. Good(g, "focus")
    BY <1>5, <1>7, SameConfig, SureGood
  <2>2. Decided(b, w, "focus") = Decided(g, w, "focus")
    BY <1>4, <1>5, <2>1, StillDecided DEF Decision
  <2> QED
    BY <1>6, <2>2 DEF Fresh
<1>8. LookRight(b, w)
  BY <1>6 DEF LookRight
<1> QED
  BY <1>2, <1>4, <1>7, <1>8, StillTwice

LEMMA UpdateFocusedProper ==
  ASSUME NEW st \in Session, Sure(st), NEW w \in Win, st.win[w].viewable,
         NEW b, b = UpdateFocused(st, w),
         NEW D, Proper(st, w, D), NEW E, D \ {"focus", "look"} \subseteq E
  PROVE  Proper(b, w, E)
<1>1. /\ Followed(st, "focus") => Fresh(b, w, "focus")
      /\ LookRight(b, w) /\ Still(st, b)
  BY UpdateFocusedFresh
<1>2. Proper(b, w, D) /\ b.o = st.o
  BY <1>1, StillProper
<1>3. PICK ds : ds = {"focus", "look"}
  OBVIOUS
<1>4. /\ \A d \in Decision \cap ds : Followed(b, d) => Fresh(b, w, d)
      /\ "opacity" \notin ds
  BY <1>1, <1>2, <1>3, SameConfig DEF Decision
<1>5. Proper(b, w, D \ ds)
  BY <1>1, <1>2, <1>4, Repaired
<1> QED
  BY <1>3, <1>5, ProperLess

LEMMA UpdateOpacityRuleProper ==
  ASSUME NEW st \in Session, Sure(st), NEW w \in Win, st.win[w].viewable,
         NEW b, b = UpdateOpacityRule(st, w),
         NEW D, Proper(st, w, D), NEW E, D \ {"opacity"} \subseteq E
  PROVE  Proper(b, w, E)
<1>1. Still(st, b)
  BY UpdateOpacityRuleStill
<1>2. Proper(b, w, D)
  BY <1>1, StillProper
<1>3. RuleFresh(b, w)
  <2>1. Rule(b, w) = Rule(st, w)
    BY <1>1, StillDecided
  <2>2. PICK rule : rule = IF Matches(st, w, "opacity") THEN 2 ELSE Opaque
    OBVIOUS
  <2>3. rule = Rule(st, w)
    BY <2>2 DEF Rule
  <2>4. CASE rule = st.win[w].opacitySet
    <3>1. b = st
      BY <2>2, <2>4 DEF UpdateOpacityRule
    <3> QED
      BY <2>3, <2>4, <3>1 DEF RuleFresh
  <2>5. CASE rule # st.win[w].opacitySet
    <3>1. PICK a, new : RuleSet(st, w, rule, a, new)
      BY <2>2, <2>5, UpdateOpacityRuleIs
    <3>2. /\ b = [a EXCEPT !.win[w] = new] /\ a \in Session
          /\ new \in WinType /\ new.opacitySet = rule
      BY <3>1 DEF RuleSet, SameBut
    <3>3. b.win[w] = new
      BY <3>2, OneWindow
    <3> QED
      BY <2>1, <2>3, <3>2, <3>3 DEF RuleFresh
  <2> QED
    BY <2>4, <2>5
<1>4. PICK ds : ds = {"opacity"}
  OBVIOUS
<1>5. "look" \notin ds /\ Decision \cap ds = {}
  BY <1>4 DEF Decision
<1>6. Proper(b, w, D \ ds)
  BY <1>2, <1>3, <1>5, Repaired
<1> QED
  BY <1>4, <1>6, ProperLess

LEMMA ListedIs ==
  ASSUME NEW st \in Session
  PROVE  /\ Listed(st) \subseteq Decision \cup {"opacity"}
         /\ \A l \in Decision \cup {"opacity"} : l \in Listed(st) <=> st.o.lists[l] # {}
<1>1. st.o \in Config
  BY DEF Session
<1>2. DOMAIN st.o.lists = Decision \cup {"opacity"}
  BY <1>1 DEF Config
<1> QED
  BY <1>2 DEF Listed

LEMMA ListedFocusProper ==
  ASSUME NEW st \in Session, Sure(st), NEW w \in Win, st.win[w].viewable,
         NEW b, b = ListedFocus(st, w),
         NEW D, Proper(st, w, D), NEW E, D \ ({"focus"} \cap Listed(st)) \subseteq E
  PROVE  Proper(b, w, E)
<1>1. CASE "focus" \in Listed(st)
  <2>1. b = UpdateFocused(st, w)
    BY <1>1 DEF ListedFocus
  <2>2. D \ {"focus", "look"} \subseteq E
    BY <1>1
  <2> QED
    BY <2>1, <2>2, UpdateFocusedProper
<1>2. CASE "focus" \notin Listed(st)
  <2>1. b = st /\ D \subseteq E
    BY <1>2 DEF ListedFocus
  <2> QED
    BY <2>1, ProperLess
<1> QED
  BY <1>1, <1>2

LEMMA ListedOpacityProper ==
  ASSUME NEW st \in Session, Sure(st), NEW w \in Win, st.win[w].viewable,
         NEW b, b = ListedOpacity(st, w),
         NEW D, Proper(st, w, D), NEW E, D \ ({"opacity"} \cap Listed(st)) \subseteq E
  PROVE  Proper(b, w, E)
<1>1. CASE "opacity" \in Listed(st)
  <2>1. b = UpdateOpacityRule(st, w)
    BY <1>1 DEF ListedOpacity
  <2>2. D \ {"opacity"} \subseteq E
    BY <1>1
  <2> QED
    BY <2>1, <2>2, UpdateOpacityRuleProper
<1>2. CASE "opacity" \notin Listed(st)
  <2>1. b = st /\ D \subseteq E
    BY <1>2 DEF ListedOpacity
  <2> QED
    BY <2>1, ProperLess
<1> QED
  BY <1>1, <1>2

(* win_on_factor_change decides all that depends on a list of conditions.   *)
LEMMA OnFactorChangeProper ==
  ASSUME NEW st \in Session, Sure(st), NEW w \in Win, st.win[w].viewable,
         NEW b, b = OnFactorChange(st, w),
         NEW D, Proper(st, w, D), NEW E, D \ Listed(st) \subseteq E
  PROVE  Proper(b, w, E)
<1>1. PICK ds : ds = (Decision \cap Listed(st)) \ {"focus"}
  OBVIOUS
<1>2. PICK a : a = Determine(st, w, ds)
  OBVIOUS
<1>3. PICK c : c = ListedFocus(a, w)
  OBVIOUS
<1>4. b = ListedOpacity(c, w)
  BY <1>1, <1>2, <1>3 DEF OnFactorChange
<1>5. ds \subseteq Decision \ {"focus"}
  BY <1>1
<1>6. Still(st, a) /\ a \in Session
  BY <1>2, <1>5, DetermineStill, StillSession
<1>7. Sure(a) /\ a.win[w].viewable /\ a.o = st.o
  BY <1>6, StillProper
<1>8. Still(a, c) /\ c \in Session
  BY <1>3, <1>6, ListedStill, StillSession
<1>9. Sure(c) /\ c.win[w].viewable /\ c.o = st.o
  BY <1>7, <1>8, StillProper
<1>10. Listed(a) = Listed(st) /\ Listed(c) = Listed(st)
  BY <1>7, <1>9, SameConfig
<1>11. PICK D1, D2 : D1 = D \ ds /\ D2 = D1 \ ({"focus"} \cap Listed(a))
  OBVIOUS
<1>12. Proper(a, w, D1)
  BY <1>2, <1>5, <1>11, DetermineProper
<1>13. Proper(c, w, D2)
  BY <1>3, <1>6, <1>7, <1>11, <1>12, ListedFocusProper
<1>14. D2 \ ({"opacity"} \cap Listed(c)) \subseteq E
  BY <1>1, <1>10, <1>11, ListedIs
<1> QED
  BY <1>4, <1>8, <1>9, <1>13, <1>14, ListedOpacityProper

Typewise == {"shadow", "fade", "focus", "look"}

(* win_on_wtype_change leaves out blur, paint and unredir.                  *)
LEMMA OnWtypeChangeProper ==
  ASSUME NEW st \in Session, Sure(st), NEW w \in Win, st.win[w].viewable,
         NEW b, b = OnWtypeChange(st, w), NEW D, Proper(st, w, D),
         NEW E, D \ (Typewise \cup ({"invert", "opacity"} \cap Listed(st))) \subseteq E
  PROVE  Proper(b, w, E)
<1>1. PICK ds, es : ds = {"shadow", "fade"} /\ es = {"invert"} \cap Listed(st)
  OBVIOUS
<1>2. PICK a : a = Determine(st, w, ds)
  OBVIOUS
<1>3. PICK c : c = UpdateFocused(a, w)
  OBVIOUS
<1>4. PICK d : d = Determine(c, w, es)
  OBVIOUS
<1>5. ds \subseteq Decision \ {"focus"} /\ es \subseteq Decision \ {"focus"}
  BY <1>1 DEF Decision
<1>6. Still(st, a) /\ a \in Session
  BY <1>2, <1>5, DetermineStill, StillSession
<1>7. Sure(a) /\ a.win[w].viewable /\ a.o = st.o
  BY <1>6, StillProper
<1>8. Still(a, c) /\ c \in Session
  BY <1>3, <1>6, UpdateFocusedStill, StillSession
<1>9. Sure(c) /\ c.win[w].viewable /\ c.o = st.o
  BY <1>7, <1>8, StillProper
<1>10. Still(c, d) /\ d \in Session
  BY <1>4, <1>5, <1>8, DetermineStill, StillSession
<1>11. Sure(d) /\ d.win[w].viewable /\ d.o = st.o
  BY <1>9, <1>10, StillProper
<1>12. Listed(c) = Listed(st) /\ Listed(d) = Listed(st)
  BY <1>9, <1>11, SameConfig
<1>13. b = ListedOpacity(d, w)
  BY <1>1, <1>2, <1>3, <1>4, <1>12 DEF OnWtypeChange
<1>14. PICK D1, D2, D3 : D1 = D \ ds /\ D2 = D1 \ {"focus", "look"} /\ D3 = D2 \ es
  OBVIOUS
<1>15. Proper(a, w, D1)
  BY <1>2, <1>5, <1>14, DetermineProper
<1>16. Proper(c, w, D2)
  BY <1>3, <1>6, <1>7, <1>14, <1>15, UpdateFocusedProper
<1>17. Proper(d, w, D3)
  BY <1>4, <1>5, <1>8, <1>9, <1>14, <1>16, DetermineProper
<1>18. D3 \ ({"opacity"} \cap Listed(d)) \subseteq E
  BY <1>1, <1>12, <1>14 DEF Typewise
<1> QED
  BY <1>10, <1>11, <1>13, <1>17, <1>18, ListedOpacityProper

------------------------------------------------------------------------------
(* What a change of the session leaves right.                               *)

LEMMA CausesAlike ==
  ASSUME NEW a \in Session, NEW b \in Session, b.o = a.o, Pending(a) \subseteq Pending(b),
         NEW u \in Win, NEW E,
         \A d \in Decision \ E : Followed(a, d) => SameCauses(a, b, u, d),
         "opacity" \notin E /\ Followed(a, "opacity") =>
           \A f \in a.o.lists["opacity"] : Has(a, u, f) <=> Has(b, u, f),
         b.win[u].dec = a.win[u].dec, b.win[u].opacitySet = a.win[u].opacitySet,
         "look" \notin E /\ LookRight(a, u) => LookRight(b, u)
  PROVE  Alike(a, b, u, E)
<1>1. ASSUME NEW d \in Decision \ E, Followed(a, d)
      PROVE  /\ Decided(b, u, d) = Decided(a, u, d)
             /\ b.win[u].dec[d] \in {a.win[u].dec[d], Decided(a, u, d)}
  <2>1. SameCauses(a, b, u, d)
    BY <1>1
  <2> QED
    BY <2>1, DecidedSame
<1>2. "opacity" \notin E /\ Followed(a, "opacity") => Rule(b, u) = Rule(a, u)
  BY RuleSame
<1> QED
  BY <1>1, <1>2 DEF Alike

LEMMA HasSame ==
  ASSUME NEW a, NEW b, NEW u, NEW f \in Fact,
         f = "name" => b.win[u].name = a.win[u].name,
         f = "dialog" => b.win[u].type = a.win[u].type,
         f = "shaped" => b.win[u].shaped = a.win[u].shaped,
         f = "active" => (b.activeWin = u <=> a.activeWin = u),
         f = "other" => b.srv[u].other = a.srv[u].other
  PROVE  Has(a, u, f) <=> Has(b, u, f)
<1>1. CASE f = "name"
  BY <1>1 DEF Has
<1>2. CASE f = "dialog"
  BY <1>2 DEF Has
<1>3. CASE f = "shaped"
  BY <1>3, Zenon DEF Has
<1>4. CASE f = "active"
  BY <1>4 DEF Has
<1>5. CASE f = "other"
  BY <1>5, Zenon DEF Has
<1> QED
  BY <1>1, <1>2, <1>3, <1>4, <1>5 DEF Fact

LEMMA ListFacts ==
  ASSUME NEW st \in Session, NEW l \in Decision \cup {"opacity"}
  PROVE  st.o.lists[l] \subseteq Fact
<1>1. st.o \in Config
  BY DEF Session
<1> QED
  BY <1>1 DEF Config

(* A window that stays as it is, while others change, and so may the focus. *)
LEMMA WindowAlike ==
  ASSUME NEW a \in Session, NEW b \in Session, Sure(a), Sure(b),
         NEW u \in Win, a.win[u].viewable, b.win[u] = a.win[u], b.o = a.o,
         b.openclose = a.openclose, b.srv[u].other = a.srv[u].other,
         Pending(a) \subseteq Pending(b), NEW E,
         \/ {"focus", "look"} \cup Listed(a) \subseteq E
         \/ b.activeWin = u <=> a.activeWin = u,
         \/ "focus" \in E \/ b.activeLeader = a.activeLeader
         \/ Up(a.win[u]) = None \/ Up(a.win[u]) \notin {a.activeLeader, b.activeLeader}
  PROVE  Alike(a, b, u, E)
<1>1. \A f \in Fact : f # "active" => (Has(a, u, f) <=> Has(b, u, f))
  BY HasSame
<1>2. ASSUME NEW l \in Decision \cup {"opacity"}, l \notin E
      PROVE  \A f \in a.o.lists[l] : Has(a, u, f) <=> Has(b, u, f)
  <2>1. CASE b.activeWin = u <=> a.activeWin = u
    <3>1. Has(a, u, "active") <=> Has(b, u, "active")
      BY <2>1, HasSame DEF Fact
    <3> QED
      BY <1>1, <1>2, <3>1, ListFacts
  <2>2. CASE Listed(a) \subseteq E
    BY <1>2, <2>2, ListedIs
  <2> QED
    BY <2>1, <2>2
<1>3. ASSUME NEW d \in Decision \ E, Followed(a, d), d = "focus"
      PROVE  (LeadsFocus(a, u) <=> LeadsFocus(b, u)) /\ (a.activeWin = u <=> b.activeWin = u)
  <2>1. TrackLeader(b) <=> TrackLeader(a)
    BY SameConfig
  <2>2. CASE TrackLeader(a)
    <3>1. Followed(b, d)
      BY <1>3, SameConfig
    <3>2. Good(a, d) /\ Good(b, d)
      BY <1>3, <3>1, SureGood
    <3>3. Grounded(a.win) /\ Grounded(b.win)
      BY <1>3, <2>1, <2>2, <3>2 DEF Good
    <3>4. Leader(a, u) = Up(a.win[u]) /\ Leader(b, u) = Up(a.win[u])
      BY <3>3, GroundedLeader
    <3> QED
      BY <1>3, <2>1, <3>4 DEF LeadsFocus
  <2>3. CASE ~TrackLeader(a)
    BY <1>3, <2>1, <2>3 DEF LeadsFocus
  <2> QED
    BY <2>2, <2>3
<1>4. Plain(a, a.win[u].type) <=> Plain(b, b.win[u].type)
  BY DEF Plain
<1>5. ASSUME NEW d \in Decision \ E, Followed(a, d) PROVE SameCauses(a, b, u, d)
  BY <1>2, <1>3, <1>4, <1>5, Zenon DEF SameCauses
<1>6. ASSUME "look" \notin E, LookRight(a, u) PROVE LookRight(b, u)
  <2>1. b.activeWin = u <=> a.activeWin = u
    BY <1>6
  <2> QED
    BY <1>6, <2>1, LookKept
<1> QED
  BY <1>2, <1>5, <1>6, CausesAlike

LEMMA OthersProper ==
  ASSUME NEW a \in Session, NEW b, NEW w, SameButWin(a, b, w), Sure(a), Sure(b),
         NEW u \in Win, u # w, a.win[u].viewable, NEW D, Proper(a, u, D)
  PROVE  Proper(b, u, D)
<1>1. Alike(a, b, u, {})
  BY WindowAlike DEF SameButWin
<1> QED
  BY <1>1, AlikeProper

(* The fields that what l decides depends on.                               *)
Minds(st, l, f) ==
  \/ f = "name" /\ "name" \in st.o.lists[l]
  \/ f = "type" /\ ("dialog" \in st.o.lists[l] \/ l \in Typewise)
  \/ f = "shaped" /\ ("shaped" \in st.o.lists[l] \/ (l = "shadow" /\ st.o.ignoreShaped))
  \/ f = "noShadow" /\ l = "shadow"
  \/ f \in {"wmwin", "leader", "client"} /\ l = "focus"
  \/ f = "inOpenclose" /\ l = "fade"
  \/ f = "force" /\ l \in Forced
  \/ f = "viewable"

Spared(st, F, E) ==
  \A l \in (Decision \cup {"opacity"}) \ E, f \in F : Followed(st, l) => ~Minds(st, l, f)

(* The session but for its windows, and a window but for the fields F.      *)
Beside(a, b) ==
  /\ b \in Session /\ b.o = a.o /\ b.openclose = a.openclose
  /\ b.activeWin = a.activeWin /\ b.activeLeader = a.activeLeader
  /\ \A x \in Xid : b.srv[x].other = a.srv[x].other
  /\ Pending(a) \subseteq Pending(b)

Remade(v, new, F) ==
  /\ \A f \in Kept \ F : new[f] = v[f]
  /\ new.dec = v.dec /\ new.opacitySet = v.opacitySet
  /\ v.opctChange => new.opctChange

LEMMA RemadeAlike ==
  ASSUME NEW a \in Session, NEW b, NEW w \in Win, Beside(a, b), Sure(a), Sure(b),
         a.win[w].viewable, NEW F, Remade(a.win[w], b.win[w], F), "viewable" \notin F,
         NEW E, Spared(a, F, E),
         "look" \in E \/ b.win[w].opctChange \/ F \cap LookFields = {}
  PROVE  Alike(a, b, w, E)
<1>1. /\ b \in Session /\ b.o = a.o /\ b.srv[w].other = a.srv[w].other
      /\ Pending(a) \subseteq Pending(b)
      /\ b.activeWin = a.activeWin /\ b.activeLeader = a.activeLeader
      /\ b.openclose = a.openclose
  BY DEF Beside, Xid
<1>2. /\ \A f \in Kept \ F : b.win[w][f] = a.win[w][f]
      /\ b.win[w].dec = a.win[w].dec /\ b.win[w].opacitySet = a.win[w].opacitySet
      /\ a.win[w].opctChange => b.win[w].opctChange
  BY DEF Remade
<1>3. /\ b.win[w].viewable = a.win[w].viewable
      /\ "name" \notin F => b.win[w].name = a.win[w].name
      /\ "type" \notin F => b.win[w].type = a.win[w].type
      /\ "shaped" \notin F => b.win[w].shaped = a.win[w].shaped
      /\ "noShadow" \notin F => b.win[w].noShadow = a.win[w].noShadow
      /\ "wmwin" \notin F => b.win[w].wmwin = a.win[w].wmwin
      /\ "inOpenclose" \notin F => b.win[w].inOpenclose = a.win[w].inOpenclose
      /\ "force" \notin F => b.win[w].force = a.win[w].force
      /\ "leader" \notin F => b.win[w].leader = a.win[w].leader
      /\ "client" \notin F => b.win[w].client = a.win[w].client
  BY <1>2 DEF Kept
<1>4. ASSUME NEW l \in (Decision \cup {"opacity"}) \ E, Followed(a, l)
      PROVE  \A f \in a.o.lists[l] : Has(a, w, f) <=> Has(b, w, f)
  <2>1. \A f \in F : ~Minds(a, l, f)
    BY <1>4 DEF Spared
  <2>2. /\ "name" \in a.o.lists[l] => "name" \notin F
        /\ "dialog" \in a.o.lists[l] => "type" \notin F
        /\ "shaped" \in a.o.lists[l] => "shaped" \notin F
    BY <2>1 DEF Minds
  <2>3. ASSUME NEW f \in a.o.lists[l] PROVE Has(a, w, f) <=> Has(b, w, f)
    <3>1. /\ f \in Fact
          /\ f = "name" => b.win[w].name = a.win[w].name
          /\ f = "dialog" => b.win[w].type = a.win[w].type
          /\ f = "shaped" => b.win[w].shaped = a.win[w].shaped
      BY <1>3, <1>4, <2>2, <2>3, ListFacts
    <3>2. b.activeWin = a.activeWin /\ b.srv[w].other = a.srv[w].other
      BY <1>1
    <3> QED
      BY <3>1, <3>2, HasSame
  <2> QED
    BY <2>3
<1>5. ASSUME NEW d \in Decision \ E, Followed(a, d) PROVE SameCauses(a, b, w, d)
  <2>1. \A f \in F : ~Minds(a, d, f)
    BY <1>5 DEF Spared
  <2>2. \A f \in a.o.lists[d] : Has(a, w, f) <=> Has(b, w, f)
    BY <1>4, <1>5
  <2>3. d \in Forced => b.win[w].force = a.win[w].force
    <3>1. d \in Forced => "force" \notin F
      BY <2>1 DEF Minds
    <3> QED
      BY <1>3, <3>1
  <2>4. d = "fade" => b.win[w].inOpenclose = a.win[w].inOpenclose
    BY <1>3, <2>1 DEF Minds
  <2>5. d \in {"shadow", "fade", "focus"} => (Plain(a, a.win[w].type) <=> Plain(b, b.win[w].type))
    <3>1. d \in {"shadow", "fade", "focus"} => b.win[w].type = a.win[w].type
      BY <1>3, <2>1 DEF Minds, Typewise
    <3> QED
      BY <1>1, <3>1 DEF Plain
  <2>6. d = "shadow" => /\ a.o.ignoreShaped => b.win[w].shaped = a.win[w].shaped
                        /\ b.win[w].noShadow = a.win[w].noShadow
    BY <1>3, <2>1 DEF Minds
  <2>7. d = "focus" => /\ b.win[w].wmwin = a.win[w].wmwin
                       /\ LeadsFocus(a, w) <=> LeadsFocus(b, w)
    <3> SUFFICES ASSUME d = "focus"
                 PROVE  /\ b.win[w].wmwin = a.win[w].wmwin
                        /\ LeadsFocus(a, w) <=> LeadsFocus(b, w)
      OBVIOUS
    <3>1. /\ b.win[w].wmwin = a.win[w].wmwin /\ b.win[w].leader = a.win[w].leader
          /\ b.win[w].client = a.win[w].client
      BY <1>3, <2>1 DEF Minds
    <3>2. Up(b.win[w]) = Up(a.win[w])
      BY <3>1 DEF Up
    <3>3. TrackLeader(b) <=> TrackLeader(a)
      BY <1>1, SameConfig
    <3>4. CASE TrackLeader(a)
      <4>1. Followed(b, d)
        BY <1>1, <1>5, SameConfig
      <4>2. Good(a, d) /\ Good(b, d)
        BY <1>5, <4>1, SureGood
      <4>3. Grounded(a.win) /\ Grounded(b.win)
        BY <3>3, <3>4, <4>2 DEF Good
      <4>4. Leader(a, w) = Up(a.win[w]) /\ Leader(b, w) = Up(b.win[w])
        BY <1>1, <4>3, GroundedLeader
      <4> QED
        BY <1>1, <3>1, <3>2, <3>3, <4>4 DEF LeadsFocus
    <3>5. CASE ~TrackLeader(a)
      BY <3>1, <3>3, <3>5 DEF LeadsFocus
    <3> QED
      BY <3>4, <3>5
  <2> QED
    BY <1>1, <1>3, <2>2, <2>3, <2>4, <2>5, <2>6, <2>7, Zenon DEF SameCauses
<1>6. ASSUME "look" \notin E, LookRight(a, w) PROVE LookRight(b, w)
  <2>1. CASE b.win[w].opctChange
    BY <2>1 DEF LookRight
  <2>2. CASE F \cap LookFields = {}
    <3>1. LookFields \subseteq Kept \ F
      BY <2>2 DEF LookFields, Kept
    <3>2. \A f \in LookFields : b.win[w][f] = a.win[w][f]
      BY <1>2, <3>1
    <3> QED
      BY <1>1, <1>2, <1>6, <3>2, LookKept
  <2> QED
    BY <1>6, <2>1, <2>2
<1>7. "opacity" \notin E /\ Followed(a, "opacity") =>
        \A f \in a.o.lists["opacity"] : Has(a, w, f) <=> Has(b, w, f)
  BY <1>4
<1> QED
  BY <1>1, <1>2, <1>5, <1>6, <1>7, CausesAlike

LEMMA RewrittenProper ==
  ASSUME NEW a \in Session, NEW b, NEW w \in Win, SameButWin(a, b, w), Sure(a), Sure(b),
         a.win[w].viewable, NEW F, Rewritten(a.win[w], b.win[w], F), "viewable" \notin F,
         NEW E, Spared(a, F, E),
         "look" \in E \/ b.win[w].opctChange \/ F \cap LookFields = {},
         NEW D, Proper(a, w, D), E \subseteq D
  PROVE  Proper(b, w, D)
<1>1. Beside(a, b)
  BY DEF SameButWin, Beside
<1>2. Remade(a.win[w], b.win[w], F)
  BY DEF Rewritten, Remade
<1>3. Alike(a, b, w, E)
  BY <1>1, <1>2, RemadeAlike
<1> QED
  BY <1>3, AlikeProper

------------------------------------------------------------------------------
(* The groups and the focus, from one window to another.                    *)

(* group_update_focused decides again whether the windows of the group are  *)
(* focused.                                                                 *)
LEMMA GroupUpdateFocusedProper ==
  ASSUME NEW st \in Session, Sure(st), TrackLeader(st), NEW u \in Win, st.win[u].viewable,
         NEW leader, NEW b, b = GroupUpdateFocused(st, leader), NEW D, Proper(st, u, D),
         NEW E, D \subseteq E \/ (leader # None /\ Up(st.win[u]) = leader /\ D \ {"focus"} \subseteq E)
  PROVE  Proper(b, u, E)
<1>1. Still(st, b)
  BY GroupUpdateFocusedStill
<1>2. Proper(b, u, D) /\ b.o = st.o
  BY <1>1, StillProper
<1>3. CASE D \subseteq E
  BY <1>2, <1>3, ProperLess
<1>4. CASE leader # None /\ Up(st.win[u]) = leader /\ D \ {"focus"} \subseteq E
  <2>1. ASSUME Followed(st, "focus") PROVE Fresh(b, u, "focus")
    <3>1. Grounded(st.win) /\ st.win \in [Win -> WinType]
      BY <2>1, SureGood DEF Good, Session
    <3>2. PICK g : g = GotLeaders(st)
      OBVIOUS
    <3>3. Still(st, g) /\ g \in Session
      BY <3>2, GotLeadersStill, StillSession
    <3>4. Sure(g) /\ g.win[u].viewable /\ g.o = st.o
      BY <3>3, StillProper
    <3>5. g.win[u].cache = leader
      <4>1. g.win = [w \in Win |-> Cached(st.win, w)[w]]
        BY <3>2 DEF GotLeaders, Session
      <4>2. Cached(st.win, u)[u].cache = Up(st.win[u])
        BY <3>1, CachedGrounded
      <4> QED
        BY <1>4, <4>1, <4>2
    <3>6. PICK c : c = UpdateFocused(g, u)
      OBVIOUS
    <3>7. Followed(g, "focus")
      BY <2>1, <3>4, SameConfig
    <3>8. Fresh(c, u, "focus") /\ Still(g, c)
      BY <3>3, <3>4, <3>6, <3>7, UpdateFocusedFresh
    <3>9. b = MembersFocused(g, leader)
      BY <1>4, <3>2 DEF GroupUpdateFocused
    <3>10. b.win[u] = c.win[u]
      <4>1. b.win = [w \in Win |-> IF g.win[w].cache = leader
                                   THEN UpdateFocused(g, w).win[w] ELSE g.win[w]]
        BY <3>3, <3>9 DEF MembersFocused, Session
      <4> QED
        BY <3>5, <3>6, <4>1
    <3>11. Still(g, b)
      BY <3>3, <3>9, MembersFocusedStill
    <3>12. "focus" \in Decision /\ Good(g, "focus")
      BY <3>4, <3>7, SureGood DEF Decision
    <3>13. Decided(b, u, "focus") = Decided(c, u, "focus")
      BY <3>4, <3>8, <3>11, <3>12, StillDecided
    <3> QED
      BY <3>8, <3>10, <3>13 DEF Fresh
  <2>2. PICK ds : ds = {"focus"}
    OBVIOUS
  <2>3. /\ \A d \in Decision \cap ds : Followed(b, d) => Fresh(b, u, d)
        /\ "opacity" \notin ds /\ "look" \notin ds
    BY <1>2, <2>1, <2>2, SameConfig
  <2>4. Proper(b, u, D \ ds)
    BY <1>2, <2>3, Repaired
  <2> QED
    BY <1>4, <2>2, <2>4, ProperLess
<1> QED
  BY <1>3, <1>4

(* Another group is the active one.                                         *)
Heading(st, leader) == [st EXCEPT !.activeLeader = leader]

LEMMA HeadingProper ==
  ASSUME NEW st \in Session, Sure(st), NEW leader \in Leaders, NEW b, b = Heading(st, leader)
  PROVE  /\ b \in Session /\ Sure(b) /\ b.o = st.o /\ b.win = st.win
         /\ b.activeLeader = leader /\ b.activeWin = st.activeWin
         /\ \A u \in Win : \A D :
              /\ st.win[u].viewable /\ Proper(st, u, D)
              /\ \/ "focus" \in D \/ Up(st.win[u]) = None
                 \/ Up(st.win[u]) \notin {st.activeLeader, leader}
              => Proper(b, u, D)
<1>1. /\ b \in Session /\ b.o = st.o /\ b.win = st.win /\ b.srv = st.srv /\ b.queue = st.queue
      /\ b.activeLeader = leader /\ b.activeWin = st.activeWin /\ b.openclose = st.openclose
  BY DEF Heading, Session
<1>2. Sure(b) /\ Pending(b) = Pending(st)
  BY <1>1, SameConfig DEF Sure, Pending
<1>3. ASSUME NEW u \in Win, NEW D, st.win[u].viewable, Proper(st, u, D),
             \/ "focus" \in D \/ Up(st.win[u]) = None
             \/ Up(st.win[u]) \notin {st.activeLeader, leader}
      PROVE  Proper(b, u, D)
  <2>1. PICK E : E = D \cap {"focus"}
    OBVIOUS
  <2>2. \/ "focus" \in E \/ b.activeLeader = st.activeLeader
        \/ Up(st.win[u]) = None \/ Up(st.win[u]) \notin {st.activeLeader, b.activeLeader}
    BY <1>1, <1>3, <2>1
  <2>3. Alike(st, b, u, E)
    BY <1>1, <1>2, <1>3, <2>2, WindowAlike
  <2>4. E \subseteq D
    BY <2>1
  <2> QED
    BY <1>3, <2>3, <2>4, AlikeProper
<1> QED
  BY <1>1, <1>2, <1>3

LEMMA GroupMovedProper ==
  ASSUME NEW st \in Session, Sure(st), TrackLeader(st), NEW u \in Win, st.win[u].viewable,
         NEW D, Proper(st, u, D), NEW old, old = st.activeLeader \/ "focus" \in D,
         NEW leader \in Leaders, NEW b, b = GroupMoved(st, old, leader),
         NEW E, D \subseteq E \/ (leader # None /\ Up(st.win[u]) = leader /\ D \ {"focus"} \subseteq E)
  PROVE  Proper(b, u, E)
<1>1. D \ {"focus"} \subseteq E
  OBVIOUS
<1>2. PICK a : a = Heading(st, leader)
  OBVIOUS
<1>3. PICK c : c = GroupUpdateFocused(a, old)
  OBVIOUS
<1>4. b = GroupUpdateFocused(c, leader)
  BY <1>2, <1>3 DEF GroupMoved, Heading
<1>5. a \in Session /\ Sure(a) /\ a.o = st.o /\ a.win = st.win
  BY <1>2, HeadingProper
<1>6. TrackLeader(a) /\ a.win[u].viewable
  BY <1>5, SameConfig
<1>7. Still(a, c) /\ c \in Session
  BY <1>3, <1>5, GroupUpdateFocusedStill, StillSession
<1>8. Sure(c) /\ c.win[u].viewable /\ c.o = a.o
  BY <1>5, <1>6, <1>7, StillProper
<1>9. TrackLeader(c) /\ Up(c.win[u]) = Up(st.win[u])
  <2>1. Changes(a, c, None, {})
    BY <1>7 DEF Still, Quiet
  <2>2. Up(c.win[u]) = Up(a.win[u])
    BY <2>1, UpKept
  <2> QED
    BY <1>5, <1>6, <1>8, <2>2, SameConfig
<1>10. PICK G : G = D \cup {"focus"}
  OBVIOUS
<1>11. D \subseteq G /\ G \ {"focus"} \subseteq D /\ G \ {"focus"} \subseteq E
  BY <1>1, <1>10
<1>12. Proper(st, u, G)
  BY <1>11, ProperLess
<1>13. Proper(a, u, G)
  BY <1>2, <1>10, <1>12, HeadingProper
<1>14. CASE leader # None /\ Up(st.win[u]) = leader
  <2>1. Proper(c, u, G)
    BY <1>3, <1>5, <1>6, <1>13, GroupUpdateFocusedProper
  <2> QED
    BY <1>4, <1>7, <1>8, <1>9, <1>11, <1>14, <2>1, GroupUpdateFocusedProper
<1>15. CASE D \subseteq E /\ ~(leader # None /\ Up(st.win[u]) = leader)
  <2>1. Proper(c, u, D)
    <3>1. CASE old # None /\ Up(st.win[u]) = old
      BY <1>3, <1>5, <1>6, <1>11, <1>13, <3>1, GroupUpdateFocusedProper
    <3>2. CASE ~(old # None /\ Up(st.win[u]) = old)
      <4>1. \/ "focus" \in D \/ Up(st.win[u]) = None
            \/ Up(st.win[u]) \notin {st.activeLeader, leader}
        BY <1>15, <3>2
      <4>2. Proper(a, u, D)
        BY <1>2, <4>1, HeadingProper
      <4> QED
        BY <1>3, <1>5, <1>6, <4>2, GroupUpdateFocusedProper
    <3> QED
      BY <3>1, <3>2
  <2>2. Proper(b, u, D)
    BY <1>4, <1>7, <1>8, <1>9, <2>1, GroupUpdateFocusedProper
  <2> QED
    BY <1>15, <2>2, ProperLess
<1> QED
  BY <1>14, <1>15

LEMMA OnGroupFocusProper ==
  ASSUME NEW st \in Session, Sure(st), TrackLeader(st), NEW u \in Win, st.win[u].viewable,
         NEW w, NEW leader \in Leaders, NEW b, b = OnGroupFocus(st, w, leader),
         NEW D, Proper(st, u, D)
  PROVE  Proper(b, u, D)
<1>1. CASE st.activeWin = w /\ leader # st.activeLeader
  <2>1. b = GroupMoved(st, st.activeLeader, leader)
    BY <1>1 DEF OnGroupFocus
  <2> QED
    BY <2>1, GroupMovedProper
<1>2. CASE /\ st.activeWin # w /\ leader # None
           /\ leader = st.activeLeader /\ ~GroupIsFocused(st, leader)
  <2>1. PICK a : a = Heading(st, None)
    OBVIOUS
  <2>2. b = GroupUpdateFocused(a, leader)
    BY <1>2, <2>1 DEF OnGroupFocus, Heading
  <2>3. a \in Session /\ Sure(a) /\ a.o = st.o /\ a.win = st.win
    BY <2>1, HeadingProper DEF Leaders
  <2>4. TrackLeader(a) /\ a.win[u].viewable
    BY <2>3, SameConfig
  <2>5. CASE Up(st.win[u]) = leader
    <3>1. PICK G : G = D \cup {"focus"}
      OBVIOUS
    <3>2. D \subseteq G /\ G \ {"focus"} \subseteq D
      BY <3>1
    <3>3. Proper(st, u, G)
      BY <3>2, ProperLess
    <3>4. Proper(a, u, G)
      BY <2>1, <3>1, <3>3, HeadingProper DEF Leaders
    <3> QED
      BY <1>2, <2>2, <2>3, <2>4, <2>5, <3>2, <3>4, GroupUpdateFocusedProper
  <2>6. CASE Up(st.win[u]) # leader
    <3>1. Proper(a, u, D)
      BY <1>2, <2>1, <2>6, HeadingProper DEF Leaders
    <3> QED
      BY <2>2, <2>3, <2>4, <3>1, GroupUpdateFocusedProper
  <2> QED
    BY <2>5, <2>6
<1>3. CASE /\ ~(st.activeWin = w /\ leader # st.activeLeader)
           /\ ~(/\ st.activeWin # w /\ leader # None
                /\ leader = st.activeLeader /\ ~GroupIsFocused(st, leader))
  <2>1. b = st
    BY <1>3 DEF OnGroupFocus
  <2> QED
    BY <2>1
<1> QED
  BY <1>1, <1>2, <1>3

LEMMA FocusGroupProper ==
  ASSUME NEW st \in Session, Sure(st), NEW u \in Win, st.win[u].viewable,
         NEW w \in Win, NEW b, b = FocusGroup(st, w), NEW D, Proper(st, u, D)
  PROVE  Proper(b, u, D)
<1>1. CASE TrackLeader(st)
  <2>1. PICK g, leader : g = GotLeader(st, w) /\ leader = Leader(st, w)
    OBVIOUS
  <2>2. b = OnGroupFocus(g, w, leader)
    BY <1>1, <2>1 DEF FocusGroup
  <2>3. Still(st, g) /\ g \in Session
    BY <2>1, GotLeaderStill, StillSession
  <2>4. Sure(g) /\ g.win[u].viewable /\ g.o = st.o /\ Proper(g, u, D)
    BY <2>3, StillProper
  <2>5. TrackLeader(g) /\ leader \in Leaders
    BY <1>1, <2>1, <2>4, SameConfig, LeaderType
  <2> QED
    BY <2>2, <2>3, <2>4, <2>5, OnGroupFocusProper
<1>2. CASE ~TrackLeader(st)
  <2>1. b = st
    BY <1>2 DEF FocusGroup
  <2> QED
    BY <2>1
<1> QED
  BY <1>1, <1>2

(* What a window gets right when its focus changes.                         *)
Focuswise(st) == {"focus", "look"} \cup Listed(st)

LEMMA OnFocusChangeProper ==
  ASSUME NEW st \in Session, Sure(st), NEW u \in Win, st.win[u].viewable,
         NEW w \in Win, NEW b, b = OnFocusChange(st, w), NEW D, Proper(st, u, D),
         NEW E, D \subseteq E \/ (u = w /\ D \ Focuswise(st) \subseteq E)
  PROVE  Proper(b, u, E)
<1>1. PICK a : a = FocusGroup(st, w)
  OBVIOUS
<1>2. PICK c : c = UpdateFocused(a, w)
  OBVIOUS
<1>3. b = OnFactorChange(c, w)
  BY <1>1, <1>2 DEF OnFocusChange, FocusGroup
<1>4. Quiet(st, a) /\ a \in Session
  BY <1>1, FocusGroupQuiet, QuietSession
<1>5. Sure(a) /\ a.win[u].viewable /\ a.o = st.o
  <2>1. Changes(st, a, None, {})
    BY <1>4 DEF Quiet
  <2>2. a.win[u].viewable = st.win[u].viewable
    BY <2>1, KeptSame DEF Kept
  <2>3. Sure(a) /\ a.o = st.o
    BY <2>1, SureKept DEF Changes
  <2> QED
    BY <2>2, <2>3
<1>6. Proper(a, u, D)
  BY <1>1, FocusGroupProper
<1>7. Still(a, c) /\ c \in Session
  BY <1>2, <1>4, UpdateFocusedStill, StillSession
<1>8. Sure(c) /\ c.win[u].viewable /\ c.o = st.o /\ Proper(c, u, D)
  BY <1>5, <1>6, <1>7, StillProper
<1>9. CASE D \subseteq E
  <2>1. Still(c, b)
    BY <1>3, <1>7, OnFactorChangeStill
  <2>2. Proper(b, u, D)
    BY <1>8, <2>1, StillProper
  <2> QED
    BY <1>9, <2>2, ProperLess
<1>10. CASE u = w /\ D \ Focuswise(st) \subseteq E
  <2>1. PICK G : G = D \ {"focus", "look"}
    OBVIOUS
  <2>2. Proper(c, w, G)
    BY <1>2, <1>4, <1>5, <1>6, <1>10, <2>1, UpdateFocusedProper
  <2>3. Listed(c) = Listed(st)
    BY <1>8, SameConfig
  <2>4. G \ Listed(c) \subseteq E
    BY <1>10, <2>1, <2>3 DEF Focuswise
  <2>5. Proper(b, w, E)
    BY <1>3, <1>7, <1>8, <1>10, <2>2, <2>4, OnFactorChangeProper
  <2> QED
    BY <1>10, <2>5
<1> QED
  BY <1>9, <1>10

(* Another window is the active one, or none.                               *)
LEMMA ActiveProper ==
  ASSUME NEW st \in Session, Sure(st), NEW x \in Win \cup {None}, NEW b, b = Active(st, x)
  PROVE  /\ b \in Session /\ Sure(b) /\ b.o = st.o /\ b.win = st.win /\ b.activeWin = x
         /\ \A u \in Win : \A D :
              /\ st.win[u].viewable /\ Proper(st, u, D)
              /\ Focuswise(st) \subseteq D \/ (x = u <=> st.activeWin = u)
              => Proper(b, u, D)
<1>1. /\ b \in Session /\ b.o = st.o /\ b.win = st.win /\ b.srv = st.srv /\ b.queue = st.queue
      /\ b.activeLeader = st.activeLeader /\ b.activeWin = x /\ b.openclose = st.openclose
  BY DEF Active, Session
<1>2. Sure(b) /\ Pending(b) = Pending(st)
  BY <1>1, SameConfig DEF Sure, Pending
<1>3. ASSUME NEW u \in Win, NEW D, st.win[u].viewable, Proper(st, u, D),
             Focuswise(st) \subseteq D \/ (x = u <=> st.activeWin = u)
      PROVE  Proper(b, u, D)
  <2>1. \/ {"focus", "look"} \cup Listed(st) \subseteq D
        \/ b.activeWin = u <=> st.activeWin = u
    BY <1>1, <1>3 DEF Focuswise
  <2>2. Alike(st, b, u, D)
    BY <1>1, <1>2, <1>3, <2>1, WindowAlike
  <2> QED
    BY <1>3, <2>2, AlikeProper
<1> QED
  BY <1>1, <1>2, <1>3

LEMMA LoseFocusProper ==
  ASSUME NEW st \in Session, Sure(st), NEW u \in Win, st.win[u].viewable,
         NEW w \in Win, NEW b, b = LoseFocus(st, w), NEW D, Proper(st, u, D)
  PROVE  Proper(b, u, D)
<1>1. None \notin Win
  BY ConfigAssumption DEF Xid
<1>2. CASE st.activeWin # w \/ ~st.win[w].viewable
  <2>1. b = st
    BY <1>2 DEF LoseFocus
  <2> QED
    BY <2>1
<1>3. CASE st.activeWin = w /\ st.win[w].viewable
  <2>1. PICK a : a = Active(st, None)
    OBVIOUS
  <2>2. b = OnFocusChange(a, w)
    BY <1>3, <2>1 DEF LoseFocus, Active
  <2>3. a \in Session /\ Sure(a) /\ a.o = st.o /\ a.win = st.win
    BY <2>1, ActiveProper
  <2>4. Focuswise(a) = Focuswise(st) /\ a.win[u].viewable
    BY <2>3, SameConfig DEF Focuswise
  <2>5. CASE u = w
    <3>1. PICK G : G = D \cup Focuswise(st)
      OBVIOUS
    <3>2. Proper(st, u, G)
      BY <3>1, ProperLess
    <3>3. Proper(a, u, G)
      BY <2>1, <3>1, <3>2, ActiveProper
    <3>4. G \ Focuswise(a) \subseteq D
      BY <2>4, <3>1
    <3> QED
      BY <2>2, <2>3, <2>4, <2>5, <3>3, <3>4, OnFocusChangeProper
  <2>6. CASE u # w
    <3>1. Proper(a, u, D)
      BY <1>1, <1>3, <2>1, <2>6, ActiveProper
    <3> QED
      BY <2>2, <2>3, <2>4, <3>1, OnFocusChangeProper
  <2> QED
    BY <2>5, <2>6
<1> QED
  BY <1>2, <1>3

(* The active window is mapped.                                             *)
Mapped(st) == st.activeWin # None => st.win[st.activeWin].viewable

LEMMA GainFocusProper ==
  ASSUME NEW st \in Session, Sure(st), Mapped(st), NEW u \in Win, st.win[u].viewable,
         NEW w \in Win, NEW b, b = GainFocus(st, w), NEW D, Proper(st, u, D)
  PROVE  Proper(b, u, D)
<1>1. None \notin Win /\ st.activeWin \in Win \cup {None}
  BY ConfigAssumption DEF Xid, Session
<1>2. CASE st.activeWin = w \/ ~st.win[w].viewable
  <2>1. b = st
    BY <1>2 DEF GainFocus
  <2> QED
    BY <2>1
<1>3. CASE st.activeWin # w /\ st.win[w].viewable
  <2>1. PICK c : c = Unfocused(st)
    OBVIOUS
  <2>2. PICK a : a = Active(c, w)
    OBVIOUS
  <2>3. b = OnFocusChange(a, w)
    BY <1>3, <2>1, <2>2 DEF GainFocus, Unfocused, Active
  <2>4. Quiet(st, c) /\ c \in Session
    BY <2>1, UnfocusedQuiet, QuietSession
  <2>5. c.activeWin = None
    BY <1>1, <2>1, LoseFocusQuiet DEF Unfocused, Mapped
  <2>6. Proper(c, u, D)
    BY <1>1, <2>1, LoseFocusProper DEF Unfocused
  <2>7. Sure(c) /\ c.win[u].viewable /\ c.o = st.o
    <3>1. Changes(st, c, None, {})
      BY <2>4 DEF Quiet
    <3>2. c.win[u].viewable = st.win[u].viewable
      BY <3>1, KeptSame DEF Kept
    <3>3. Sure(c) /\ c.o = st.o
      BY <3>1, SureKept DEF Changes
    <3> QED
      BY <3>2, <3>3
  <2>8. a \in Session /\ Sure(a) /\ a.o = c.o /\ a.win = c.win
    BY <2>2, <2>4, <2>7, ActiveProper
  <2>9. Focuswise(a) = Focuswise(c) /\ a.win[u].viewable
    BY <2>7, <2>8, SameConfig DEF Focuswise
  <2>10. CASE u = w
    <3>1. PICK G : G = D \cup Focuswise(c)
      OBVIOUS
    <3>2. Proper(c, u, G)
      BY <2>6, <3>1, ProperLess
    <3>3. Proper(a, u, G)
      BY <2>2, <2>4, <2>7, <3>1, <3>2, ActiveProper
    <3>4. G \ Focuswise(a) \subseteq D
      BY <2>9, <3>1
    <3> QED
      BY <2>3, <2>8, <2>9, <2>10, <3>3, <3>4, OnFocusChangeProper
  <2>11. CASE u # w
    <3>1. Proper(a, u, D)
      BY <1>1, <2>2, <2>4, <2>5, <2>6, <2>7, <2>11, ActiveProper
    <3> QED
      BY <2>3, <2>8, <2>9, <3>1, OnFocusChangeProper
  <2> QED
    BY <2>10, <2>11
<1> QED
  BY <1>2, <1>3

LEMMA RecheckFocusProper ==
  ASSUME NEW st \in Session, Sure(st), Mapped(st), NEW u \in Win, st.win[u].viewable,
         NEW b, b = RecheckFocus(st), NEW D, Proper(st, u, D)
  PROVE  Proper(b, u, D)
<1>1. st.focus \in Win \cup {None}
  BY DEF Session
<1>2. CASE st.focus = None
  BY <1>2 DEF RecheckFocus
<1>3. CASE st.focus # None
  BY <1>1, <1>3, GainFocusProper DEF RecheckFocus
<1> QED
  BY <1>2, <1>3

------------------------------------------------------------------------------
(* The leader, the type and the client of a window.                         *)

(* The active group is the one of the active window where groups count.     *)
Tied(st) == Framed(st) /\ (TrackLeader(st) /\ Rooted(st) => Lead(st))

LEMMA TiedSure ==
  ASSUME NEW st, Tied(st)
  PROVE  Sure(st)
BY DEF Tied, Sure, Lead

LEMMA ClearedProper ==
  ASSUME NEW st \in Session, Sure(st), NEW w \in Win, NEW leader \in Leaders,
         NEW b, b = Cleared(st, w, leader), Sure(b), NEW u \in Win, st.win[u].viewable,
         NEW D, Proper(st, u, D), NEW E, D \subseteq E, u = w => "focus" \in E
  PROVE  Proper(b, u, E)
<1>1. /\ Changes(st, b, w, {"leader"}) /\ b.activeWin = st.activeWin
      /\ b.activeLeader = st.activeLeader
      /\ b.win[u].dec = st.win[u].dec /\ b.win[u].opacitySet = st.win[u].opacitySet
  BY ClearedWindows
<1>2. Beside(st, b)
  BY <1>1, PropsKept DEF Changes, Beside
<1>3. PICK F : F = IF u = w THEN {"leader"} ELSE {}
  OBVIOUS
<1>4. Remade(st.win[u], b.win[u], F)
  BY <1>1, <1>3 DEF Changes, Touched, Remade
<1>5. Spared(st, F, E)
  BY <1>3 DEF Spared, Minds
<1>6. F \cap LookFields = {} /\ "viewable" \notin F
  BY <1>3 DEF LookFields
<1>7. Alike(st, b, u, E)
  BY <1>2, <1>4, <1>5, <1>6, RemadeAlike
<1>8. Proper(st, u, E)
  BY ProperLess
<1> QED
  BY <1>7, <1>8, AlikeProper

(* Where groups count, whoever is asked leads itself also with the new      *)
(* leader.                                                                  *)
LEMMA ClearedGrounded ==
  ASSUME NEW st \in Session, Rooted(st), Framed(st), Lead(st), NEW w \in Win, NEW c \in Family(w),
         st.win[w].client = c, NEW leader, leader = LeaderOf(st, c),
         NEW d, d = Cleared(st, w, leader)
  PROVE  /\ Grounded(d.win) /\ Up(d.win[w]) = IF leader # None THEN leader ELSE c
         /\ leader \in Leaders /\ d \in Session
<1>1. c \in Xid
  BY FamilyXid
<1>2. leader \in st.o.groups[c] \cup {None} /\ leader \in Leaders
  BY <1>1, TypeOfType DEF LeaderOf, Lead, Allowed
<1>3. /\ Changes(st, d, w, {"leader"}) /\ d.win[w].leader = leader
      /\ \A v \in Win : d.win[v].cache = None
  BY <1>2, ClearedWindows
<1>4. /\ Framed(d) /\ Led(d) /\ d.o = st.o /\ d \in Session
      /\ Up(d.win[w]) = IF leader # None THEN leader ELSE c
  <2>1. leader \in st.o.groups[c] \cup {None}
    BY <1>2
  <2>2. PICK F : F = {"leader"}
    OBVIOUS
  <2>3. Changes(st, d, w, F) /\ d.win[w].leader = leader
    BY <1>3, <2>2
  <2>4. d \in Session
    BY <2>3 DEF Changes
  <2>5. LedTo(st, d, w, c, leader)
    BY <2>1, <2>2, <2>3, LedSet
  <2> QED
    BY <2>4, <2>5 DEF LedTo
<1>5. Rooted(d)
  BY <1>4 DEF Rooted, EarlyClients
<1>6. Grounded(d.win)
  BY <1>3, <1>4, <1>5, GroundedWhenRooted
<1> QED
  BY <1>2, <1>4, <1>6

LEMMA LeaderMovedProper ==
  ASSUME NEW st \in Session, Sure(st), TrackLeader(st), NEW w \in Win, st.win[w].client # None,
         NEW old, Rooted(st) => old = st.activeLeader \/ st.activeWin # w,
         NEW new \in Leaders, Rooted(st) => new = Up(st.win[w]),
         NEW b, b = LeaderMoved(st, w, old, new),
         NEW u \in Win, st.win[u].viewable, NEW D, Proper(st, u, D),
         NEW E, D \subseteq E \/ (u = w /\ D \ {"focus"} \subseteq E)
  PROVE  Proper(b, u, E)
<1>1. Up(st.win[w]) # None
  BY DEF Up
<1>2. CASE st.activeWin = w /\ old # new
  <2>1. b = GroupMoved(st, old, new)
    BY <1>2 DEF LeaderMoved
  <2>2. CASE Rooted(st)
    <3>1. old = st.activeLeader /\ new # None
      BY <1>1, <1>2, <2>2
    <3>2. D \subseteq E \/ (new # None /\ Up(st.win[u]) = new /\ D \ {"focus"} \subseteq E)
      BY <2>2, <3>1
    <3> QED
      BY <2>1, <3>1, <3>2, GroupMovedProper
  <2>3. CASE ~Rooted(st)
    <3>1. PICK G : G = D \cup {"focus"}
      OBVIOUS
    <3>2. Proper(st, u, G)
      BY <3>1, ProperLess
    <3>3. Proper(b, u, G)
      BY <2>1, <3>1, <3>2, GroupMovedProper
    <3>4. b.o = st.o
      BY LeaderMovedQuiet DEF Quiet, Changes
    <3>5. ~Followed(b, "focus")
      BY <2>3, <3>4, SameConfig DEF Followed
    <3>6. G \ {"focus"} \subseteq E
      BY <3>1
    <3>7. Proper(b, u, G \ {"focus"})
      BY <3>3, <3>5 DEF Proper
    <3> QED
      BY <3>6, <3>7, ProperLess
  <2> QED
    BY <2>2, <2>3
<1>3. CASE ~(st.activeWin = w /\ old # new)
  <2>1. b = UpdateFocused(st, w)
    BY <1>3 DEF LeaderMoved
  <2>2. CASE u = w
    <3>1. D \ {"focus", "look"} \subseteq E
      BY <2>2
    <3> QED
      BY <2>1, <2>2, <3>1, UpdateFocusedProper
  <2>3. CASE u # w
    <3>1. Still(st, b)
      BY <2>1, UpdateFocusedStill
    <3>2. Proper(b, u, D)
      BY <3>1, StillProper
    <3> QED
      BY <2>3, <3>2, ProperLess
  <2> QED
    BY <2>2, <2>3
<1> QED
  BY <1>2, <1>3

LEMMA SetLeaderProper ==
  ASSUME NEW st \in Session, Tied(st), TrackLeader(st), NEW w \in Win, NEW c \in Family(w),
         st.win[w].client = c, NEW leader, leader = LeaderOf(st, c),
         NEW b, b = SetLeader(st, w, leader),
         NEW u \in Win, st.win[u].viewable, NEW D, Proper(st, u, D)
  PROVE  Proper(b, u, D)
<1>1. CASE leader = st.win[w].leader
  <2>1. b = st
    BY <1>1, Zenon DEF SetLeader
  <2> QED
    BY <2>1
<1>2. CASE leader # st.win[w].leader
  <2>1. PICK a : a = Cleared(st, w, leader)
    OBVIOUS
  <2>2. PICK old : old = Leader(st, w)
    OBVIOUS
  <2>3. PICK new : new = Leader(a, w)
    OBVIOUS
  <2>4. PICK g : g = GotLeader(a, w)
    OBVIOUS
  <2>5. PICK d : d = LeaderMoved(g, w, old, new)
    OBVIOUS
  <2>6. b = OnFactorChange(d, w)
    BY <1>2, <2>1, <2>2, <2>3, <2>4, <2>5, Zenon DEF SetLeader, Cleared
  <2>7. c \in Xid /\ leader \in Leaders /\ c # None
    BY FamilyXid, TypeOfType, ConfigAssumption
  <2>8. /\ Changes(st, a, w, {"leader"}) /\ a.activeWin = st.activeWin /\ a \in Session
        /\ a.activeLeader = st.activeLeader /\ a.o = st.o
    BY <2>1, <2>7, ClearedWindows DEF Changes
  <2>9. /\ TrackLeader(a) /\ (Rooted(a) <=> Rooted(st)) /\ a.win[u].viewable
        /\ a.win[w].client = c
    BY <2>8, SameConfig, FieldKept DEF Kept
  <2>10. Rooted(st) => /\ Lead(st) /\ Framed(st) /\ Grounded(a.win)
                       /\ Leader(st, w) = Up(st.win[w]) /\ Leader(a, w) = Up(a.win[w])
    <3> SUFFICES ASSUME Rooted(st)
                 PROVE  /\ Lead(st) /\ Framed(st) /\ Grounded(a.win)
                        /\ Leader(st, w) = Up(st.win[w]) /\ Leader(a, w) = Up(a.win[w])
      OBVIOUS
    <3>1. Lead(st) /\ Framed(st) /\ Grounded(st.win)
      BY DEF Tied, Lead
    <3>2. Grounded(a.win)
      BY <2>1, <3>1, ClearedGrounded
    <3> QED
      BY <2>8, <3>1, <3>2, GroundedLeader
  <2>11. Sure(a) /\ Sure(st)
    BY <2>9, <2>10, TiedSure DEF Sure
  <2>12. PICK G : G = IF u = w THEN D \cup {"focus"} ELSE D
    OBVIOUS
  <2>13. D \subseteq G /\ (u = w => "focus" \in G) /\ (G \subseteq D \/ (u = w /\ G \ {"focus"} \subseteq D))
    BY <2>12
  <2>14. Proper(a, u, G)
    BY <2>1, <2>7, <2>11, <2>13, ClearedProper
  <2>15. Still(a, g) /\ g \in Session
    BY <2>4, <2>8, GotLeaderStill, StillSession
  <2>16. Sure(g) /\ g.win[u].viewable /\ g.o = a.o /\ Proper(g, u, G)
    BY <2>9, <2>11, <2>14, <2>15, StillProper
  <2>17. /\ g.activeWin = st.activeWin /\ g.activeLeader = st.activeLeader
         /\ Up(g.win[w]) = Up(a.win[w]) /\ g.win[w].client = c
    <3>1. Changes(a, g, None, {})
      BY <2>15 DEF Still, Quiet
    <3> QED
      BY <2>8, <2>9, <2>15, <3>1, UpKept DEF Still
  <2>18. TrackLeader(g) /\ (Rooted(g) <=> Rooted(st))
    BY <2>8, <2>16, SameConfig
  <2>19. Rooted(g) => old = g.activeLeader \/ g.activeWin # w
    <3> SUFFICES ASSUME Rooted(st), st.activeWin = w PROVE old = st.activeLeader
      BY <2>17, <2>18
    <3>1. Heads(st)
      BY <2>10 DEF Lead
    <3>2. st.activeLeader = Up(st.win[w])
      BY <3>1, ConfigAssumption DEF Heads, Xid
    <3> QED
      BY <2>2, <2>10, <3>2
  <2>20. Rooted(g) => new = Up(g.win[w])
    BY <2>3, <2>10, <2>17, <2>18
  <2>21. new \in Leaders
    BY <2>3, <2>8, LeaderType
  <2>22. g.win[w].client # None
    BY <2>7, <2>17
  <2>23. Proper(d, u, D)
    BY <2>5, <2>13, <2>15, <2>16, <2>18, <2>19, <2>20, <2>21, <2>22, LeaderMovedProper
  <2>24. Quiet(g, d) /\ d \in Session
    BY <2>5, <2>15, <2>21, LeaderMovedQuiet, QuietSession
  <2>25. Sure(d) /\ d.win[u].viewable
    <3>1. Changes(g, d, None, {})
      BY <2>24 DEF Quiet
    <3>2. d.win[u].viewable = g.win[u].viewable
      BY <3>1, KeptSame DEF Kept
    <3>3. Sure(d)
      BY <2>16, <3>1, SureKept
    <3> QED
      BY <2>16, <3>2, <3>3
  <2>26. Still(d, b)
    BY <2>6, <2>24, OnFactorChangeStill
  <2> QED
    BY <2>23, <2>25, <2>26, StillProper
<1> QED
  BY <1>1, <1>2

LEMMA ViewableKept ==
  ASSUME NEW a, NEW b, NEW w, NEW F, Changes(a, b, w, F), "viewable" \notin F
  PROVE  /\ b \in Session /\ b.o = a.o
         /\ \A u \in Win : b.win[u].viewable = a.win[u].viewable
         /\ "client" \notin F => \A u \in Win : b.win[u].client = a.win[u].client
<1>1. b \in Session /\ b.o = a.o
  BY DEF Changes
<1>2. \A u \in Win : b.win[u].viewable = a.win[u].viewable
  BY FieldKept DEF Kept
<1>3. ASSUME "client" \notin F PROVE \A u \in Win : b.win[u].client = a.win[u].client
  BY <1>3, FieldKept DEF Kept
<1> QED
  BY <1>1, <1>2, <1>3

LEMMA TiedChanges ==
  ASSUME NEW a \in Session, Tied(a), NEW b, NEW w, NEW F, Changes(a, b, w, F),
         F \cap {"leader", "client"} = {},
         b.activeWin = a.activeWin, b.activeLeader = a.activeLeader
  PROVE  Tied(b)
<1>1. b.o = a.o
  BY DEF Changes
<1>2. Framed(b)
  <2>1. \A u \in Win : b.win[u].client = a.win[u].client
    BY UpKept
  <2> QED
    BY <2>1 DEF Tied, Framed
<1>3. TrackLeader(b) /\ Rooted(b) => Lead(b)
  BY <1>1, SameConfig, LeadChanges DEF Tied
<1> QED
  BY <1>2, <1>3 DEF Tied

(* The type is a cause of what win_on_wtype_change decides, and of what is  *)
(* not followed.                                                            *)
LEMMA TypeSpares ==
  ASSUME NEW st \in Session
  PROVE  Spared(st, {"type"}, Typewise \cup ({"invert", "opacity"} \cap Listed(st)))
<1>1. ASSUME NEW l \in Decision \cup {"opacity"}, l \notin Typewise,
             ~(l \in {"invert", "opacity"} /\ l \in Listed(st)),
             Followed(st, l)
      PROVE  "dialog" \notin st.o.lists[l]
  <2>1. CASE l \in {"invert", "opacity"}
    BY <1>1, <2>1, ListedIs
  <2>2. CASE l \notin {"invert", "opacity"}
    <3>1. l \in {"blur", "paint", "unredir"}
      BY <1>1, <2>2 DEF Decision, Typewise
    <3> QED
      BY <1>1, <3>1 DEF Followed, Blind
  <2> QED
    BY <2>1, <2>2
<1> QED
  BY <1>1 DEF Spared, Minds

LEMMA UpdWintypeProper ==
  ASSUME NEW st \in Session, Sure(st), NEW w \in Win, st.win[w].client \in Xid,
         NEW b, b = UpdWintype(st, w),
         NEW u \in Win, st.win[u].viewable, NEW D, Proper(st, u, D)
  PROVE  Proper(b, u, D)
<1>1. PICK type : type = TypeOf(st, st.win[w].client)
  OBVIOUS
<1>2. IF type = st.win[w].type THEN b = st ELSE b = OnWtypeChange(Typed(st, w, type), w)
  BY <1>1, UpdWintypeIs
<1>3. CASE type = st.win[w].type
  BY <1>2, <1>3
<1>4. CASE type # st.win[w].type
  <2>1. PICK a : a = Typed(st, w, type)
    OBVIOUS
  <2>2. b = OnWtypeChange(a, w)
    BY <1>2, <1>4, <2>1
  <2>3. PICK F : F = {"type"}
    OBVIOUS
  <2>4. type \in {"normal", "dialog"}
    BY <1>1, TypeOfType
  <2>5. /\ Changes(st, a, w, F) /\ SameButWin(st, a, w) /\ a.win[w].type = type
        /\ a.win[w].opacitySet = st.win[w].opacitySet /\ a.win[w].dec = st.win[w].dec
    BY <2>1, <2>3, <2>4, TypedIs
  <2>6. a \in Session /\ Sure(a) /\ a.win[u].viewable /\ a.o = st.o
    <3>1. a \in Session /\ a.win[u].viewable /\ a.o = st.o
      BY <2>3, <2>5, ViewableKept
    <3>2. Sure(a)
      BY <2>3, <2>5, SureKept
    <3> QED
      BY <3>1, <3>2
  <2>7. CASE u # w
    <3>1. Proper(a, u, D)
      BY <2>5, <2>6, <2>7, OthersProper
    <3>2. Still(a, b)
      BY <2>2, <2>6, OnWtypeChangeStill
    <3> QED
      BY <2>6, <3>1, <3>2, StillProper
  <2>8. CASE u = w
    <3>1. PICK G : G = Typewise \cup ({"invert", "opacity"} \cap Listed(st))
      OBVIOUS
    <3>2. Spared(st, F, G)
      BY <2>3, <3>1, TypeSpares
    <3>3. "look" \in G /\ "viewable" \notin F
      BY <2>3, <3>1 DEF Typewise
    <3>4. Remade(st.win[w], a.win[w], F)
      BY <2>5 DEF Changes, Touched, Remade
    <3>5. Beside(st, a)
      BY <2>5 DEF SameButWin, Beside
    <3>6. Alike(st, a, w, G)
      BY <2>6, <2>8, <3>2, <3>3, <3>4, <3>5, RemadeAlike
    <3>7. PICK H : H = D \cup G
      OBVIOUS
    <3>8. Proper(st, w, H)
      BY <2>8, <3>7, ProperLess
    <3>9. Proper(a, w, H)
      BY <3>6, <3>7, <3>8, AlikeProper
    <3>10. Listed(a) = Listed(st)
      BY <2>6, SameConfig
    <3>11. H \ (Typewise \cup ({"invert", "opacity"} \cap Listed(a))) \subseteq D
      BY <3>1, <3>7, <3>10
    <3> QED
      BY <2>2, <2>6, <2>8, <3>9, <3>11, OnWtypeChangeProper
  <2> QED
    BY <2>7, <2>8
<1> QED
  BY <1>3, <1>4

LEMMA TrackedLeaderProper ==
  ASSUME NEW st \in Session, Tied(st), NEW w \in Win, NEW c \in Family(w), st.win[w].client = c,
         NEW b, b = TrackedLeader(st, w)
  PROVE  /\ Sure(b)
         /\ \A u \in Win : \A D : st.win[u].viewable /\ Proper(st, u, D) => Proper(b, u, D)
<1>1. CASE TrackLeader(st)
  <2>1. PICK leader : leader = LeaderOf(st, c)
    OBVIOUS
  <2>2. b = SetLeader(st, w, leader)
    BY <1>1, <2>1, UpdateLeaderIs DEF TrackedLeader
  <2>3. Rooted(st) => Lead(b)
    BY <1>1, <2>1, <2>2, LeadSetLeader DEF Tied
  <2>4. b.o = st.o
    <3>1. c \in Xid
      BY FamilyXid
    <3> QED
      BY <3>1, TrackedLeaderIs DEF Changes
  <2>5. Sure(b)
    BY <2>3, <2>4, SameConfig DEF Sure, Lead
  <2>6. ASSUME NEW u \in Win, NEW D, st.win[u].viewable, Proper(st, u, D) PROVE Proper(b, u, D)
    BY <1>1, <2>1, <2>2, <2>6, SetLeaderProper
  <2> QED
    BY <2>5, <2>6
<1>2. CASE ~TrackLeader(st)
  BY <1>2, TiedSure DEF TrackedLeader
<1> QED
  BY <1>1, <1>2

LEMMA NameSpares ==
  ASSUME NEW st \in Session
  PROVE  Spared(st, {"name"}, Listed(st))
BY ListedIs DEF Spared, Minds

(* The name is read.                                                        *)
LEMMA GetNameProper ==
  ASSUME NEW st \in Session, Sure(st), NEW w \in Win, st.win[w].client \in Xid,
         NEW b, b = GetName(st, w),
         NEW u \in Win, st.win[u].viewable, NEW D, Proper(st, u, D),
         NEW E, D \subseteq E, u = w => Listed(st) \subseteq E
  PROVE  Proper(b, u, E)
<1>1. PICK F : F = {"name"}
  OBVIOUS
<1>2. /\ Changes(st, b, w, F) /\ SameButWin(st, b, w)
      /\ b.win[w].opacitySet = st.win[w].opacitySet /\ b.win[w].dec = st.win[w].dec
  BY <1>1, GetNameIs
<1>3. Sure(b) /\ Proper(st, u, E)
  BY <1>1, <1>2, SureKept, ProperLess
<1>4. CASE u # w
  BY <1>2, <1>3, <1>4, OthersProper
<1>5. CASE u = w
  <2>1. Remade(st.win[w], b.win[w], F) /\ Beside(st, b)
    BY <1>2 DEF Changes, Touched, Remade, SameButWin, Beside
  <2>2. F \cap LookFields = {} /\ "viewable" \notin F
    BY <1>1 DEF LookFields
  <2>3. Alike(st, b, w, Listed(st))
    BY <1>1, <1>3, <1>5, <2>1, <2>2, NameSpares, RemadeAlike
  <2> QED
    BY <1>3, <1>5, <2>3, AlikeProper
<1> QED
  BY <1>4, <1>5

LEMMA TrackedNameProper ==
  ASSUME NEW st \in Session, Sure(st), NEW w \in Win, st.win[w].client \in Xid,
         NEW b, b = TrackedName(st, w),
         NEW u \in Win, st.win[u].viewable, NEW D, Proper(st, u, D),
         NEW E, D \subseteq E, u = w => Listed(st) \subseteq E
  PROVE  Proper(b, u, E)
<1>1. CASE TrackWdata(st)
  BY <1>1, GetNameProper DEF TrackedName
<1>2. CASE ~TrackWdata(st)
  BY <1>2, ProperLess DEF TrackedName
<1> QED
  BY <1>1, <1>2

(* win_mark_client from where it reads the properties.                      *)
MarkRead(m, w) ==
  UpdateFocused(OnFactorChange(TrackedName(TrackedLeader(UpdWintype(m, w), w), w), w), w)

LEMMA MarkReadIs ==
  ASSUME NEW st, NEW w, st.win[w].viewable, NEW c
  PROVE  MarkClient(st, w, c) = MarkRead(Marked(st, w, c), w)
BY Zenon DEF MarkClient, MarkRead, Marked, ClientSet

LEMMA MarkReadProper ==
  ASSUME NEW m \in Session, Tied(m), NEW w \in Win, NEW c \in Family(w), m.win[w].client = c,
         NEW b, b = MarkRead(m, w),
         NEW u \in Win, m.win[u].viewable, NEW D, Proper(m, u, D),
         NEW E, D \subseteq E \/ (u = w /\ D \ Focuswise(m) \subseteq E)
  PROVE  Proper(b, u, E) /\ b.o = m.o
<1>1. c \in Xid
  BY FamilyXid
<1>2. PICK t : t = UpdWintype(m, w)
  OBVIOUS
<1>3. /\ Changes(m, t, w, {"type"}) /\ t.activeWin = m.activeWin
      /\ t.activeLeader = m.activeLeader
  BY <1>1, <1>2, UpdWintypeIs
<1>4. t \in Session /\ t.o = m.o /\ t.win[u].viewable /\ t.win[w].client = c /\ Tied(t)
  <2>1. t \in Session /\ t.o = m.o /\ t.win[u].viewable /\ t.win[w].client = c
    BY <1>3, ViewableKept
  <2>2. Tied(t)
    BY <1>3, TiedChanges
  <2> QED
    BY <2>1, <2>2
<1>5. Proper(t, u, D)
  BY <1>1, <1>2, TiedSure, UpdWintypeProper
<1>6. PICK l : l = TrackedLeader(t, w)
  OBVIOUS
<1>7. Changes(t, l, w, {"leader"})
  BY <1>1, <1>4, <1>6, TrackedLeaderIs
<1>8. l \in Session /\ l.o = m.o /\ l.win[u].viewable /\ l.win[w].client = c
  BY <1>4, <1>7, ViewableKept
<1>9. Sure(l) /\ Proper(l, u, D)
  BY <1>4, <1>5, <1>6, TrackedLeaderProper
<1>10. PICK n : n = TrackedName(l, w)
  OBVIOUS
<1>11. Changes(l, n, w, {"name"})
  BY <1>1, <1>8, <1>10, TrackedNameIs
<1>12. n \in Session /\ n.o = m.o /\ n.win[u].viewable /\ Sure(n)
  <2>1. n \in Session /\ n.o = m.o /\ n.win[u].viewable
    BY <1>8, <1>11, ViewableKept
  <2>2. Sure(n)
    BY <1>9, <1>11, SureKept
  <2> QED
    BY <2>1, <2>2
<1>13. Listed(l) = Listed(m) /\ Listed(n) = Listed(m)
  BY <1>8, <1>12, SameConfig
<1>14. PICK G : G = IF u = w THEN D \cup Listed(m) ELSE D
  OBVIOUS
<1>15. Proper(n, u, G)
  BY <1>1, <1>8, <1>9, <1>10, <1>13, <1>14, TrackedNameProper
<1>16. PICK f : f = OnFactorChange(n, w)
  OBVIOUS
<1>17. Still(n, f) /\ f \in Session
  BY <1>12, <1>16, OnFactorChangeStill, StillSession
<1>18. Sure(f) /\ f.win[u].viewable /\ Proper(f, u, G) /\ f.o = n.o
  BY <1>12, <1>15, <1>17, StillProper
<1>19. b = UpdateFocused(f, w)
  BY <1>2, <1>6, <1>10, <1>16 DEF MarkRead
<1>20. Still(f, b)
  BY <1>17, <1>19, UpdateFocusedStill
<1>21. b.o = m.o
  BY <1>12, <1>18, <1>20, StillProper
<1>22. CASE u # w
  <2>1. Proper(b, u, D)
    BY <1>14, <1>18, <1>20, <1>22, StillProper
  <2> QED
    BY <1>21, <1>22, <2>1, ProperLess
<1>23. CASE u = w
  <2>1. PICK H : H = D \ Listed(m)
    OBVIOUS
  <2>2. Proper(f, w, H)
    BY <1>12, <1>13, <1>14, <1>15, <1>16, <1>23, <2>1, OnFactorChangeProper
  <2>3. H \ {"focus", "look"} \subseteq E
    BY <1>23, <2>1 DEF Focuswise
  <2>4. Proper(b, w, E)
    BY <1>17, <1>18, <1>19, <1>23, <2>2, <2>3, UpdateFocusedProper
  <2> QED
    BY <1>21, <1>23, <2>4
<1> QED
  BY <1>22, <1>23

------------------------------------------------------------------------------
(* The window that is mapped.                                               *)

(* From a to b what is wrong about the viewable window w goes from D to E,  *)
(* and nothing goes wrong about another one.                                *)
Leaves(a, b, w, D, E) ==
  /\ b \in Session /\ Sure(b) /\ b.o = a.o
  /\ \A u \in Win : b.win[u].viewable = a.win[u].viewable
  /\ \A u \in Win : u # w /\ a.win[u].viewable /\ Proper(a, u, {}) => Proper(b, u, {})
  /\ Proper(a, w, D) => Proper(b, w, E)

LEMMA LeavesTwice ==
  ASSUME NEW a, NEW b, NEW c, NEW w, NEW D, NEW E, NEW G, Leaves(a, b, w, D, E), Leaves(b, c, w, E, G)
  PROVE  Leaves(a, c, w, D, G)
BY DEF Leaves

LEMMA LeavesRewritten ==
  ASSUME NEW a \in Session, Sure(a), NEW w \in Win, a.win[w].viewable, NEW b, NEW F,
         Changes(a, b, w, F), SameButWin(a, b, w), Rewritten(a.win[w], b.win[w], F),
         "viewable" \notin F, F \cap {"leader", "client"} = {},
         NEW D, Spared(a, F, D), b.win[w].opctChange \/ F \cap LookFields = {}
  PROVE  Leaves(a, b, w, D, D)
<1>1. Sure(b)
  BY SureKept
<1>2. b \in Session /\ b.o = a.o /\ \A u \in Win : b.win[u].viewable = a.win[u].viewable
  BY ViewableKept
<1>3. ASSUME NEW u \in Win, u # w, a.win[u].viewable, Proper(a, u, {})  PROVE Proper(b, u, {})
  <2>1. PICK D0 : D0 = {}
    OBVIOUS
  <2>2. Proper(a, u, D0)
    BY <1>3, <2>1
  <2>3. Proper(b, u, D0)
    BY <1>1, <1>3, <2>2, OthersProper
  <2> QED BY <2>1, <2>3
<1>4. ASSUME Proper(a, w, D)  PROVE Proper(b, w, D)
  BY <1>1, <1>4, RewrittenProper
<1> QED BY <1>1, <1>2, <1>3, <1>4 DEF Leaves

LEMMA LeavesStill ==
  ASSUME NEW a, NEW b, Still(a, b), Sure(a), NEW w \in Win, a.win[w].viewable,
         NEW D, NEW E, Proper(a, w, D) => Proper(b, w, E)
  PROVE  Leaves(a, b, w, D, E)
<1>1. Sure(b) /\ b.o = a.o
  BY StillProper
<1>2. b \in Session
  BY StillSession
<1>3. \A u \in Win : b.win[u].viewable = a.win[u].viewable
  <2>1. Changes(a, b, None, {})
    BY DEF Still, Quiet
  <2> QED BY <2>1, KeptSame DEF Kept
<1>4. \A u \in Win : u # w /\ a.win[u].viewable /\ Proper(a, u, {}) => Proper(b, u, {})
  BY StillProper
<1> QED BY <1>1, <1>2, <1>3, <1>4 DEF Leaves

LEMMA LeavesDetermine ==
  ASSUME NEW a \in Session, Sure(a), NEW w \in Win, a.win[w].viewable,
         NEW ds, ds \subseteq Decision \ {"focus"}, NEW b, b = Determine(a, w, ds),
         NEW D, NEW E, D \ ds \subseteq E
  PROVE  Leaves(a, b, w, D, E)
<1>1. Still(a, b)
  BY DetermineStill
<1>2. Proper(a, w, D) => Proper(b, w, E)
  BY DetermineProper
<1> QED BY <1>1, <1>2, LeavesStill

(* What no list is about is right about a window that is idle.              *)
Opened == {"shadow", "fade", "blur"}

LEMMA IdleProper ==
  ASSUME NEW st \in Session, NEW w \in Win, st.win[w].viewable, Idle(st.o, st.win[w]),
         NEW D, D = Opened \cup Focuswise(st)
  PROVE  Proper(st, w, D)
<1>1. ASSUME NEW d \in Decision, d \notin D, Followed(st, d)  PROVE Fresh(st, w, d)
  <2>1. d \in {"invert", "paint", "unredir"} /\ d \notin Listed(st)
    BY <1>1 DEF Decision, Opened, Focuswise
  <2>2. st.o.lists[d] = {}
    BY <2>1, ListedIs
  <2>3. ~Matches(st, w, d)
    BY <2>2 DEF Matches
  <2>4. ~st.win[w].dec[d]
    BY <1>1, <2>1, <2>2 DEF Idle, Followed
  <2>5. d \in Forced => st.win[w].force[d] = "unset"
    BY <1>1, <2>1, <2>2 DEF Idle, Followed, Forced
  <2>6. ~Decided(st, w, d)
    BY <2>1, <2>3, <2>5 DEF Decided, Wanted, WantedOf
  <2>7. Decided(st, w, d) \in BOOLEAN /\ st.win[w].dec[d] \in BOOLEAN
    BY DecidedType, WinIn DEF WinType
  <2> QED BY <2>4, <2>6, <2>7 DEF Fresh
<1>2. ASSUME "opacity" \notin D  PROVE RuleFresh(st, w)
  <2>1. st.o.lists["opacity"] = {}
    BY <1>2, ListedIs DEF Focuswise
  <2> QED BY <2>1 DEF Idle, RuleFresh, Rule, Matches
<1>3. "look" \in D
  BY DEF Focuswise
<1> QED BY <1>1, <1>2, <1>3 DEF Proper

(* A callback: the end of opening or closing decides the fade again.        *)
LEMMA FactsSpared ==
  ASSUME NEW st \in Session
  PROVE  /\ Spared(st, {"inOpenclose", "callback"}, {"fade"})
         /\ Spared(st, {"inOpenclose"}, {"fade"})
         /\ Spared(st, {"callback"}, {})
         /\ Spared(st, PropFields, {"shadow"})
         /\ Spared(st, {"noShadow"}, {"shadow"})
         /\ Spared(st, {"shaped"}, Opened \cup {"focus"})
<1>1. \A l \in Decision \cup {"opacity"} :
        l \notin Opened \cup {"focus"} /\ Followed(st, l) => ~Minds(st, l, "shaped")
  BY DEF Decision, Opened, Followed, Blind, Minds
<1> QED BY <1>1 DEF Spared, Minds, PropFields, Typewise

LEMMA LeavesSettling ==
  ASSUME NEW a \in Session, Sure(a), NEW w \in Win, a.win[w].viewable,
         NEW D, "fade" \in D, NEW b, b = Settling(a, w)
  PROVE  Leaves(a, b, w, D, D)
<1>1. PICK F : F = {"inOpenclose", "callback"}
  OBVIOUS
<1>2. /\ Changes(a, b, w, F) /\ SameButWin(a, b, w) /\ Rewritten(a.win[w], b.win[w], F)
  BY <1>1, SettlingIs
<1>3. Spared(a, F, D)
  <2>1. Spared(a, {"inOpenclose", "callback"}, {"fade"})
    BY FactsSpared
  <2> QED BY <1>1, <2>1 DEF Spared
<1>4. F \cap LookFields = {} /\ F \cap {"leader", "client"} = {} /\ "viewable" \notin F
  BY <1>1 DEF LookFields
<1> QED BY <1>2, <1>3, <1>4, LeavesRewritten

(* The options do not leave out the fade, so that opening does not matter.  *)
LEMMA SettlingPlain ==
  ASSUME NEW a \in Session, Sure(a), ~a.openclose, NEW w \in Win, a.win[w].viewable,
         NEW b, b = Settling(a, w), NEW D, Proper(a, w, D)
  PROVE  Proper(b, w, D)
<1>1. PICK F : F = {"inOpenclose", "callback"}
  OBVIOUS
<1>2. /\ Changes(a, b, w, F) /\ SameButWin(a, b, w) /\ Rewritten(a.win[w], b.win[w], F)
  BY <1>1, SettlingIs
<1>3. Sure(b)
  BY <1>1, <1>2, SureKept
<1>4. PICK E : E = {"fade"}
  OBVIOUS
<1>5. Spared(a, F, E) /\ F \cap LookFields = {} /\ "viewable" \notin F
  BY <1>1, <1>4, FactsSpared DEF LookFields
<1>6. PICK D1 : D1 = D \cup E
  OBVIOUS
<1>7. Proper(a, w, D1)
  BY <1>6, ProperLess
<1>8. Proper(b, w, D1)
  BY <1>2, <1>3, <1>5, <1>6, <1>7, RewrittenProper
<1>9. ASSUME "fade" \notin D, Followed(b, "fade")
      PROVE  Fresh(b, w, "fade") \/ Later(b, w, "fade")
  <2>0. "fade" \in Decision
    BY DEF Decision
  <2>1. b.o = a.o /\ b.srv = a.srv /\ b.activeWin = a.activeWin /\ b \in Session
        /\ b.openclose = a.openclose /\ Pending(b) = Pending(a)
    BY <1>2 DEF SameButWin
  <2>2. \A f \in {"viewable", "type", "name", "shaped", "force"} : b.win[w][f] = a.win[w][f]
    BY <1>1, <1>2 DEF Rewritten, Kept
  <2>3. \A f \in a.o.lists["fade"] : Has(a, w, f) <=> Has(b, w, f)
    <3>1. a.o.lists["fade"] \subseteq Fact
      BY <2>0, ListFacts
    <3> QED BY <2>1, <2>2, <3>1, HasSame
  <2>4. SameCauses(a, b, w, "fade")
    <3>1. "fade" # "shadow" /\ "fade" # "focus"
      OBVIOUS
    <3>2. Plain(a, a.win[w].type) <=> Plain(b, b.win[w].type)
      BY <2>1, <2>2 DEF Plain
    <3> QED BY <2>1, <2>2, <2>3, <3>1, <3>2 DEF SameCauses
  <2>5. Decided(b, w, "fade") = Decided(a, w, "fade")
    BY <2>0, <2>1, <2>4, DecidedSame
  <2>6. b.win[w].dec = a.win[w].dec
    BY <1>2 DEF Rewritten
  <2>7. Followed(a, "fade")
    BY <1>9, <2>1, SameConfig
  <2>8. Fresh(a, w, "fade") \/ Later(a, w, "fade")
    BY <1>9, <2>0, <2>7 DEF Proper
  <2> QED BY <2>1, <2>5, <2>6, <2>8 DEF Fresh, Later
<1> QED BY <1>4, <1>6, <1>8, <1>9 DEF Proper

LEMMA LeavesCallback ==
  ASSUME NEW a \in Session, Sure(a), NEW w \in Win, a.win[w].viewable,
         NEW D, "fade" \in D \/ a.win[w].callback # "unmap", NEW b, b = RunCallback(a, w)
  PROVE  Leaves(a, b, w, D, D)
<1>1. CASE a.win[w].callback = "map"
  <2>1. PICK c : c = Settling(a, w)
    OBVIOUS
  <2>2. b = IF a.openclose THEN Determine(c, w, {"fade"}) ELSE c
    BY <1>1, <2>1 DEF RunCallback, FinishMap, Settling
  <2>3. PICK E : E = D \cup {"fade"}
    OBVIOUS
  <2>4. Leaves(a, c, w, E, E)
    BY <2>1, <2>3, LeavesSettling
  <2>5. CASE a.openclose
    <3>1. PICK ds : ds = {"fade"}
      OBVIOUS
    <3>2. c \in Session /\ Sure(c) /\ c.win[w].viewable
      BY <2>4 DEF Leaves
    <3>3. ds \subseteq Decision \ {"focus"} /\ E \ ds \subseteq D
      BY <2>3, <3>1 DEF Decision
    <3>4. b = Determine(c, w, ds)
      BY <2>2, <2>5, <3>1
    <3>5. Leaves(c, b, w, E, D)
      BY <3>2, <3>3, <3>4, LeavesDetermine
    <3>6. Leaves(a, b, w, E, D)
      BY <2>4, <3>5, LeavesTwice
    <3>7. Proper(a, w, D) => Proper(a, w, E)
      BY <2>3, ProperLess
    <3> QED BY <3>6, <3>7 DEF Leaves
  <2>6. CASE ~a.openclose
    <3>1. Proper(a, w, D) => Proper(b, w, D)
      BY <2>1, <2>2, <2>6, SettlingPlain
    <3> QED BY <2>2, <2>4, <2>6, <3>1 DEF Leaves
  <2> QED BY <2>5, <2>6
<1>2. CASE a.win[w].callback = "unmap"
  <2>1. b = Settling(a, w)
    BY <1>2 DEF RunCallback, FinishUnmap, Settling
  <2> QED BY <1>2, <2>1, LeavesSettling
<1>3. CASE a.win[w].callback \notin {"map", "unmap"}
  <2>1. b = a
    BY <1>3 DEF RunCallback
  <2> QED BY <2>1 DEF Leaves
<1> QED BY <1>1, <1>2, <1>3

(* map_win, from where it has marked the client.                            *)
LEMMA LeavesMapFocus ==
  ASSUME NEW a \in Session, Sure(a), Mapped(a), NEW w \in Win, a.win[w].viewable,
         NEW b, b = MapFocus(a, w)
  PROVE  Leaves(a, b, w, Opened, Opened)
<1>1. PICK D : D = Opened \cup {"focus"}
  OBVIOUS
<1>2. PICK c : c = UpdateShape(a, w)
  OBVIOUS
<1>3. PICK F : F = {"shaped"}
  OBVIOUS
<1>4. Leaves(a, c, w, D, D)
  <2>1. Changes(a, c, w, F) /\ SameButWin(a, c, w) /\ Rewritten(a.win[w], c.win[w], F)
    BY <1>2, <1>3, UpdateShapeIs
  <2>2. Spared(a, F, D)
    BY <1>1, <1>3, FactsSpared
  <2>3. F \cap LookFields = {} /\ F \cap {"leader", "client"} = {} /\ "viewable" \notin F
    BY <1>3 DEF LookFields
  <2> QED BY <2>1, <2>2, <2>3, LeavesRewritten
<1>5. c \in Session /\ Sure(c) /\ c.win[w].viewable
  BY <1>4 DEF Leaves
<1>6. Mapped(c)
  <2>1. c.activeWin = a.activeWin
    BY <1>2, UpdateShapeIs DEF SameButWin
  <2>2. a.activeWin \in Win \cup {None}
    BY DEF Session
  <2> QED BY <1>4, <2>1, <2>2 DEF Leaves, Mapped
<1>7. PICK d : d = RecheckFocus(c)
  OBVIOUS
<1>8. Changes(c, d, None, {})
  BY <1>5, <1>7, RecheckFocusQuiet DEF Quiet
<1>9. Leaves(c, d, w, D, D)
  <2>1. \A u \in Win : \A E : c.win[u].viewable /\ Proper(c, u, E) => Proper(d, u, E)
    BY <1>5, <1>6, <1>7, RecheckFocusProper
  <2>2. Sure(d)
    BY <1>5, <1>8, SureKept
  <2>3. d \in Session /\ d.o = c.o /\ \A u \in Win : d.win[u].viewable = c.win[u].viewable
    BY <1>8, ViewableKept
  <2> QED BY <1>5, <2>1, <2>2, <2>3 DEF Leaves
<1>10. d \in Session /\ Sure(d) /\ d.win[w].viewable
  BY <1>5, <1>9 DEF Leaves
<1>11. b = UpdateFocused(d, w)
  BY <1>2, <1>7 DEF MapFocus
<1>12. Leaves(d, b, w, D, Opened)
  <2>1. Still(d, b)
    BY <1>10, <1>11, UpdateFocusedStill
  <2>2. D \ {"focus", "look"} \subseteq Opened
    BY <1>1
  <2>3. Proper(d, w, D) => Proper(b, w, Opened)
    BY <1>10, <1>11, <2>2, UpdateFocusedProper
  <2> QED BY <1>10, <2>1, <2>3, LeavesStill
<1>13. Leaves(a, d, w, D, D)
  BY <1>4, <1>9, LeavesTwice
<1>14. Leaves(a, b, w, D, Opened)
  BY <1>12, <1>13, LeavesTwice
<1>15. Proper(a, w, Opened) => Proper(a, w, D)
  BY <1>1, ProperLess
<1> QED BY <1>14, <1>15 DEF Leaves

LEMMA LeavesMapProps ==
  ASSUME NEW a \in Session, Sure(a), NEW w \in Win, a.win[w].viewable,
         NEW D, "shadow" \in D, NEW b, b = MapProps(a, w)
  PROVE  Leaves(a, b, w, D, D)
<1>1. PICK F : F = PropFields
  OBVIOUS
<1>2. /\ Changes(a, b, w, F) /\ SameButWin(a, b, w) /\ Rewritten(a.win[w], b.win[w], F)
      /\ b.win[w].opctChange
  BY <1>1, MapPropsIs
<1>3. Spared(a, F, D)
  <2>1. Spared(a, PropFields, {"shadow"})
    BY FactsSpared
  <2> QED BY <1>1, <2>1 DEF Spared
<1>4. F \cap {"leader", "client"} = {} /\ "viewable" \notin F
  BY <1>1 DEF PropFields
<1> QED BY <1>2, <1>3, <1>4, LeavesRewritten

LEMMA LeavesMapShadow ==
  ASSUME NEW a \in Session, Sure(a), NEW w \in Win, a.win[w].viewable,
         NEW D, NEW E, "fade" \in E, D \ {"shadow"} \subseteq E, NEW b, b = MapShadow(a, w)
  PROVE  Leaves(a, b, w, D, E)
<1>1. PICK ds : ds = {"shadow"}
  OBVIOUS
<1>2. PICK c : c = Determine(a, w, ds)
  OBVIOUS
<1>3. ds \subseteq Decision \ {"focus"} /\ D \ ds \subseteq E
  BY <1>1 DEF Decision
<1>4. Leaves(a, c, w, D, E)
  BY <1>2, <1>3, LeavesDetermine
<1>5. c \in Session /\ Sure(c) /\ c.win[w].viewable
  BY <1>4 DEF Leaves
<1>6. PICK F : F = {"inOpenclose"}
  OBVIOUS
<1>7. b = Opening(c, w)
  BY <1>1, <1>2 DEF MapShadow
<1>8. Changes(c, b, w, F) /\ SameButWin(c, b, w) /\ Rewritten(c.win[w], b.win[w], F)
  BY <1>5, <1>6, <1>7, OpeningIs
<1>9. Spared(c, F, E)
  <2>1. Spared(c, {"inOpenclose"}, {"fade"})
    BY <1>5, FactsSpared
  <2> QED BY <1>6, <2>1 DEF Spared
<1>10. F \cap LookFields = {} /\ F \cap {"leader", "client"} = {} /\ "viewable" \notin F
  BY <1>6 DEF LookFields
<1>11. Leaves(c, b, w, E, E)
  BY <1>5, <1>8, <1>9, <1>10, LeavesRewritten
<1> QED BY <1>4, <1>11, LeavesTwice

LEMMA LeavesMapFade ==
  ASSUME NEW a \in Session, Sure(a), NEW w \in Win, a.win[w].viewable,
         NEW D, NEW E, "fade" \in D, D \ {"fade", "blur"} \subseteq E, NEW b, b = MapFade(a, w)
  PROVE  Leaves(a, b, w, D, E)
<1>1. PICK c : c = RunCallback(a, w)
  OBVIOUS
<1>2. Leaves(a, c, w, D, D)
  BY <1>1, LeavesCallback
<1>3. c \in Session /\ Sure(c) /\ c.win[w].viewable
  BY <1>2 DEF Leaves
<1>4. PICK d : d = Calling(c, w)
  OBVIOUS
<1>5. PICK F : F = {"callback"}
  OBVIOUS
<1>6. Changes(c, d, w, F) /\ SameButWin(c, d, w) /\ Rewritten(c.win[w], d.win[w], F)
  BY <1>3, <1>4, <1>5, CallingIs
<1>7. Spared(c, F, D)
  BY <1>3, <1>5, FactsSpared DEF Spared
<1>8. F \cap LookFields = {} /\ F \cap {"leader", "client"} = {} /\ "viewable" \notin F
  BY <1>5 DEF LookFields
<1>9. Leaves(c, d, w, D, D)
  BY <1>3, <1>6, <1>7, <1>8, LeavesRewritten
<1>10. d \in Session /\ Sure(d) /\ d.win[w].viewable
  BY <1>3, <1>9 DEF Leaves
<1>11. PICK ds : ds = {"fade", "blur"}
  OBVIOUS
<1>12. ds \subseteq Decision \ {"focus"} /\ D \ ds \subseteq E
  BY <1>11 DEF Decision
<1>13. b = Determine(d, w, ds)
  BY <1>1, <1>4, <1>11 DEF MapFade
<1>14. Leaves(d, b, w, D, E)
  BY <1>10, <1>12, <1>13, LeavesDetermine
<1>15. Leaves(a, d, w, D, D)
  BY <1>2, <1>9, LeavesTwice
<1> QED BY <1>14, <1>15, LeavesTwice

(* The client of the window that is mapped, and what is read of it.         *)
LEMMA MapTied ==
  ASSUME NEW st, NEW w \in Win, Fit(st, w), TrackLeader(st) /\ Rooted(st) => Lead(st),
         NEW a, NEW c, MapTarget(st, w, a, c), NEW m, m = Marked(a, w, c)
  PROVE  /\ SameButWin(st, m, w) /\ m \in Session /\ Tied(m) /\ m.win[w].client = c
         /\ Rewritten(st.win[w], m.win[w], {"wmwin", "client"}) /\ c \in Family(w)
<1>1. st \in Session /\ Framed(st) /\ st.activeWin # w
  BY ConfigAssumption DEF Fit, Xid
<1>2. c \in Family(w) /\ c \in Xid /\ Marking(st, m, w, c)
  BY <1>1, MapTargetMarks
<1>3. /\ SameButWin(st, m, w) /\ m.win[w].client = c
      /\ Rewritten(st.win[w], m.win[w], {"wmwin", "client"})
  BY <1>2 DEF Marking
<1>4. m \in Session
  BY <1>3 DEF SameButWin
<1>5. Framed(m)
  BY <1>1, <1>2, <1>3 DEF Framed, SameButWin
<1>6. ASSUME TrackLeader(m), Rooted(m)  PROVE Lead(m)
  <2>1. TrackLeader(st) /\ Rooted(st) /\ Lead(st)
    BY <1>3, <1>6, SameConfig DEF SameButWin
  <2>2. a \in Session /\ SameButWin(st, a, w) /\ Rewritten(st.win[w], a.win[w], {"wmwin"})
    BY DEF MapTarget, SameButWin
  <2>3. Lead(a)
    <3>1. PICK F : F = {"wmwin"}
      OBVIOUS
    <3>2. F \cap {"leader", "client"} = {} /\ Rewritten(st.win[w], a.win[w], F)
      BY <2>2, <3>1
    <3> QED BY <1>1, <2>1, <2>2, <3>2, LeadSameButWin
  <2>4. a.o = st.o /\ a.activeWin # w /\ a.win[w].client = st.win[w].client
    BY <1>1, <2>2 DEF SameButWin, Rewritten, Kept
  <2>5. Rooted(a)
    BY <2>1, <2>4, SameConfig
  <2>6. Framed(a)
    BY <1>1, <2>2, <2>4 DEF Framed, SameButWin
  <2>7. a.win[w].client \in {None, c}
    BY <2>4 DEF MapTarget
  <2> QED BY <1>2, <2>2, <2>3, <2>4, <2>5, <2>6, <2>7, LeadMarked
<1> QED BY <1>2, <1>3, <1>4, <1>5, <1>6 DEF Tied

(* The decisions about the windows but m are right, or an event waits that  *)
(* makes compton take them again; nothing spoils what no list is about.     *)
Alert(st, m) == \A u \in Win : st.win[u].viewable /\ u # m => Proper(st, u, {})
Idles(st) == \A u \in Win : Idle(st.o, st.win[u])

(* What each step relies on.                                                *)
Ready(st, m) ==
  Settles(st, m) /\ (TrackLeader(st) /\ Rooted(st) => Lead(st)) /\ Alert(st, m) /\ Idles(st)

LEMMA ReadyTied ==
  ASSUME NEW st, NEW m, Ready(st, m)
  PROVE  Tied(st) /\ Sure(st) /\ st \in Session /\ Framed(st) /\ Mapped(st)
BY TiedSure DEF Ready, Settles, Fit, Tied, Mapped

LEMMA MarkReadSure ==
  ASSUME NEW m \in Session, Tied(m), NEW w \in Win, NEW c \in Family(w), m.win[w].client = c,
         NEW b, b = MarkRead(m, w)
  PROVE  /\ b \in Session /\ b.o = m.o /\ Sure(b) /\ b.activeWin = m.activeWin
         /\ \A u \in Win : b.win[u].viewable = m.win[u].viewable
<1>1. c \in Xid
  BY FamilyXid
<1>2. PICK t : t = UpdWintype(m, w)
  OBVIOUS
<1>3. /\ Changes(m, t, w, {"type"}) /\ t.activeWin = m.activeWin
      /\ t.activeLeader = m.activeLeader
  BY <1>1, <1>2, UpdWintypeIs
<1>4. t \in Session /\ t.o = m.o /\ t.win[w].client = c /\ Tied(t)
      /\ \A u \in Win : t.win[u].viewable = m.win[u].viewable
  <2>1. t \in Session /\ t.o = m.o /\ t.win[w].client = c
        /\ \A u \in Win : t.win[u].viewable = m.win[u].viewable
    BY <1>3, ViewableKept
  <2>2. Tied(t)
    BY <1>3, TiedChanges
  <2> QED BY <2>1, <2>2
<1>5. PICK l : l = TrackedLeader(t, w)
  OBVIOUS
<1>6. Changes(t, l, w, {"leader"}) /\ l.activeWin = t.activeWin
  BY <1>1, <1>4, <1>5, TrackedLeaderIs
<1>7. l \in Session /\ l.o = t.o /\ l.win[w].client = c
      /\ \A u \in Win : l.win[u].viewable = t.win[u].viewable
  BY <1>4, <1>6, ViewableKept
<1>8. Sure(l)
  BY <1>4, <1>5, TrackedLeaderProper
<1>9. PICK n : n = TrackedName(l, w)
  OBVIOUS
<1>10. Changes(l, n, w, {"name"}) /\ n.activeWin = l.activeWin
  BY <1>1, <1>7, <1>9, TrackedNameIs
<1>11. n \in Session /\ n.o = l.o /\ \A u \in Win : n.win[u].viewable = l.win[u].viewable
  BY <1>10, ViewableKept
<1>12. Sure(n)
  BY <1>8, <1>10, SureKept
<1>13. PICK f : f = OnFactorChange(n, w)
  OBVIOUS
<1>14. Still(n, f) /\ f \in Session
  BY <1>11, <1>13, OnFactorChangeStill, StillSession
<1>15. b = UpdateFocused(f, w)
  BY <1>2, <1>5, <1>9, <1>13 DEF MarkRead
<1>16. Still(f, b) /\ b \in Session
  BY <1>14, <1>15, UpdateFocusedStill, StillSession
<1>17. Still(n, b)
  BY <1>14, <1>16, StillTwice
<1>18. Changes(n, b, None, {}) /\ b.activeWin = n.activeWin
  BY <1>17 DEF Still, Quiet
<1>19. b.o = n.o /\ \A u \in Win : b.win[u].viewable = n.win[u].viewable
  BY <1>18, ViewableKept
<1>20. Sure(b)
  BY <1>12, <1>18, SureKept
<1> QED
  BY <1>3, <1>4, <1>6, <1>7, <1>10, <1>11, <1>16, <1>18, <1>19, <1>20

LEMMA LeavesMarkRead ==
  ASSUME NEW m \in Session, Tied(m), NEW w \in Win, NEW c \in Family(w),
         m.win[w].client = c, m.win[w].viewable, NEW b, b = MarkRead(m, w),
         NEW D, NEW E, D \ Focuswise(m) \subseteq E
  PROVE  Leaves(m, b, w, D, E)
<1>1. /\ b \in Session /\ b.o = m.o /\ Sure(b)
      /\ \A u \in Win : b.win[u].viewable = m.win[u].viewable
  BY MarkReadSure
<1>2. ASSUME NEW u \in Win, u # w, m.win[u].viewable, Proper(m, u, {})  PROVE Proper(b, u, {})
  <2>1. PICK D0 : D0 = {}
    OBVIOUS
  <2>2. Proper(m, u, D0)
    BY <1>2, <2>1
  <2>3. Proper(b, u, D0)
    BY <1>2, <2>2, MarkReadProper
  <2> QED BY <2>1, <2>3
<1>3. ASSUME Proper(m, w, D)  PROVE Proper(b, w, E)
  BY <1>3, MarkReadProper
<1> QED BY <1>1, <1>2, <1>3 DEF Leaves

(* The window that is mapped becomes known, and right.                      *)
LEMMA AlertMapRead ==
  ASSUME NEW st, NEW w \in Win, Ready(st, w), NEW b, b = MapRead(st, w)
  PROVE  Alert(b, None)
<1>1. st \in Session /\ Fit(st, w) /\ Sure(st) /\ Mapped(st) /\ st.win[w].viewable
  <2>1. Fit(st, w)
    BY DEF Ready, Settles
  <2>2. st.win[w].viewable
    BY <2>1, ConfigAssumption DEF Fit, Xid
  <2> QED BY <2>1, <2>2, ReadyTied
<1>2. PICK a, c : MapTarget(st, w, a, c) /\ MapClient(st, w) = MarkClient(a, w, c)
  BY <1>1, MapClientIs DEF Fit, Framed
<1>3. PICK m : m = Marked(a, w, c)
  OBVIOUS
<1>4. /\ SameButWin(st, m, w) /\ m \in Session /\ Tied(m) /\ m.win[w].client = c
      /\ Rewritten(st.win[w], m.win[w], {"wmwin", "client"}) /\ c \in Family(w)
  BY <1>1, <1>2, <1>3, MapTied DEF Ready
<1>5. m.win[w].viewable /\ Sure(m) /\ m.o = st.o /\ m.activeWin = st.activeWin
  BY <1>1, <1>4, TiedSure DEF Rewritten, Kept, SameButWin
<1>6. Idle(m.o, m.win[w])
  <2>1. Idle(m.o, st.win[w])
    BY <1>5 DEF Ready, Idles
  <2> QED BY <1>4, <2>1, IdleSame DEF Rewritten, Kept
<1>7. PICK D : D = Opened \cup Focuswise(m)
  OBVIOUS
<1>8. Proper(m, w, D)
  BY <1>4, <1>5, <1>6, <1>7, IdleProper
<1>9. ASSUME NEW u \in Win, u # w, m.win[u].viewable  PROVE Proper(m, u, {})
  <2>1. st.win[u].viewable /\ Proper(st, u, {})
    BY <1>4, <1>9 DEF SameButWin, Ready, Alert
  <2>2. PICK D0 : D0 = {}
    OBVIOUS
  <2>3. Proper(st, u, D0)
    BY <2>1, <2>2
  <2>4. Proper(m, u, D0)
    BY <1>1, <1>4, <1>5, <1>9, <2>1, <2>3, OthersProper
  <2> QED BY <2>2, <2>4
<1>10. PICK r : r = MarkRead(m, w)
  OBVIOUS
<1>11. MapClient(st, w) = r
  <2>1. a.win[w].viewable
    BY <1>1, <1>2 DEF MapTarget, Rewritten, Kept
  <2> QED BY <1>2, <1>3, <1>10, <2>1, MarkReadIs
<1>12. Leaves(m, r, w, D, Opened) /\ r.activeWin = m.activeWin
  <2>1. D \ Focuswise(m) \subseteq Opened
    BY <1>7
  <2> QED BY <1>4, <1>5, <1>10, <2>1, LeavesMarkRead, MarkReadSure
<1>13. r \in Session /\ Sure(r) /\ r.win[w].viewable
  BY <1>5, <1>12 DEF Leaves
<1>14. Mapped(r)
  <2>1. st.activeWin # None => st.activeWin # w /\ st.activeWin \in Win
    BY <1>1, ConfigAssumption DEF Fit, Xid, Session
  <2>2. st.activeWin # None => m.win[st.activeWin] = st.win[st.activeWin]
    BY <1>4, <2>1 DEF SameButWin
  <2> QED BY <1>1, <1>5, <1>12, <2>1, <2>2 DEF Mapped, Leaves
<1>15. PICK f : f = MapFocus(r, w)
  OBVIOUS
<1>16. Leaves(r, f, w, Opened, Opened)
  BY <1>13, <1>14, <1>15, LeavesMapFocus
<1>17. f \in Session /\ Sure(f) /\ f.win[w].viewable
  BY <1>13, <1>16 DEF Leaves
<1>18. PICK p : p = MapProps(f, w)
  OBVIOUS
<1>19. Leaves(f, p, w, Opened, Opened)
  BY <1>17, <1>18, LeavesMapProps DEF Opened
<1>20. p \in Session /\ Sure(p) /\ p.win[w].viewable
  BY <1>17, <1>19 DEF Leaves
<1>21. PICK h : h = MapShadow(p, w)
  OBVIOUS
<1>22. PICK E : E = {"fade", "blur"}
  OBVIOUS
<1>23. Leaves(p, h, w, Opened, E)
  BY <1>20, <1>21, <1>22, LeavesMapShadow DEF Opened
<1>24. h \in Session /\ Sure(h) /\ h.win[w].viewable
  BY <1>20, <1>23 DEF Leaves
<1>25. b = MapFade(h, w)
  BY <1>11, <1>15, <1>18, <1>21, MapReadIs
<1>26. PICK N : N = {}
  OBVIOUS
<1>27. Leaves(h, b, w, E, N)
  BY <1>22, <1>24, <1>25, LeavesMapFade
<1>28. Leaves(m, b, w, D, N)
  BY <1>12, <1>16, <1>19, <1>23, <1>27, LeavesTwice
<1>29. \A u \in Win : b.win[u].viewable => m.win[u].viewable
  BY <1>28 DEF Leaves
<1>30. Proper(b, w, {})
  BY <1>8, <1>26, <1>28 DEF Leaves
<1>31. \A u \in Win : u # w /\ b.win[u].viewable => Proper(b, u, {})
  BY <1>9, <1>28, <1>29 DEF Leaves
<1> QED BY <1>30, <1>31 DEF Alert

(* Nothing goes wrong from a to b about a window other than w.              *)
Unspoilt(a, b, w) ==
  /\ b \in Session /\ Sure(b) /\ b.o = a.o
  /\ \A u \in Win : u # w => /\ b.win[u].viewable = a.win[u].viewable
                             /\ a.win[u].viewable /\ Proper(a, u, {}) => Proper(b, u, {})

LEMMA UnspoiltTwice ==
  ASSUME NEW a, NEW b, NEW c, NEW w, Unspoilt(a, b, w), Unspoilt(b, c, w)
  PROVE  Unspoilt(a, c, w)
BY DEF Unspoilt

LEMMA UnspoiltOthers ==
  ASSUME NEW a \in Session, NEW b, NEW w, SameButWin(a, b, w), Sure(a), Sure(b)
  PROVE  Unspoilt(a, b, w)
<1>1. PICK N : N = {}
  OBVIOUS
<1>2. \A u \in Win : u # w /\ a.win[u].viewable /\ Proper(a, u, N) => Proper(b, u, N)
  BY OthersProper
<1> QED BY <1>1, <1>2 DEF Unspoilt, SameButWin

LEMMA UnspoiltStill ==
  ASSUME NEW a, NEW b, Still(a, b), Sure(a), NEW w
  PROVE  Unspoilt(a, b, w)
<1>1. Changes(a, b, None, {})
  BY DEF Still, Quiet
<1>2. b \in Session /\ b.o = a.o /\ \A u \in Win : b.win[u].viewable = a.win[u].viewable
  BY <1>1, ViewableKept
<1>3. Sure(b)
  BY <1>1, SureKept
<1>4. \A u \in Win : a.win[u].viewable /\ Proper(a, u, {}) => Proper(b, u, {})
  BY StillProper
<1> QED BY <1>2, <1>3, <1>4 DEF Unspoilt

LEMMA SureRewritten ==
  ASSUME NEW a \in Session, NEW b, NEW w, SameButWin(a, b, w), Sure(a), NEW F,
         Rewritten(a.win[w], b.win[w], F), F \cap {"leader", "client"} = {}
  PROVE  Sure(b)
<1>1. \A v \in Win : b.win[v].cache = a.win[v].cache /\ b.win[v].client = a.win[v].client
                     /\ b.win[v].leader = a.win[v].leader
  BY DEF SameButWin, Rewritten, Kept
<1>2. \A v \in Win : Up(b.win[v]) = Up(a.win[v])
  BY <1>1 DEF Up
<1>3. Grounded(a.win) => Grounded(b.win)
  BY <1>1, <1>2 DEF Grounded
<1> QED BY <1>3, SameConfig DEF Sure, SameButWin

LEMMA UnspoiltRewritten ==
  ASSUME NEW a \in Session, NEW b, NEW w, SameButWin(a, b, w), Sure(a), NEW F,
         Rewritten(a.win[w], b.win[w], F), F \cap {"leader", "client"} = {}
  PROVE  Unspoilt(a, b, w)
BY SureRewritten, UnspoiltOthers

LEMMA UnspoiltMask ==
  ASSUME NEW a \in Session, NEW b, NEW w, SameButMask(a, b), Sure(a)
  PROVE  Unspoilt(a, b, w)
<1>1. SameButWin(a, b, w)
  BY DEF SameButMask, SameButWin
<1>2. Sure(b)
  BY SameConfig DEF Sure, SameButMask
<1> QED BY <1>1, <1>2, UnspoiltOthers

LEMMA UnspoiltAlert ==
  ASSUME NEW a, NEW m, NEW b, NEW w, Alert(a, m), Unspoilt(a, b, w)
  PROVE  /\ m \in {None, w} => Alert(b, w)
         /\ m \in {None, w} /\ (b.win[w].viewable => Proper(b, w, {})) => Alert(b, None)
BY ConfigAssumption DEF Alert, Unspoilt, Xid

(* unmap_win, and map_win up to where it reads.                             *)
LEMMA AlertUnmapWin ==
  ASSUME NEW a \in Session, Sure(a), NEW w \in Win, a.win[w].viewable, Alert(a, None),
         NEW b, b = UnmapWin(a, w)
  PROVE  Alert(b, None)
<1>1. PICK l : l = LoseFocus(a, w)
  OBVIOUS
<1>2. Changes(a, l, None, {})
  BY <1>1, LoseFocusQuiet DEF Quiet
<1>3. Unspoilt(a, l, w)
  <2>1. l \in Session /\ l.o = a.o /\ \A u \in Win : l.win[u].viewable = a.win[u].viewable
    BY <1>2, ViewableKept
  <2>2. Sure(l)
    BY <1>2, SureKept
  <2>3. PICK N : N = {}
    OBVIOUS
  <2>4. \A u \in Win : a.win[u].viewable /\ Proper(a, u, N) => Proper(l, u, N)
    BY <1>1, LoseFocusProper
  <2> QED BY <2>1, <2>2, <2>3, <2>4 DEF Unspoilt
<1>4. PICK d : d = Dropped(l, w)
  OBVIOUS
<1>5. l \in Session /\ Sure(l)
  BY <1>3 DEF Unspoilt
<1>6. PICK F : F = UnmapFields
  OBVIOUS
<1>7. SameButWin(l, d, w) /\ Rewritten(l.win[w], d.win[w], F) /\ d.win[w].viewable = FALSE
  BY <1>4, <1>5, <1>6, DroppedIs, Zenon
<1>8. F \cap {"leader", "client"} = {}
  BY <1>6 DEF UnmapFields
<1>9. Unspoilt(l, d, w)
  BY <1>5, <1>7, <1>8, UnspoiltRewritten
<1>10. d \in Session /\ Sure(d)
  BY <1>9 DEF Unspoilt
<1>11. PICK e : e = Determine(d, w, {"fade"})
  OBVIOUS
<1>12. Still(d, e)
  BY <1>10, <1>11, DetermineStill
<1>13. Unspoilt(d, e, w) /\ e \in Session /\ Sure(e)
  BY <1>10, <1>12, UnspoiltStill DEF Unspoilt
<1>14. e.win[w].viewable = d.win[w].viewable
  BY <1>12, KeptSame DEF Still, Quiet, Kept
<1>15. b = EvStop(e, w)
  BY <1>1, <1>4, <1>11, Zenon DEF UnmapWin, Dropped
<1>16. Unspoilt(e, b, w) /\ b.win = e.win
  BY <1>13, <1>15, EvStopIs, UnspoiltMask DEF SameButMask
<1>17. Unspoilt(a, b, w)
  BY <1>3, <1>9, <1>13, <1>16, UnspoiltTwice
<1> QED BY <1>7, <1>14, <1>16, <1>17, UnspoiltAlert

LEMMA AlertMapSelect ==
  ASSUME NEW a \in Session, Sure(a), NEW w \in Win, Alert(a, None), NEW b, b = MapSelect(a, w)
  PROVE  Alert(b, w)
<1>1. PICK F : F = {"viewable"}
  OBVIOUS
<1>2. SameButWin(a, b, w) /\ Rewritten(a.win[w], b.win[w], F) /\ F \cap {"leader", "client"} = {}
  BY <1>1, MapSelectIs
<1>3. Unspoilt(a, b, w)
  BY <1>2, UnspoiltRewritten
<1> QED BY <1>3, UnspoiltAlert

(* check_fade_fin.                                                          *)
LEMMA LeavesUnspoilt ==
  ASSUME NEW a, NEW b, NEW w, NEW D, NEW E, Leaves(a, b, w, D, E)
  PROVE  Unspoilt(a, b, w)
BY DEF Leaves, Unspoilt

LEMMA AlertCallback ==
  ASSUME NEW a \in Session, Sure(a), NEW w \in Win, FitWin(a.win[w]), Alert(a, None),
         NEW b, b = RunCallback(a, w)
  PROVE  Alert(b, None)
<1>1. CASE a.win[w].viewable
  <2>1. a.win[w].callback # "unmap" /\ Proper(a, w, {})
    BY <1>1, ConfigAssumption DEF FitWin, Alert, Xid
  <2>2. PICK N : N = {}
    OBVIOUS
  <2>3. Leaves(a, b, w, N, N)
    BY <1>1, <2>1, LeavesCallback
  <2>4. Unspoilt(a, b, w) /\ Proper(b, w, {})
    BY <2>1, <2>2, <2>3, LeavesUnspoilt DEF Leaves
  <2> QED BY <2>4, UnspoiltAlert
<1>2. CASE ~a.win[w].viewable
  <2>1. b = a \/ b = Settling(a, w)
    BY <1>2 DEF FitWin, RunCallback, FinishUnmap, Settling
  <2>2. CASE b = a
    BY <2>2
  <2>3. CASE b = Settling(a, w)
    <3>1. PICK F : F = {"inOpenclose", "callback"}
      OBVIOUS
    <3>2. SameButWin(a, b, w) /\ Rewritten(a.win[w], b.win[w], F) /\ F \cap {"leader", "client"} = {}
      BY <2>3, <3>1, SettlingIs
    <3>3. b.win[w].viewable = a.win[w].viewable
      BY <3>1, <3>2 DEF Rewritten, Kept
    <3> QED BY <1>2, <3>2, <3>3, UnspoiltRewritten, UnspoiltAlert
  <2> QED BY <2>1, <2>2, <2>3
<1> QED BY <1>1, <1>2

(* The D-Bus calls.                                                         *)
LEMMA ForceProper ==
  ASSUME NEW a \in Session, Sure(a), NEW w \in Win, a.win[w].viewable, NEW d \in Forced,
         NEW value \in Switch, NEW b, b = WithForce(a, w, d, value), Sure(b),
         NEW D, d \in D, Proper(a, w, D)
  PROVE  Proper(b, w, D)
<1>1. PICK F : F = {"force"}
  OBVIOUS
<1>2. /\ SameButWin(a, b, w) /\ Rewritten(a.win[w], b.win[w], F)
      /\ \A g \in Forced : g # d => b.win[w].force[g] = a.win[w].force[g]
  BY <1>1, WithForceIs
<1>3. b.o = a.o /\ b.srv = a.srv /\ b.activeWin = a.activeWin /\ b.activeLeader = a.activeLeader
      /\ b \in Session /\ b.openclose = a.openclose /\ Pending(b) = Pending(a)
  BY <1>2 DEF SameButWin
<1>4. \A f \in Kept : f # "force" => b.win[w][f] = a.win[w][f]
  BY <1>1, <1>2 DEF Rewritten
<1>5. b.win[w].dec = a.win[w].dec /\ b.win[w].opacitySet = a.win[w].opacitySet
      /\ (a.win[w].opctChange => b.win[w].opctChange)
  BY <1>2 DEF Rewritten
<1>6. \A f \in Fact : Has(a, w, f) <=> Has(b, w, f)
  BY <1>3, <1>4, HasSame DEF Kept
<1>7. \A l \in Decision \cup {"opacity"} : \A f \in a.o.lists[l] : Has(a, w, f) <=> Has(b, w, f)
  BY <1>6, ListFacts
<1>8. ASSUME NEW g \in Decision \ D, Followed(a, g), g = "focus"
      PROVE  LeadsFocus(a, w) <=> LeadsFocus(b, w)
  <2>1. TrackLeader(b) <=> TrackLeader(a)
    BY <1>3, SameConfig
  <2>2. CASE TrackLeader(a)
    <3>1. Grounded(a.win) /\ Grounded(b.win)
      BY <1>3, <1>8, <2>1, <2>2, SameConfig DEF Followed, Sure
    <3>2. Leader(a, w) = Up(a.win[w]) /\ Leader(b, w) = Up(b.win[w])
      BY <1>3, <3>1, GroundedLeader
    <3>3. Up(b.win[w]) = Up(a.win[w])
      BY <1>4 DEF Up, Kept
    <3> QED BY <1>3, <2>1, <3>2, <3>3 DEF LeadsFocus
  <2>3. CASE ~TrackLeader(a)
    BY <2>1, <2>3 DEF LeadsFocus
  <2> QED BY <2>2, <2>3
<1>9. Plain(a, a.win[w].type) <=> Plain(b, b.win[w].type)
  BY <1>3, <1>4 DEF Plain, Kept
<1>10. /\ b.win[w].viewable = a.win[w].viewable /\ b.win[w].inOpenclose = a.win[w].inOpenclose
       /\ b.win[w].shaped = a.win[w].shaped /\ b.win[w].noShadow = a.win[w].noShadow
       /\ b.win[w].wmwin = a.win[w].wmwin
  BY <1>4 DEF Kept
<1>11. ASSUME NEW g \in Decision \ D, Followed(a, g)  PROVE SameCauses(a, b, w, g)
  <2>1. g \in Forced => a.win[w].force[g] = b.win[w].force[g]
    BY <1>2, <1>11
  <2>2. \A f \in a.o.lists[g] : Has(a, w, f) <=> Has(b, w, f)
    BY <1>7, <1>11
  <2> QED BY <1>3, <1>8, <1>9, <1>10, <1>11, <2>1, <2>2, Zenon DEF SameCauses
<1>12. ASSUME LookRight(a, w)  PROVE LookRight(b, w)
  <2>1. \A f \in LookFields : b.win[w][f] = a.win[w][f]
    BY <1>4 DEF LookFields, Kept
  <2> QED BY <1>3, <1>5, <1>12, <2>1, LookKept
<1>13. Alike(a, b, w, D)
  BY <1>3, <1>5, <1>7, <1>11, <1>12, CausesAlike
<1> QED BY <1>13, AlikeProper

LEMMA AlertForce ==
  ASSUME NEW a \in Session, Sure(a), NEW w \in Win, NEW d \in Forced, NEW value \in Switch,
         Alert(a, None), NEW b, b = SetForce(a, w, d, value)
  PROVE  Alert(b, None)
<1>1. PICK c : c = WithForce(a, w, d, value)
  OBVIOUS
<1>2. PICK F : F = {"force"}
  OBVIOUS
<1>3. /\ SameButWin(a, c, w) /\ Rewritten(a.win[w], c.win[w], F) /\ F \cap {"leader", "client"} = {}
  BY <1>1, <1>2, WithForceIs
<1>4. Unspoilt(a, c, w)
  BY <1>3, UnspoiltRewritten
<1>5. c \in Session /\ Sure(c)
  BY <1>4 DEF Unspoilt
<1>6. c.win[w].viewable = a.win[w].viewable
  BY <1>2, <1>3 DEF Rewritten, Kept
<1>7. b = IF d = "focus" THEN UpdateFocused(c, w) ELSE Determine(c, w, {d})
  BY <1>1 DEF SetForce, WithForce
<1>8. Still(c, b)
  <2>1. d # "focus" => "focus" \notin {d}
    OBVIOUS
  <2> QED BY <1>5, <1>7, <2>1, UpdateFocusedStill, DetermineStill
<1>9. Unspoilt(a, b, w)
  BY <1>4, <1>5, <1>8, UnspoiltStill, UnspoiltTwice
<1>10. b.win[w].viewable = c.win[w].viewable
  BY <1>8, KeptSame DEF Still, Quiet, Kept
<1>11. ASSUME a.win[w].viewable  PROVE Proper(b, w, {})
  <2>1. PICK D : D = {d}
    OBVIOUS
  <2>2. PICK N : N = {}
    OBVIOUS
  <2>3. Proper(a, w, N)
    BY <1>11, <2>2, ConfigAssumption DEF Alert, Xid
  <2>4. Proper(a, w, D)
    BY <2>2, <2>3, ProperLess
  <2>5. Proper(c, w, D)
    BY <1>1, <1>5, <1>11, <2>1, <2>4, ForceProper
  <2>6. CASE d = "focus"
    <3>1. D \ {"focus", "look"} \subseteq N
      BY <2>1, <2>6
    <3>2. Proper(b, w, N)
      BY <1>5, <1>6, <1>7, <1>11, <2>5, <2>6, <3>1, UpdateFocusedProper
    <3> QED BY <2>2, <3>2
  <2>7. CASE d # "focus"
    <3>1. D \subseteq Decision \ {"focus"} /\ D \ D \subseteq N
      BY <2>1, <2>7 DEF Forced, Decision
    <3>2. b = Determine(c, w, D)
      BY <1>7, <2>1, <2>7
    <3>3. Proper(b, w, N)
      BY <1>5, <1>6, <1>11, <2>5, <3>1, <3>2, DetermineProper
    <3> QED BY <2>2, <3>3
  <2> QED BY <2>6, <2>7
<1> QED BY <1>6, <1>9, <1>10, <1>11, UnspoiltAlert

LEMMA ReopenedProper ==
  ASSUME NEW a \in Session, Sure(a), NEW u \in Win, a.win[u].viewable, NEW b, b = Reopened(a),
         NEW D, "fade" \in D, Proper(a, u, D)
  PROVE  Proper(b, u, D)
<1>1. b \in Session /\ b.win = a.win /\ b.srv = a.srv /\ Pending(b) = Pending(a)
      /\ b.o = a.o /\ b.activeWin = a.activeWin /\ b.activeLeader = a.activeLeader
  BY ReopenedIs
<1>2. \A f \in Fact : Has(a, u, f) <=> Has(b, u, f)
  BY <1>1, HasSame
<1>3. \A l \in Decision \cup {"opacity"} : \A f \in a.o.lists[l] : Has(a, u, f) <=> Has(b, u, f)
  BY <1>2, ListFacts
<1>4. LeadsFocus(a, u) <=> LeadsFocus(b, u)
  BY <1>1, SameConfig DEF LeadsFocus, Leader
<1>5. Plain(a, a.win[u].type) <=> Plain(b, b.win[u].type)
  BY <1>1 DEF Plain
<1>6. ASSUME NEW g \in Decision \ D  PROVE SameCauses(a, b, u, g)
  <2>1. \A f \in a.o.lists[g] : Has(a, u, f) <=> Has(b, u, f)
    BY <1>3, <1>6
  <2>2. g # "fade"
    BY <1>6
  <2> QED BY <1>1, <1>4, <1>5, <1>6, <2>1, <2>2, Zenon DEF SameCauses
<1>7. ASSUME LookRight(a, u)  PROVE LookRight(b, u)
  BY <1>1, <1>7, LookKept
<1>8. Alike(a, b, u, D)
  BY <1>1, <1>3, <1>6, <1>7, CausesAlike
<1> QED BY <1>8, AlikeProper

LEMMA DeterminedIs ==
  ASSUME NEW st \in Session, NEW w \in Win, NEW ds, NEW b, b = Determine(st, w, ds),
         NEW d \in Decision, d \in ds
  PROVE  b.win[w].dec[d] = Decided(st, w, d)
<1>1. PICK v : v = st.win[w]
  OBVIOUS
<1>2. v \in WinType
  BY <1>1, WinIn
<1>3. PICK new : Redecided(st, w, ds, v, new) /\ b = [st EXCEPT !.win[w] = new]
  BY <1>1, DetermineIs
<1>4. /\ new \in WinType
      /\ \A g \in Decision : new.dec[g] = IF g \in ds THEN Decided(st, w, g) ELSE v.dec[g]
  BY <1>2, <1>3, RedecidedType
<1>5. b.win[w] = new
  BY <1>3, <1>4, OneWindow
<1> QED BY <1>4, <1>5

LEMMA AlertOpenclose ==
  ASSUME NEW st \in Session, Sure(st), Alert(st, None), NEW b, b = SetOpenclose(st)
  PROVE  Alert(b, None)
<1>1. PICK a : /\ a = Reopened(st) /\ Still(a, b)
               /\ \A w \in Win : b.win[w] = Determine(a, w, {"fade"}).win[w]
  BY SetOpencloseIs
<1>2. a \in Session /\ a.o = st.o /\ a.win = st.win
  BY <1>1, ReopenedIs
<1>3. Sure(a)
  BY <1>2, SameConfig DEF Sure
<1>4. ASSUME NEW u \in Win, b.win[u].viewable  PROVE Proper(b, u, {})
  <2>1. a.win[u].viewable /\ st.win[u].viewable
    BY <1>1, <1>2, <1>4, KeptSame DEF Still, Quiet, Kept
  <2>2. PICK N : N = {}
    OBVIOUS
  <2>3. PICK D : D = {"fade"}
    OBVIOUS
  <2>4. Proper(st, u, N)
    BY <2>1, <2>2, ConfigAssumption DEF Alert, Xid
  <2>5. Proper(st, u, D)
    BY <2>2, <2>4, ProperLess
  <2>6. Proper(a, u, D)
    BY <1>1, <2>1, <2>3, <2>5, ReopenedProper
  <2>7. Proper(b, u, D)
    BY <1>1, <1>3, <2>1, <2>6, StillProper
  <2>8. "fade" \in Decision /\ Good(a, "fade")
    BY DEF Decision, Good
  <2>9. Decided(b, u, "fade") = Decided(a, u, "fade")
    BY <1>1, <2>1, <2>8, StillDecided
  <2>10. b.win[u].dec["fade"] = Decided(a, u, "fade")
    <3>1. PICK e : e = Determine(a, u, D)
      OBVIOUS
    <3>2. e.win[u].dec["fade"] = Decided(a, u, "fade")
      BY <1>2, <2>3, <2>8, <3>1, DeterminedIs
    <3> QED BY <1>1, <2>3, <3>1, <3>2
  <2>11. Proper(b, u, D \ D)
    <3>1. \A d \in Decision \cap D : Followed(b, d) => Fresh(b, u, d)
      BY <2>3, <2>9, <2>10 DEF Fresh
    <3>2. "opacity" \notin D /\ "look" \notin D
      BY <2>3
    <3> QED BY <2>7, <3>1, <3>2, Repaired
  <2> QED BY <2>11
<1> QED BY <1>4 DEF Alert

(* paint_preprocess takes no decision and calculates what is flagged.       *)
LEMMA PaintedLook ==
  ASSUME NEW st \in Session, NEW u \in Win, st.win[u].viewable, NEW b, b.o = st.o,
         b.activeWin = st.activeWin, Shown(st.win[u], b.win[u]),
         Calculated(st, u, b.win[u]), LookRight(st, u)
  PROVE  LookRight(b, u)
<1>1. b.win[u].opacityTgt = CalcOpacity(st, u) /\ b.win[u].dimmed = CalcDim(st, u)
  BY DEF Calculated, LookRight
<1>2. /\ b.win[u].viewable = st.win[u].viewable /\ b.win[u].type = st.win[u].type
      /\ b.win[u].opacityProp = st.win[u].opacityProp
      /\ b.win[u].opacityClient = st.win[u].opacityClient
      /\ b.win[u].dec = st.win[u].dec
  BY DEF Shown, Kept
<1>3. CalcOpacity(b, u) = CalcOpacity(st, u)
  BY <1>2 DEF CalcOpacity, Plain
<1>4. CalcDim(b, u) = CalcDim(st, u)
  BY <1>2 DEF CalcDim
<1> QED BY <1>1, <1>3, <1>4 DEF LookRight

LEMMA AlertPainted ==
  ASSUME NEW a \in Session, Sure(a), Alert(a, None), NEW shown, NEW b, b = Painted(a, shown)
  PROVE  Alert(b, None)
<1>1. /\ b \in Session /\ b.srv = a.srv /\ Pending(b) = Pending(a) /\ b.o = a.o
      /\ b.activeWin = a.activeWin /\ b.activeLeader = a.activeLeader /\ b.openclose = a.openclose
      /\ \A w \in Win : Shown(a.win[w], b.win[w]) /\ Calculated(a, w, b.win[w])
  BY PaintedIs
<1>2. \A w \in Win : /\ b.win[w].leader = a.win[w].leader /\ b.win[w].client = a.win[w].client
                     /\ b.win[w].cache = a.win[w].cache
  BY <1>1 DEF Shown, Kept
<1>3. \A w \in Win : Up(b.win[w]) = Up(a.win[w])
  BY <1>2 DEF Up
<1>4. Sure(b)
  BY <1>1, <1>2, <1>3, SameConfig DEF Sure, Grounded
<1>5. ASSUME NEW w \in Win, b.win[w].viewable  PROVE Proper(b, w, {})
  <2>1. /\ \A f \in {"viewable", "type", "name", "shaped", "noShadow", "wmwin", "force", "inOpenclose"} :
             b.win[w][f] = a.win[w][f]
        /\ b.win[w].opacitySet = a.win[w].opacitySet
    BY <1>1 DEF Shown, Kept
  <2>2. a.win[w].viewable /\ b.win[w].dec = a.win[w].dec
    BY <1>1, <1>5, <2>1 DEF Shown
  <2>3. \A f \in Fact : Has(a, w, f) <=> Has(b, w, f)
    BY <1>1, <2>1, HasSame
  <2>4. \A l \in Decision \cup {"opacity"} : \A f \in a.o.lists[l] : Has(a, w, f) <=> Has(b, w, f)
    BY <2>3, ListFacts
  <2>5. ASSUME Followed(a, "focus")  PROVE LeadsFocus(a, w) <=> LeadsFocus(b, w)
    <3>1. TrackLeader(b) <=> TrackLeader(a)
      BY <1>1, SameConfig
    <3>2. CASE TrackLeader(a)
      <4>1. Grounded(a.win) /\ Grounded(b.win)
        BY <1>1, <1>4, <2>5, <3>1, <3>2, SameConfig DEF Followed, Sure
      <4>2. Leader(a, w) = Up(a.win[w]) /\ Leader(b, w) = Up(b.win[w])
        BY <1>1, <4>1, GroundedLeader
      <4> QED BY <1>1, <1>3, <3>1, <4>2 DEF LeadsFocus
    <3>3. CASE ~TrackLeader(a)
      BY <3>1, <3>3 DEF LeadsFocus
    <3> QED BY <3>2, <3>3
  <2>6. Plain(a, a.win[w].type) <=> Plain(b, b.win[w].type)
    BY <1>1, <2>1 DEF Plain
  <2>7. ASSUME NEW g \in Decision, Followed(a, g)  PROVE SameCauses(a, b, w, g)
    <3>1. \A f \in a.o.lists[g] : Has(a, w, f) <=> Has(b, w, f)
      BY <2>4, <2>7
    <3>2. /\ b.win[w].viewable = a.win[w].viewable /\ b.win[w].inOpenclose = a.win[w].inOpenclose
          /\ b.win[w].shaped = a.win[w].shaped /\ b.win[w].noShadow = a.win[w].noShadow
          /\ b.win[w].wmwin = a.win[w].wmwin /\ b.win[w].force = a.win[w].force
      BY <2>1
    <3>3. g = "focus" => (LeadsFocus(a, w) <=> LeadsFocus(b, w))
      BY <2>5, <2>7
    <3> QED BY <1>1, <2>2, <2>6, <3>1, <3>2, <3>3, Zenon DEF SameCauses
  <2>8. LookRight(a, w) => LookRight(b, w)
    BY <1>1, <2>2, PaintedLook
  <2>9. PICK N : N = {}
    OBVIOUS
  <2>10. Alike(a, b, w, N)
    BY <1>1, <2>1, <2>2, <2>4, <2>7, <2>8, <2>9, CausesAlike
  <2>11. Proper(a, w, N)
    BY <2>2, <2>9, ConfigAssumption DEF Alert, Xid
  <2>12. Proper(b, w, N)
    BY <2>10, <2>11, AlikeProper
  <2> QED BY <2>9, <2>12
<1> QED BY <1>5 DEF Alert

(* A window that is not viewable looks as it was last painted.              *)
LEMMA RestoredIdle ==
  ASSUME NEW v \in WinType, NEW o, Idle(o, v), NEW new, new = Restored(v)
  PROVE  Idle(o, new)
<1>1. PICK dec : dec = [d \in Decision |-> IF ~v.viewable /\ d \in Looks THEN v.last[d] ELSE v.dec[d]]
  OBVIOUS
<1>2. new = [v EXCEPT !.dec = dec]
  BY <1>1, Zenon DEF Restored
<1>3. new.dec = dec /\ new.last = v.last /\ new.force = v.force /\ new.opacitySet = v.opacitySet
  BY <1>2 DEF WinType
<1>4. dec["paint"] = v.dec["paint"] /\ dec["unredir"] = v.dec["unredir"]
      /\ dec["invert"] \in {v.dec["invert"], v.last["invert"]}
  BY <1>1 DEF Decision, Looks
<1> QED BY <1>3, <1>4 DEF Idle

LEMMA UpdatedIdle ==
  ASSUME NEW st, NEW w, NEW v \in WinType, NEW o, Idle(o, v), NEW new, new = Updated(st, w, v)
  PROVE  Idle(o, new)
<1>1. new.dec = v.dec /\ new.last = v.last /\ new.force = v.force /\ new.opacitySet = v.opacitySet
  <2>1. CASE ~v.opctChange
    BY <2>1 DEF Updated
  <2>2. CASE v.opctChange
    <3>1. PICK x, y : new = [v EXCEPT !.opacityTgt = x, !.dimmed = y]
      BY <2>2 DEF Updated
    <3> QED BY <3>1 DEF WinType
  <2> QED BY <2>1, <2>2
<1> QED BY <1>1, IdleSame

LEMMA SavedIdle ==
  ASSUME NEW v \in WinType, NEW o, Idle(o, v), NEW new, new = Saved(v)
  PROVE  Idle(o, new)
<1>1. PICK last : last = [d \in Looks |-> v.dec[d]]
  OBVIOUS
<1>2. new = [v EXCEPT !.opctChange = FALSE, !.last = last]
  BY <1>1, Zenon DEF Saved
<1>3. new.dec = v.dec /\ new.last = last /\ new.force = v.force /\ new.opacitySet = v.opacitySet
  BY <1>2 DEF WinType
<1>4. last["invert"] = v.dec["invert"]
  BY <1>1 DEF Looks
<1> QED BY <1>3, <1>4 DEF Idle

LEMMA IdlePainted ==
  ASSUME NEW st \in Session, NEW shown, NEW b, b = Painted(st, shown)
  PROVE  StaysIdle(st, b)
<1> DEFINE after(w) == Updated(st, w, Restored(st.win[w]))
           final(w) == IF w \in shown THEN Saved(after(w)) ELSE after(w)
<1>1. PICK new : new = [w \in Win |-> final(w)]
  OBVIOUS
<1>2. b = [st EXCEPT !.win = new]
  BY <1>1, Zenon DEF Painted, Restored, Updated, Saved
<1>3. ASSUME NEW w \in Win, Idle(st.o, st.win[w]) PROVE Idle(st.o, new[w])
  <2>1. PICK v \in WinType : v = st.win[w]
    BY WinIn
  <2>2. PICK v1 : v1 = Restored(v)
    OBVIOUS
  <2>3. v1 \in WinType /\ Idle(st.o, v1)
    BY <1>3, <2>1, <2>2, RestoredShown, RestoredIdle DEF Shown
  <2>4. PICK v2 : v2 = Updated(st, w, v1)
    OBVIOUS
  <2>5. v2 \in WinType /\ Idle(st.o, v2)
    BY <2>3, <2>4, UpdatedShown, UpdatedIdle DEF Shown
  <2>6. PICK v3 : v3 = Saved(v2)
    OBVIOUS
  <2>7. Idle(st.o, v3)
    BY <2>5, <2>6, SavedIdle
  <2>8. new[w] = IF w \in shown THEN v3 ELSE v2
    BY <1>1, <2>1, <2>2, <2>4, <2>6
  <2> QED BY <2>5, <2>7, <2>8
<1> HIDE DEF final, after
<1>4. b.win = new
  BY <1>2 DEF Session
<1> QED BY <1>3, <1>4 DEF StaysIdle

(* The events.  The one that is taken from the queue may be the one that a  *)
(* decision waits for.                                                      *)
Missed(st, e, u) == {l \in Decision \cup {"opacity"} : e = Of("other", u) /\ "other" \in st.o.lists[l]}
Wary(st, e) == \A u \in Win : st.win[u].viewable => Proper(st, u, Missed(st, e, u))

LEMMA RestProper ==
  ASSUME NEW st \in Session, NEW a, SameBut(st, a), a.srv = st.srv,
         NEW e, Pending(st) \subseteq Pending(a) \cup {e},
         NEW u \in Win, st.win[u].viewable, Proper(st, u, {})
  PROVE  Proper(a, u, Missed(a, e, u))
<1>1. a \in Session /\ a.o = st.o /\ a.win = st.win /\ a.activeWin = st.activeWin
      /\ a.activeLeader = st.activeLeader /\ a.openclose = st.openclose
  BY DEF SameBut
<1>2. \A f \in Fact : Has(st, u, f) <=> Has(a, u, f)
  BY <1>1, HasSame
<1>3. \A l \in Decision \cup {"opacity"} : \A f \in st.o.lists[l] : Has(st, u, f) <=> Has(a, u, f)
  BY <1>2, ListFacts
<1>4. LeadsFocus(st, u) <=> LeadsFocus(a, u)
  BY <1>1, SameConfig DEF LeadsFocus, Leader
<1>5. Plain(st, st.win[u].type) <=> Plain(a, a.win[u].type)
  BY <1>1 DEF Plain
<1>6. ASSUME NEW d \in Decision  PROVE SameCauses(st, a, u, d)
  <2>1. \A f \in st.o.lists[d] : Has(st, u, f) <=> Has(a, u, f)
    BY <1>3
  <2> QED BY <1>1, <1>4, <1>5, <2>1, Zenon DEF SameCauses
<1>7. \A d \in Decision : Fresh(st, u, d) => Fresh(a, u, d)
  BY <1>1, <1>6, DecidedSame DEF Fresh
<1>8. RuleFresh(st, u) => RuleFresh(a, u)
  BY <1>1, <1>3, RuleSame DEF RuleFresh
<1>9. \A l \in Decision \cup {"opacity"} : Later(st, u, l) /\ l \notin Missed(a, e, u) => Later(a, u, l)
  BY <1>1 DEF Later, Missed
<1>10. LookRight(a, u)
  <2>1. LookRight(st, u)
    BY DEF Proper
  <2> QED BY <1>1, <2>1, LookKept
<1>11. \A d : Followed(a, d) <=> Followed(st, d)
  BY <1>1, SameConfig
<1>12. ASSUME NEW d \in Decision \ Missed(a, e, u), Followed(a, d)
       PROVE  Fresh(a, u, d) \/ Later(a, u, d)
  <2>1. Fresh(st, u, d) \/ Later(st, u, d)
    BY <1>11, <1>12 DEF Proper
  <2> QED BY <1>7, <1>9, <1>12, <2>1
<1>13. ASSUME "opacity" \notin Missed(a, e, u), Followed(a, "opacity")
       PROVE  RuleFresh(a, u) \/ Later(a, u, "opacity")
  <2>1. RuleFresh(st, u) \/ Later(st, u, "opacity")
    BY <1>11, <1>13 DEF Proper
  <2> QED BY <1>8, <1>9, <1>13, <2>1
<1> QED BY <1>10, <1>12, <1>13 DEF Proper

LEMMA WaryAlert ==
  ASSUME NEW st, NEW e, Wary(st, e), e.atom # "other"
  PROVE  Alert(st, None)
<1>1. \A u \in Win : Missed(st, e, u) = {}
  BY DEF Missed, Of
<1> QED BY <1>1 DEF Wary, Alert

(* The list of conditions is matched again.                                 *)
LEMMA AlertTracked ==
  ASSUME NEW a \in Session, Sure(a), NEW x \in Xid, NEW e, e = Of("other", x), Wary(a, e),
         NEW b, b = OnTracked(a, x)
  PROVE  Alert(b, None)
<1>1. Still(a, b)
  BY OnTrackedIs
<1>2. \A u \in Win : b.win[u].viewable = a.win[u].viewable
  BY <1>1, KeptSame DEF Still, Quiet, Kept
<1>3. ASSUME NEW u \in Win, a.win[u].viewable  PROVE Proper(b, u, {})
  <2>1. PICK D : D = Missed(a, e, u)
    OBVIOUS
  <2>2. PICK N : N = {}
    OBVIOUS
  <2>3. Proper(a, u, D)
    BY <1>3, <2>1 DEF Wary
  <2>4. CASE D = N
    BY <1>1, <1>3, <2>2, <2>3, <2>4, StillProper
  <2>5. CASE D # N
    <3>1. x = u
      BY <2>1, <2>2, <2>5 DEF Missed, Of
    <3>2. TrackAtoms(a)
      <4>1. DOMAIN a.o.lists = Decision \cup {"opacity"}
        BY DEF Session, Config
      <4> QED BY <2>1, <2>2, <2>5, <4>1 DEF Missed, TrackAtoms, Looked
    <3>3. b = OnFactorChange(a, u)
      BY <3>1, <3>2 DEF OnTracked, FindWin
    <3>4. D \ Listed(a) \subseteq N
      BY <2>1, ListedIs DEF Missed
    <3>5. Proper(b, u, N)
      BY <1>3, <2>3, <3>3, <3>4, OnFactorChangeProper
    <3> QED BY <2>2, <3>5
  <2> QED BY <2>4, <2>5
<1> QED BY <1>2, <1>3 DEF Alert

(* A window is rewritten in what no decision minds, or only the fields D    *)
(* that are repaired.                                                       *)
LEMMA AlertRewritten ==
  ASSUME NEW a \in Session, Sure(a), NEW w \in Win, Alert(a, None), NEW b, SameButWin(a, b, w),
         NEW F, Changes(a, b, w, F), Rewritten(a.win[w], b.win[w], F),
         F \cap {"leader", "client", "viewable"} = {}, Spared(a, F, {}),
         b.win[w].opctChange \/ F \cap LookFields = {}
  PROVE  Alert(b, None)
<1>1. PICK N : N = {}
  OBVIOUS
<1>2. F \cap {"leader", "client"} = {} /\ "viewable" \notin F /\ Spared(a, F, N)
  BY <1>1
<1>3. b.win[w].viewable = a.win[w].viewable
  BY <1>2 DEF Rewritten, Kept
<1>4. Unspoilt(a, b, w)
  BY <1>2, UnspoiltRewritten
<1>5. ASSUME a.win[w].viewable  PROVE Proper(b, w, {})
  <2>1. Proper(a, w, N)
    BY <1>1, <1>5, ConfigAssumption DEF Alert, Xid
  <2>2. Leaves(a, b, w, N, N)
    BY <1>2, <1>5, LeavesRewritten
  <2> QED BY <1>1, <2>1, <2>2 DEF Leaves
<1> QED BY <1>3, <1>4, <1>5, UnspoiltAlert

LEMMA AlertOpacity ==
  ASSUME NEW a \in Session, Sure(a), Framed(a), Alert(a, None), NEW x \in Xid,
         NEW b, b = OnOpacity(a, x)
  PROVE  Alert(b, None)
<1>1. \A f \in {"opacityProp", "opacityClient"} : Spared(a, {f}, {})
  BY DEF Spared, Minds
<1>2. ASSUME NEW w \in Win, NEW f \in {"opacityProp", "opacityClient"}, Changes(a, b, w, {f}),
             SameButWin(a, b, w), Rewritten(a.win[w], b.win[w], {f}), b.win[w].opctChange
      PROVE  Alert(b, None)
  <2>1. PICK F : F = {f}
    OBVIOUS
  <2>2. F \cap {"leader", "client", "viewable"} = {} /\ Spared(a, F, {})
    BY <1>1, <1>2, <2>1
  <2> QED BY <1>2, <2>1, <2>2, AlertRewritten
<1>3. CASE /\ x \in Win
           /\ Changes(a, b, x, {"opacityProp"}) /\ SameButWin(a, b, x)
           /\ Rewritten(a.win[x], b.win[x], {"opacityProp"}) /\ b.win[x].opctChange
  BY <1>2, <1>3
<1>4. CASE b = a
  BY <1>4
<1>5. CASE \E w \in Toplevels(a, x) :
             /\ Changes(a, b, w, {"opacityClient"}) /\ SameButWin(a, b, w)
             /\ Rewritten(a.win[w], b.win[w], {"opacityClient"}) /\ b.win[w].opctChange
  BY <1>2, <1>5 DEF Toplevels
<1> QED BY <1>3, <1>4, <1>5, OnOpacityIs

LEMMA AlertVia ==
  ASSUME NEW a, NEW b, NEW w \in Win, Alert(a, None), Unspoilt(a, b, w),
         b.win[w].viewable = a.win[w].viewable,
         a.win[w].viewable /\ Proper(a, w, {}) => Proper(b, w, {})
  PROVE  Alert(b, None)
<1>1. a.win[w].viewable => Proper(a, w, {})
  BY ConfigAssumption DEF Alert, Xid
<1> QED BY <1>1, UnspoiltAlert

(* A field is rewritten and what minds it decided again.                    *)
LEMMA AlertThen ==
  ASSUME NEW a \in Session, Sure(a), NEW w \in Win, Alert(a, None), NEW c, SameButWin(a, c, w),
         NEW F, Changes(a, c, w, F), Rewritten(a.win[w], c.win[w], F),
         F \cap {"leader", "client", "viewable"} = {}, NEW D, Spared(a, F, D),
         F \cap LookFields = {}, NEW b, Still(c, b),
         a.win[w].viewable /\ Proper(c, w, D) => Proper(b, w, {})
  PROVE  Alert(b, None)
<1>1. F \cap {"leader", "client"} = {} /\ "viewable" \notin F
  OBVIOUS
<1>2. Unspoilt(a, c, w)
  BY <1>1, UnspoiltRewritten
<1>3. c \in Session /\ Sure(c) /\ c.o = a.o
  BY <1>2 DEF Unspoilt
<1>4. Unspoilt(a, b, w)
  BY <1>2, <1>3, UnspoiltStill, UnspoiltTwice
<1>5. b.win[w].viewable = a.win[w].viewable
  <2>1. b.win[w].viewable = c.win[w].viewable
    BY KeptSame DEF Still, Quiet, Kept
  <2> QED BY <1>1, <2>1 DEF Rewritten, Kept
<1>6. ASSUME a.win[w].viewable, Proper(a, w, {})  PROVE Proper(b, w, {})
  <2>1. PICK N : N = {}
    OBVIOUS
  <2>2. Proper(a, w, N)
    BY <1>6, <2>1
  <2>3. Proper(a, w, D)
    BY <2>1, <2>2, ProperLess
  <2>4. Leaves(a, c, w, D, D)
    BY <1>1, <1>6, LeavesRewritten
  <2> QED BY <1>6, <2>3, <2>4 DEF Leaves
<1> QED BY <1>4, <1>5, <1>6, AlertVia

LEMMA AlertNoShadow ==
  ASSUME NEW a \in Session, Sure(a), Alert(a, None), NEW x \in Xid, NEW b, b = OnNoShadow(a, x)
  PROVE  Alert(b, None)
<1>1. CASE b = a
  BY <1>1
<1>2. CASE b # a
  <2>1. PICK c : c = UpdateNoShadow(a, x)
    OBVIOUS
  <2>2. x \in Win /\ b = Determine(c, x, {"shadow"})
    BY <1>2, <2>1, Zenon DEF OnNoShadow, FindWin
  <2>3. PICK F : F = {"noShadow"}
    OBVIOUS
  <2>4. Changes(a, c, x, F) /\ SameButWin(a, c, x) /\ Rewritten(a.win[x], c.win[x], F)
    BY <2>1, <2>2, <2>3, UpdateNoShadowIs
  <2>5. PICK D : D = {"shadow"}
    OBVIOUS
  <2>6. Spared(a, F, D)
    BY <2>3, <2>5, FactsSpared
  <2>7. F \cap {"leader", "client", "viewable"} = {} /\ F \cap LookFields = {}
    BY <2>3 DEF LookFields
  <2>8. c \in Session
    BY <2>4 DEF SameButWin
  <2>9. Still(c, b)
    BY <2>2, <2>8, DetermineStill
  <2>10. ASSUME a.win[x].viewable, Proper(c, x, D)  PROVE Proper(b, x, {})
    <3>1. c.win[x].viewable
      BY <2>3, <2>4, <2>10 DEF Rewritten, Kept
    <3>2. Sure(c)
      BY <2>4, <2>7, SureKept
    <3>3. PICK N : N = {}
      OBVIOUS
    <3>4. D \subseteq Decision \ {"focus"} /\ D \ D \subseteq N
      BY <2>5 DEF Decision
    <3>5. Proper(b, x, N)
      BY <2>2, <2>5, <2>8, <2>10, <3>1, <3>2, <3>4, DetermineProper
    <3> QED BY <3>3, <3>5
  <2> QED BY <2>2, <2>4, <2>6, <2>7, <2>9, <2>10, AlertThen
<1> QED BY <1>1, <1>2

LEMMA FactorRepairs ==
  ASSUME NEW c \in Session, Sure(c), NEW w \in Win, c.win[w].viewable, Proper(c, w, Listed(c)),
         NEW b, b = OnFactorChange(c, w)
  PROVE  Proper(b, w, {})
<1>1. PICK D : D = Listed(c)
  OBVIOUS
<1>2. PICK N : N = {}
  OBVIOUS
<1>3. Proper(c, w, D) /\ D \ Listed(c) \subseteq N
  BY <1>1
<1>4. Proper(b, w, N)
  BY <1>3, OnFactorChangeProper
<1> QED BY <1>2, <1>4

LEMMA AlertShape ==
  ASSUME NEW a \in Session, Sure(a), Alert(a, None), NEW w \in Win, NEW b, b = EvShapeNotify(a, w)
  PROVE  Alert(b, None)
<1>1. CASE ~a.win[w].viewable
  BY <1>1 DEF EvShapeNotify
<1>2. CASE a.win[w].viewable
  <2>1. PICK c : c = UpdateShape(a, w)
    OBVIOUS
  <2>2. b = OnFactorChange(c, w)
    BY <1>2, <2>1 DEF EvShapeNotify
  <2>3. PICK F : F = {"shaped"}
    OBVIOUS
  <2>4. Changes(a, c, w, F) /\ SameButWin(a, c, w) /\ Rewritten(a.win[w], c.win[w], F)
    BY <2>1, <2>3, UpdateShapeIs
  <2>5. PICK D : D = Listed(a)
    OBVIOUS
  <2>6. Spared(a, F, D)
    <3>1. ASSUME NEW l \in Decision \cup {"opacity"}, l \notin Listed(a), Followed(a, l)
          PROVE  ~Minds(a, l, "shaped")
      <4>1. a.o.lists[l] = {}
        BY <3>1, ListedIs
      <4> QED BY <3>1, <4>1 DEF Minds, Followed
    <3> QED BY <2>3, <2>5, <3>1 DEF Spared
  <2>7. F \cap {"leader", "client", "viewable"} = {} /\ F \cap LookFields = {}
    BY <2>3 DEF LookFields
  <2>8. c \in Session /\ c.o = a.o
    BY <2>4 DEF SameButWin
  <2>9. Still(c, b)
    BY <2>2, <2>8, OnFactorChangeStill
  <2>10. ASSUME Proper(c, w, D)  PROVE Proper(b, w, {})
    <3>1. c.win[w].viewable
      BY <1>2, <2>3, <2>4 DEF Rewritten, Kept
    <3>2. Sure(c)
      BY <2>4, <2>7, SureKept
    <3>3. D = Listed(c)
      BY <2>5, <2>8, SameConfig
    <3> QED BY <2>2, <2>8, <2>10, <3>1, <3>2, <3>3, FactorRepairs
  <2> QED BY <2>4, <2>6, <2>7, <2>9, <2>10, AlertThen
<1> QED BY <1>1, <1>2

(* The properties of the client.                                            *)
LEMMA AlertAll ==
  ASSUME NEW a, Alert(a, None), NEW b, \A u \in Win : b.win[u].viewable = a.win[u].viewable,
         \A u \in Win : \A D : a.win[u].viewable /\ Proper(a, u, D) => Proper(b, u, D)
  PROVE  Alert(b, None)
<1>1. PICK N : N = {}
  OBVIOUS
<1>2. \A u \in Win : a.win[u].viewable => Proper(a, u, N)
  BY <1>1, ConfigAssumption DEF Alert, Xid
<1>3. \A u \in Win : b.win[u].viewable => Proper(b, u, N)
  BY <1>2
<1> QED BY <1>1, <1>3 DEF Alert

LEMMA AlertType ==
  ASSUME NEW a \in Session, Sure(a), Alert(a, None), NEW w \in Win, a.win[w].client \in Xid,
         NEW b, b = UpdWintype(a, w)
  PROVE  Alert(b, None)
<1>1. PICK F : F = {"type"}
  OBVIOUS
<1>2. Changes(a, b, w, F) /\ "viewable" \notin F
  BY <1>1, UpdWintypeIs
<1>3. \A u \in Win : b.win[u].viewable = a.win[u].viewable
  BY <1>2, ViewableKept
<1>4. \A u \in Win : \A D : a.win[u].viewable /\ Proper(a, u, D) => Proper(b, u, D)
  BY UpdWintypeProper
<1> QED BY <1>3, <1>4, AlertAll

LEMMA AlertLeader ==
  ASSUME NEW a \in Session, Tied(a), Alert(a, None), NEW w \in Win, NEW c \in Family(w),
         a.win[w].client = c, NEW b, b = TrackedLeader(a, w)
  PROVE  Alert(b, None)
<1>1. PICK F : F = {"leader"}
  OBVIOUS
<1>2. Changes(a, b, w, F) /\ "viewable" \notin F
  BY <1>1, FamilyXid, TrackedLeaderIs
<1>3. \A u \in Win : b.win[u].viewable = a.win[u].viewable
  BY <1>2, ViewableKept
<1>4. \A u \in Win : \A D : a.win[u].viewable /\ Proper(a, u, D) => Proper(b, u, D)
  BY TrackedLeaderProper
<1> QED BY <1>3, <1>4, AlertAll

LEMMA AlertName ==
  ASSUME NEW a \in Session, Sure(a), Alert(a, None), NEW w \in Win, a.win[w].client \in Xid,
         NEW b, b = OnFactorChange(GetName(a, w), w)
  PROVE  Alert(b, None)
<1>1. PICK c : c = GetName(a, w)
  OBVIOUS
<1>2. PICK F : F = {"name"}
  OBVIOUS
<1>3. Changes(a, c, w, F) /\ SameButWin(a, c, w)
  BY <1>1, <1>2, GetNameIs
<1>4. c \in Session /\ c.o = a.o /\ \A u \in Win : c.win[u].viewable = a.win[u].viewable
  BY <1>2, <1>3, ViewableKept
<1>5. Sure(c)
  BY <1>2, <1>3, SureKept
<1>6. Unspoilt(a, c, w)
  BY <1>3, <1>5, UnspoiltOthers
<1>7. Still(c, b)
  BY <1>1, <1>4, OnFactorChangeStill
<1>8. Unspoilt(a, b, w)
  BY <1>5, <1>6, <1>7, UnspoiltStill, UnspoiltTwice
<1>9. b.win[w].viewable = a.win[w].viewable
  BY <1>4, <1>7, KeptSame DEF Still, Quiet, Kept
<1>10. ASSUME a.win[w].viewable, Proper(a, w, {})  PROVE Proper(b, w, {})
  <2>1. PICK N : N = {}
    OBVIOUS
  <2>2. Proper(a, w, N)
    BY <1>10, <2>1
  <2>3. PICK E : E = Listed(a)
    OBVIOUS
  <2>4. Proper(c, w, E)
    BY <1>1, <1>10, <2>1, <2>2, <2>3, GetNameProper
  <2>5. E = Listed(c)
    BY <1>4, <2>3, SameConfig
  <2> QED BY <1>1, <1>4, <1>5, <1>10, <2>4, <2>5, FactorRepairs
<1> QED BY <1>8, <1>9, <1>10, AlertVia

LEMMA AlertClientProperty ==
  ASSUME NEW a \in Session, Tied(a), Alert(a, None), NEW w \in Win, a.win[w].client \in Family(w),
         NEW atom \in {"type", "name", "transient", "leader"},
         NEW b, b = OnClientProperty(a, w, atom)
  PROVE  Alert(b, None)
<1>1. a.win[w].client \in Xid /\ Sure(a)
  BY FamilyXid, TiedSure
<1>2. CASE b = a
  BY <1>2
<1>3. CASE b # a
  <2>1. CASE atom = "type"
    BY <1>1, <2>1, AlertType DEF OnClientProperty
  <2>2. CASE atom = "name"
    <3>1. b = OnFactorChange(GetName(a, w), w)
      BY <1>3, <2>2 DEF OnClientProperty
    <3> QED BY <1>1, <3>1, AlertName
  <2>3. CASE atom \in {"transient", "leader"}
    <3>1. b = UpdateLeader(a, w) /\ atom \in a.o.detect
      BY <1>3, <2>3 DEF OnClientProperty
    <3>2. b = TrackedLeader(a, w)
      BY <3>1 DEF TrackedLeader, TrackLeader
    <3>3. PICK c \in Family(w) : a.win[w].client = c
      OBVIOUS
    <3> QED BY <3>2, <3>3, AlertLeader
  <2> QED BY <2>1, <2>2, <2>3
<1> QED BY <1>2, <1>3

(* A client with a late WM_STATE is adopted, where groups do not count.     *)
LEMMA LateSure ==
  ASSUME NEW st, ~EarlyClients(st), NEW b, b.o = st.o
  PROVE  Sure(b) /\ ~Rooted(b)
<1>1. ~Rooted(b)
  BY SameConfig DEF Rooted
<1> QED BY <1>1 DEF Sure

LEMMA AlertAdopt ==
  ASSUME NEW st \in Session, ~EarlyClients(st), Framed(st), Alert(st, None),
         NEW w \in Win, NEW x \in Family(w), st.win[w].client \in {None, w},
         NEW b, b = Adopt(st, w, x)
  PROVE  Alert(b, None)
<1>1. PICK a : /\ b = MarkClient(a, w, x) /\ SameButWin(st, a, w)
               /\ Rewritten(st.win[w], a.win[w], {"wmwin", "client"})
               /\ \A y \in Xid : y # w => a.mask[y] = st.mask[y]
               /\ st.mask[w] /\ st.win[w].viewable => a.mask[w]
  BY AdoptIs
<1>2. x \in Xid /\ a \in Session /\ a.o = st.o
  BY <1>1, FamilyXid DEF SameButWin
<1>3. a.win[w].viewable = st.win[w].viewable
  BY <1>1 DEF Rewritten, Kept
<1>4. Sure(st)
  BY LateSure
<1>5. CASE ~st.win[w].viewable
  <2>1. b = ClientSet(a, w, x)
    BY <1>1, <1>3, <1>5, Zenon DEF MarkClient, ClientSet
  <2>2. SameButWin(a, b, w) /\ Rewritten(a.win[w], b.win[w], {"client"})
    BY <1>2, <2>1, ClientSetIs
  <2>3. b.o = st.o /\ SameButWin(st, b, w) /\ b.win[w].viewable = a.win[w].viewable
    BY <1>1, <1>2, <2>2, SameButWinTwice DEF SameButWin, Rewritten, Kept
  <2>4. Unspoilt(st, b, w)
    BY <1>4, <2>3, LateSure, UnspoiltOthers
  <2> QED BY <1>3, <1>5, <2>3, <2>4, UnspoiltAlert
<1>6. CASE st.win[w].viewable
  <2>1. PICK m : m = Marked(a, w, x)
    OBVIOUS
  <2>2. b = MarkRead(m, w)
    <3>1. b = MarkClient(a, w, x) /\ a.win[w].viewable
      BY <1>1, <1>3, <1>6
    <3>2. MarkClient(a, w, x) = MarkRead(Marked(a, w, x), w)
      BY <3>1, MarkReadIs
    <3> QED BY <2>1, <3>1, <3>2
  <2>3. Marking(st, m, w, x)
    BY <1>1, <1>2, <2>1, MarkedMarks
  <2>4. PICK F : F = {"wmwin", "client"}
    OBVIOUS
  <2>5. SameButWin(st, m, w) /\ m.win[w].client = x /\ Rewritten(st.win[w], m.win[w], F)
    BY <2>3, <2>4 DEF Marking
  <2>6. m \in Session /\ m.o = st.o /\ m.win[w].viewable
    BY <1>6, <2>4, <2>5 DEF SameButWin, Rewritten, Kept
  <2>7. Sure(m) /\ ~Rooted(m)
    BY <2>6, LateSure
  <2>8. Framed(m)
    BY <2>5 DEF Framed, SameButWin
  <2>9. Tied(m)
    BY <2>7, <2>8 DEF Tied
  <2>10. PICK D : D = {"focus"}
    OBVIOUS
  <2>11. PICK N : N = {}
    OBVIOUS
  <2>12. Proper(m, w, D)
    <3>1. Spared(st, F, D) /\ F \cap LookFields = {} /\ "viewable" \notin F
      BY <2>4, <2>10 DEF Spared, Minds, LookFields
    <3>2. Proper(st, w, N)
      BY <1>6, <2>11, ConfigAssumption DEF Alert, Xid
    <3>3. Proper(st, w, D)
      BY <2>11, <3>2, ProperLess
    <3> QED BY <1>4, <1>6, <2>5, <2>7, <3>1, <3>3, RewrittenProper
  <2>13. Leaves(m, b, w, D, N)
    <3>1. D \ Focuswise(m) \subseteq N
      BY <2>10 DEF Focuswise
    <3> QED BY <2>2, <2>5, <2>6, <2>9, <3>1, LeavesMarkRead
  <2>14. Proper(b, w, {})
    BY <2>11, <2>12, <2>13 DEF Leaves
  <2>15. Unspoilt(st, m, w)
    BY <1>4, <2>5, <2>7, UnspoiltOthers
  <2>16. Unspoilt(st, b, w)
    BY <2>13, <2>15, LeavesUnspoilt, UnspoiltTwice
  <2> QED BY <2>14, <2>16, UnspoiltAlert
<1> QED BY <1>5, <1>6

LEMMA AlertState ==
  ASSUME NEW st \in Session, ~EarlyClients(st), Framed(st), Alert(st, None),
         NEW x \in Kid, NEW b, b = OnState(st, x)
  PROVE  Alert(b, None)
<1>1. PICK w \in Win : w = Parent[x]
  BY WinDataAssumption
<1>2. x \in Family(w) /\ x \in Xid
  BY <1>1 DEF Family, Xid
<1>3. CASE Toplevels(st, x) # {}
  BY <1>3, Zenon DEF OnState
<1>4. CASE Toplevels(st, x) = {}
  <2>1. PICK a : a = Select(st, x, "unknown")
    OBVIOUS
  <2>2. SameButMask(st, a)
    BY <1>2, <2>1, SelectIs DEF SameButMask
  <2>3. a \in Session /\ a.o = st.o /\ a.win = st.win
    BY <2>2 DEF SameButMask
  <2>4. Unspoilt(st, a, None)
    BY <2>2, LateSure, UnspoiltMask
  <2>5. Alert(a, None)
    BY <2>4, UnspoiltAlert
  <2>6. b = IF st.win[w].client \in {None, w} /\ st.srv[x].state THEN Adopt(a, w, x) ELSE a
    BY <1>1, <1>4, <2>1, Zenon DEF OnState
  <2>7. ~EarlyClients(a) /\ Framed(a)
    BY <2>3 DEF EarlyClients, Framed
  <2> QED BY <1>2, <2>3, <2>5, <2>6, <2>7, AlertAdopt
<1> QED BY <1>3, <1>4

(* Any event.                                                               *)
LEMMA AlertProperty ==
  ASSUME NEW a \in Session, Tied(a), NEW x \in Xid, NEW atom \in Property \ {"state"},
         NEW e, e = Of(atom, x), Wary(a, e), NEW b, b = EvPropertyNotify(a, x, atom)
  PROVE  Alert(b, None)
<1>1. Sure(a) /\ Framed(a)
  BY TiedSure DEF Tied
<1>2. CASE atom = "other"
  BY <1>1, <1>2, AlertTracked DEF EvPropertyNotify
<1>3. CASE atom # "other"
  <2>1. Alert(a, None)
    BY <1>3, WaryAlert DEF Of
  <2>2. CASE atom = "opacity"
    BY <1>1, <2>1, <2>2, AlertOpacity DEF EvPropertyNotify
  <2>3. CASE atom = "noShadow"
    BY <1>1, <2>1, <2>3, AlertNoShadow DEF EvPropertyNotify
  <2>4. CASE atom \notin {"state", "opacity", "noShadow", "other"}
    <3>1. PICK top : top = Toplevels(a, x)
      OBVIOUS
    <3>2. b = IF top = {} THEN a ELSE OnClientProperty(a, CHOOSE w \in top : TRUE, atom)
      BY <2>4, <3>1 DEF EvPropertyNotify
    <3>3. CASE top = {}
      BY <2>1, <3>2, <3>3
    <3>4. CASE top # {}
      <4>1. PICK w \in top : w = CHOOSE v \in top : TRUE
        BY <3>4
      <4>2. w \in Win
        BY <3>1, <4>1 DEF Toplevels
      <4>3. a.win[w].client = x /\ x \in Family(w)
        BY <1>1, <3>1, <4>1, <4>2, ToplevelsOne
      <4>4. b = OnClientProperty(a, w, atom)
        BY <3>2, <3>4, <4>1
      <4>5. CASE atom = "shaped"
        <5>1. b = a
          <6>1. a.o.detect \subseteq {"transient", "leader"}
            BY DEF Session, Config
          <6> QED BY <4>4, <4>5, <6>1 DEF OnClientProperty
        <5> QED BY <2>1, <5>1
      <4>6. CASE atom # "shaped"
        <5>1. atom \in {"type", "name", "transient", "leader"}
          BY <2>4, <4>6 DEF Property
        <5> QED BY <2>1, <4>2, <4>3, <4>4, <5>1, AlertClientProperty
      <4> QED BY <4>5, <4>6
    <3> QED BY <3>3, <3>4
  <2> QED BY <1>3, <2>2, <2>3, <2>4
<1> QED BY <1>2, <1>3

LEMMA AlertHandle ==
  ASSUME NEW a \in Session, Tied(a), Mapped(a), NEW e \in Event, Wary(a, e),
         e.atom = "state" => ~EarlyClients(a), NEW b, b = Handle(a, e)
  PROVE  Alert(b, None)
<1>1. /\ e = Of(e.atom, e.x) /\ e.x \in Xid /\ e.atom \in Property \cup {"map", "unmap", "focus"}
      /\ e.atom \in {"map", "unmap", "focus", "shaped", "noShadow"} => e.x \in Win
      /\ e.atom = "state" => e.x \in Kid
  BY DEF Event, Of
<1>2. Sure(a) /\ Framed(a)
  BY TiedSure DEF Tied
<1>3. e.atom # "other" => Alert(a, None)
  BY WaryAlert
<1>4. CASE e.atom = "map"
  BY <1>3, <1>4 DEF Handle
<1>5. CASE e.atom = "unmap"
  <2>1. b = UnmapWin(a, e.x) /\ e.x \in Win
    BY <1>1, <1>5 DEF Handle
  <2>2. CASE ~a.win[e.x].viewable
    <3>1. b = a
      BY <2>1, <2>2, Zenon DEF UnmapWin
    <3> QED BY <1>3, <1>5, <3>1
  <2>3. CASE a.win[e.x].viewable
    BY <1>2, <1>3, <1>5, <2>1, <2>3, AlertUnmapWin
  <2> QED BY <2>2, <2>3
<1>6. CASE e.atom = "focus"
  <2>1. b = RecheckFocus(a)
    BY <1>6 DEF Handle
  <2>2. Changes(a, b, None, {})
    BY <2>1, RecheckFocusQuiet DEF Quiet
  <2>3. \A u \in Win : b.win[u].viewable = a.win[u].viewable
    BY <2>2, ViewableKept
  <2>4. \A u \in Win : \A D : a.win[u].viewable /\ Proper(a, u, D) => Proper(b, u, D)
    BY <1>2, <2>1, RecheckFocusProper
  <2> QED BY <1>3, <1>6, <2>3, <2>4, AlertAll
<1>7. CASE e.atom = "shaped"
  <2>1. b = EvShapeNotify(a, e.x) /\ e.x \in Win
    BY <1>1, <1>7 DEF Handle
  <2> QED BY <1>2, <1>3, <1>7, <2>1, AlertShape
<1>8. CASE e.atom \notin {"map", "unmap", "focus", "shaped"}
  <2>1. b = EvPropertyNotify(a, e.x, e.atom) /\ e.atom \in Property
    BY <1>1, <1>8 DEF Handle
  <2>2. CASE e.atom = "state"
    <3>1. b = OnState(a, e.x) /\ e.x \in Kid
      BY <1>1, <2>1, <2>2 DEF EvPropertyNotify
    <3> QED BY <1>2, <1>3, <2>2, <3>1, AlertState
  <2>3. CASE e.atom # "state"
    BY <1>1, <2>1, <2>3, AlertProperty
  <2> QED BY <2>2, <2>3
<1> QED BY <1>4, <1>5, <1>6, <1>7, <1>8

(* What no list is about keeps the value a new window has.                  *)
LEMMA IdleChanges ==
  ASSUME NEW a, NEW b, NEW w, NEW F, Changes(a, b, w, F), "force" \notin F, Idles(a)
  PROVE  Idles(b)
BY DEF Changes, StaysIdle, Idles

LEMMA IdleWindows ==
  ASSUME NEW a, NEW b, b.o = a.o, b.win = a.win, Idles(a)
  PROVE  Idles(b)
BY DEF Idles

LEMMA IdleRewritten ==
  ASSUME NEW a, NEW b, NEW w, SameButWin(a, b, w), NEW F, Rewritten(a.win[w], b.win[w], F),
         "force" \notin F, Idles(a)
  PROVE  Idles(b)
<1>1. b.o = a.o
  BY DEF SameButWin
<1>2. ASSUME NEW u \in Win  PROVE Idle(a.o, b.win[u])
  <2>1. Idle(a.o, a.win[u])
    BY DEF Idles
  <2>2. CASE u # w
    BY <2>1, <2>2 DEF SameButWin
  <2>3. CASE u = w
    <3>1. /\ b.win[u].dec = a.win[u].dec /\ b.win[u].last = a.win[u].last
          /\ b.win[u].opacitySet = a.win[u].opacitySet /\ b.win[u].force = a.win[u].force
      BY <2>3 DEF Rewritten, Kept
    <3> QED BY <2>1, <3>1, IdleSame
  <2> QED BY <2>2, <2>3
<1> QED BY <1>1, <1>2 DEF Idles

LEMMA IdleMarking ==
  ASSUME NEW a, NEW m, NEW w, NEW c, Marking(a, m, w, c), Idles(a)
  PROVE  Idles(m)
<1>1. PICK F : F = {"wmwin", "client"}
  OBVIOUS
<1>2. SameButWin(a, m, w) /\ Rewritten(a.win[w], m.win[w], F) /\ "force" \notin F
  BY <1>1 DEF Marking
<1> QED BY <1>2, IdleRewritten

LEMMA IdleUnmapWin ==
  ASSUME NEW a \in Session, Idles(a), NEW w \in Win, NEW b, b = UnmapWin(a, w)
  PROVE  Idles(b)
<1>1. CASE ~a.win[w].viewable
  BY <1>1, Zenon DEF UnmapWin
<1>2. CASE a.win[w].viewable
  <2>1. PICK d : b = EvStop(d, w) /\ Unmapped(a, d, w)
    BY <1>2, UnmapWinIs
  <2>2. PICK F : F = UnmapFields
    OBVIOUS
  <2>3. Changes(a, d, w, F) /\ "force" \notin F /\ d \in Session
    BY <2>1, <2>2 DEF Unmapped, UnmapFields, Changes
  <2>4. Idles(d)
    BY <2>3, IdleChanges
  <2>5. b.win = d.win /\ b.o = d.o
    BY <2>1, <2>3, EvStopIs DEF SameButMask
  <2> QED BY <2>4, <2>5, IdleWindows
<1> QED BY <1>1, <1>2

LEMMA IdleState ==
  ASSUME NEW a \in Session, Idles(a), NEW x \in Kid, NEW b, b = OnState(a, x)
  PROVE  Idles(b)
<1>1. PICK w \in Win : w = Parent[x]
  BY WinDataAssumption
<1>2. CASE Toplevels(a, x) # {}
  BY <1>1, <1>2, OnStateIs
<1>3. CASE Toplevels(a, x) = {}
  <2>1. PICK t : SameButMask(a, t) /\ (b = t \/ Adopted(t, b, w, x))
    BY <1>1, <1>3, OnStateIs
  <2>2. Idles(t)
    BY <2>1, IdleWindows DEF SameButMask
  <2>3. ASSUME Adopted(t, b, w, x)  PROVE Idles(b)
    <3>1. PICK F : F = {"type", "leader", "name"}
      OBVIOUS
    <3>2. PICK m : Marking(t, m, w, x) /\ (Changes(m, b, w, F) \/ b = m)
      BY <2>3, <3>1 DEF Adopted
    <3>3. Idles(m)
      BY <2>2, <3>2, IdleMarking
    <3>4. "force" \notin F
      BY <3>1
    <3> QED BY <3>2, <3>3, <3>4, IdleChanges
  <2> QED BY <2>1, <2>2, <2>3
<1> QED BY <1>2, <1>3

LEMMA IdleHandle ==
  ASSUME NEW a \in Session, Framed(a), Idles(a), NEW e \in Event, NEW b, b = Handle(a, e)
  PROVE  Idles(b)
<1>1. CASE e.atom \notin {"unmap", "state"}
  <2>1. EventRead(a, b, e)
    BY <1>1, HandleRead
  <2>2. PICK w, F : Changes(a, b, w, F) /\ F \cap {"viewable", "client", "callback", "force"} = {}
    BY <2>1 DEF EventRead
  <2> QED BY <2>2, IdleChanges
<1>2. CASE e.atom = "unmap"
  <2>1. PICK w \in Win : w = e.x
    BY <1>2 DEF Event
  <2>2. b = UnmapWin(a, w)
    BY <1>2, <2>1 DEF Handle
  <2> QED BY <2>2, IdleUnmapWin
<1>3. CASE e.atom = "state"
  <2>1. PICK x \in Kid : x = e.x
    BY <1>3 DEF Event
  <2>2. b = OnState(a, x)
    BY <1>3, <2>1 DEF Handle, EvPropertyNotify
  <2> QED BY <2>2, IdleState
<1> QED BY <1>1, <1>2, <1>3

LEMMA IdleMapRead ==
  ASSUME NEW a, NEW w \in Win, Fit(a, w), Idles(a), NEW b, b = MapRead(a, w)
  PROVE  Idles(b)
<1>1. a \in Session /\ a.win[w].viewable /\ a.win[w].client \in Family(w) \cup {None}
  BY ConfigAssumption DEF Fit, Framed, Xid
<1>2. PICK F : F = ReadFields
  OBVIOUS
<1>3. PICK t, c : MapTarget(a, w, t, c) /\ Changes(Marked(t, w, c), b, w, F)
  BY <1>1, <1>2, MapReadAll
<1>4. PICK k : k = Marked(t, w, c)
  OBVIOUS
<1>5. Marking(a, k, w, c)
  BY <1>1, <1>3, <1>4, MapTargetMarks
<1>6. Idles(k)
  BY <1>5, IdleMarking
<1>7. "force" \notin F
  BY <1>2 DEF ReadFields
<1> QED BY <1>3, <1>4, <1>6, <1>7, IdleChanges

(* Only a window whose inversion is never forced is promised to keep it.    *)
LEMMA IdleForce ==
  ASSUME NEW a \in Session, Idles(a), NEW w \in Win, NEW d \in Forced, d \in a.o.offered,
         NEW value \in Switch, NEW b, b = SetForce(a, w, d, value)
  PROVE  Idles(b)
<1>1. PICK c : c = WithForce(a, w, d, value)
  OBVIOUS
<1>2. /\ SameButWin(a, c, w) /\ Rewritten(a.win[w], c.win[w], {"force"})
      /\ \A g \in Forced : g # d => c.win[w].force[g] = a.win[w].force[g]
  BY <1>1, WithForceIs
<1>3. c \in Session /\ c.o = a.o
  BY <1>2 DEF SameButWin
<1>4. Idles(c)
  <2>1. ASSUME NEW u \in Win  PROVE Idle(a.o, c.win[u])
    <3>1. Idle(a.o, a.win[u])
      BY DEF Idles
    <3>2. CASE u # w
      BY <1>2, <3>1, <3>2 DEF SameButWin
    <3>3. CASE u = w
      <4>1. /\ c.win[u].dec = a.win[u].dec /\ c.win[u].last = a.win[u].last
            /\ c.win[u].opacitySet = a.win[u].opacitySet
        BY <1>2, <3>3 DEF Rewritten
      <4>2. "invert" \notin a.o.offered => c.win[u].force["invert"] = a.win[u].force["invert"]
        BY <1>2, <3>3 DEF Forced
      <4> QED BY <3>1, <4>1, <4>2 DEF Idle
    <3> QED BY <3>2, <3>3
  <2> QED BY <1>3, <2>1 DEF Idles
<1>5. b = IF d = "focus" THEN UpdateFocused(c, w) ELSE Determine(c, w, {d})
  BY <1>1, Zenon DEF SetForce, WithForce
<1>6. Still(c, b)
  <2>1. CASE d = "focus"
    BY <1>3, <1>5, <2>1, UpdateFocusedStill
  <2>2. CASE d # "focus"
    BY <1>3, <1>5, <2>2, DetermineStill
  <2> QED BY <2>1, <2>2
<1>7. PICK N : N = {}
  OBVIOUS
<1>8. Changes(c, b, None, N) /\ "force" \notin N
  BY <1>6, <1>7 DEF Still, Quiet
<1> QED BY <1>4, <1>8, IdleChanges

LEMMA IdleOpenclose ==
  ASSUME NEW a \in Session, Idles(a), NEW b, b = SetOpenclose(a)
  PROVE  Idles(b)
<1>1. PICK c : c = Reopened(a) /\ Still(c, b)
  BY SetOpencloseIs
<1>2. c.o = a.o /\ c.win = a.win
  BY <1>1, ReopenedIs
<1>3. Idles(c)
  BY <1>2, IdleWindows
<1>4. PICK N : N = {}
  OBVIOUS
<1>5. Changes(c, b, None, N) /\ "force" \notin N
  BY <1>1, <1>4 DEF Still, Quiet
<1> QED BY <1>3, <1>5, IdleChanges

(* What the clients, the user and the server do.                            *)
LEMMA AlertOutside ==
  ASSUME NEW a \in Session, Sure(a), NEW b, Outside(a, b),
         \A x \in Xid : b.srv[x].other = a.srv[x].other, NEW m, Alert(a, m)
  PROVE  Alert(b, m)
<1>1. Sure(b)
  BY SameConfig DEF Outside, Sure
<1>2. PICK N : N = {}
  OBVIOUS
<1>3. ASSUME NEW u \in Win, b.win[u].viewable, u # m  PROVE Proper(b, u, N)
  <2>1. a.win[u].viewable /\ Proper(a, u, N)
    BY <1>2, <1>3 DEF Outside, Alert
  <2>2. /\ b \in Session /\ b.win[u] = a.win[u] /\ b.o = a.o /\ b.openclose = a.openclose
        /\ b.srv[u].other = a.srv[u].other /\ Pending(a) \subseteq Pending(b)
        /\ b.activeWin = a.activeWin /\ b.activeLeader = a.activeLeader
    BY DEF Outside, Xid
  <2>3. Alike(a, b, u, N)
    BY <1>1, <2>1, <2>2, WindowAlike
  <2> QED BY <2>1, <2>3, AlikeProper
<1> QED BY <1>2, <1>3 DEF Alert

(* A condition on a property of the frame is matched when the event for it  *)
(* comes, which waits since the window is listened to.                      *)
LEMMA OtherWritten ==
  ASSUME NEW a \in Session, Sure(a), NEW u \in Win, a.win[u].viewable, Proper(a, u, {}),
         NEW b, Outside(a, b), Of("other", u) \in Pending(b)
  PROVE  Proper(b, u, {})
<1>1. /\ b \in Session /\ b.o = a.o /\ b.win = a.win /\ b.activeWin = a.activeWin
      /\ b.activeLeader = a.activeLeader /\ b.openclose = a.openclose
      /\ Pending(a) \subseteq Pending(b)
  BY DEF Outside
<1>2. PICK E : E = {l \in Decision \cup {"opacity"} : "other" \in a.o.lists[l]}
  OBVIOUS
<1>3. ASSUME NEW l \in (Decision \cup {"opacity"}) \ E
      PROVE  \A f \in a.o.lists[l] : Has(a, u, f) <=> Has(b, u, f)
  <2>1. a.o.lists[l] \subseteq Fact /\ "other" \notin a.o.lists[l]
    BY <1>2, <1>3, ListFacts
  <2> QED BY <1>1, <2>1, HasSame
<1>4. LeadsFocus(a, u) <=> LeadsFocus(b, u)
  BY <1>1, SameConfig DEF LeadsFocus, Leader
<1>5. Plain(a, a.win[u].type) <=> Plain(b, b.win[u].type)
  BY <1>1 DEF Plain
<1>6. ASSUME NEW d \in Decision \ E  PROVE SameCauses(a, b, u, d)
  <2>1. \A f \in a.o.lists[d] : Has(a, u, f) <=> Has(b, u, f)
    BY <1>3, <1>6
  <2> QED BY <1>1, <1>4, <1>5, <2>1, Zenon DEF SameCauses
<1>7. LookRight(b, u)
  <2>1. LookRight(a, u)
    BY DEF Proper
  <2> QED BY <1>1, <2>1, LookKept
<1>8. "opacity" \notin E => \A f \in a.o.lists["opacity"] : Has(a, u, f) <=> Has(b, u, f)
  BY <1>3
<1>9. Alike(a, b, u, E)
  BY <1>1, <1>6, <1>7, <1>8, CausesAlike
<1>10. Proper(a, u, E)
  BY ProperLess
<1>11. Proper(b, u, E)
  BY <1>9, <1>10, AlikeProper
<1>12. \A l \in E : Later(b, u, l)
  BY <1>1, <1>2 DEF Later
<1> QED BY <1>7, <1>11, <1>12 DEF Proper

LEMMA AlertWritten ==
  ASSUME NEW a, NEW m, Ready(a, m), NEW x \in Xid, NEW atom \in Property, NEW v, NEW b,
         Written(a, b, x, atom, v)
  PROVE  Alert(b, m)
<1>1. a \in Session /\ Sure(a) /\ Alert(a, m) /\ Outside(a, b)
  BY ReadyTied DEF Ready, Written
<1>2. \A y \in Xid : y # x => b.srv[y] = a.srv[y]
  BY DEF Written
<1>3. CASE atom # "other"
  <2>1. b.srv[x].other = a.srv[x].other
    <3>1. a.srv[x] \in Props /\ b.srv[x] = [a.srv[x] EXCEPT ![atom] = v]
      BY <1>1, PropsType DEF Written
    <3> QED BY <1>3, <3>1 DEF Props
  <2> QED BY <1>1, <1>2, <2>1, AlertOutside
<1>4. CASE atom = "other"
  <2>1. Sure(b)
    BY <1>1, SameConfig DEF Outside, Sure
  <2>2. PICK N : N = {}
    OBVIOUS
  <2>3. ASSUME NEW u \in Win, b.win[u].viewable, u # m  PROVE Proper(b, u, N)
    <3>1. a.win[u].viewable /\ Proper(a, u, N)
      BY <1>1, <2>2, <2>3 DEF Outside, Alert
    <3>2. CASE u = x
      <4>1. a.mask[u]
        BY <2>3, <3>1 DEF Ready, Settles, Listening
      <4>2. Of("other", u) \in Pending(b)
        BY <1>4, <3>2, <4>1 DEF Written
      <4> QED BY <1>1, <2>2, <3>1, <4>2, OtherWritten
    <3>3. CASE u # x
      <4>1. /\ b \in Session /\ b.win[u] = a.win[u] /\ b.o = a.o /\ b.openclose = a.openclose
            /\ b.srv[u].other = a.srv[u].other /\ Pending(a) \subseteq Pending(b)
            /\ b.activeWin = a.activeWin /\ b.activeLeader = a.activeLeader
        BY <1>1, <1>2, <3>3 DEF Outside, Xid
      <4>2. Alike(a, b, u, N)
        BY <1>1, <2>1, <3>1, <4>1, WindowAlike
      <4> QED BY <3>1, <4>2, AlikeProper
    <3> QED BY <3>2, <3>3
  <2> QED BY <2>2, <2>3 DEF Alert
<1> QED BY <1>3, <1>4

(* An event taken from the queue.                                           *)
LEMMA EventReady ==
  ASSUME NEW st, Ready(st, None), st.queue # <<>>, NEW e, e = Head(st.queue), NEW a, a = Rest(st)
  PROVE  /\ a \in Session /\ Tied(a) /\ Mapped(a) /\ e \in Event /\ Wary(a, e) /\ Idles(a)
         /\ e.atom = "state" => ~EarlyClients(a)
<1>1. st \in Session /\ Tied(st) /\ Mapped(st) /\ Alert(st, None) /\ Idles(st) /\ Offered(st)
  BY ReadyTied DEF Ready, Settles
<1>2. /\ SameBut(st, a) /\ a.srv = st.srv /\ e \in Event /\ e \in Pending(st)
      /\ Pending(st) \subseteq Pending(a) \cup {e}
  BY <1>1, RestIs
<1>3. a \in Session /\ a.o = st.o /\ a.win = st.win /\ a.activeWin = st.activeWin
  BY <1>2 DEF SameBut
<1>4. Lead(st) => Lead(a)
  BY <1>1, <1>2, LeadSame DEF SameBut
<1>5. Tied(a)
  BY <1>1, <1>3, <1>4, SameConfig DEF Tied, Framed
<1>6. Mapped(a) /\ Idles(a)
  BY <1>1, <1>3 DEF Mapped, Idles
<1>7. ASSUME NEW u \in Win, a.win[u].viewable  PROVE Proper(a, u, Missed(a, e, u))
  <2>1. st.win[u].viewable /\ Proper(st, u, {})
    BY <1>1, <1>3, <1>7, ConfigAssumption DEF Alert, Xid
  <2> QED BY <1>1, <1>2, <2>1, RestProper
<1>8. e.atom = "state" => ~EarlyClients(a)
  BY <1>1, <1>2, <1>3 DEF Offered, EarlyClients
<1> QED BY <1>2, <1>3, <1>5, <1>6, <1>7, <1>8 DEF Wary

LEMMA ReadyEvent ==
  ASSUME Ready(s, mapping), HandleEvent
  PROVE  Alert(s', mapping') /\ Idles(s')
<1>1. PICK e : e = Head(s.queue)
  OBVIOUS
<1>2. PICK a : a = Rest(s)
  OBVIOUS
<1>3. mapping = None /\ s.queue # <<>>
  BY DEF HandleEvent
<1>4. /\ a \in Session /\ Tied(a) /\ Mapped(a) /\ e \in Event /\ Wary(a, e) /\ Idles(a)
      /\ e.atom = "state" => ~EarlyClients(a)
  BY <1>1, <1>2, <1>3, EventReady
<1>5. \/ e.atom = "map" /\ s' = MapSelect(a, e.x) /\ mapping' = e.x
      \/ s' = Handle(a, e) /\ mapping' = None
  BY <1>1, <1>2, Zenon DEF HandleEvent, Received, Rest
<1>6. CASE e.atom = "map" /\ s' = MapSelect(a, e.x) /\ mapping' = e.x
  <2>1. PICK w \in Win : w = e.x
    BY <1>4, <1>6 DEF Event
  <2>2. PICK b : b = MapSelect(a, w)
    OBVIOUS
  <2>3. Sure(a) /\ Alert(a, None)
    BY <1>4, <1>6, TiedSure, WaryAlert
  <2>4. Alert(b, w)
    BY <1>4, <2>2, <2>3, AlertMapSelect
  <2>5. PICK F : F = {"viewable"}
    OBVIOUS
  <2>6. SameButWin(a, b, w) /\ Rewritten(a.win[w], b.win[w], F) /\ "force" \notin F
    BY <1>4, <2>2, <2>5, MapSelectIs
  <2>7. Idles(b)
    BY <1>4, <2>6, IdleRewritten
  <2> QED BY <1>6, <2>1, <2>2, <2>4, <2>7
<1>7. CASE s' = Handle(a, e) /\ mapping' = None
  <2>1. PICK b : b = Handle(a, e)
    OBVIOUS
  <2>2. Alert(b, None)
    BY <1>4, <2>1, AlertHandle
  <2>3. Framed(a)
    BY <1>4 DEF Tied
  <2>4. Idles(b)
    BY <1>4, <2>1, <2>3, IdleHandle
  <2> QED BY <1>7, <2>1, <2>2, <2>4
<1> QED BY <1>5, <1>6, <1>7

LEMMA ReadyMapWin ==
  ASSUME Ready(s, mapping), FinishMapWin
  PROVE  Alert(s', mapping') /\ Idles(s')
<1>1. PICK w \in Win : w = mapping
  BY DEF FinishMapWin, Ready, Settles, Fit
<1>2. PICK a : a = s
  OBVIOUS
<1>3. PICK b : b = MapRead(a, w)
  OBVIOUS
<1>4. s' = b /\ mapping' = None /\ Ready(a, w)
  BY <1>1, <1>2, <1>3 DEF FinishMapWin
<1>5. Alert(b, None)
  BY <1>3, <1>4, AlertMapRead
<1>6. Idles(b)
  BY <1>3, <1>4, IdleMapRead DEF Ready, Settles
<1> QED BY <1>4, <1>5, <1>6

LEMMA ReadyPaint ==
  ASSUME Ready(s, mapping), Paint
  PROVE  Alert(s', mapping') /\ Idles(s')
<1>1. PICK a : a = s
  OBVIOUS
<1>2. PICK shown : s' = Painted(a, shown)
  BY <1>1 DEF Paint
<1>3. PICK b : b = Painted(a, shown)
  OBVIOUS
<1>4. mapping = None /\ mapping' = None
  BY DEF Paint
<1>5. Sure(a) /\ a \in Session /\ Alert(a, None) /\ Idles(a)
  BY <1>1, <1>4, ReadyTied DEF Ready
<1>6. Alert(b, None)
  BY <1>3, <1>5, AlertPainted
<1>7. StaysIdle(a, b) /\ b.o = a.o
  BY <1>3, <1>5, IdlePainted, PaintedIs
<1>8. Idles(b)
  BY <1>5, <1>7 DEF Idles, StaysIdle
<1> QED BY <1>2, <1>3, <1>4, <1>6, <1>8

LEMMA ReadyDBus ==
  ASSUME Ready(s, mapping), DBus
  PROVE  Alert(s', mapping') /\ Idles(s')
<1>1. PICK a : a = s
  OBVIOUS
<1>2. PICK b : b = s'
  OBVIOUS
<1>3. mapping = None /\ mapping' = None
  BY DEF DBus
<1>4. Sure(a) /\ a \in Session /\ Alert(a, None) /\ Idles(a)
  BY <1>1, <1>3, ReadyTied DEF Ready
<1>5. ASSUME NEW w \in Win, NEW d \in Forced, d \in a.o.offered, NEW value \in Switch,
             b = SetForce(a, w, d, value)
      PROVE  Alert(b, None) /\ Idles(b)
  BY <1>4, <1>5, AlertForce, IdleForce
<1>6. ASSUME b = SetOpenclose(a)
      PROVE  Alert(b, None) /\ Idles(b)
  BY <1>4, <1>6, AlertOpenclose, IdleOpenclose
<1>7. s.o.shown \subseteq Win
  BY <1>1, <1>4 DEF Session, Config
<1>8. \/ \E w \in Win, d \in Forced, value \in Switch :
           d \in a.o.offered /\ b = SetForce(a, w, d, value)
      \/ b = SetOpenclose(a)
  BY <1>1, <1>2, <1>7 DEF DBus
<1> QED BY <1>2, <1>3, <1>5, <1>6, <1>8

LEMMA ReadyFade ==
  ASSUME Ready(s, mapping), NEW w \in Win, FadeDone(w)
  PROVE  Alert(s', mapping') /\ Idles(s')
<1>1. PICK a : a = s
  OBVIOUS
<1>2. PICK b : b = RunCallback(a, w)
  OBVIOUS
<1>3. s' = b /\ mapping = None /\ mapping' = None
  BY <1>1, <1>2 DEF FadeDone
<1>4. Sure(a) /\ a \in Session /\ Alert(a, None) /\ Idles(a)
  BY <1>1, <1>3, ReadyTied DEF Ready
<1>5. FitWin(a.win[w])
  BY <1>1, <1>3, ConfigAssumption DEF Ready, Settles, Fit, Xid
<1>6. Alert(b, None)
  BY <1>2, <1>4, <1>5, AlertCallback
<1>7. PICK F : F = {"inOpenclose", "callback"}
  OBVIOUS
<1>8. Changes(a, b, w, F) /\ "force" \notin F
  BY <1>2, <1>4, <1>7, RunCallbackIs
<1> QED BY <1>3, <1>4, <1>6, <1>8, IdleChanges

LEMMA ReadyNext ==
  ASSUME Ready(s, mapping), [Next]_vars
  PROVE  Ready(s', mapping')
<1>1. /\ s \in Session /\ Sure(s) /\ Settles(s, mapping) /\ Alert(s, mapping) /\ Idles(s)
      /\ TrackLeader(s) /\ Rooted(s) => Lead(s)
  BY ReadyTied DEF Ready
<1>2. Alert(s', mapping') /\ Idles(s')
  <2>1. ASSUME NEW w \in Win, SetMapped(w) \/ SetFocus(w)
        PROVE  Alert(s', mapping') /\ Idles(s')
    <3>1. Outside(s, s') /\ s'.srv = s.srv /\ mapping' = mapping
      BY <1>1, <2>1, SetMappedIs, SetFocusIs
    <3>2. PICK b : b = s'
      OBVIOUS
    <3>3. Alert(b, mapping)
      BY <1>1, <3>1, <3>2, AlertOutside
    <3>4. Idles(b)
      BY <1>1, <3>1, <3>2, IdleWindows DEF Outside
    <3> QED BY <3>1, <3>2, <3>3, <3>4
  <2>2. ASSUME NEW x \in Xid, NEW atom \in Property, SetProperty(x, atom)
        PROVE  Alert(s', mapping') /\ Idles(s')
    <3>1. PICK v \in Values(x, atom) : Written(s, s', x, atom, v)
      BY <1>1, <2>2, SetPropertyIs
    <3>2. mapping' = mapping
      BY <2>2 DEF SetProperty
    <3>3. PICK b : b = s'
      OBVIOUS
    <3>4. Written(s, b, x, atom, v)
      BY <3>1, <3>3
    <3>5. Alert(b, mapping)
      BY <3>4, AlertWritten
    <3>6. Idles(b)
      BY <1>1, <3>4, IdleWindows DEF Outside, Written
    <3> QED BY <3>2, <3>3, <3>5, <3>6
  <2>3. CASE UNCHANGED vars
    BY <1>1, <2>3 DEF vars
  <2> QED BY <2>1, <2>2, <2>3, ReadyEvent, ReadyMapWin, ReadyPaint, ReadyDBus, ReadyFade DEF Next
<1>3. Settles(s', mapping') /\ Leading(s, s')
  BY <1>1, SettlesNext, LeadNext
<1>4. PICK b : b = s'
  OBVIOUS
<1>5. b.o = s.o
  BY <1>3, <1>4 DEF Leading
<1>6. TrackLeader(b) /\ Rooted(b) => TrackLeader(s) /\ Rooted(s)
  BY <1>5, SameConfig
<1>7. TrackLeader(b) /\ Rooted(b) => Lead(b)
  BY <1>1, <1>3, <1>4, <1>6 DEF Leading
<1> QED BY <1>2, <1>3, <1>4, <1>7 DEF Ready

LEMMA ReadyInit ==
  ASSUME Init
  PROVE  Ready(s, mapping)
<1>1. PICK o \in Configs, late \in SUBSET Kid :
        s = [o |-> o, win |-> [w \in Win |-> NewWin], activeWin |-> None, activeLeader |-> None,
             srv |-> [x \in Xid |-> NewProps(x, x \in Kid \ late)],
             mask |-> [x \in Xid |-> x \in late], mapped |-> [w \in Win |-> FALSE],
             focus |-> None, queue |-> <<>>, openclose |-> o.openclose]
  BY DEF Init
<1>2. \A u \in Win : s.win[u] = NewWin
  BY <1>1
<1>3. Alert(s, mapping)
  <2>1. ~NewWin.viewable
    BY DEF NewWin
  <2> QED BY <1>2, <2>1 DEF Alert
<1>4. Idles(s)
  <2>1. Idle(s.o, NewWin)
    BY DEF Idle, NewWin, Decision, Looks, Forced, Opaque
  <2> QED BY <1>2, <2>1 DEF Idles
<1> QED BY <1>3, <1>4, SettlesInit, LeadInit DEF Ready

LEMMA ReadyFresh ==
  ASSUME Ready(s, mapping)
  PROVE  DecisionsFresh
<1>1. SUFFICES ASSUME NEW w \in Win, Settled(w)
      PROVE  /\ \A d \in Decision : Followed(s, d) => s.win[w].dec[d] = Decided(s, w, d)
             /\ Followed(s, "opacity") => UpdateOpacityRule(s, w) = s
             /\ \/ s.win[w].opctChange
                \/ /\ s.win[w].opacityTgt = CalcOpacity(s, w)
                   /\ s.win[w].dimmed = CalcDim(s, w)
  BY DEF DecisionsFresh
<1>2. Proper(s, w, {})
  BY <1>1 DEF Ready, Alert, Settled
<1>3. \A l : ~Later(s, w, l)
  <2>1. Of("other", w) \notin Pending(s)
    <3>1. Of("other", w).x = w
      BY DEF Of
    <3> QED BY <1>1, <3>1 DEF Settled, Pending
  <2> QED BY <2>1 DEF Later
<1>4. \A d \in Decision : Followed(s, d) => s.win[w].dec[d] = Decided(s, w, d)
  BY <1>2, <1>3 DEF Proper, Fresh
<1>5. Followed(s, "opacity") => UpdateOpacityRule(s, w) = s
  <2>1. Followed(s, "opacity") => s.win[w].opacitySet = Rule(s, w)
    BY <1>2, <1>3 DEF Proper, RuleFresh
  <2> QED BY <2>1, Zenon DEF UpdateOpacityRule, Rule
<1>6. LookRight(s, w)
  BY <1>2 DEF Proper
<1> QED BY <1>4, <1>5, <1>6 DEF LookRight

(* Whatever the order of events, of D-Bus calls and of paint cycles, once   *)
(* no event of a viewable window waits, each decision about it is the one   *)
(* its determine function would take now, and its target opacity and its    *)
(* dimming are right or flagged to be calculated: no handler that touches a *)
(* cause of a decision (win_on_factor_change, win_on_wtype_change, map_win, *)
(* win_set_focused, win_set_*_force) forgets to take it again.              *)
THEOREM DecisionsAreFresh == Spec => []DecisionsFresh
<1> DEFINE Inv == Ready(s, mapping)
<1>1. Init => Inv
  BY ReadyInit
<1>2. Inv /\ [Next]_vars => Inv'
  BY ReadyNext
<1>3. Inv => DecisionsFresh
  BY ReadyFresh
<1> QED
  BY <1>1, <1>2, <1>3, PTL DEF Spec

==============================================================================
