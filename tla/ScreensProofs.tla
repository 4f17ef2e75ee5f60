---------------------------- MODULE ScreensProofs ----------------------------
(***************************************************************************)
(* The screens of the greeter, for any screens, sizes and bound: the login *)
(* window is on a screen unless one was ignored, and after every change of *)
(* screens if the primary one has room; it fits its screen, stays there and*)
(* is never deleted with a background. What TLC checks of it is inductive  *)
(* as it stands, and StaysPut needs that the window's background is live.  *)
(***************************************************************************)
EXTENDS Screens, FiniteSetTheorems, WellFoundedInduction, TLAPS

ScreensInv == /\ TypeOK /\ OnLiveBackground
              /\ ShownUnlessIgnored /\ WindowFits

-----------------------------------------------------------------------------
(* Lemmas about the operators *)

\* A set of numbers that is not empty has a least one.
LEMMA LeastOf ==
  ASSUME NEW S \in SUBSET Nat, S # {}
  PROVE  LET b == CHOOSE u \in S : \A v \in S : u <= v
         IN  b \in S
<1>1. PICK x \in S : \A y \in S : ~(<<y, x>> \in OpToRel(<, Nat))
  BY NatLessThanWellFounded, WFMin
<1>2. ASSUME NEW y \in S PROVE x <= y
  <2>1. x \in Nat /\ y \in Nat
    OBVIOUS
  <2>2. ~(y < x)
    BY <1>1, <2>1 DEF OpToRel
  <2> QED BY <2>1, <2>2
<1> QED BY <1>2

\* A numbering of the screens gives each of them a background of its own.
LEMMA NumberingEffect ==
  ASSUME ScreensAssumption, NEW plugged \in SUBSET Screen, NEW f \in Numbering(plugged),
         Cardinality(plugged) <= MaxBackgrounds
  PROVE  /\ \A s \in plugged : f[s] \in Bg /\ f[s] # NoBg
         /\ \A s, t \in plugged : f[s] = f[t] => s = t
<1>1. IsFiniteSet(plugged)
  <2>1. IsFiniteSet(Screen)
    BY DEF ScreensAssumption
  <2> QED BY <2>1, FS_Subset
<1>2. Cardinality(plugged) \in Nat
  BY <1>1, FS_CardinalityType
<1>3. 1..Cardinality(plugged) \subseteq Bg
  BY <1>2 DEF Bg, ScreensAssumption
<1>4. f \in [plugged -> 1..Cardinality(plugged)] /\ \A s, t \in plugged : f[s] = f[t] => s = t
  BY DEF Numbering
<1> QED BY <1>3, <1>4 DEF Bg, NoBg

LEMMA ScreensStart == ASSUME ScreensAssumption, Init PROVE ScreensInv
<1>0. PICK plugged \in SUBSET Screen : \E valid \in SUBSET plugged :
        Cardinality(valid) <= MaxBackgrounds /\ InitWith(plugged, valid)
  BY DEF Init
<1>1. PICK valid \in SUBSET plugged :
        Cardinality(valid) <= MaxBackgrounds /\ InitWith(plugged, valid)
  BY <1>0
<1>2. PICK f \in Numbering(valid) :
        background = [s \in Screen |-> IF s \in valid THEN f[s] ELSE NoBg]
  BY <1>1 DEF InitWith
<1>3. /\ \A s \in valid : f[s] \in Bg /\ f[s] # NoBg
      /\ \A s, t \in valid : f[s] = f[t] => s = t
  BY <1>1, NumberingEffect
<1>4. /\ background \in [Screen -> Bg \cup {NoBg}]
      /\ \A s, t \in Screen : background[s] = background[t] => s = t \/ background[s] = NoBg
      /\ \A s \in Screen \ plugged : background[s] = NoBg
  BY <1>1, <1>2, <1>3
<1>5. PICK z \in Size :
        /\ bgSize = [b \in Bg |->
                       IF b \in Live
                       THEN size[CHOOSE s \in Screen : background[s] = b] ELSE z]
        /\ windowSize = IF BackgroundOf(primary) = NoBg THEN z
                        ELSE bgSize[BackgroundOf(primary)]
  BY <1>1 DEF InitWith
<1>6. /\ screens = plugged /\ size \in [Screen -> Size] /\ dying = {}
      /\ primary \in (IF plugged = {} THEN {NoScreen} ELSE plugged)
      /\ parent = BackgroundOf(primary) /\ mouse = NoBg
  BY <1>1 DEF InitWith
<1>7. ASSUME NEW s \in Screen, background[s] # NoBg
      PROVE  background[s] \in Bg /\ bgSize[background[s]] = size[s]
  <2>1. background[s] \in Live /\ background[s] \in Bg
    BY <1>4, <1>7 DEF Live
  <2>2. (CHOOSE u \in Screen : background[u] = background[s]) = s
    BY <1>4, <1>7
  <2> QED BY <1>5, <2>1, <2>2
<1>8. primary \in plugged \/ (plugged = {} /\ primary = NoScreen)
  BY <1>6
<1>9. NoScreen \notin Screen
  BY DEF ScreensAssumption
<1>10. /\ parent \in Bg \cup {NoBg}
       /\ parent # NoBg => primary \in Screen /\ parent = background[primary]
  BY <1>1, <1>4, <1>6, <1>8 DEF BackgroundOf
<1>11. bgSize \in [Bg -> Size]
  <2>1. ASSUME NEW b \in Bg PROVE bgSize[b] \in Size
    <3>1. CASE b \in Live
      <4>1. PICK s \in Screen : background[s] = b /\ b # NoBg
        BY <3>1 DEF Live
      <4> QED BY <4>1, <1>6, <1>7
    <3>2. CASE b \notin Live
      BY <1>5, <3>2
    <3> QED BY <3>1, <3>2
  <2> QED BY <1>5, <2>1
<1>12. windowSize \in Size
  BY <1>5, <1>6, <1>10, <1>11
<1>13. TypeOK
  BY <1>1, <1>4, <1>6, <1>8, <1>9, <1>10, <1>11, <1>12 DEF TypeOK
<1>14. OnLiveBackground
  BY <1>10 DEF OnLiveBackground, Live
<1>15. ShownUnlessIgnored
  BY <1>1, <1>6, <1>8, <1>9 DEF ShownUnlessIgnored, BackgroundOf
<1>16. WindowFits
  BY <1>1, <1>4, <1>5, <1>6, <1>7, <1>10 DEF WindowFits
<1> QED BY <1>13, <1>14, <1>15, <1>16 DEF ScreensInv

-----------------------------------------------------------------------------
(* The steps *)

\* What of TypeOK is about the map of backgrounds alone.
MapTyped == /\ background \in [Screen -> Bg \cup {NoBg}]
            /\ \A s, t \in Screen :
                 background[s] = background[t] => s = t \/ background[s] = NoBg
            /\ \A s \in Screen \ screens : background[s] = NoBg

\* Both slots end by looking for a place on the primary screen.
LEMMA ToPrimaryEffect ==
  ASSUME NEW nowhere \in BOOLEAN, ToPrimary(nowhere), MapTyped',
         bgSize' \in [Bg -> Size], windowSize \in Size,
         NoScreen \notin Screen, primary' \in Screen \cup {NoScreen}
  PROVE  /\ nowhere => \/ /\ primary' \in Screen /\ background'[primary'] # NoBg
                          /\ parent' = background'[primary']
                          /\ windowSize' = bgSize'[parent']
                       \/ /\ primary' = NoScreen \/ background'[primary'] = NoBg
                          /\ parent' = NoBg /\ windowSize' = windowSize
         /\ ~nowhere => parent' = parent /\ windowSize' = windowSize
         /\ windowSize' \in Size
<1> DEFINE b == IF primary' = NoScreen THEN NoBg ELSE background'[primary']
<1>1. IF nowhere /\ b # NoBg THEN parent' = b /\ windowSize' = bgSize'[b]
      ELSE parent' = (IF nowhere THEN NoBg ELSE parent) /\ windowSize' = windowSize
  BY DEF ToPrimary, SetOnBackground
<1>2. b # NoBg => b \in Bg /\ primary' \in Screen
  BY DEF MapTyped
<1> QED BY <1>1, <1>2

\* A new background is one that is in use nowhere.
LEMMA NewBackgroundEffect ==
  ASSUME NEW s \in Screen, TypeOK, NewBackground(s), size'[s] \in Size
  PROVE  \E b \in Bg \ (Live \cup dying) :
           /\ background' = [background EXCEPT ![s] = b]
           /\ bgSize' = [bgSize EXCEPT ![b] = size'[s]]
<1> DEFINE unused == Bg \ (Live \cup dying)
           b == CHOOSE u \in unused : \A v \in unused : u <= v
<1>1. /\ unused # {} /\ background' = [background EXCEPT ![s] = b]
      /\ bgSize' = [bgSize EXCEPT ![b] = size'[s]]
  BY DEF NewBackground
<1>2. unused \in SUBSET Nat
  BY DEF Bg
<1>3. b \in unused
  BY <1>1, <1>2, LeastOf
<1> QED BY <1>1, <1>3

\* The steps of ShownAfterChange and of StaysPut.
ShownStep == screens' # screens /\ BackgroundOf(primary)' # NoBg => parent' # NoBg

StaysPutStep == parent # NoBg /\ parent' # parent
                  => parent \in dying' \/ mouse' # mouse

LEMMA ScreensAdds ==
  ASSUME ScreensAssumption, ScreensInv, NEW s \in Screen, ScreenAdded(s)
  PROVE  /\ ScreensInv' /\ (parent # NoBg => parent' = parent)
         /\ ShownStep
<1>1. /\ s \notin screens /\ screens' = screens \cup {s} /\ dying' = dying /\ mouse' = mouse
      /\ primary' \in (IF primary = NoScreen THEN {s} ELSE {primary, s})
      /\ NewBackground(s) /\ ToPrimary(parent = NoBg)
  BY DEF ScreenAdded, NowhereAfterAdd
<1>2. PICK z \in Size : size' = [size EXCEPT ![s] = z]
  BY DEF ScreenAdded
<1>3. TypeOK /\ NoScreen \notin Screen
  BY DEF ScreensInv, ScreensAssumption
<1>4. size' \in [Screen -> Size] /\ size'[s] = z /\ \A t \in Screen \ {s} : size'[t] = size[t]
  BY <1>2, <1>3 DEF TypeOK
<1>5. PICK b \in Bg \ (Live \cup dying) :
        /\ background' = [background EXCEPT ![s] = b]
        /\ bgSize' = [bgSize EXCEPT ![b] = size'[s]]
  BY <1>1, <1>3, <1>4, NewBackgroundEffect
<1>6. b # NoBg
  BY DEF Bg, NoBg
<1>7. /\ background \in [Screen -> Bg \cup {NoBg}]
      /\ background[s] = NoBg
      /\ background'[s] = b /\ \A t \in Screen \ {s} : background'[t] = background[t]
      /\ background' \in [Screen -> Bg \cup {NoBg}]
      /\ \A t \in Screen : background[t] # b
  BY <1>1, <1>3, <1>5, <1>6 DEF TypeOK, Live
<1>8. MapTyped'
  BY <1>1, <1>3, <1>7 DEF TypeOK, MapTyped
<1>9. /\ bgSize' \in [Bg -> Size] /\ bgSize'[b] = z
      /\ \A a \in Bg \ {b} : bgSize'[a] = bgSize[a]
  BY <1>3, <1>4, <1>5 DEF TypeOK
<1>10. primary' \in screens' /\ primary' \in Screen
  BY <1>1, <1>3 DEF TypeOK
<1>11. /\ parent = NoBg =>
            \/ /\ background'[primary'] # NoBg /\ parent' = background'[primary']
               /\ windowSize' = bgSize'[parent']
            \/ background'[primary'] = NoBg /\ parent' = NoBg
       /\ parent # NoBg => parent' = parent /\ windowSize' = windowSize
       /\ windowSize' \in Size
  <2>1. windowSize \in Size
    BY <1>3 DEF TypeOK
  <2> QED BY <1>1, <1>3, <1>8, <1>9, <1>10, <2>1, ToPrimaryEffect
<1>12. Live' = Live \cup {b}
  BY <1>6, <1>7 DEF Live
<1>13. parent' # NoBg => parent' \in Live'
  BY <1>7, <1>10, <1>11, <1>12 DEF ScreensInv, OnLiveBackground, Live
<1>14. parent # NoBg => parent # b
  BY <1>5 DEF ScreensInv, OnLiveBackground
<1>15. TypeOK'
  <2>1. parent' \in Bg \cup {NoBg}
    BY <1>3, <1>8, <1>10, <1>11 DEF MapTyped, TypeOK
  <2>2. dying' \subseteq Bg \ Live'
    BY <1>1, <1>3, <1>5, <1>12 DEF TypeOK
  <2>3. screens' \subseteq Screen /\ (primary' = NoScreen) = (screens' = {})
    BY <1>1, <1>3, <1>10 DEF TypeOK
  <2> QED BY <1>1, <1>3, <1>4, <1>8, <1>9, <1>10, <1>11, <2>1, <2>2, <2>3
          DEF TypeOK, MapTyped
<1>16. OnLiveBackground'
  BY <1>13 DEF OnLiveBackground
<1>17. ShownUnlessIgnored'
  BY <1>10, <1>11 DEF ShownUnlessIgnored
<1>18. ASSUME NEW t \in screens', background'[t] # NoBg
       PROVE  /\ bgSize'[background'[t]] = size'[t]
              /\ parent' = background'[t] => windowSize' = size'[t]
  <2>1. t \in Screen
    BY <1>1, <1>3 DEF TypeOK
  <2>2. bgSize'[background'[t]] = size'[t]
    <3>1. CASE t = s
      BY <1>4, <1>7, <1>9, <3>1
    <3>2. CASE t # s
      <4>1. t \in screens /\ background'[t] = background[t] /\ background[t] \in Bg \ {b}
        BY <1>1, <1>7, <1>18, <2>1, <3>2
      <4>2. bgSize[background[t]] = size[t]
        BY <1>18, <4>1 DEF ScreensInv, WindowFits
      <4> QED BY <1>4, <1>9, <2>1, <3>2, <4>1, <4>2
    <3> QED BY <3>1, <3>2
  <2>3. ASSUME parent' = background'[t] PROVE windowSize' = size'[t]
    <3>1. CASE parent = NoBg
      BY <1>11, <1>18, <2>2, <2>3, <3>1
    <3>2. CASE parent # NoBg
      <4>1. parent' = parent /\ windowSize' = windowSize /\ t # s
        BY <1>7, <1>11, <1>14, <2>3, <3>2
      <4>2. t \in screens /\ background[t] = parent
        BY <1>1, <1>7, <2>1, <2>3, <4>1
      <4> QED BY <1>4, <2>1, <3>2, <4>1, <4>2 DEF ScreensInv, WindowFits
    <3> QED BY <3>1, <3>2
  <2> QED BY <2>2, <2>3
<1>19. WindowFits'
  BY <1>18 DEF WindowFits
<1>20. ShownStep
  BY <1>10, <1>11 DEF ShownStep, BackgroundOf
<1> QED BY <1>11, <1>15, <1>16, <1>17, <1>19, <1>20 DEF ScreensInv

LEMMA ScreensRemoves ==
  ASSUME ScreensAssumption, ScreensInv, NEW s \in Screen, ScreenRemoved(s)
  PROVE  /\ ScreensInv'
         /\ parent # NoBg /\ parent' # parent => parent \in dying'
         /\ ShownStep
<1> DEFINE b == background[s]
<1>1. /\ s \in screens /\ screens' = screens \ {s}
      /\ primary' \in (IF screens' = {} THEN {NoScreen}
                       ELSE IF primary = s THEN screens' ELSE {primary})
      /\ background' = [background EXCEPT ![s] = NoBg]
      /\ dying' = dying \cup ({b} \ {NoBg})
      /\ mouse' = (IF mouse = b THEN NoBg ELSE mouse)
      /\ size' = size /\ bgSize' = bgSize
      /\ ToPrimary(parent \in {NoBg, b})
  BY DEF ScreenRemoved, Erase, NowhereAfterRemoval
<1>2. TypeOK /\ NoScreen \notin Screen
  BY DEF ScreensInv, ScreensAssumption
<1>3. b \in Bg \cup {NoBg}
  BY <1>2 DEF TypeOK
<1>4. /\ background' \in [Screen -> Bg \cup {NoBg}]
      /\ background'[s] = NoBg
      /\ \A t \in Screen \ {s} : background'[t] = background[t]
  BY <1>1, <1>2 DEF TypeOK
<1>5. \A t \in Screen \ {s} : background[t] = b => b = NoBg
  BY <1>2 DEF TypeOK
<1> HIDE DEF b
<1>6. MapTyped'
  BY <1>1, <1>2, <1>4 DEF TypeOK, MapTyped
<1>7. Live' = Live \ {b}
  <2>1. ASSUME NEW a \in Live' PROVE a \in Live \ {b}
    <3>1. PICK t \in Screen : background'[t] = a /\ a # NoBg
      BY DEF Live
    <3>2. t # s /\ background[t] = a
      BY <1>4, <3>1
    <3> QED BY <1>5, <3>1, <3>2 DEF Live
  <2>2. ASSUME NEW a \in Live \ {b} PROVE a \in Live'
    <3>1. PICK t \in Screen : background[t] = a /\ a # NoBg
      BY DEF Live
    <3>2. t # s
      BY <3>1 DEF b
    <3> QED BY <1>4, <3>1, <3>2 DEF Live
  <2> QED BY <2>1, <2>2
<1>8. /\ primary' \in screens' \cup {NoScreen}
      /\ (primary' = NoScreen) = (screens' = {})
      /\ screens' \subseteq Screen
  BY <1>1, <1>2 DEF TypeOK
<1>9. /\ windowSize' \in Size
      /\ parent \in {NoBg, b} =>
           \/ /\ primary' \in Screen /\ background'[primary'] # NoBg
              /\ parent' = background'[primary'] /\ windowSize' = bgSize'[parent']
           \/ /\ primary' = NoScreen \/ background'[primary'] = NoBg
              /\ parent' = NoBg /\ windowSize' = windowSize
      /\ parent \notin {NoBg, b} => parent' = parent /\ windowSize' = windowSize
  <2>1. windowSize \in Size /\ bgSize' \in [Bg -> Size]
    BY <1>1, <1>2 DEF TypeOK
  <2>2. primary' \in Screen \cup {NoScreen}
    BY <1>8
  <2> DEFINE nowhere == parent \in {NoBg, b}
  <2>3. nowhere \in BOOLEAN /\ ToPrimary(nowhere)
    BY <1>1
  <2> HIDE DEF nowhere
  <2>4. /\ windowSize' \in Size
        /\ nowhere =>
             \/ /\ primary' \in Screen /\ background'[primary'] # NoBg
                /\ parent' = background'[primary'] /\ windowSize' = bgSize'[parent']
             \/ /\ primary' = NoScreen \/ background'[primary'] = NoBg
                /\ parent' = NoBg /\ windowSize' = windowSize
        /\ ~nowhere => parent' = parent /\ windowSize' = windowSize
    BY <1>2, <1>6, <2>1, <2>2, <2>3, ToPrimaryEffect
  <2> QED BY <2>4 DEF nowhere
<1>10. parent # NoBg => parent \in Live
  BY DEF ScreensInv, OnLiveBackground
<1>11. parent' # NoBg => parent' \in Live'
  <2>1. CASE parent \in {NoBg, b}
    BY <1>9, <2>1 DEF Live
  <2>2. CASE parent \notin {NoBg, b}
    BY <1>7, <1>9, <1>10, <2>2
  <2> QED BY <2>1, <2>2
<1>12. TypeOK'
  <2>1. parent' \in Bg \cup {NoBg} /\ mouse' \in Bg \cup {NoBg}
    <3>1. Live' \subseteq Bg
      BY <1>6 DEF MapTyped, Live
    <3>2. mouse \in Bg \cup {NoBg}
      BY <1>2 DEF TypeOK
    <3> QED BY <1>1, <1>11, <3>1, <3>2
  <2>2. dying' \subseteq Bg \ Live'
    <3>1. dying \subseteq Bg \ Live
      BY <1>2 DEF TypeOK
    <3> QED BY <1>1, <1>3, <1>7, <3>1
  <2>3. size' \in [Screen -> Size] /\ bgSize' \in [Bg -> Size]
    BY <1>1, <1>2 DEF TypeOK
  <2> QED BY <1>6, <1>8, <1>9, <2>1, <2>2, <2>3 DEF TypeOK, MapTyped
<1>13. OnLiveBackground'
  BY <1>11 DEF OnLiveBackground
<1>14. ShownUnlessIgnored'
  BY <1>8, <1>9 DEF ShownUnlessIgnored
<1>15. ASSUME NEW t \in screens', background'[t] # NoBg
       PROVE  /\ bgSize'[background'[t]] = size'[t]
              /\ parent' = background'[t] => windowSize' = size'[t]
  <2>1. t \in screens /\ t \in Screen \ {s} /\ background'[t] = background[t]
    BY <1>1, <1>4, <1>8
  <2>2. bgSize'[background'[t]] = size'[t]
    BY <1>1, <1>15, <2>1 DEF ScreensInv, WindowFits
  <2>3. ASSUME parent' = background'[t] PROVE windowSize' = size'[t]
    <3>1. CASE parent \in {NoBg, b}
      BY <1>9, <1>15, <2>2, <2>3, <3>1
    <3>2. CASE parent \notin {NoBg, b}
      BY <1>1, <1>9, <1>15, <2>1, <2>3, <3>2 DEF ScreensInv, WindowFits
    <3> QED BY <3>1, <3>2
  <2> QED BY <2>2, <2>3
<1>16. WindowFits'
  BY <1>15 DEF WindowFits
<1>17. parent # NoBg /\ parent' # parent => parent \in dying'
  BY <1>1, <1>9
<1>18. ShownStep
  BY <1>9 DEF ShownStep, BackgroundOf
<1> QED BY <1>12, <1>13, <1>14, <1>16, <1>17, <1>18 DEF ScreensInv

LEMMA ScreensResizes ==
  ASSUME ScreensAssumption, ScreensInv, NEW s \in Screen, GeometryChanged(s)
  PROVE  ScreensInv' /\ parent' = parent
<1>1. PICK z \in Size :
        /\ s \in screens /\ size' = [size EXCEPT ![s] = z]
        /\ background[s] = NoBg => bgSize' = bgSize /\ windowSize' = windowSize
        /\ background[s] # NoBg =>
             /\ bgSize' = [bgSize EXCEPT ![background[s]] = z]
             /\ windowSize' = IF parent = background[s] THEN z ELSE windowSize
        /\ UNCHANGED <<screens, primary, background, dying, parent, mouse>>
  BY DEF GeometryChanged, ResizeEvent
<1>2. TypeOK
  BY DEF ScreensInv
<1>3. size' \in [Screen -> Size] /\ bgSize' \in [Bg -> Size] /\ windowSize' \in Size
  BY <1>1, <1>2 DEF TypeOK
<1>4. TypeOK'
  BY <1>1, <1>2, <1>3 DEF TypeOK, Live
<1>5. OnLiveBackground' /\ ShownUnlessIgnored'
  BY <1>1 DEF ScreensInv, OnLiveBackground, ShownUnlessIgnored, Live
<1>6. ASSUME NEW t \in screens, background[t] # NoBg
      PROVE  /\ bgSize'[background[t]] = size'[t]
             /\ parent = background[t] => windowSize' = size'[t]
  <2>1. /\ bgSize[background[t]] = size[t] /\ (parent = background[t] => windowSize = size[t])
        /\ t \in Screen /\ background[t] \in Bg
    BY <1>2, <1>6 DEF ScreensInv, WindowFits, TypeOK
  <2>2. CASE t = s
    BY <1>1, <1>2, <1>6, <2>1, <2>2 DEF TypeOK
  <2>3. CASE t # s
    <3>1. background[t] # background[s]
      BY <1>2, <1>6, <2>1, <2>3 DEF TypeOK
    <3> QED BY <1>1, <1>2, <2>1, <2>3, <3>1 DEF TypeOK
  <2> QED BY <2>2, <2>3
<1>7. WindowFits'
  BY <1>1, <1>6 DEF WindowFits
<1> QED BY <1>1, <1>4, <1>5, <1>7 DEF ScreensInv

LEMMA ScreensEntered ==
  ASSUME ScreensAssumption, ScreensInv, MouseEnter
  PROVE  ScreensInv' /\ mouse' # mouse
<1>1. PICK b \in Live :
        /\ mouse # b /\ mouse' = b /\ bgSize' = bgSize
        /\ parent # b => parent' = b /\ windowSize' = bgSize'[b]
        /\ parent = b => parent' = parent /\ windowSize' = windowSize
        /\ UNCHANGED <<screens, primary, size, background, dying>>
  BY DEF MouseEnter, SetOnBackground, screenVars
<1>2. TypeOK
  BY DEF ScreensInv
<1>3. PICK s \in Screen : background[s] = b /\ b # NoBg
  BY DEF Live
<1>4. b \in Bg
  BY <1>2, <1>3 DEF TypeOK
<1>5. parent' = b /\ windowSize' \in Size
  BY <1>1, <1>2, <1>4 DEF TypeOK
<1>6. TypeOK'
  BY <1>1, <1>2, <1>4, <1>5 DEF TypeOK, Live
<1>7. OnLiveBackground' /\ ShownUnlessIgnored'
  BY <1>1, <1>3, <1>5 DEF OnLiveBackground, ShownUnlessIgnored, Live
<1>8. WindowFits'
  BY <1>1, <1>5 DEF ScreensInv, WindowFits
<1> QED BY <1>1, <1>6, <1>7, <1>8 DEF ScreensInv

LEMMA ScreensOthers ==
  ASSUME ScreensAssumption, ScreensInv,
         PrimaryChanged \/ Deleted \/ UNCHANGED vars
  PROVE  ScreensInv' /\ parent' = parent
<1>1. /\ screens' = screens /\ size' = size /\ background' = background
      /\ bgSize' = bgSize /\ parent' = parent /\ windowSize' = windowSize /\ mouse' = mouse
      /\ dying' \subseteq dying
      /\ primary' = primary \/ primary' \in screens
  BY DEF PrimaryChanged, Deleted, vars, screenVars,
     bgVars, windowVars
<1>2. TypeOK /\ NoScreen \notin Screen
  BY DEF ScreensInv, ScreensAssumption
<1>3. TypeOK'
  <2>1. primary' \in screens \cup {NoScreen} /\ (primary' = NoScreen) = (screens = {})
    BY <1>1, <1>2 DEF TypeOK
  <2> QED BY <1>1, <1>2, <2>1 DEF TypeOK, Live
<1> QED BY <1>1, <1>3 DEF ScreensInv, OnLiveBackground, ShownUnlessIgnored,
           WindowFits, Live

-----------------------------------------------------------------------------
(* The theorem *)

LEMMA ScreensKeeps ==
  ASSUME ScreensAssumption, ScreensInv, [Next]_vars
  PROVE  ScreensInv' /\ StaysPutStep /\ ShownStep
<1>1. CASE \E s \in Screen : ScreenAdded(s) \/ ScreenRemoved(s)
  BY <1>1, ScreensAdds, ScreensRemoves DEF StaysPutStep
<1>2. CASE \E s \in Screen : GeometryChanged(s)
  <2>1. screens' = screens
    BY <1>2 DEF GeometryChanged
  <2> QED BY <1>2, <2>1, ScreensResizes DEF StaysPutStep, ShownStep
<1>3. CASE OtherNext \/ UNCHANGED vars
  <2>1. screens' = screens
    BY <1>3 DEF OtherNext, PrimaryChanged, MouseEnter, Deleted, vars, screenVars
  <2> QED BY <1>3, <2>1, ScreensEntered, ScreensOthers DEF OtherNext, StaysPutStep, ShownStep
<1> QED BY <1>1, <1>2, <1>3 DEF Next

=============================================================================
