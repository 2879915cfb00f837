--------------------------- MODULE DarkModeProofs ---------------------------
(***************************************************************************)
(* Proofs about DarkMode, for any number of pages.                         *)
(*                                                                         *)
(* A page is in one of three states - at rest, growing dark, shrinking to  *)
(* light - and the disabled button sees to it that only one timer is set.  *)
(* What is stored is what the user last chose.                             *)
(***************************************************************************)
EXTENDS DarkMode, TLAPS

AtRest(p) ==
  /\ p \notin disabled
  /\ timers[p] = {}
  /\ IF p \in activated THEN layer[p] = LayerClasses /\ p \in white
                        ELSE layer[p] = {} /\ p \notin white

GrowsDark(p) ==
  /\ p \in disabled /\ p \in activated /\ p \in white
  /\ timers[p] = {"settle"}
  /\ layer[p] = {"expanded"}

ShrinksToLight(p) ==
  /\ p \in disabled /\ p \notin activated /\ p \notin white
  /\ timers[p] = {"shrink"}
  /\ layer[p] = {"expanded", "no-transition"}

(* The states of a page, and what the store knows of the choice.           *)
PagesFit == \A p \in Pages : AtRest(p) \/ GrowsDark(p) \/ ShrinksToLight(p)

StoredIsChoice ==
  /\ stored = "null" <=> choice = "none"
  /\ stored = "true" <=> choice = "dark"

DarkInv == TypeOK /\ PagesFit /\ StoredIsChoice

(* A page's state depends on its own part of the variables only.           *)
LEMMA OtherPageKept ==
  ASSUME NEW q \in Pages,
         AtRest(q) \/ GrowsDark(q) \/ ShrinksToLight(q),
         q \in activated' <=> q \in activated,
         q \in white' <=> q \in white,
         q \in disabled' <=> q \in disabled,
         layer'[q] = layer[q], timers'[q] = timers[q]
  PROVE  (AtRest(q) \/ GrowsDark(q) \/ ShrinksToLight(q))'
  BY DEF AtRest, GrowsDark, ShrinksToLight

LEMMA InitDark == Init => DarkInv
  BY DEF Init, DarkInv, TypeOK, PagesFit, StoredIsChoice, AtRest, LayerClasses, Stored

LEMMA LoadKeeps ==
  ASSUME DarkInv, NEW p \in Pages, Load(p)
  PROVE  DarkInv'
<1>1. TypeOK'
  BY DEF DarkInv, TypeOK, Load, With, LayerClasses
<1>2. ASSUME NEW q \in Pages
      PROVE  (AtRest(q) \/ GrowsDark(q) \/ ShrinksToLight(q))'
  <2>1. CASE q = p
    BY <2>1 DEF DarkInv, TypeOK, Load, With, AtRest
  <2>2. CASE q # p
    BY <2>2, OtherPageKept DEF DarkInv, TypeOK, PagesFit, Load, With
  <2>3. QED BY <2>1, <2>2
<1>3. StoredIsChoice'
  BY DEF DarkInv, StoredIsChoice, Load
<1>4. QED BY <1>1, <1>2, <1>3 DEF DarkInv, PagesFit

LEMMA ClickDarkKeeps ==
  ASSUME DarkInv, NEW p \in Pages, ClickDark(p)
  PROVE  DarkInv'
<1>1. TypeOK'
  BY DEF DarkInv, TypeOK, ClickDark, Toggle, With, Stored
<1>2. ASSUME NEW q \in Pages
      PROVE  (AtRest(q) \/ GrowsDark(q) \/ ShrinksToLight(q))'
  <2>1. CASE q = p
    <3>1. AtRest(p)
      BY DEF DarkInv, PagesFit, ClickDark, GrowsDark, ShrinksToLight
    <3>2. layer'[p] = {"expanded", "no-transition"} /\ timers'[p] = {"shrink"}
      BY <3>1 DEF DarkInv, TypeOK, ClickDark, AtRest, LayerClasses
    <3>3. p \in disabled' /\ p \notin activated' /\ p \notin white'
      BY <3>1 DEF ClickDark, Toggle, With, AtRest
    <3>4. QED BY <2>1, <3>2, <3>3 DEF ShrinksToLight
  <2>2. CASE q # p
    BY <2>2, OtherPageKept DEF DarkInv, TypeOK, PagesFit, ClickDark, Toggle, With
  <2>3. QED BY <2>1, <2>2
<1>3. StoredIsChoice'
  BY DEF StoredIsChoice, ClickDark, Toggle
<1>4. QED BY <1>1, <1>2, <1>3 DEF DarkInv, PagesFit

LEMMA ClickLightKeeps ==
  ASSUME DarkInv, NEW p \in Pages, ClickLight(p)
  PROVE  DarkInv'
<1>1. TypeOK'
  BY DEF DarkInv, TypeOK, ClickLight, Toggle, With, Stored, LayerClasses
<1>2. ASSUME NEW q \in Pages
      PROVE  (AtRest(q) \/ GrowsDark(q) \/ ShrinksToLight(q))'
  <2>1. CASE q = p
    <3>1. AtRest(p)
      BY DEF DarkInv, PagesFit, ClickLight, GrowsDark, ShrinksToLight
    <3>2. layer'[p] = {"expanded"} /\ timers'[p] = {"settle"}
      BY <3>1 DEF DarkInv, TypeOK, ClickLight, AtRest
    <3>3. p \in disabled' /\ p \in activated' /\ p \in white'
      BY <3>1 DEF ClickLight, Toggle, With, AtRest
    <3>4. QED BY <2>1, <3>2, <3>3 DEF GrowsDark
  <2>2. CASE q # p
    BY <2>2, OtherPageKept DEF DarkInv, TypeOK, PagesFit, ClickLight, Toggle, With
  <2>3. QED BY <2>1, <2>2
<1>3. StoredIsChoice'
  BY DEF StoredIsChoice, ClickLight, Toggle
<1>4. QED BY <1>1, <1>2, <1>3 DEF DarkInv, PagesFit

LEMMA TimerKeeps ==
  ASSUME DarkInv, NEW p \in Pages, TimerFires(p)
  PROVE  DarkInv'
<1>1. TypeOK'
  BY DEF DarkInv, TypeOK, TimerFires, Shrink, Settle, LayerClasses
<1>2. ASSUME NEW q \in Pages
      PROVE  (AtRest(q) \/ GrowsDark(q) \/ ShrinksToLight(q))'
  <2>1. CASE q = p /\ Shrink(p)
    <3>1. ShrinksToLight(p)
      BY <2>1 DEF DarkInv, PagesFit, Shrink, AtRest, GrowsDark
    <3>2. layer'[p] = {} /\ timers'[p] = {}
      BY <2>1, <3>1 DEF DarkInv, TypeOK, Shrink, ShrinksToLight
    <3>3. QED BY <2>1, <3>1, <3>2 DEF Shrink, ShrinksToLight, AtRest
  <2>2. CASE q = p /\ Settle(p)
    <3>1. GrowsDark(p)
      BY <2>2 DEF DarkInv, PagesFit, Settle, AtRest, ShrinksToLight
    <3>2. layer'[p] = LayerClasses /\ timers'[p] = {}
      BY <2>2, <3>1 DEF DarkInv, TypeOK, Settle, GrowsDark, LayerClasses
    <3>3. QED BY <2>2, <3>1, <3>2 DEF Settle, GrowsDark, AtRest
  <2>3. CASE q # p
    BY <2>3, OtherPageKept DEF DarkInv, TypeOK, PagesFit, TimerFires, Shrink, Settle
  <2>4. QED BY <2>1, <2>2, <2>3 DEF TimerFires
<1>3. StoredIsChoice'
  BY DEF DarkInv, StoredIsChoice, TimerFires, Shrink, Settle
<1>4. QED BY <1>1, <1>2, <1>3 DEF DarkInv, PagesFit

LEMMA IdleKeeps ==
  ASSUME DarkInv, SystemTheme \/ UNCHANGED vars
  PROVE  DarkInv'
<1>1. TypeOK'
  BY DEF DarkInv, TypeOK, SystemTheme, vars, body
<1>2. ASSUME NEW q \in Pages
      PROVE  (AtRest(q) \/ GrowsDark(q) \/ ShrinksToLight(q))'
  BY OtherPageKept DEF DarkInv, PagesFit, SystemTheme, vars, body
<1>3. StoredIsChoice'
  BY DEF DarkInv, StoredIsChoice, SystemTheme, vars
<1>4. QED BY <1>1, <1>2, <1>3 DEF DarkInv, PagesFit

LEMMA DarkInvariant == Spec => []DarkInv
<1>1. DarkInv /\ [Next]_vars => DarkInv'
  BY LoadKeeps, ClickDarkKeeps, ClickLightKeeps, TimerKeeps, IdleKeeps DEF Next
<1>2. QED BY InitDark, <1>1, PTL DEF Spec

(* Every reachable state of the pages is well typed.                       *)
THEOREM TypeCorrect == Spec => []TypeOK
  BY DarkInvariant, PTL DEF DarkInv

(* On however many pages and however fast the button is pressed, a page    *)
(* whose button is enabled is dark altogether, or light altogether         *)
(* (templates/index.js:1, the click listener and its timers).              *)
THEOREM RestCorrect == Spec => []PageAtRestAgrees
<1>1. DarkInv => PageAtRestAgrees
  BY DEF DarkInv, PagesFit, PageAtRestAgrees, AtRest, GrowsDark, ShrinksToLight
<1>2. QED BY DarkInvariant, <1>1, PTL

(* A disabled button waits for exactly one timer, which will enable it,    *)
(* and no timer is left where the button is enabled: the safety half of    *)
(* ButtonComesBack.                                                        *)
THEOREM ButtonHasTimer ==
  Spec => [](\A p \in Pages : /\ p \in disabled => \E c : timers[p] = {c}
                              /\ p \notin disabled => timers[p] = {})
<1>1. DarkInv => \A p \in Pages : /\ p \in disabled => \E c : timers[p] = {c}
                                  /\ p \notin disabled => timers[p] = {}
  BY DEF DarkInv, PagesFit, AtRest, GrowsDark, ShrinksToLight
<1>2. QED BY DarkInvariant, <1>1, PTL

(* A page that is opened shows the last choice made on any page, and what  *)
(* the system prefers where there is none (templates/index.js:1, the       *)
(* constructor).                                                           *)
THEOREM ChoiceCorrect == Spec => LoadFollowsChoice
<1>1. DarkInv /\ [Next]_vars
        => [\A p \in Pages :
              Load(p) => (p \in activated' <=> IF choice = "none" THEN osDark ELSE choice = "dark")]_vars
  <2>1. ASSUME DarkInv, NEW p \in Pages, Load(p)
        PROVE  p \in activated' <=> IF choice = "none" THEN osDark ELSE choice = "dark"
    BY <2>1 DEF DarkInv, StoredIsChoice, Load, With, StartsDark
  <2>2. QED BY <2>1
<1>2. QED BY DarkInvariant, <1>1, PTL DEF Spec, LoadFollowsChoice
=============================================================================
