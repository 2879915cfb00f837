------------------------------ MODULE DarkMode ------------------------------
(***************************************************************************)
(* The dark mode button on every page of the server: the Darkmode widget   *)
(* at the end of templates/index.js, with the options that the templates   *)
(* give it (a label only, so that saveInCookies and autoMatchOsTheme are   *)
(* on and the transition takes 0.3 s).                                     *)
(*                                                                         *)
(* A page has its own body, layer and button; localStorage is shared by    *)
(* all pages of the server that a browser has open.  A click does half of  *)
(* the change and leaves the other half to a timer, with the button        *)
(* disabled in between; a browser sends no clicks to a disabled button.    *)
(* The whole file is one line of text.                                     *)
(***************************************************************************)
EXTENDS Naturals, FiniteSets

CONSTANT Pages   \* the pages that are open in one browser

VARIABLES
  open,       \* the pages that have loaded
  activated,  \* pages whose body has the class darkmode--activated
  layer,      \* the classes of a page's layer that matter
  white,      \* pages whose button has the class darkmode-toggle--white
  disabled,   \* pages whose button is disabled
  timers,     \* the setTimeout callbacks a page waits for
  stored,     \* localStorage.getItem("darkmode")
  osDark,     \* (prefers-color-scheme: dark)
  choice      \* history: what the user last chose with a button, on any page

body == <<activated, layer, white, disabled, timers>>
vars == <<open, body, stored, osDark, choice>>

LayerClasses == {"expanded", "simple", "no-transition"}
Stored == {"null", "true", "false"}

Init ==
  /\ open = {}
  /\ activated = {}
  /\ layer = [p \in Pages |-> {}]
  /\ white = {}
  /\ disabled = {}
  /\ timers = [p \in Pages |-> {}]
  /\ stored = "null"
  /\ osDark \in BOOLEAN
  /\ choice = "none"

StartsDarkWithSystem == stored = "true" \/ osDark  \* variant: null is not asked for
StartsDark == stored = "true" \/ (stored = "null" /\ osDark)

(* A set with p in it, or not.                                             *)
With(S, p, b) == IF b THEN S \cup {p} ELSE S \ {p}

(* A page is opened, or reloaded: its markup is fresh, timers of the old   *)
(* document are gone.  Constructor and showWidget.                         *)
Load(p) ==
  /\ open' = open \cup {p}
  /\ activated' = With(activated, p, StartsDark)
  /\ layer' = [layer EXCEPT ![p] = IF StartsDark THEN LayerClasses ELSE {}]
  /\ white' = With(white, p, StartsDark)
  /\ disabled' = disabled \ {p}
  /\ timers' = [timers EXCEPT ![p] = {}]
  /\ UNCHANGED <<stored, osDark, choice>>

(* Variant: the class is stored instead of whether the body has it.        *)
ToggleStoresClass(p) ==
  /\ activated' = With(activated, p, p \notin activated)
  /\ white' = With(white, p, p \notin white)
  /\ stored' = IF p \in activated THEN "" ELSE "darkmode--activated"
  /\ choice' = IF p \in activated THEN "light" ELSE "dark"

(* What a click does in both directions.                                   *)
Toggle(p) ==
  /\ activated' = With(activated, p, p \notin activated)
  /\ white' = With(white, p, p \notin white)
  /\ stored' = IF p \in activated THEN "false" ELSE "true"
  /\ choice' = IF p \in activated THEN "light" ELSE "dark"

(* The click listener of a page whose body is dark, and of one that is not. *)
ClickDark(p) ==
  /\ p \in open \ disabled
  /\ p \in activated
  /\ layer' = [layer EXCEPT ![p] = @ \ {"simple"}]
  /\ disabled' = disabled \cup {p}
  /\ timers' = [timers EXCEPT ![p] = @ \cup {"shrink"}]
  /\ Toggle(p)
  /\ UNCHANGED <<open, osDark>>

(* Variant: the button stays enabled while the layer still grows.          *)
ClickLightAtOnce(p) ==
  /\ p \in open \ disabled
  /\ p \notin activated
  /\ layer' = [layer EXCEPT ![p] = @ \cup {"expanded"}]
  /\ timers' = [timers EXCEPT ![p] = @ \cup {"settle"}]
  /\ Toggle(p)
  /\ UNCHANGED <<open, disabled, osDark>>

ClickLight(p) ==
  /\ p \in open \ disabled
  /\ p \notin activated
  /\ layer' = [layer EXCEPT ![p] = @ \cup {"expanded"}]
  /\ disabled' = disabled \cup {p}
  /\ timers' = [timers EXCEPT ![p] = @ \cup {"settle"}]
  /\ Toggle(p)
  /\ UNCHANGED <<open, osDark>>

(* The callback of the light direction, after a millisecond.               *)
Shrink(p) ==
  /\ "shrink" \in timers[p]
  /\ layer' = [layer EXCEPT ![p] = @ \ {"no-transition", "expanded"}]
  /\ disabled' = disabled \ {p}
  /\ timers' = [timers EXCEPT ![p] = @ \ {"shrink"}]
  /\ UNCHANGED <<open, activated, white, stored, osDark, choice>>

(* Variant: the callback forgets removeAttribute("disabled").              *)
SettleKeepsDisabled(p) ==
  /\ "settle" \in timers[p]
  /\ layer' = [layer EXCEPT ![p] = @ \cup {"no-transition", "simple"}]
  /\ timers' = [timers EXCEPT ![p] = @ \ {"settle"}]
  /\ UNCHANGED <<open, activated, white, disabled, stored, osDark, choice>>

(* The callback of the dark direction, when the transition has ended.      *)
Settle(p) ==
  /\ "settle" \in timers[p]
  /\ layer' = [layer EXCEPT ![p] = @ \cup {"no-transition", "simple"}]
  /\ disabled' = disabled \ {p}
  /\ timers' = [timers EXCEPT ![p] = @ \ {"settle"}]
  /\ UNCHANGED <<open, activated, white, stored, osDark, choice>>

(* The user changes the theme of the system; the widget reads it at load   *)
(* only.                                                                   *)
SystemTheme ==
  /\ osDark' = ~osDark
  /\ UNCHANGED <<open, body, stored, choice>>

TimerFires(p) == Shrink(p) \/ Settle(p)

Next ==
  \/ \E p \in Pages : Load(p) \/ ClickDark(p) \/ ClickLight(p) \/ TimerFires(p)
  \/ SystemTheme

Spec == Init /\ [][Next]_vars

(* A browser runs the timers of its pages.                                 *)
FairSpec == Spec /\ \A p \in Pages : WF_vars(TimerFires(p))

-----------------------------------------------------------------------------
TypeOK ==
  /\ open \subseteq Pages /\ activated \subseteq Pages
  /\ white \subseteq Pages /\ disabled \subseteq Pages
  /\ layer \in [Pages -> SUBSET LayerClasses]
  /\ timers \in [Pages -> SUBSET {"shrink", "settle"}]
  /\ stored \in Stored
  /\ osDark \in BOOLEAN
  /\ choice \in {"none", "light", "dark"}

(* However fast and on how many pages the user clicks: once the button is  *)
(* enabled, layer, button and body of a page agree, so that a page is      *)
(* never left half dark (two timers of one page would leave it so).        *)
PageAtRestAgrees ==
  \A p \in Pages \ disabled :
    IF p \in activated THEN layer[p] = LayerClasses /\ p \in white
                       ELSE layer[p] = {} /\ p \notin white

(* A page that is opened shows what the user last chose on any page, and   *)
(* only without a choice what the system prefers, whatever other pages     *)
(* show by then.                                                           *)
LoadFollowsChoice ==
  [][\A p \in Pages :
       Load(p) => (p \in activated' <=> IF choice = "none" THEN osDark ELSE choice = "dark")]_vars

(* The button comes back after every click.                                *)
ButtonComesBack == \A p \in Pages : p \in disabled ~> p \notin disabled
=============================================================================
