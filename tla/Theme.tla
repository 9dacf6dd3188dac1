-------------------------------- MODULE Theme --------------------------------
(***************************************************************************)
(* The colour scheme of the web application: the preference kept in        *)
(* localStorage, which every tab of the browser shares, the scheme of the  *)
(* operating system, and in each tab the class an inline script puts on    *)
(* the document before the first paint and the state ThemeProvider holds   *)
(* once the page is hydrated.  A write in one tab is a storage event       *)
(* queued for the others.                                                  *)
(***************************************************************************)
EXTENDS Naturals, Sequences, FiniteSets

CONSTANTS Tabs, None

Schemes == {"light", "dark"}
Themes  == Schemes \cup {"system"}

ASSUME ThemeAssumption == None \notin Themes

VARIABLES
  storage,   \* the stored preference, or None
  os,        \* prefers-color-scheme
  phase,     \* of a tab: "closed", "painted" (script has run), "live" (hydrated)
  theme,     \* the provider's theme
  resolved,  \* the provider's resolvedTheme
  paint,     \* the scheme on the document element
  heard,     \* the values of the storage events queued for a tab
  crossed,   \* history: the preference or the scheme changed under a painted tab
  unsaved    \* history: the storage refused what the tab last took

themeVars == <<storage, os, phase, theme, resolved, paint, heard, crossed, unsaved>>

ThemeInit ==
  /\ storage \in Themes \cup {None} /\ os \in Schemes
  /\ phase = [t \in Tabs |-> "closed"]
  /\ theme = [t \in Tabs |-> "system"]
  /\ resolved = [t \in Tabs |-> "light"]
  /\ paint = [t \in Tabs |-> "light"]
  /\ heard = [t \in Tabs |-> <<>>]
  /\ crossed = [t \in Tabs |-> FALSE]
  /\ unsaved = [t \in Tabs |-> FALSE]

\* readStoredTheme and resolve.
Stored == IF storage = None THEN "system" ELSE storage
Resolve(th) == IF th = "system" THEN os ELSE th

---------------------------------------------------------------------------
(* A tab loads. *)

\* ThemeScript, before React runs.
Paint(t) ==
  /\ phase' = [phase EXCEPT ![t] = "painted"]
  /\ paint' = [paint EXCEPT ![t] = Resolve(Stored)]
  /\ theme' = [theme EXCEPT ![t] = "system"]
  /\ resolved' = [resolved EXCEPT ![t] = "light"]
  /\ heard' = [heard EXCEPT ![t] = <<>>]
  /\ crossed' = [crossed EXCEPT ![t] = FALSE]
  /\ unsaved' = [unsaved EXCEPT ![t] = FALSE]
  /\ UNCHANGED <<storage, os>>

\* The effects of ThemeProvider: the state is read, the class is left alone.
Hydrate(t) ==
  /\ phase[t] = "painted"
  /\ phase' = [phase EXCEPT ![t] = "live"]
  /\ theme' = [theme EXCEPT ![t] = Stored]
  /\ resolved' = [resolved EXCEPT ![t] = Resolve(Stored)]
  /\ UNCHANGED <<storage, os, paint, heard, crossed, unsaved>>

---------------------------------------------------------------------------
(* A tab changes the preference. *)

\* State and document of t take the theme th.
Takes(t, th) ==
  /\ theme' = [theme EXCEPT ![t] = th]
  /\ resolved' = [resolved EXCEPT ![t] = Resolve(th)]
  /\ paint' = [paint EXCEPT ![t] = Resolve(th)]
  /\ unsaved' = [unsaved EXCEPT ![t] = FALSE]

\* The browser tells every other tab of a value that is new.
SetTheme(t, th) ==
  /\ phase[t] = "live"
  /\ Takes(t, th)
  /\ storage' = th
  /\ LET told == {u \in Tabs \ {t} : storage # th /\ phase[u] # "closed"}
     IN  /\ heard' = [u \in Tabs |-> IF u \in told THEN Append(heard[u], th) ELSE heard[u]]
         /\ crossed' = [u \in Tabs |-> /\ u # t
                                       /\ crossed[u] \/ (u \in told /\ phase[u] = "painted")]
  /\ UNCHANGED <<os, phase>>

\* The storage refuses the write: setTheme is left after the theme is set and
\* before it is resolved and painted.
SetThemeFails(t, th) ==
  /\ phase[t] = "live"
  /\ theme' = [theme EXCEPT ![t] = th]
  /\ unsaved' = [unsaved EXCEPT ![t] = TRUE]
  /\ UNCHANGED <<storage, os, phase, resolved, paint, heard, crossed>>

\* ThemeToggle: light, dark, system, light.
Next3 == [light |-> "dark", dark |-> "system", system |-> "light"]
CycleTheme(t) == SetTheme(t, Next3[theme[t]]) \/ SetThemeFails(t, Next3[theme[t]])

\* toggleTheme: away from the scheme the theme resolves to now.
ToggleTheme(t) == SetTheme(t, IF Resolve(theme[t]) = "dark" THEN "light" ELSE "dark")

---------------------------------------------------------------------------
(* What reaches a tab. *)

\* A mutant: the handler believes the value the event carries.
HearCarried(t) ==
  /\ heard[t] # <<>>
  /\ heard' = [heard EXCEPT ![t] = Tail(@)]
  /\ IF phase[t] = "live"
     THEN Takes(t, Head(heard[t])) /\ crossed' = [crossed EXCEPT ![t] = FALSE]
     ELSE UNCHANGED <<theme, resolved, paint, crossed, unsaved>>
  /\ UNCHANGED <<storage, os, phase>>

\* onStorage: the value the event carries is ignored, the storage is read.
HearStorage(t) ==
  /\ heard[t] # <<>>
  /\ heard' = [heard EXCEPT ![t] = Tail(@)]
  /\ IF phase[t] = "live"
     THEN Takes(t, Stored) /\ crossed' = [crossed EXCEPT ![t] = FALSE]
     ELSE UNCHANGED <<theme, resolved, paint, crossed, unsaved>>
  /\ UNCHANGED <<storage, os, phase>>

\* A mutant: the listener outlives the "system" mode.
FollowsAlways(t) == phase[t] = "live"

\* The tabs that listen for the scheme of the system: those that follow it.
Follows(t) == phase[t] = "live" /\ theme[t] = "system"

SystemTurns ==
  /\ os' \in Schemes \ {os}
  /\ resolved' = [t \in Tabs |-> IF Follows(t) THEN os' ELSE resolved[t]]
  /\ paint' = [t \in Tabs |-> IF Follows(t) THEN os' ELSE paint[t]]
  /\ crossed' = [t \in Tabs |-> (crossed[t] /\ ~Follows(t)) \/ phase[t] = "painted"]
  /\ UNCHANGED <<storage, phase, theme, heard, unsaved>>

---------------------------------------------------------------------------
(* Once a tab has heard everything it was told, its preference is the      *)
(* stored one, whatever other tabs wrote while its events were queued;     *)
(* only what the storage refused stays with the tab that chose it.         *)
TabsAgree ==
  \A t \in Tabs : phase[t] = "live" /\ heard[t] = <<>> /\ ~unsaved[t]
                    => theme[t] = Stored

(* A hydrated tab is painted in the scheme its own theme resolves to now,  *)
(* through writes, events and turns of the system; only a change that fell *)
(* between the inline script and the hydration, which nothing repaints, or *)
(* one that the storage refused can part them until the next change.       *)
PaintMatches ==
  \A t \in Tabs : phase[t] = "live" /\ ~crossed[t] /\ ~unsaved[t]
                    => paint[t] = Resolve(theme[t]) /\ resolved[t] = Resolve(theme[t])
=============================================================================
