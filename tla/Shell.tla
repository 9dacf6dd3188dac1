-------------------------------- MODULE Shell --------------------------------
(***************************************************************************)
(* What components/providers.tsx wraps around every page: the theme, the   *)
(* layers and the notifications of one tab, Here, among other tabs of the  *)
(* same browser.  The command palette joins them: its items close it,      *)
(* navigate, turn the theme and raise notifications, one of them when the  *)
(* clipboard answers.                                                      *)
(***************************************************************************)
EXTENDS Overlays, Toasts, Theme

CONSTANTS
  Here,           \* the tab whose layers and notifications are modelled
  MaxGestures,    \* bound on what the user, the system and the tabs do
  MaxCopies       \* bound on the copies the clipboard has not answered

ASSUME ShellAssumption == Here \in Tabs /\ MaxGestures \in Nat /\ MaxCopies \in Nat

VARIABLES
  copies,     \* writes to the clipboard in flight
  gestures    \* how many gestures were made

shellVars == <<overlayVars, toastVars, themeVars, copies, gestures>>

Init == /\ OverlaysInit /\ ToastsInit /\ ThemeInit
        /\ copies = 0 /\ gestures = 0

Gesture == gestures < MaxGestures /\ gestures' = gestures + 1
Live    == phase[Here] = "live"

---------------------------------------------------------------------------
\* A layer is opened or closed, or a link followed.
Layer == /\ Gesture /\ Live /\ Gestures
         /\ UNCHANGED <<toastVars, themeVars, copies>>

PaletteInFront == Live /\ InFront("palette")

PaletteGoes == /\ Gesture /\ PaletteInFront
               /\ \E p \in Pages : Go(p)
               /\ UNCHANGED <<toastVars, themeVars, copies>>

PaletteHelps == /\ Gesture /\ PaletteInFront /\ OpenShortcuts
                /\ UNCHANGED <<toastVars, themeVars, copies>>

\* copyLink closes the palette; the clipboard answers later.
PaletteCopies == /\ Gesture /\ PaletteInFront /\ copies < MaxCopies
                 /\ Becomes(Hide(Body, "palette"))
                 /\ copies' = copies + 1
                 /\ UNCHANGED <<page, going, toastVars, themeVars>>

\* A code block of the documentation or of the embed dialog copies its code.
CopyCode == /\ Gesture /\ Live
            /\ \/ InFront("embed")
               \/ Reachable /\ page \in DocPages
            /\ copies < MaxCopies
            /\ copies' = copies + 1
            /\ UNCHANGED <<overlayVars, toastVars, themeVars>>

\* onToggleTheme: the palette stays open, a notification says what happened.
PaletteTogglesTheme == /\ Gesture /\ PaletteInFront
                       /\ ToggleTheme(Here) /\ AddToast(TRUE)
                       /\ UNCHANGED <<overlayVars, copies>>

\* Success and refusal of the clipboard both raise a notification.
ClipboardAnswers == /\ copies > 0 /\ copies' = copies - 1
                    /\ AddToast(TRUE)
                    /\ UNCHANGED <<overlayVars, themeVars, gestures>>

\* Any module may call toast.success, error or info, with a duration or none.
Notify == /\ Gesture /\ Live
          /\ \E timed \in BOOLEAN : AddToast(timed)
          /\ UNCHANGED <<overlayVars, themeVars, copies>>

Dismissed == /\ TimerFires \/ ClickDismiss
             /\ UNCHANGED <<overlayVars, themeVars, copies, gestures>>

RouteChanges == /\ Arrive
                /\ UNCHANGED <<toastVars, themeVars, copies, gestures>>

---------------------------------------------------------------------------
(* The theme, in every tab. *)

ClickToggle == /\ Gesture
               /\ \E t \in Tabs : /\ t = Here => Reachable
                                  /\ CycleTheme(t)
               /\ UNCHANGED <<overlayVars, toastVars, copies>>

Turn == Gesture /\ SystemTurns /\ UNCHANGED <<overlayVars, toastVars, copies>>

\* A tab is opened or reloaded; in Here everything above starts afresh.
LoadTab == /\ Gesture
           /\ \E t \in Tabs : /\ Paint(t)
                              /\ IF t = Here
                                 THEN Reload /\ Forget /\ copies' = 0
                                 ELSE UNCHANGED <<overlayVars, toastVars, copies>>

Hydrated == /\ \E t \in Tabs : Hydrate(t)
            /\ UNCHANGED <<overlayVars, toastVars, copies, gestures>>

Hears == /\ \E t \in Tabs : HearStorage(t)
         /\ UNCHANGED <<overlayVars, toastVars, copies, gestures>>

Next == \/ Layer \/ PaletteGoes \/ PaletteHelps \/ PaletteCopies \/ CopyCode
        \/ PaletteTogglesTheme \/ ClipboardAnswers \/ Notify \/ Dismissed
        \/ RouteChanges \/ ClickToggle \/ Turn \/ LoadTab \/ Hydrated \/ Hears

Spec == Init /\ [][Next]_shellVars
=============================================================================
