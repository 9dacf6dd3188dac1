------------------------------ MODULE Overlays ------------------------------
(***************************************************************************)
(* The layers that cover a page of the web application: the drawer of      *)
(* nav.tsx, the drawer of the documentation, the command palette, the      *)
(* shortcuts dialog and the embed dialog.  Each is opened and closed on    *)
(* its own, each listens for Escape on the document while it is open, and  *)
(* each borrows the one scroll style of the body: its effect saves the     *)
(* style it finds and hides the overflow, its cleanup puts the saved style *)
(* back.  A layer unmounted with its page runs the same cleanup.           *)
(***************************************************************************)
EXTENDS Naturals, Sequences, SequencesExt

CONSTANTS
  Pages,        \* the routes
  DocPages,     \* the routes of the documentation, which share one drawer
  EmbedPages    \* the routes with an "Embed" button

ASSUME PagesAssumption == /\ DocPages \subseteq Pages
                          /\ EmbedPages \subseteq Pages
                          /\ DocPages \cap EmbedPages = {}

VARIABLES
  page,       \* the route shown
  going,      \* the route being navigated to, or page
  layers,     \* the layers shown, in the order they were opened: <<name, saved style>>
  overflow,   \* document.body.style.overflow
  orderly     \* history: so far only the last opened layer was ever closed

overlayVars == <<page, going, layers, overflow, orderly>>

\* The layers from the front to the back, by their z-index and place in the tree.
FrontToBack == <<"shortcuts", "embed", "palette", "docsNav", "nav">>

Shown == {layers[i].name : i \in DOMAIN layers}

Foremost == FrontToBack[CHOOSE i \in DOMAIN FrontToBack :
                        /\ FrontToBack[i] \in Shown
                        /\ \A j \in 1..(i - 1) : FrontToBack[j] \notin Shown]

OverlaysInit == /\ page \in Pages /\ going = page
                /\ layers = <<>> /\ overflow = "" /\ orderly = TRUE

---------------------------------------------------------------------------
(* The effects of a layer on the body, as steps of a record of the body. *)

Body == [layers |-> layers, overflow |-> overflow, orderly |-> orderly]

Show(b, o) == [layers   |-> Append(b.layers, [name |-> o, saved |-> b.overflow]),
               overflow |-> "hidden",
               orderly  |-> b.orderly]

\* A mutant: the cleanup clears the style instead of restoring it.
HideClears(b, o) ==
  IF \E i \in DOMAIN b.layers : b.layers[i].name = o
  THEN LET i == CHOOSE k \in DOMAIN b.layers : b.layers[k].name = o
       IN  [layers   |-> RemoveAt(b.layers, i),
            overflow |-> "",
            orderly  |-> b.orderly /\ i = Len(b.layers)]
  ELSE b

\* The cleanup: the saved style comes back, whatever happened since.
Hide(b, o) ==
  IF \E i \in DOMAIN b.layers : b.layers[i].name = o
  THEN LET i == CHOOSE k \in DOMAIN b.layers : b.layers[k].name = o
       IN  [layers   |-> RemoveAt(b.layers, i),
            overflow |-> b.layers[i].saved,
            orderly  |-> b.orderly /\ i = Len(b.layers)]
  ELSE b

\* Every layer closes, in the order they were opened: what stays is what the
\* cleanup of the last one leaves, and the others were closed out of order.
HideEvery(b) ==
  LET last == Last(b.layers)
  IN  Hide([layers   |-> <<last>>,
            overflow |-> b.overflow,
            orderly  |-> b.orderly /\ Len(b.layers) = 1], last.name)

Becomes(b) == /\ layers' = b.layers
              /\ overflow' = b.overflow
              /\ orderly' = b.orderly

---------------------------------------------------------------------------
(* What the user does. *)

\* The buttons lie behind an open layer, and some are not on every page.  Every
\* layer keeps the Tab key inside but the drawer of the documentation: with the
\* keyboard what lies behind that one is still reached.
Reachable == Shown \subseteq {"docsNav"}

OpenNav   == Reachable /\ Becomes(Show(Body, "nav")) /\ UNCHANGED <<page, going>>

OpenDocsNav == /\ Shown = {} /\ page \in DocPages
               /\ Becomes(Show(Body, "docsNav"))
               /\ UNCHANGED <<page, going>>

OpenEmbed == /\ Shown = {} /\ page \in EmbedPages
             /\ Becomes(Show(Body, "embed"))
             /\ UNCHANGED <<page, going>>

\* The keys of the palette and of the shortcuts dialog work above and below
\* any other layer.
Toggled(o) == IF o \in Shown THEN Hide(Body, o) ELSE Show(Body, o)

PressKey(o) == /\ o \in {"palette", "shortcuts"}
               /\ Becomes(Toggled(o))
               /\ UNCHANGED <<page, going>>

\* Every open layer hears Escape.  Its listener was added when it opened, and
\* React commits the update of one listener before the next one runs.
Escape == /\ Shown # {}
          /\ Becomes(HideEvery(Body))
          /\ UNCHANGED <<page, going>>

\* A click beside the front layer or on its close button.
InFront(o) == Shown # {} /\ Foremost = o

Close(o) == Becomes(Hide(Body, o)) /\ UNCHANGED <<page, going>>

CloseFront(o) == InFront(o) /\ Close(o)

\* Opened with the keyboard behind the documentation's drawer, the drawer of
\* nav.tsx has the focus, and its button closes it there.
CloseNav       == Shown \in {{"nav"}, {"nav", "docsNav"}} /\ Close("nav")
CloseDocsNav   == CloseFront("docsNav")
ClosePalette   == CloseFront("palette")
CloseShortcuts == CloseFront("shortcuts")
CloseEmbed     == CloseFront("embed")

\* "Keyboard shortcuts" in the palette: one commit closes it and opens the dialog.
OpenShortcuts ==
  /\ InFront("palette")
  /\ Becomes(Show(Hide(Body, "palette"), "shortcuts"))
  /\ UNCHANGED <<page, going>>

\* An item of the palette that leads to a page closes the palette at once.
Go(p) == /\ InFront("palette") /\ p # page
         /\ Becomes(Hide(Body, "palette"))
         /\ going' = p
         /\ UNCHANGED page

\* A link of the page or of a drawer, or the back button of the browser.
Follow(p) == /\ going = page /\ p # page
             /\ going' = p
             /\ UNCHANGED <<page, layers, overflow, orderly>>

---------------------------------------------------------------------------
(* The route changes: what the page had open is unmounted, then the drawers *)
(* that stay see the new pathname and close.                                *)

Unmount(b, o, gone) == IF gone THEN Hide(b, o) ELSE b

Arrive ==
  /\ going # page
  /\ page' = going
  /\ LET embed == Unmount(Body, "embed", page \in EmbedPages)
         docs  == Unmount(embed, "docsNav", page \in DocPages /\ going \notin DocPages)
     IN  Becomes(Hide(Hide(docs, "nav"), "docsNav"))
  /\ UNCHANGED going

\* The browser loads the document anew.
Reload == /\ layers' = <<>> /\ overflow' = "" /\ orderly' = TRUE
          /\ going' = page
          /\ UNCHANGED page

Gestures == \/ OpenNav \/ OpenDocsNav \/ OpenEmbed
            \/ \E o \in {"palette", "shortcuts"} : PressKey(o)
            \/ Escape
            \/ CloseNav \/ CloseDocsNav \/ ClosePalette \/ CloseShortcuts \/ CloseEmbed
            \/ \E p \in Pages : Follow(p)

---------------------------------------------------------------------------
(* As long as layers are closed in the reverse order of their opening, the *)
(* page scrolls exactly when nothing covers it: the style saved by the     *)
(* first layer is the page's own, through openings, closings, navigation   *)
(* and unmounted pages.  Out of order the code leaves a bare page locked   *)
(* or a covered one scrolling.                                             *)
LockedWhileCovered == orderly => (overflow = "hidden" <=> layers # <<>>)
=============================================================================
