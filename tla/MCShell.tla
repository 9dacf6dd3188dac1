------------------------------- MODULE MCShell -------------------------------
(* A page without layers of its own is left out: every page has the drawer, *)
(* the palette and the shortcuts dialog.                                    *)
EXTENDS Shell

MCPages == {"docs", "more docs", "run"}
MCDocPages == {"docs", "more docs"}
MCEmbedPages == {"run"}

\* Up to four different layers, with any styles saved.
MCLayerLists ==
  {ls \in UNION {[1..n -> [name: {"nav", "docsNav", "palette", "shortcuts", "embed"},
                          saved: {"", "hidden"}]] : n \in 1..4} :
     \A i, j \in DOMAIN ls : i # j => ls[i].name # ls[j].name}

\* Escape, one cleanup after the other.
ASSUME HideEveryIsHides ==
  \A ls \in MCLayerLists, o \in BOOLEAN :
    LET b == [layers |-> ls, overflow |-> "hidden", orderly |-> o]
    IN  HideEvery(b) = FoldLeft(Hide, b, [i \in DOMAIN ls |-> ls[i].name])
=============================================================================
