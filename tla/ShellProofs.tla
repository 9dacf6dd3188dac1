----------------------------- MODULE ShellProofs -----------------------------
(***************************************************************************)
(* The layers, the notifications and the colour scheme of the web          *)
(* application, for every set of routes, every bound on notifications and  *)
(* any number of tabs.                                                     *)
(***************************************************************************)
EXTENDS Shell, SequenceTheorems, TLAPS

---------------------------------------------------------------------------
(* Sequences that lose an element. *)

LEMMA RemoveAtProperties ==
  ASSUME NEW S, NEW s \in Seq(S), NEW i \in 1..Len(s)
  PROVE  /\ RemoveAt(s, i) \in Seq(S)
         /\ Len(RemoveAt(s, i)) = Len(s) - 1
         /\ \A k \in 1..(Len(s) - 1) :
              RemoveAt(s, i)[k] = IF k < i THEN s[k] ELSE s[k + 1]
<1> DEFINE a == SubSeq(s, 1, i - 1)
           b == SubSeq(s, i + 1, Len(s))
<1>0. Len(s) \in Nat /\ i \in Int /\ 1 <= i /\ i <= Len(s) /\ \A k \in 1..Len(s) : s[k] \in S
  OBVIOUS
<1>1. /\ a \in Seq(S) /\ Len(a) = i - 1
      /\ \A k \in 1..(i - 1) : a[k] = s[k]
  <2>1. \A k \in 1..(i - 1) : s[k] \in S
    BY <1>0
  <2>2. QED
    BY <1>0, <2>1, SubSeqProperties
<1>2. /\ b \in Seq(S) /\ Len(b) = Len(s) - i
      /\ \A k \in 1..(Len(s) - i) : b[k] = s[i + k]
  <2>1. \A k \in (i + 1)..Len(s) : s[k] \in S
    BY <1>0
  <2>2. /\ b \in Seq(S) /\ Len(b) = IF i + 1 <= Len(s) THEN Len(s) - (i + 1) + 1 ELSE 0
        /\ \A k \in 1..(Len(s) - (i + 1) + 1) : b[k] = s[(i + 1) + k - 1]
    BY <1>0, <2>1, SubSeqProperties
  <2> HIDE DEF b
  <2>3. QED
    BY <1>0, <2>2
<1>3. RemoveAt(s, i) = a \o b
  BY DEF RemoveAt
<1> HIDE DEF a, b
<1>4. /\ a \o b \in Seq(S) /\ Len(a \o b) = Len(a) + Len(b)
      /\ \A k \in 1..(Len(a) + Len(b)) :
           (a \o b)[k] = IF k <= Len(a) THEN a[k] ELSE b[k - Len(a)]
  BY <1>1, <1>2, ConcatProperties
<1>5. Len(a) + Len(b) = Len(s) - 1
  BY <1>0, <1>1, <1>2
<1>6. ASSUME NEW k \in 1..(Len(s) - 1)
      PROVE  (a \o b)[k] = IF k < i THEN s[k] ELSE s[k + 1]
  <2>1. CASE k < i
    BY <1>0, <1>1, <1>4, <1>5, <2>1
  <2>2. CASE ~(k < i)
    <3>1. k - Len(a) \in 1..(Len(s) - i) /\ k + 1 = i + (k - Len(a))
      BY <1>0, <1>1, <2>2
    <3>2. (a \o b)[k] = b[k - Len(a)]
      BY <1>0, <1>1, <1>4, <1>5, <2>2
    <3>3. b[k - Len(a)] = s[i + (k - Len(a))]
      BY <1>2, <3>1
    <3>4. QED
      BY <2>2, <3>1, <3>2, <3>3
  <2>3. QED
    BY <2>1, <2>2
<1>7. QED
  BY <1>3, <1>4, <1>5, <1>6

---------------------------------------------------------------------------
(* Layers. *)

Styles == {"", "hidden"}
Names  == {"nav", "docsNav", "palette", "shortcuts", "embed"}
Layers == [name: Names, saved: Styles]

\* The style under k layers.  A layer has saved the one under those opened
\* before it, and the body has the one under them all.
Under(k) == IF k = 0 THEN "" ELSE "hidden"

Nested(ls, style) ==
  /\ style = Under(Len(ls))
  /\ \A i \in 1..Len(ls) : ls[i].saved = Under(i - 1)

\* That is so as long as layers close in the reverse order of their opening.
Fits(ls, style, inOrder) ==
  /\ ls \in Seq(Layers) /\ style \in Styles /\ inOrder \in BOOLEAN
  /\ inOrder => Nested(ls, style)

Made(ls, style, inOrder) == [layers |-> ls, overflow |-> style, orderly |-> inOrder]

Sound(b) == /\ b = Made(b.layers, b.overflow, b.orderly)
            /\ Fits(b.layers, b.overflow, b.orderly)

LEMMA SoundMade ==
  ASSUME NEW ls, NEW style, NEW inOrder, Fits(ls, style, inOrder)
  PROVE  Sound(Made(ls, style, inOrder))
BY DEF Sound, Made

LEMMA ShowSound ==
  ASSUME NEW b, Sound(b), NEW o \in Names
  PROVE  Sound(Show(b, o))
<1> DEFINE ls == b.layers
           new == [name |-> o, saved |-> b.overflow]
           after == Append(ls, new)
<1>1. Show(b, o) = Made(after, "hidden", b.orderly)
  BY DEF Show, Sound, Made
<1>2. ls \in Seq(Layers) /\ b.overflow \in Styles /\ b.orderly \in BOOLEAN
  BY DEF Sound, Fits
<1>3. new \in Layers /\ new.saved = b.overflow
  BY <1>2 DEF Layers
<1> HIDE DEF ls, new
<1>4. /\ after \in Seq(Layers) /\ Len(after) = Len(ls) + 1 /\ Len(ls) \in Nat
      /\ \A i \in 1..Len(ls) : after[i] = ls[i]
      /\ after[Len(ls) + 1] = new
  BY <1>2, <1>3
<1> HIDE DEF after
<1>5. ASSUME b.orderly PROVE Nested(after, "hidden")
  <2>1. Nested(ls, b.overflow)
    BY <1>5 DEF Sound, Fits, ls
  <2>2. ASSUME NEW i \in 1..Len(after)
        PROVE  after[i].saved = Under(i - 1)
    <3>1. CASE i \in 1..Len(ls)
      BY <1>4, <2>1, <3>1 DEF Nested
    <3>2. CASE i = Len(ls) + 1
      BY <1>3, <1>4, <2>1, <3>2 DEF Nested
    <3>3. QED
      BY <1>4, <3>1, <3>2
  <2>3. Under(Len(after)) = "hidden"
    BY <1>4 DEF Under
  <2>4. QED
    BY <2>2, <2>3 DEF Nested
<1>6. Fits(after, "hidden", b.orderly)
  BY <1>2, <1>4, <1>5 DEF Fits, Styles
<1>7. QED
  BY <1>1, <1>6, SoundMade

LEMMA HideSound ==
  ASSUME NEW b, Sound(b), NEW o
  PROVE  Sound(Hide(b, o))
<1>1. CASE ~\E i \in DOMAIN b.layers : b.layers[i].name = o
  BY <1>1 DEF Hide
<1>2. CASE \E i \in DOMAIN b.layers : b.layers[i].name = o
  <2> DEFINE ls == b.layers
             i == CHOOSE k \in DOMAIN b.layers : b.layers[k].name = o
             after == RemoveAt(ls, i)
             style == ls[i].saved
             inOrder == b.orderly /\ i = Len(ls)
  <2>1. ls \in Seq(Layers) /\ Len(ls) \in Nat /\ b.orderly \in BOOLEAN
    BY DEF Sound, Fits
  <2>2. i \in DOMAIN b.layers
    BY <1>2
  <2>3. Hide(b, o) = Made(after, style, inOrder)
    BY <1>2 DEF Hide, Made
  <2>4. b.orderly => Nested(ls, b.overflow)
    BY DEF Sound, Fits
  <2>5. i \in 1..Len(ls)
    BY <2>1, <2>2
  <2> HIDE DEF ls, i
  <2>6. /\ after \in Seq(Layers) /\ Len(after) = Len(ls) - 1
        /\ \A k \in 1..(Len(ls) - 1) : after[k] = IF k < i THEN ls[k] ELSE ls[k + 1]
    BY <2>1, <2>5, RemoveAtProperties
  <2>7. ls[i] \in Layers
    BY <2>1, <2>5
  <2>8. style \in Styles
    BY <2>7 DEF Layers
  <2> HIDE DEF after
  <2>9. ASSUME b.orderly, i = Len(ls) PROVE Nested(after, style)
    <3>1. style = Under(Len(ls) - 1)
      BY <2>4, <2>5, <2>9 DEF Nested
    <3>2. \A k \in 1..Len(after) : after[k] = ls[k] /\ k \in 1..Len(ls)
      BY <2>1, <2>5, <2>6, <2>9
    <3> HIDE DEF style
    <3>3. QED
      BY <2>4, <2>6, <2>9, <3>1, <3>2 DEF Nested
  <2>10. Fits(after, style, inOrder)
    BY <2>1, <2>6, <2>8, <2>9 DEF Fits
  <2>11. QED
    BY <2>3, <2>10, SoundMade
<1>3. QED
  BY <1>1, <1>2

LEMMA HideEverySound ==
  ASSUME NEW b, Sound(b), Len(b.layers) # 0
  PROVE  Sound(HideEvery(b))
<1> DEFINE ls == b.layers
           last == Last(ls)
           inOrder == b.orderly /\ Len(ls) = 1
           c == Made(<<last>>, b.overflow, inOrder)
<1>1. HideEvery(b) = Hide(c, last.name)
  BY DEF HideEvery, Sound, Made
<1>2. ls \in Seq(Layers) /\ Len(ls) \in Nat /\ b.overflow \in Styles /\ b.orderly \in BOOLEAN
  BY DEF Sound, Fits
<1>3. b.orderly => Nested(ls, b.overflow)
  BY DEF Sound, Fits
<1>4. Len(ls) # 0
  OBVIOUS
<1> HIDE DEF ls
<1>5. last = ls[Len(ls)] /\ last \in Layers
  BY <1>2, <1>4 DEF Last
<1> HIDE DEF last
<1>6. <<last>> \in Seq(Layers) /\ Len(<<last>>) = 1 /\ <<last>>[1] = last
  BY <1>5
<1>7. ASSUME inOrder PROVE Nested(<<last>>, b.overflow)
  <2> HIDE DEF c
  <2>1. QED
    BY <1>3, <1>5, <1>6, <1>7 DEF Nested
<1>8. Fits(<<last>>, b.overflow, inOrder)
  BY <1>2, <1>6, <1>7 DEF Fits
<1>9. QED
  BY <1>1, <1>8, SoundMade, HideSound

OverlaysInv == Fits(layers, overflow, orderly)

LEMMA BodySound == OverlaysInv <=> Sound(Body)
BY DEF OverlaysInv, Sound, Body, Made

LEMMA Becoming ==
  ASSUME NEW b, Sound(b), Becomes(b)
  PROVE  OverlaysInv'
BY DEF Becomes, OverlaysInv, Sound

LEMMA ArriveSound ==
  ASSUME OverlaysInv, Arrive
  PROVE  OverlaysInv'
<1> DEFINE embed == Unmount(Body, "embed", page \in EmbedPages)
           docs == Unmount(embed, "docsNav", page \in DocPages /\ going \notin DocPages)
<1>1. Sound(embed)
  BY BodySound, HideSound DEF Unmount
<1>2. Sound(docs)
  <2> HIDE DEF embed
  <2>1. QED
    BY <1>1, HideSound DEF Unmount
<1>3. Becomes(Hide(Hide(docs, "nav"), "docsNav"))
  BY DEF Arrive
<1> HIDE DEF docs
<1>4. Sound(Hide(docs, "nav"))
  BY <1>2, HideSound
<1>5. Sound(Hide(Hide(docs, "nav"), "docsNav"))
  BY <1>4, HideSound
<1>6. QED
  BY <1>3, <1>5, Becoming

LEMMA HelpSound ==
  ASSUME OverlaysInv, OpenShortcuts
  PROVE  OverlaysInv'
<1> DEFINE closed == Hide(Body, "palette")
<1>1. Sound(closed)
  BY BodySound, HideSound
<1>2. Becomes(Show(closed, "shortcuts"))
  BY DEF OpenShortcuts
<1> HIDE DEF closed
<1>3. Sound(Show(closed, "shortcuts"))
  BY <1>1, ShowSound DEF Names
<1>4. QED
  BY <1>2, <1>3, Becoming

LEMMA GesturesSound ==
  ASSUME OverlaysInv, Gestures
  PROVE  OverlaysInv'
<1>1. Sound(Body)
  BY BodySound
<1>2. ASSUME NEW o \in Names, Becomes(Show(Body, o)) PROVE OverlaysInv'
  BY <1>1, <1>2, ShowSound, Becoming
<1>3. ASSUME NEW o, Becomes(Hide(Body, o)) PROVE OverlaysInv'
  BY <1>1, <1>3, HideSound, Becoming
<1>4. CASE OpenNav \/ OpenDocsNav \/ OpenEmbed
  BY <1>2, <1>4 DEF OpenNav, OpenDocsNav, OpenEmbed, Names
<1>5. ASSUME NEW o \in {"palette", "shortcuts"}, PressKey(o) PROVE OverlaysInv'
  BY <1>2, <1>3, <1>5 DEF PressKey, Toggled, Names
<1>6. CASE Escape
  <2>1. Body.layers = layers /\ layers \in Seq(Layers)
    BY DEF Body, OverlaysInv, Fits
  <2>2. DOMAIN layers # {}
    BY <1>6 DEF Escape, Shown
  <2>3. Len(layers) # 0
    BY <2>1, <2>2
  <2>4. Sound(HideEvery(Body))
    BY <1>1, <2>1, <2>3, HideEverySound
  <2>5. QED
    BY <1>6, <2>4, Becoming DEF Escape
<1>7. CASE CloseNav \/ CloseDocsNav \/ ClosePalette \/ CloseShortcuts \/ CloseEmbed
  BY <1>3, <1>7
     DEF CloseNav, CloseDocsNav, ClosePalette, CloseShortcuts, CloseEmbed, CloseFront, Close
<1>8. ASSUME NEW p \in Pages, Follow(p) PROVE OverlaysInv'
  BY <1>8 DEF Follow, OverlaysInv
<1>9. QED
  BY <1>4, <1>5, <1>6, <1>7, <1>8 DEF Gestures

LEMMA BareFits == Fits(<<>>, "", TRUE)
<1>1. <<>> \in Seq(Layers) /\ Len(<<>>) = 0
  OBVIOUS
<1>2. QED
  BY <1>1 DEF Fits, Nested, Under, Styles

LEMMA OverlaysStep ==
  ASSUME OverlaysInv, [Next]_shellVars
  PROVE  OverlaysInv'
<1>1. Sound(Body)
  BY BodySound
<1>2. CASE UNCHANGED overlayVars
  BY <1>2 DEF OverlaysInv, overlayVars
<1>3. CASE Layer
  BY <1>3, GesturesSound DEF Layer
<1>4. CASE PaletteGoes \/ PaletteCopies
  <2>1. Becomes(Hide(Body, "palette"))
    BY <1>4 DEF PaletteGoes, PaletteCopies, Go
  <2>2. QED
    BY <1>1, <2>1, HideSound, Becoming
<1>5. CASE PaletteHelps
  BY <1>5, HelpSound DEF PaletteHelps
<1>6. CASE RouteChanges
  BY <1>6, ArriveSound DEF RouteChanges
<1>7. CASE Reload
  BY <1>7, BareFits DEF Reload, OverlaysInv
<1>8. CASE LoadTab
  BY <1>2, <1>7, <1>8 DEF LoadTab
<1>9. QED
  BY <1>2, <1>3, <1>4, <1>5, <1>6, <1>8
     DEF Next, CopyCode, PaletteTogglesTheme, ClipboardAnswers, Notify, Dismissed,
         ClickToggle, Turn, Hydrated, Hears, shellVars

\* The page scrolls exactly when nothing covers it, as long as layers close in
\* the reverse order of their opening: for every set of routes and whatever is
\* opened, escaped from, navigated away from, unmounted or reloaded.
THEOREM OverlaysCorrect == Spec => []LockedWhileCovered
<1>1. Init => OverlaysInv
  BY BareFits DEF Init, OverlaysInit, OverlaysInv
<1>2. OverlaysInv /\ [Next]_shellVars => OverlaysInv'
  BY OverlaysStep
<1>3. OverlaysInv => LockedWhileCovered
  <2>1. layers \in Seq(Layers) => (layers = <<>> <=> Len(layers) = 0)
    OBVIOUS
  <2>2. QED
    BY <2>1 DEF OverlaysInv, Fits, Nested, Under, LockedWhileCovered
<1>4. QED
  BY <1>1, <1>2, <1>3, PTL DEF Spec

---------------------------------------------------------------------------
(* Notifications. *)

Items == [id: Nat, timed: BOOLEAN]

TimedIds(ts) == {ts[i].id : i \in {j \in 1..Len(ts) : ts[j].timed}}
Ordered(ts)  == \A i, j \in 1..Len(ts) : i < j => ts[i].id < ts[j].id
UpTo(ts, n)  == \A i \in 1..Len(ts) : ts[i].id <= n

\* The ids made so far are those up to made; what is listed has some of them,
\* in order, and the running timers are those of the timed items.
ToastsInv ==
  /\ made \in Nat /\ toasts \in Seq(Items)
  /\ UpTo(toasts, made) /\ Ordered(toasts) /\ Len(toasts) <= MaxToasts
  /\ timers = TimedIds(toasts)

\* us is ts without its item i.
Without(us, ts, i) ==
  /\ us \in Seq(Items) /\ Len(us) = Len(ts) - 1
  /\ \A k \in 1..(Len(ts) - 1) : us[k] = IF k < i THEN ts[k] ELSE ts[k + 1]

LEMMA WithoutProperties ==
  ASSUME NEW ts \in Seq(Items), NEW us, NEW i \in 1..Len(ts), Without(us, ts, i),
         Ordered(ts), NEW n \in Nat, UpTo(ts, n)
  PROVE  Ordered(us) /\ UpTo(us, n) /\ TimedIds(us) = TimedIds(ts) \ {ts[i].id}
<1> DEFINE at(k) == IF k < i THEN k ELSE k + 1
<1>1. /\ Len(ts) \in Nat /\ i \in Nat /\ 1 <= i /\ i <= Len(ts)
      /\ Len(us) = Len(ts) - 1
      /\ \A k \in 1..Len(ts) : ts[k].id \in Nat
  <2>1. \A k \in 1..Len(ts) : ts[k] \in Items
    OBVIOUS
  <2>2. QED
    BY <2>1 DEF Without, Items
<1>2. ASSUME NEW k \in 1..Len(us)
      PROVE  us[k] = ts[at(k)] /\ at(k) \in 1..Len(ts) /\ at(k) # i
  BY <1>1 DEF Without
<1>3. ASSUME NEW j \in 1..Len(us), NEW k \in 1..Len(us), j < k PROVE at(j) < at(k)
  BY <1>1, <1>3
<1>4. ASSUME NEW l \in 1..Len(ts), l # i PROVE \E k \in 1..Len(us) : at(k) = l
  <2>1. CASE l < i
    <3>1. l \in 1..Len(us) /\ at(l) = l
      BY <1>1, <2>1
    <3>2. QED
      BY <3>1
  <2>2. CASE l > i
    <3>1. l - 1 \in 1..Len(us) /\ at(l - 1) = l
      BY <1>1, <2>2
    <3>2. QED
      BY <3>1
  <2>3. QED
    BY <1>1, <1>4, <2>1, <2>2
<1> HIDE DEF at
<1>5. Ordered(us)
  BY <1>2, <1>3 DEF Ordered
<1>6. UpTo(us, n)
  BY <1>2 DEF UpTo
<1>7. ASSUME NEW l \in 1..Len(ts), l # i PROVE ts[l].id # ts[i].id
  <2>1. CASE l < i
    BY <1>1, <2>1 DEF Ordered
  <2>2. CASE l > i
    BY <1>1, <2>2 DEF Ordered
  <2>3. QED
    BY <1>1, <1>7, <2>1, <2>2
<1>8. TimedIds(us) \subseteq TimedIds(ts) \ {ts[i].id}
  BY <1>2, <1>7 DEF TimedIds
<1>9. TimedIds(ts) \ {ts[i].id} \subseteq TimedIds(us)
  <2> SUFFICES ASSUME NEW l \in 1..Len(ts), ts[l].timed, ts[l].id # ts[i].id
               PROVE  ts[l].id \in TimedIds(us)
    BY DEF TimedIds
  <2>1. PICK k \in 1..Len(us) : at(k) = l
    BY <1>4
  <2>2. us[k] = ts[l]
    BY <1>2, <2>1
  <2>3. QED
    BY <2>2 DEF TimedIds
<1>10. QED
  BY <1>5, <1>6, <1>8, <1>9

LEMMA DismissKeeps ==
  ASSUME ToastsInv, NEW id, DismissToast(id)
  PROVE  ToastsInv'
<1>1. toasts \in Seq(Items) /\ Len(toasts) \in Nat /\ DOMAIN toasts = 1..Len(toasts)
  BY DEF ToastsInv
<1>2. CASE id \notin Listed
  <2>1. id \notin TimedIds(toasts)
    BY <1>1, <1>2 DEF Listed, TimedIds
  <2>2. QED
    BY <1>2, <2>1 DEF DismissToast, ToastsInv
<1>3. CASE id \in Listed
  <2> DEFINE i == CHOOSE k \in DOMAIN toasts : toasts[k].id = id
  <2>1. i \in 1..Len(toasts) /\ toasts[i].id = id
    BY <1>1, <1>3 DEF Listed
  <2>2. toasts' = RemoveAt(toasts, i) /\ timers' = timers \ {id} /\ made' = made
    BY <1>3 DEF DismissToast
  <2> HIDE DEF i
  <2>3. Without(toasts', toasts, i)
    BY <1>1, <2>1, <2>2, RemoveAtProperties DEF Without
  <2>4. /\ Ordered(toasts') /\ UpTo(toasts', made)
        /\ TimedIds(toasts') = TimedIds(toasts) \ {id}
    BY <1>1, <2>1, <2>3, WithoutProperties DEF ToastsInv
  <2>5. toasts' \in Seq(Items) /\ Len(toasts') <= MaxToasts
    BY <1>1, <2>3, ToastsAssumption DEF Without, ToastsInv
  <2>6. QED
    BY <2>2, <2>4, <2>5 DEF ToastsInv
<1>4. QED
  BY <1>2, <1>3

LEMMA AddKeeps ==
  ASSUME ToastsInv, NEW timed \in BOOLEAN, AddToast(timed)
  PROVE  ToastsInv'
<1> DEFINE item == [id |-> made + 1, timed |-> timed]
           next == Append(toasts, item)
           fresh == IF timed THEN {made + 1} ELSE {}
           over == IF Len(next) > MaxToasts THEN Len(next) - MaxToasts ELSE 0
<1>1. /\ toasts \in Seq(Items) /\ Len(toasts) \in Nat /\ made \in Nat
      /\ MaxToasts \in Nat \ {0} /\ Len(toasts) <= MaxToasts
      /\ UpTo(toasts, made) /\ Ordered(toasts) /\ timers = TimedIds(toasts)
  BY ToastsAssumption DEF ToastsInv
<1>2. item \in Items /\ item.id = made + 1 /\ item.timed = timed
  BY <1>1 DEF Items
<1>3. /\ made' = made + 1
      /\ toasts' = SubSeq(next, over + 1, Len(next))
      /\ timers' = (timers \ {next[k].id : k \in 1..over}) \cup fresh
  BY DEF AddToast
<1> HIDE DEF item
<1>4. /\ next \in Seq(Items) /\ Len(next) = Len(toasts) + 1
      /\ \A k \in 1..Len(toasts) : next[k] = toasts[k]
      /\ next[Len(toasts) + 1] = item
  BY <1>1, <1>2
<1> HIDE DEF next
<1>5. \A k \in 1..Len(toasts) : toasts[k].id \in Nat /\ toasts[k].id <= made
  <2>1. \A k \in 1..Len(toasts) : toasts[k] \in Items
    BY <1>1
  <2>2. QED
    BY <1>1, <2>1 DEF Items, UpTo
<1>6. ASSUME NEW k \in 1..Len(next)
      PROVE  (k \in 1..Len(toasts) /\ next[k] = toasts[k])
             \/ (k = Len(toasts) + 1 /\ next[k] = item)
  BY <1>1, <1>4
<1>7. UpTo(next, made + 1)
  BY <1>1, <1>2, <1>5, <1>6 DEF UpTo
<1>8. Ordered(next)
  <2> SUFFICES ASSUME NEW j \in 1..Len(next), NEW k \in 1..Len(next), j < k
               PROVE  next[j].id < next[k].id
    BY DEF Ordered
  <2>1. j \in 1..Len(toasts) /\ next[j] = toasts[j]
    BY <1>1, <1>4
  <2>2. CASE k \in 1..Len(toasts) /\ next[k] = toasts[k]
    BY <1>1, <2>1, <2>2 DEF Ordered
  <2>3. CASE next[k] = item
    BY <1>1, <1>2, <1>5, <2>1, <2>3
  <2>4. QED
    BY <1>6, <2>2, <2>3
<1>9. TimedIds(next) = timers \cup fresh
  <2>1. TimedIds(next) \subseteq timers \cup fresh
    BY <1>1, <1>2, <1>6 DEF TimedIds
  <2>2. timers \subseteq TimedIds(next)
    BY <1>1, <1>4 DEF TimedIds
  <2>3. fresh \subseteq TimedIds(next)
    BY <1>1, <1>2, <1>4 DEF TimedIds
  <2>4. QED
    BY <2>1, <2>2, <2>3
<1> HIDE DEF fresh
<1>10. CASE Len(next) <= MaxToasts
  <2>1. over = 0
    BY <1>1, <1>4, <1>10
  <2> HIDE DEF over
  <2>2. toasts' = next /\ timers' = timers \cup fresh
    <3>1. toasts' = SubSeq(next, 1, Len(next))
      BY <1>3, <2>1
    <3>2. SubSeq(next, 1, Len(next)) = next
      BY <1>1, <1>4
    <3>3. {next[k].id : k \in 1..over} = {}
      BY <2>1
    <3>4. QED
      BY <1>3, <3>1, <3>2, <3>3
  <2>3. /\ toasts' \in Seq(Items) /\ Ordered(toasts') /\ UpTo(toasts', made + 1)
        /\ Len(toasts') <= MaxToasts /\ timers' = TimedIds(toasts')
    BY <1>4, <1>7, <1>8, <1>9, <1>10, <2>2
  <2>4. made' = made + 1 /\ made' \in Nat
    BY <1>1, <1>3
  <2>5. QED
    BY <2>3, <2>4 DEF ToastsInv
<1>11. CASE Len(next) > MaxToasts
  <2>1. over = 1 /\ 1 \in 1..Len(next) /\ 1 \in 1..Len(toasts) /\ Len(next) - 1 = MaxToasts
    BY <1>1, <1>4, <1>11
  <2> HIDE DEF over
  <2>2. toasts' = SubSeq(next, 2, Len(next)) /\ timers' = (timers \ {next[1].id}) \cup fresh
    <3>1. {next[k].id : k \in 1..over} = {next[1].id}
      BY <2>1
    <3>2. QED
      BY <1>3, <2>1, <3>1
  <2>3. Without(toasts', next, 1)
    BY <1>1, <1>4, <2>1, <2>2 DEF Without
  <2>4. /\ Ordered(toasts') /\ UpTo(toasts', made + 1)
        /\ TimedIds(toasts') = TimedIds(next) \ {next[1].id}
    BY <1>1, <1>4, <1>7, <1>8, <2>1, <2>3, WithoutProperties
  <2>5. next[1].id \notin fresh
    BY <1>1, <1>4, <1>5, <2>1 DEF fresh
  <2>6. timers' = TimedIds(toasts')
    BY <1>9, <2>2, <2>4, <2>5
  <2>7. toasts' \in Seq(Items) /\ Len(toasts') <= MaxToasts
    BY <1>1, <1>4, <2>1, <2>3 DEF Without
  <2>8. QED
    BY <1>1, <1>3, <2>4, <2>6, <2>7 DEF ToastsInv
<1>12. QED
  BY <1>1, <1>4, <1>10, <1>11

LEMMA EmptyToasts ==
  /\ <<>> \in Seq(Items) /\ Len(<<>>) = 0
  /\ \A n : UpTo(<<>>, n)
  /\ Ordered(<<>>) /\ TimedIds(<<>>) = {}
BY DEF UpTo, Ordered, TimedIds

LEMMA ToastsStep ==
  ASSUME ToastsInv, [Next]_shellVars
  PROVE  ToastsInv'
<1>1. CASE UNCHANGED toastVars
  BY <1>1 DEF ToastsInv, toastVars
<1>2. ASSUME NEW timed \in BOOLEAN, AddToast(timed) PROVE ToastsInv'
  BY <1>2, AddKeeps
<1>3. CASE Dismissed
  BY <1>3, DismissKeeps DEF Dismissed, TimerFires, ClickDismiss
<1>4. CASE Forget
  BY <1>4, EmptyToasts, ToastsAssumption DEF Forget, ToastsInv
<1>5. CASE PaletteTogglesTheme \/ ClipboardAnswers
  BY <1>2, <1>5 DEF PaletteTogglesTheme, ClipboardAnswers
<1>6. CASE Notify
  BY <1>2, <1>6 DEF Notify
<1>7. CASE LoadTab
  BY <1>1, <1>4, <1>7 DEF LoadTab
<1>8. QED
  BY <1>1, <1>3, <1>5, <1>6, <1>7
     DEF Next, Layer, PaletteGoes, PaletteHelps, PaletteCopies, CopyCode, RouteChanges,
         ClickToggle, Turn, Hydrated, Hears, shellVars

\* The running timers are those of the listed items that asked for one, and
\* the list keeps the newest items in order: for every limit and whatever is
\* added, pushed out, clicked away, timed out or reloaded.
THEOREM ToastsCorrect == Spec => []TimersMatchToasts
<1>1. Init => ToastsInv
  BY EmptyToasts, ToastsAssumption DEF Init, ToastsInit, ToastsInv
<1>2. ToastsInv /\ [Next]_shellVars => ToastsInv'
  BY ToastsStep
<1>3. ToastsInv => TimersMatchToasts
  BY DEF ToastsInv, TimersMatchToasts, TimedIds, Ordered
<1>4. QED
  BY <1>1, <1>2, <1>3, PTL DEF Spec

---------------------------------------------------------------------------
(* The colour scheme. *)

ThemeTypes ==
  /\ storage \in Themes \cup {None} /\ os \in Schemes
  /\ phase \in [Tabs -> {"closed", "painted", "live"}]
  /\ theme \in [Tabs -> Themes]
  /\ resolved \in [Tabs -> Schemes] /\ paint \in [Tabs -> Schemes]
  /\ heard \in [Tabs -> Seq(Themes)] /\ crossed \in [Tabs -> BOOLEAN]
  /\ unsaved \in [Tabs -> BOOLEAN]

\* Between the inline script and the hydration the document has the scheme
\* that the stored preference resolves to, unless something was changed.
PaintedFresh ==
  \A t \in Tabs : phase[t] = "painted" /\ ~crossed[t] => paint[t] = Resolve(Stored)

ThemeInv == ThemeTypes /\ TabsAgree /\ PaintMatches /\ PaintedFresh

LEMMA Resolved ==
  ASSUME ThemeTypes
  PROVE  /\ \A th \in Themes : Resolve(th) \in Schemes
         /\ Stored \in Themes
         /\ \A t \in Tabs : theme[t] \in Themes
BY DEF ThemeTypes, Resolve, Stored, Themes, Schemes

LEMMA PaintKeeps ==
  ASSUME ThemeInv, NEW t \in Tabs, Paint(t)
  PROVE  ThemeInv'
<1>1. ThemeTypes'
  <2>1. Resolve(Stored) \in Schemes
    BY Resolved DEF ThemeInv
  <2>2. <<>> \in Seq(Themes)
    OBVIOUS
  <2>3. QED
    BY <2>1, <2>2 DEF ThemeInv, ThemeTypes, Paint, Themes, Schemes
<1>2. TabsAgree'
  BY DEF ThemeInv, ThemeTypes, TabsAgree, Paint, Stored
<1>3. PaintMatches'
  BY DEF ThemeInv, ThemeTypes, PaintMatches, Paint, Resolve
<1>4. PaintedFresh'
  BY DEF ThemeInv, ThemeTypes, PaintedFresh, Paint, Stored, Resolve
<1>5. QED
  BY <1>1, <1>2, <1>3, <1>4 DEF ThemeInv

LEMMA HydrateKeeps ==
  ASSUME ThemeInv, NEW t \in Tabs, Hydrate(t)
  PROVE  ThemeInv'
<1>1. ThemeTypes'
  <2>1. Stored \in Themes /\ Resolve(Stored) \in Schemes
    BY Resolved DEF ThemeInv
  <2>2. QED
    BY <2>1 DEF ThemeInv, ThemeTypes, Hydrate
<1>2. TabsAgree'
  BY DEF ThemeInv, ThemeTypes, TabsAgree, Hydrate, Stored
<1>3. PaintMatches'
  BY DEF ThemeInv, ThemeTypes, PaintMatches, PaintedFresh, Hydrate, Stored, Resolve
<1>4. PaintedFresh'
  BY DEF ThemeInv, ThemeTypes, PaintedFresh, Hydrate, Stored, Resolve
<1>5. QED
  BY <1>1, <1>2, <1>3, <1>4 DEF ThemeInv

\* Every other tab with a document is told of a new value, and one that is
\* told has something to hear until it has read the storage.
LEMMA SetThemeKeeps ==
  ASSUME ThemeInv, NEW t \in Tabs, NEW th \in Themes, SetTheme(t, th)
  PROVE  ThemeInv'
<1> DEFINE told == {u \in Tabs \ {t} : storage # th /\ phase[u] # "closed"}
<1>1. /\ phase[t] = "live" /\ phase' = phase /\ os' = os /\ storage' = th
      /\ theme' = [theme EXCEPT ![t] = th]
      /\ resolved' = [resolved EXCEPT ![t] = Resolve(th)]
      /\ paint' = [paint EXCEPT ![t] = Resolve(th)]
      /\ heard' = [u \in Tabs |-> IF u \in told THEN Append(heard[u], th) ELSE heard[u]]
      /\ crossed' = [u \in Tabs |-> /\ u # t
                                    /\ crossed[u] \/ (u \in told /\ phase[u] = "painted")]
      /\ unsaved' = [unsaved EXCEPT ![t] = FALSE]
  BY DEF SetTheme, Takes
<1>2. th # None /\ Stored' = th /\ Resolve(th)' = Resolve(th)
  BY <1>1, ThemeAssumption DEF Stored, Resolve
<1>3. ASSUME NEW u \in Tabs PROVE heard[u] \in Seq(Themes) /\ Append(heard[u], th) # <<>>
  <2>1. heard[u] \in Seq(Themes)
    BY DEF ThemeInv, ThemeTypes
  <2>2. QED
    BY <2>1
<1>4. ThemeTypes'
  <2>1. Resolve(th) \in Schemes
    BY Resolved DEF ThemeInv
  <2>2. /\ storage' \in Themes \cup {None} /\ os' \in Schemes
        /\ phase' \in [Tabs -> {"closed", "painted", "live"}]
        /\ theme' \in [Tabs -> Themes]
        /\ resolved' \in [Tabs -> Schemes] /\ paint' \in [Tabs -> Schemes]
    BY <1>1, <2>1 DEF ThemeInv, ThemeTypes
  <2>3. heard' \in [Tabs -> Seq(Themes)]
    <3>1. ASSUME NEW u \in Tabs PROVE Append(heard[u], th) \in Seq(Themes)
      BY <1>3
    <3>2. QED
      BY <1>1, <1>3, <3>1
  <2>4. crossed' \in [Tabs -> BOOLEAN] /\ unsaved' \in [Tabs -> BOOLEAN]
    BY <1>1 DEF ThemeInv, ThemeTypes
  <2>5. QED
    BY <2>2, <2>3, <2>4 DEF ThemeTypes
<1>5. TabsAgree'
  <2> SUFFICES ASSUME NEW u \in Tabs, phase[u] = "live", heard'[u] = <<>>, ~unsaved'[u]
               PROVE  theme'[u] = th
    BY <1>1, <1>2 DEF TabsAgree
  <2>1. CASE u = t
    BY <1>1, <2>1 DEF ThemeInv, ThemeTypes
  <2>2. CASE u # t
    <3>1. u \notin told
      BY <1>1, <1>3
    <3>2. storage = th /\ heard[u] = <<>>
      BY <1>1, <2>2, <3>1
    <3>3. theme[u] = th
      BY <1>1, <1>2, <2>2, <3>2, ThemeAssumption DEF ThemeInv, ThemeTypes, TabsAgree, Stored
    <3>4. QED
      BY <1>1, <2>2, <3>3 DEF ThemeInv, ThemeTypes
  <2>3. QED
    BY <2>1, <2>2
<1>6. PaintMatches'
  <2> SUFFICES ASSUME NEW u \in Tabs, phase[u] = "live", ~crossed'[u], ~unsaved'[u]
               PROVE  /\ paint'[u] = Resolve(theme'[u])
                      /\ resolved'[u] = Resolve(theme'[u])
    BY <1>1 DEF PaintMatches, Resolve
  <2>1. CASE u = t
    BY <1>1, <2>1 DEF ThemeInv, ThemeTypes
  <2>2. CASE u # t
    BY <1>1, <2>2 DEF ThemeInv, ThemeTypes, PaintMatches
  <2>3. QED
    BY <2>1, <2>2
<1>7. PaintedFresh'
  <2> SUFFICES ASSUME NEW u \in Tabs, phase[u] = "painted", ~crossed'[u]
               PROVE  paint'[u] = Resolve(th)
    BY <1>1, <1>2 DEF PaintedFresh, Resolve
  <2>1. u # t /\ u \notin told /\ ~crossed[u]
    BY <1>1
  <2>2. storage = th
    BY <2>1
  <2>3. QED
    BY <1>1, <2>1, <2>2, ThemeAssumption DEF ThemeInv, ThemeTypes, PaintedFresh, Stored
<1>8. QED
  BY <1>4, <1>5, <1>6, <1>7 DEF ThemeInv

\* What the storage refuses is the business of the tab that tried to write.
LEMMA SetThemeFailsKeeps ==
  ASSUME ThemeInv, NEW t \in Tabs, NEW th \in Themes, SetThemeFails(t, th)
  PROVE  ThemeInv'
<1>1. /\ theme' = [theme EXCEPT ![t] = th] /\ unsaved' = [unsaved EXCEPT ![t] = TRUE]
      /\ UNCHANGED <<storage, os, phase, resolved, paint, heard, crossed>>
  BY DEF SetThemeFails
<1>2. ThemeTypes'
  BY <1>1 DEF ThemeInv, ThemeTypes
<1>3. TabsAgree'
  BY <1>1 DEF ThemeInv, ThemeTypes, TabsAgree, Stored
<1>4. PaintMatches'
  BY <1>1 DEF ThemeInv, ThemeTypes, PaintMatches, Resolve
<1>5. PaintedFresh'
  BY <1>1 DEF ThemeInv, PaintedFresh, Resolve, Stored
<1>6. QED
  BY <1>2, <1>3, <1>4, <1>5 DEF ThemeInv

LEMMA HearKeeps ==
  ASSUME ThemeInv, NEW t \in Tabs, HearStorage(t)
  PROVE  ThemeInv'
<1>1. /\ heard' = [heard EXCEPT ![t] = Tail(@)]
      /\ storage' = storage /\ os' = os /\ phase' = phase
  BY DEF HearStorage
<1>2. ThemeTypes
  BY DEF ThemeInv
<1>3. heard' \in [Tabs -> Seq(Themes)]
  <2>1. heard[t] \in Seq(Themes) /\ heard[t] # <<>>
    BY <1>2 DEF ThemeTypes, HearStorage
  <2>2. Tail(heard[t]) \in Seq(Themes)
    BY <2>1
  <2>3. QED
    BY <1>1, <1>2, <2>2 DEF ThemeTypes
<1>4. Stored' = Stored /\ \A th : Resolve(th)' = Resolve(th)
  BY <1>1 DEF Stored, Resolve
<1>5. CASE phase[t] = "live"
  <2>1. /\ theme' = [theme EXCEPT ![t] = Stored]
        /\ resolved' = [resolved EXCEPT ![t] = Resolve(Stored)]
        /\ paint' = [paint EXCEPT ![t] = Resolve(Stored)]
        /\ crossed' = [crossed EXCEPT ![t] = FALSE]
        /\ unsaved' = [unsaved EXCEPT ![t] = FALSE]
    BY <1>5 DEF HearStorage, Takes
  <2>2. Stored \in Themes /\ Resolve(Stored) \in Schemes
    BY <1>2, Resolved
  <2>3. ThemeTypes'
    BY <1>1, <1>2, <1>3, <2>1, <2>2 DEF ThemeTypes
  <2>4. TabsAgree'
    BY <1>1, <1>2, <1>4, <2>1 DEF ThemeInv, ThemeTypes, TabsAgree
  <2>5. PaintMatches'
    BY <1>1, <1>2, <2>1 DEF ThemeInv, ThemeTypes, PaintMatches, Resolve
  <2>6. PaintedFresh'
    BY <1>1, <1>2, <1>4, <1>5, <2>1 DEF ThemeInv, ThemeTypes, PaintedFresh, Resolve
  <2>7. QED
    BY <2>3, <2>4, <2>5, <2>6 DEF ThemeInv
<1>6. CASE phase[t] # "live"
  <2>1. UNCHANGED <<theme, resolved, paint, crossed, unsaved>>
    BY <1>6 DEF HearStorage
  <2>2. ThemeTypes'
    BY <1>1, <1>2, <1>3, <2>1 DEF ThemeTypes
  <2>3. TabsAgree'
    BY <1>1, <1>2, <1>4, <1>6, <2>1 DEF ThemeInv, ThemeTypes, TabsAgree
  <2>4. PaintMatches' /\ PaintedFresh'
    BY <1>1, <2>1 DEF ThemeInv, PaintMatches, PaintedFresh, Resolve, Stored
  <2>5. QED
    BY <2>2, <2>3, <2>4 DEF ThemeInv
<1>7. QED
  BY <1>5, <1>6

LEMMA TurnKeeps ==
  ASSUME ThemeInv, SystemTurns
  PROVE  ThemeInv'
<1>1. /\ os' \in Schemes
      /\ resolved' = [t \in Tabs |-> IF Follows(t) THEN os' ELSE resolved[t]]
      /\ paint' = [t \in Tabs |-> IF Follows(t) THEN os' ELSE paint[t]]
      /\ crossed' = [t \in Tabs |-> (crossed[t] /\ ~Follows(t)) \/ phase[t] = "painted"]
      /\ UNCHANGED <<storage, phase, theme, heard, unsaved>>
  BY DEF SystemTurns
<1>2. ThemeTypes'
  BY <1>1 DEF ThemeInv, ThemeTypes
<1>3. TabsAgree'
  BY <1>1 DEF ThemeInv, TabsAgree, Stored
<1>4. PaintMatches'
  BY <1>1 DEF ThemeInv, ThemeTypes, PaintMatches, Follows, Resolve
<1>5. PaintedFresh'
  BY <1>1 DEF ThemeInv, PaintedFresh
<1>6. QED
  BY <1>2, <1>3, <1>4, <1>5 DEF ThemeInv

LEMMA ThemeStep ==
  ASSUME ThemeInv, [Next]_shellVars
  PROVE  ThemeInv'
<1>1. CASE UNCHANGED themeVars
  BY <1>1 DEF ThemeInv, ThemeTypes, TabsAgree, PaintMatches, PaintedFresh, Stored, Resolve,
              themeVars
<1>2. CASE PaletteTogglesTheme
  BY <1>2, SetThemeKeeps, ShellAssumption
     DEF PaletteTogglesTheme, ToggleTheme, Themes, Schemes
<1>3. CASE ClickToggle
  <2>1. PICK t \in Tabs : CycleTheme(t)
    BY <1>3 DEF ClickToggle
  <2>2. Next3[theme[t]] \in Themes
    BY Resolved DEF ThemeInv, Next3, Themes, Schemes
  <2>3. QED
    BY <2>1, <2>2, SetThemeKeeps, SetThemeFailsKeeps DEF CycleTheme
<1>4. CASE Turn
  BY <1>4, TurnKeeps DEF Turn
<1>5. CASE LoadTab
  BY <1>5, PaintKeeps DEF LoadTab
<1>6. CASE Hydrated
  BY <1>6, HydrateKeeps DEF Hydrated
<1>7. CASE Hears
  BY <1>7, HearKeeps DEF Hears
<1>8. QED
  BY <1>1, <1>2, <1>3, <1>4, <1>5, <1>6, <1>7
     DEF Next, Layer, PaletteGoes, PaletteHelps, PaletteCopies, CopyCode, ClipboardAnswers,
         Notify, Dismissed, RouteChanges, shellVars

LEMMA ThemeAlways == Spec => []ThemeInv
<1>1. Init => ThemeInv
  <2> SUFFICES ASSUME Init PROVE ThemeInv
    OBVIOUS
  <2>1. <<>> \in Seq(Themes)
    OBVIOUS
  <2>2. ThemeTypes
    BY <2>1 DEF Init, ThemeInit, ThemeTypes, Themes, Schemes
  <2>3. TabsAgree /\ PaintMatches /\ PaintedFresh
    BY DEF Init, ThemeInit, TabsAgree, PaintMatches, PaintedFresh
  <2>4. QED
    BY <2>2, <2>3 DEF ThemeInv
<1>2. ThemeInv /\ [Next]_shellVars => ThemeInv'
  BY ThemeStep
<1>3. QED
  BY <1>1, <1>2, PTL DEF Spec

\* A tab that has heard all it was told holds the stored preference, unless the
\* storage refused its own: for any number of tabs, in whatever order they write,
\* hear, load and hydrate.
THEOREM TabsCorrect == Spec => []TabsAgree
BY ThemeAlways, PTL DEF ThemeInv

\* A hydrated tab is painted as its own theme resolves, unless something
\* changed between its inline script and its hydration or the storage refused
\* what it took: for any number of tabs.
THEOREM PaintCorrect == Spec => []PaintMatches
BY ThemeAlways, PTL DEF ThemeInv
=============================================================================
