---------------------------- MODULE PlatformProofs ----------------------------
(***************************************************************************)
(* Proofs about the platforms, for any layers, sizes and bounds.           *)
(***************************************************************************)
EXTENDS MCPlatform, WellFoundedInduction, TLAPS

-----------------------------------------------------------------------------
(* WindowsCompositor. *)

Gates == [on : BOOLEAN, captured : WinSizes \cup {0, Nobody}]
Stacks == Seq(WinLayers)
Surface == [alive : BOOLEAN, inTree : BOOLEAN, content : BOOLEAN, popup : BOOLEAN,
            popupContent : BOOLEAN]
Surfaces == [WinLayers -> Surface]
Windows == [full : BOOLEAN, max : BOOLEAN, min : BOOLEAN, normal : Normal]
Remembered == [full : BOOLEAN, min : BOOLEAN, restore : BOOLEAN]
Hooked == [at : {"edge", "size"}, size : WinSizes, full : BOOLEAN, force : BOOLEAN]
Setting == [pc : {"idle", "begin", "send", "ingest"}, value : BOOLEAN,
            cycles : BOOLEAN, restore : BOOLEAN]
Settings == [Setters -> Setting]
Askable == SUBSET {"unminimize", "maximize"}

(* The types, by name: those of the surfaces, and those of the window.      *)
TreeTyped ==
  /\ live \in Stacks /\ order \in Stacks /\ bottom \in WinLayers \cup {Nobody}
  /\ wsurf \in Surfaces
GateTyped == gate \in Gates /\ known \in WinSizes \cup {0}
WindowTyped ==
  /\ win \in Windows /\ was \in Remembered /\ hook \in Hooked \cup {Nobody}
  /\ mpvFull \in BOOLEAN /\ asked \in Askable /\ ingested \in BOOLEAN /\ seen \in BOOLEAN
  /\ setter \in Settings /\ wishes \in 0..MaxWishes

(* The list of the live surfaces names those that were made and not freed,  *)
(* each once, and the restacked ones are among them.                        *)
ListsInv ==
  /\ IsInjective(live) /\ IsInjective(order)
  /\ ToSet(live) = {l \in WinLayers : wsurf[l].alive}
  /\ ToSet(order) \subseteq ToSet(live)

WinInv == TreeTyped /\ GateTyped /\ WindowTyped /\ ListsInv /\ BottomIsMain

(* What is in a list that follows another.                                  *)
LEMMA ConcatItems ==
  ASSUME NEW S, NEW s \in Seq(S), NEW t \in Seq(S)
  PROVE  /\ s \o t \in Seq(S) /\ Len(s \o t) = Len(s) + Len(t)
         /\ DOMAIN (s \o t) = 1..Len(s \o t)
         /\ \A i \in 1..Len(s \o t) : (s \o t)[i] = IF i <= Len(s) THEN s[i] ELSE t[i - Len(s)]
OBVIOUS

(* A list of surfaces without one of them.                                  *)
LEMMA RetainedOne ==
  ASSUME NEW s \in Stacks, NEW l \in WinLayers, IsInjective(s)
  PROVE  /\ Retained(s, l) \in Stacks /\ IsInjective(Retained(s, l))
         /\ ToSet(Retained(s, l)) = ToSet(s) \ {l}
         /\ s # <<>> /\ Head(s) # l => Head(Retained(s, l)) = Head(s)
<1>0. DOMAIN s = 1..Len(s) /\ Len(s) \in Nat
  BY DEF Stacks
<1>1. CASE l \in ToSet(s)
  <2> DEFINE i == CHOOSE i \in DOMAIN s : s[i] = l
             r == Retained(s, l)
             a == SubSeq(s, 1, i - 1)
             b == SubSeq(s, i + 1, Len(s))
  <2>1. i \in 1..Len(s) /\ s[i] = l
    BY <1>0, <1>1 DEF ToSet
  <2>2. r = a \o b
    BY <1>1 DEF Retained, RemoveAt
  <2> HIDE DEF i
  <2>3. /\ a \in Seq(WinLayers) /\ Len(a) = i - 1 /\ \A j \in 1..(i - 1) : a[j] = s[j]
    BY <2>1 DEF Stacks
  <2>4. /\ b \in Seq(WinLayers) /\ Len(b) = Len(s) - i
        /\ \A j \in 1..(Len(s) - i) : b[j] = s[i + j]
    BY <2>1 DEF Stacks
  <2> HIDE DEF a, b, r
  <2>5. /\ r \in Seq(WinLayers) /\ Len(r) = Len(s) - 1 /\ DOMAIN r = 1..Len(r)
        /\ \A j \in 1..Len(r) : r[j] = IF j <= Len(a) THEN a[j] ELSE b[j - Len(a)]
    <3>1. a \in Seq(WinLayers) /\ b \in Seq(WinLayers)
      BY <2>3, <2>4
    <3>2. /\ a \o b \in Seq(WinLayers) /\ Len(a \o b) = Len(a) + Len(b)
          /\ DOMAIN (a \o b) = 1..Len(a \o b)
          /\ \A j \in 1..Len(a \o b) :
               (a \o b)[j] = IF j <= Len(a) THEN a[j] ELSE b[j - Len(a)]
      BY <3>1, ConcatItems, ZenonT(60)
    <3>3. /\ r \in Seq(WinLayers) /\ Len(r) = Len(a) + Len(b) /\ DOMAIN r = 1..Len(r)
          /\ \A j \in 1..Len(r) : r[j] = IF j <= Len(a) THEN a[j] ELSE b[j - Len(a)]
      BY <2>2, <3>2, ZenonT(60)
    <3>4. Len(a) + Len(b) = Len(s) - 1
      BY <1>0, <2>1, <2>3, <2>4
    <3> QED
      BY <3>3, <3>4
  <2>6. ASSUME NEW j \in 1..Len(r) PROVE r[j] = IF j < i THEN s[j] ELSE s[j + 1]
    <3>1. CASE j < i
      BY <1>0, <2>1, <2>3, <2>5, <3>1
    <3>2. CASE ~(j < i)
      <4>1. /\ j - (i - 1) \in 1..(Len(s) - i) /\ i + (j - (i - 1)) = j + 1
            /\ ~(j <= i - 1)
        BY <1>0, <2>1, <2>5, <3>2
      <4> QED
        BY <2>3, <2>4, <2>5, <3>2, <4>1
    <3> QED
      BY <3>1, <3>2
  <2>7. IsInjective(r)
    <3>1. SUFFICES ASSUME NEW j \in 1..Len(r), NEW k \in 1..Len(r), r[j] = r[k] PROVE j = k
      BY <2>5 DEF IsInjective
    <3> DEFINE at(n) == IF n < i THEN n ELSE n + 1
    <3>2. at(j) \in 1..Len(s) /\ at(k) \in 1..Len(s)
      BY <1>0, <2>1, <2>5
    <3>3. s[at(j)] = s[at(k)]
      BY <2>6, <3>1
    <3>4. at(j) = at(k)
      BY <1>0, <3>2, <3>3 DEF IsInjective
    <3> QED
      BY <2>1, <3>4
  <2>8. ASSUME NEW m \in ToSet(r) PROVE m \in ToSet(s) \ {l}
    <3>1. PICK j \in 1..Len(r) : r[j] = m
      BY <2>5 DEF ToSet
    <3>2. PICK k \in 1..Len(s) : s[k] = m /\ k # i
      BY <1>0, <2>1, <2>5, <2>6, <3>1
    <3> QED
      BY <1>0, <2>1, <3>2 DEF ToSet, IsInjective
  <2>9. ASSUME NEW m \in ToSet(s) \ {l} PROVE m \in ToSet(r)
    <3>1. PICK k \in 1..Len(s) : s[k] = m
      BY <1>0, <2>9 DEF ToSet
    <3>2. PICK j \in 1..Len(r) : r[j] = m
      <4>1. CASE k < i
        <5>1. k \in 1..Len(r)
          BY <1>0, <2>1, <2>5, <4>1
        <5> QED
          BY <2>6, <3>1, <4>1, <5>1
      <4>2. CASE k > i
        <5>1. k - 1 \in 1..Len(r) /\ ~(k - 1 < i) /\ (k - 1) + 1 = k
          BY <1>0, <2>1, <2>5, <4>2
        <5> QED
          BY <2>6, <3>1, <5>1
      <4> QED
        BY <2>1, <2>9, <3>1, <4>1, <4>2
    <3> QED
      BY <2>5, <3>2 DEF ToSet
  <2>10. s # <<>> /\ Head(s) # l => Head(r) = Head(s)
    <3>1. SUFFICES ASSUME Head(s) # l PROVE Head(r) = Head(s)
      OBVIOUS
    <3>2. Head(s) = s[1]
      BY <1>0, <2>1 DEF Stacks
    <3>3. 1 < i /\ 1 \in 1..Len(r)
      BY <1>0, <2>1, <2>5, <3>1, <3>2
    <3>4. r[1] = s[1]
      BY <2>6, <3>3
    <3> QED
      BY <2>5, <3>2, <3>3, <3>4
  <2> QED
    BY <2>5, <2>7, <2>8, <2>9, <2>10 DEF Stacks, r
<1>2. CASE l \notin ToSet(s)
  BY <1>2 DEF Retained
<1> QED
  BY <1>1, <1>2

(* A list of surfaces with one more.                                        *)
LEMMA AppendedOne ==
  ASSUME NEW s \in Stacks, NEW l \in WinLayers, IsInjective(s), l \notin ToSet(s)
  PROVE  /\ Append(s, l) \in Stacks /\ IsInjective(Append(s, l)) /\ Append(s, l) # <<>>
         /\ ToSet(Append(s, l)) = ToSet(s) \cup {l}
<1> DEFINE r == Append(s, l)
<1>1. /\ r \in Seq(WinLayers) /\ Len(r) = Len(s) + 1 /\ r[Len(s) + 1] = l
      /\ \A i \in 1..Len(s) : r[i] = s[i]
      /\ Len(s) \in Nat /\ DOMAIN s = 1..Len(s) /\ DOMAIN r = 1..(Len(s) + 1)
  BY DEF Stacks
<1> HIDE DEF r
<1>2. ASSUME NEW i \in 1..Len(s) PROVE s[i] # l
  BY <1>1 DEF ToSet
<1>3. IsInjective(r)
  <2>1. SUFFICES ASSUME NEW i \in DOMAIN r, NEW j \in DOMAIN r, r[i] = r[j] PROVE i = j
    BY DEF IsInjective
  <2>2. (i \in 1..Len(s) \/ i = Len(s) + 1) /\ (j \in 1..Len(s) \/ j = Len(s) + 1)
    BY <1>1
  <2> QED
    BY <1>1, <1>2, <2>1, <2>2 DEF IsInjective
<1>4. ToSet(r) = ToSet(s) \cup {l}
  <2>1. DOMAIN r = DOMAIN s \cup {Len(s) + 1}
    BY <1>1
  <2>2. ASSUME NEW m \in ToSet(s) PROVE m \in ToSet(r)
    BY <1>1, <2>1 DEF ToSet
  <2>3. ASSUME NEW m \in ToSet(r) PROVE m \in ToSet(s) \/ m = l
    BY <1>1, <2>1 DEF ToSet
  <2>4. l \in ToSet(r)
    BY <1>1, <2>1 DEF ToSet
  <2> QED
    BY <2>2, <2>3, <2>4
<1> QED
  BY <1>1, <1>3, <1>4 DEF Stacks, r

(* The head of a list is in it, and only an empty one has nothing in it.    *)
LEMMA HeadInList ==
  ASSUME NEW s \in Stacks
  PROVE  /\ s # <<>> => Head(s) \in ToSet(s) /\ Head(s) \in WinLayers
         /\ s = <<>> <=> ToSet(s) = {}
BY DEF Stacks, ToSet

(* The registry is as good as it was where it and the life of the surfaces  *)
(* are.                                                                     *)
LEMMA ListsStay ==
  ASSUME WinInv, UNCHANGED <<live, order, bottom>>, wsurf' \in Surfaces,
         \A l \in WinLayers : wsurf'[l].alive = wsurf[l].alive
  PROVE  TreeTyped' /\ ListsInv' /\ BottomIsMain'
BY DEF WinInv, TreeTyped, ListsInv, BottomIsMain

(* Nothing of the window's side changes.                                    *)
LEMMA WindowStays ==
  ASSUME WinInv, UNCHANGED <<win, was, hook, wishes>>, UNCHANGED fullscreen
  PROVE  WindowTyped'
BY DEF WinInv, WindowTyped, fullscreen

(* One surface's record is replaced.                                        *)
LEMMA SurfaceReplaced ==
  ASSUME WinInv, NEW l \in WinLayers, NEW r \in Surface, wsurf' = [wsurf EXCEPT ![l] = r]
  PROVE  /\ wsurf' \in Surfaces /\ wsurf'[l] = r
         /\ \A m \in WinLayers : m # l => wsurf'[m] = wsurf[m]
BY DEF WinInv, TreeTyped, Surfaces

(* The content of one surface is taken away or given.                       *)
LEMMA ContentSet ==
  ASSUME WinInv, NEW l \in WinLayers, NEW b \in BOOLEAN,
         wsurf' = [wsurf EXCEPT ![l].content = b]
  PROVE  /\ wsurf' \in Surfaces /\ wsurf'[l].content = b
         /\ \A m \in WinLayers : wsurf'[m].alive = wsurf[m].alive
         /\ \A m \in WinLayers : m # l => wsurf'[m] = wsurf[m]
<1> DEFINE r == [wsurf[l] EXCEPT !.content = b]
<1>1. wsurf[l] \in Surface
  BY DEF WinInv, TreeTyped, Surfaces
<1>2. r \in Surface /\ r.content = b /\ r.alive = wsurf[l].alive
  BY <1>1 DEF Surface
<1>3. wsurf' = [wsurf EXCEPT ![l] = r]
  OBVIOUS
<1> HIDE DEF r
<1>4. /\ wsurf' \in Surfaces /\ wsurf'[l] = r
      /\ \A m \in WinLayers : m # l => wsurf'[m] = wsurf[m]
  BY <1>2, <1>3, SurfaceReplaced
<1>5. ASSUME NEW m \in WinLayers PROVE wsurf'[m].alive = wsurf[m].alive
  <2>1. CASE m = l
    BY <1>2, <1>4, <2>1
  <2>2. CASE m # l
    BY <1>4, <2>2
  <2> QED
    BY <2>1, <2>2
<1>6. wsurf'[l].content = b
  BY <1>2, <1>4
<1> QED
  BY <1>4, <1>5, <1>6

(* The gate stays in its type when it ends.                                 *)
LEMMA EndedTyped == Ended \in Gates
BY DEF Ended, Gates

(* begin_transition_locked leaves the registry as it was.                   *)
LEMMA BeginWinKeeps ==
  ASSUME WinInv, BeginWin, UNCHANGED <<live, order, bottom, known>>
  PROVE  TreeTyped' /\ GateTyped' /\ ListsInv' /\ BottomIsMain'
<1>1. gate' \in Gates
  <2>1. gate \in Gates /\ [on |-> TRUE, captured |-> known] \in Gates
    BY DEF WinInv, GateTyped, Gates
  <2> QED
    BY <2>1 DEF BeginWin
<1>2. wsurf' \in Surfaces /\ \A l \in WinLayers : wsurf'[l].alive = wsurf[l].alive
  <2>1. CASE gate.on \/ bottom = Nobody
    BY <2>1 DEF BeginWin, WinInv, TreeTyped
  <2>2. CASE ~(gate.on \/ bottom = Nobody)
    <3>1. bottom \in WinLayers
      BY <2>2 DEF WinInv, TreeTyped
    <3>2. wsurf' = [wsurf EXCEPT ![bottom].content = FALSE]
      BY <2>2 DEF BeginWin
    <3> QED
      BY <3>1, <3>2, ContentSet
  <2> QED
    BY <2>1, <2>2
<1>3. GateTyped'
  BY <1>1 DEF WinInv, GateTyped
<1> QED
  BY <1>2, <1>3, ListsStay

(* The surfaces are made, freed, restacked and presented.                   *)
LEMMA SurfacesKeep ==
  ASSUME WinInv, SurfaceAction
  PROVE  WinInv'
<1> USE DEF OutsideRegistry
<1>1. WindowTyped'
  BY WindowStays
     DEF SurfaceAction, AllocWin, FreeWin, ResizeFailsWin, PopupShowWin, PopupHideWin,
         PopupPresentWin, PresentWin, RestackWin
<1>2. GateTyped'
  BY EndedTyped
     DEF SurfaceAction, AllocWin, FreeWin, ResizeFailsWin, PopupShowWin, PopupHideWin,
         PopupPresentWin, PresentWin, RestackWin, WinInv, GateTyped
<1>3. SUFFICES TreeTyped' /\ ListsInv' /\ BottomIsMain'
  BY <1>1, <1>2 DEF WinInv
<1>4. /\ live \in Stacks /\ order \in Stacks /\ bottom \in WinLayers \cup {Nobody}
      /\ wsurf \in Surfaces /\ \A l \in WinLayers : wsurf[l] \in Surface
      /\ Nobody \notin WinLayers
  BY WinAssumption DEF WinInv, TreeTyped, Surfaces
<1>5. ASSUME NEW l \in WinLayers, AllocWin(l) PROVE TreeTyped' /\ ListsInv' /\ BottomIsMain'
  <2> DEFINE r == [NoSurfaceWin EXCEPT !.alive = TRUE, !.inTree = TRUE]
  <2>1. r \in Surface /\ r.alive
    BY DEF NoSurfaceWin, Surface
  <2>2. wsurf' = [wsurf EXCEPT ![l] = r]
    BY <1>5 DEF AllocWin
  <2> HIDE DEF r
  <2>3. /\ wsurf' \in Surfaces /\ wsurf'[l].alive
        /\ \A m \in WinLayers : m # l => wsurf'[m] = wsurf[m]
    BY <2>1, <2>2, SurfaceReplaced
  <2>4. l \notin ToSet(live) /\ IsInjective(live)
    BY <1>5 DEF AllocWin, WinInv, ListsInv
  <2>5. /\ live' \in Stacks /\ IsInjective(live') /\ live' # <<>>
        /\ ToSet(live') = ToSet(live) \cup {l} /\ order' = order
    BY <1>4, <1>5, <2>4, AppendedOne DEF AllocWin
  <2>6. TreeTyped'
    BY <1>4, <1>5, <2>3, <2>5 DEF TreeTyped, AllocWin
  <2>7. ListsInv'
    BY <2>3, <2>5 DEF WinInv, ListsInv
  <2>8. BottomIsMain'
    <3>1. order # <<>> => bottom = Head(order) /\ bottom # Nobody
      <4>1. order # <<>> => bottom = Head(order) /\ Head(order) \in WinLayers
        BY <1>4, HeadInList DEF WinInv, BottomIsMain
      <4> QED
        BY <4>1, <1>4
    <3>2. bottom' = IF bottom = Nobody THEN l ELSE bottom
      BY <1>5 DEF AllocWin
    <3>3. bottom # Nobody => bottom \in ToSet(live)
      BY DEF WinInv, BottomIsMain
    <3> QED
      BY <1>4, <2>5, <3>1, <3>2, <3>3 DEF BottomIsMain
  <2> QED
    BY <2>6, <2>7, <2>8
<1>6. ASSUME NEW l \in WinLayers, FreeWin(l) PROVE TreeTyped' /\ ListsInv' /\ BottomIsMain'
  <2>1. NoSurfaceWin \in Surface /\ ~NoSurfaceWin.alive
    BY DEF NoSurfaceWin, Surface
  <2>2. wsurf' = [wsurf EXCEPT ![l] = NoSurfaceWin]
    BY <1>6 DEF FreeWin
  <2>3. /\ wsurf' \in Surfaces /\ ~wsurf'[l].alive
        /\ \A m \in WinLayers : m # l => wsurf'[m] = wsurf[m]
    BY <2>1, <2>2, SurfaceReplaced
  <2>4. live' = Retained(live, l) /\ order' = Retained(order, l)
    BY <1>6 DEF FreeWin
  <2>5. IsInjective(live) /\ IsInjective(order) /\ ToSet(order) \subseteq ToSet(live)
    BY DEF WinInv, ListsInv
  <2>6. /\ live' \in Stacks /\ IsInjective(live') /\ ToSet(live') = ToSet(live) \ {l}
        /\ order' \in Stacks /\ IsInjective(order') /\ ToSet(order') = ToSet(order) \ {l}
    BY <1>4, <2>4, <2>5, RetainedOne
  <2>7. bottom' = IF bottom # l THEN bottom
                  ELSE IF order' # <<>> THEN Head(order')
                  ELSE IF live' # <<>> THEN Head(live') ELSE Nobody
    BY <1>6 DEF FreeWin
  <2>8. /\ order' # <<>> => Head(order') \in ToSet(order') /\ Head(order') \in WinLayers
        /\ live' # <<>> => Head(live') \in ToSet(live') /\ Head(live') \in WinLayers
        /\ live' = <<>> <=> ToSet(live') = {}
        /\ order' = <<>> <=> ToSet(order') = {}
    BY <2>6, HeadInList
  <2>9. TreeTyped'
    BY <1>4, <2>3, <2>6, <2>7, <2>8 DEF TreeTyped
  <2>10. ListsInv'
    BY <2>3, <2>5, <2>6 DEF WinInv, ListsInv
  <2>11. BottomIsMain'
    <3>1. /\ order # <<>> => bottom = Head(order)
          /\ bottom = Nobody <=> live = <<>>
          /\ bottom # Nobody => bottom \in ToSet(live)
      BY DEF WinInv, BottomIsMain
    <3>2. /\ order # <<>> => Head(order) \in ToSet(order)
          /\ live = <<>> <=> ToSet(live) = {}
          /\ order = <<>> <=> ToSet(order) = {}
      BY <1>4, HeadInList
    <3>3. CASE bottom # l
      <4>1. order' # <<>> => Head(order') = bottom
        <5>1. order' # <<>> => order # <<>>
          BY <2>6, <2>8, <3>2
        <5>2. order # <<>> => Head(order) # l
          BY <3>1, <3>3
        <5>3. order # <<>> => Head(order') = Head(order)
          BY <1>4, <2>4, <2>5, <5>2, RetainedOne
        <5> QED
          BY <3>1, <5>1, <5>3
      <4> QED
        BY <1>4, <2>6, <2>7, <2>8, <3>1, <3>2, <3>3, <4>1 DEF BottomIsMain
    <3>4. CASE bottom = l
      <4>1. ToSet(order') \subseteq ToSet(live')
        BY <2>5, <2>6
      <4> QED
        BY <1>4, <2>6, <2>7, <2>8, <3>4, <4>1 DEF BottomIsMain
    <3> QED
      BY <3>3, <3>4
  <2> QED
    BY <2>9, <2>10, <2>11
<1>7. ASSUME NEW entered \in SeqOf(WinLayers, Len(live)), RestackWin(entered)
      PROVE  TreeTyped' /\ ListsInv' /\ BottomIsMain'
  <2>1. entered \in Stacks
    BY DEF SeqOf, Stacks
  <2>2. /\ order' = entered /\ live' = live /\ IsInjective(entered)
        /\ ToSet(entered) \subseteq ToSet(live)
        /\ bottom' = IF entered = <<>> THEN bottom ELSE Head(entered)
        /\ wsurf' = [l \in WinLayers |-> [wsurf[l] EXCEPT !.inTree = l \in ToSet(entered)]]
    BY <1>7 DEF RestackWin
  <2>3. ASSUME NEW l \in WinLayers
        PROVE  wsurf'[l] \in Surface /\ wsurf'[l].alive = wsurf[l].alive
    <3>1. (l \in ToSet(entered)) \in BOOLEAN
      OBVIOUS
    <3>2. wsurf[l] \in Surface
      BY <1>4
    <3> QED
      BY <2>2, <3>1, <3>2 DEF Surface
  <2>4. wsurf' \in Surfaces
    BY <2>2, <2>3 DEF Surfaces
  <2>5. entered # <<>> => Head(entered) \in ToSet(entered) /\ Head(entered) \in WinLayers
    BY <2>1, HeadInList
  <2>6. TreeTyped'
    BY <1>4, <2>1, <2>2, <2>4, <2>5 DEF TreeTyped
  <2>7. ListsInv'
    BY <2>2, <2>3 DEF WinInv, ListsInv
  <2>8. BottomIsMain'
    <3>1. live = <<>> <=> ToSet(live) = {}
      BY <1>4, HeadInList
    <3> QED
      BY <1>4, <2>2, <2>5, <3>1 DEF WinInv, BottomIsMain
  <2> QED
    BY <2>6, <2>7, <2>8
<1>8. ASSUME NEW l \in WinLayers,
             ResizeFailsWin(l) \/ PopupShowWin(l) \/ PopupHideWin(l) \/ PopupPresentWin(l)
               \/ \E n \in WinSizes : PresentWin(l, n)
      PROVE  TreeTyped' /\ ListsInv' /\ BottomIsMain'
  <2>1. wsurf[l] \in Surface
    BY <1>4
  <2>2. wsurf' \in Surfaces /\ \A m \in WinLayers : wsurf'[m].alive = wsurf[m].alive
    <3>1. ASSUME NEW r \in Surface, r.alive = wsurf[l].alive, wsurf' = [wsurf EXCEPT ![l] = r]
          PROVE  wsurf' \in Surfaces /\ \A m \in WinLayers : wsurf'[m].alive = wsurf[m].alive
      <4>1. /\ wsurf' \in Surfaces /\ wsurf'[l] = r
            /\ \A m \in WinLayers : m # l => wsurf'[m] = wsurf[m]
        BY <3>1, SurfaceReplaced
      <4>2. ASSUME NEW m \in WinLayers PROVE wsurf'[m].alive = wsurf[m].alive
        BY <3>1, <4>1
      <4> QED
        BY <4>1, <4>2
    <3>2. CASE ResizeFailsWin(l) \/ \E n \in WinSizes : PresentWin(l, n)
      <4>1. wsurf' = wsurf \/ \E b \in BOOLEAN : wsurf' = [wsurf EXCEPT ![l].content = b]
        BY <3>2 DEF ResizeFailsWin, PresentWin
      <4> QED
        BY <1>4, <4>1, ContentSet
    <3>3. CASE PopupShowWin(l)
      <4> DEFINE r == [wsurf[l] EXCEPT !.popup = TRUE]
      <4>1. r \in Surface /\ r.alive = wsurf[l].alive
        BY <2>1 DEF Surface
      <4>2. wsurf' = [wsurf EXCEPT ![l] = r]
        BY <3>3 DEF PopupShowWin
      <4> QED
        BY <3>1, <4>1, <4>2
    <3>4. CASE PopupHideWin(l)
      <4> DEFINE r == [wsurf[l] EXCEPT !.popup = FALSE, !.popupContent = FALSE]
      <4>1. r \in Surface /\ r.alive = wsurf[l].alive
        BY <2>1 DEF Surface
      <4>2. wsurf' = [wsurf EXCEPT ![l] = r]
        BY <1>4, <3>4 DEF PopupHideWin, Surfaces
      <4> QED
        BY <3>1, <4>1, <4>2
    <3>5. CASE PopupPresentWin(l)
      <4> DEFINE r == [wsurf[l] EXCEPT !.popupContent = TRUE]
      <4>1. r \in Surface /\ r.alive = wsurf[l].alive
        BY <2>1 DEF Surface
      <4>2. wsurf' = [wsurf EXCEPT ![l] = r]
        BY <3>5 DEF PopupPresentWin
      <4> QED
        BY <3>1, <4>1, <4>2
    <3> QED
      BY <1>8, <3>2, <3>3, <3>4, <3>5
  <2>3. UNCHANGED <<live, order, bottom>>
    BY <1>8 DEF ResizeFailsWin, PopupShowWin, PopupHideWin, PopupPresentWin, PresentWin
  <2> QED
    BY <2>2, <2>3, ListsStay
<1> QED
  BY <1>5, <1>6, <1>7, <1>8 DEF SurfaceAction

(* One thread's place in win_set_fullscreen is replaced.                    *)
LEMMA SetterReplaced ==
  ASSUME WinInv, NEW t \in Setters, NEW r \in Setting
  PROVE  [setter EXCEPT ![t] = r] \in Settings
BY DEF WinInv, WindowTyped, Settings

(* What a setter may become.                                                *)
LEMMA SetterTyped ==
  ASSUME WinInv, NEW t \in Setters
  PROVE  /\ setter[t] \in Setting /\ was \in Remembered /\ win \in Windows
         /\ ingested \in BOOLEAN /\ mpvFull \in BOOLEAN
BY DEF WinInv, WindowTyped, Settings

(* A checked change leaves the types of the setter, the memory and the gate. *)
LEMMA CheckKeeps ==
  ASSUME WinInv, NEW t \in Setters, NEW v \in BOOLEAN, NEW c \in BOOLEAN,
         CheckFullscreen(t, v) \/ ChangeFullscreen(t, v, c)
  PROVE  setter' \in Settings /\ was' \in Remembered /\ gate' \in Gates
<1>1. /\ setter[t] \in Setting /\ was \in Remembered /\ win \in Windows
      /\ gate \in Gates /\ setter \in Settings
  BY SetterTyped DEF WinInv, GateTyped, WindowTyped
<1>2. ASSUME NEW d \in BOOLEAN, ChangeFullscreen(t, v, d)
      PROVE  setter' \in Settings /\ was' \in Remembered /\ gate' \in Gates
  <2> DEFINE r == [pc |-> "begin", value |-> v, cycles |-> d, restore |-> ~v /\ was.restore]
  <2>1. r \in Setting
    BY <1>1 DEF Setting, Remembered
  <2>2. setter' = [setter EXCEPT ![t] = r]
    BY <1>2 DEF ChangeFullscreen
  <2> HIDE DEF r
  <2>3. setter' \in Settings
    BY <2>1, <2>2, SetterReplaced
  <2>4. was' \in Remembered
    BY <1>1, <1>2 DEF ChangeFullscreen, Remembered, Windows
  <2> QED
    BY <1>1, <1>2, <2>3, <2>4 DEF ChangeFullscreen
<1>3. CASE CheckFullscreen(t, v) /\ v = ingested
  <2> DEFINE r == [setter[t] EXCEPT !.pc = SetterDone(t), !.value = v]
  <2>1. r \in Setting
    BY <1>1 DEF Setting, SetterDone
  <2>2. setter' = [setter EXCEPT ![t] = r]
    BY <1>1, <1>3 DEF CheckFullscreen, Settings
  <2> HIDE DEF r
  <2>3. setter' \in Settings
    BY <2>1, <2>2, SetterReplaced
  <2> QED
    BY <1>1, <1>3, <2>3, EndedTyped DEF CheckFullscreen
<1> QED
  BY <1>2, <1>3 DEF CheckFullscreen

(* The registry and the surfaces stay as they are.                          *)
LEMMA RegistryStays ==
  ASSUME WinInv, UNCHANGED registry
  PROVE  TreeTyped' /\ ListsInv' /\ BottomIsMain'
BY DEF registry, WinInv, TreeTyped, ListsInv, BottomIsMain

(* The fullscreen requests and the echoes of the property keep it all.      *)
LEMMA SettersKeep ==
  ASSUME WinInv, RequestFullscreen \/ SetterAction \/ EventAction
  PROVE  WinInv'
<1>1. /\ setter \in Settings /\ was \in Remembered /\ win \in Windows
      /\ hook \in Hooked \cup {Nobody} /\ mpvFull \in BOOLEAN /\ asked \in Askable
      /\ ingested \in BOOLEAN /\ seen \in BOOLEAN /\ wishes \in 0..MaxWishes
      /\ \A t \in Setters : setter[t] \in Setting
  BY DEF WinInv, WindowTyped, Settings
<1>2. gate \in Gates /\ known \in WinSizes \cup {0}
  BY DEF WinInv, GateTyped
<1>3. ASSUME NEW t \in Setters, NEW pc \in {"idle", "begin", "send", "ingest"}
      PROVE  [setter EXCEPT ![t].pc = pc] \in Settings
  <2>1. [setter[t] EXCEPT !.pc = pc] \in Setting
    BY <1>1 DEF Setting
  <2> QED
    BY <2>1, SetterReplaced
<1>4. CASE RequestFullscreen
  <2>1. UNCHANGED registry
    BY <1>4 DEF RequestFullscreen
  <2>2. "ui" \in Setters /\ (~ingested) \in BOOLEAN
    BY DEF Setters
  <2>3. \/ \E v \in BOOLEAN : CheckFullscreen("ui", v)
        \/ ChangeFullscreen("ui", ~ingested, TRUE)
    BY <1>4 DEF RequestFullscreen
  <2>4. setter' \in Settings /\ was' \in Remembered /\ gate' \in Gates
    BY <2>2, <2>3, CheckKeeps
  <2>5. WindowTyped'
    BY <1>1, <1>4, <2>4, WinAssumption DEF RequestFullscreen, WindowTyped
  <2>6. GateTyped'
    BY <1>2, <1>4, <2>4 DEF RequestFullscreen, GateTyped
  <2> QED
    BY <2>1, <2>5, <2>6, RegistryStays DEF WinInv
<1>5. ASSUME NEW t \in Setters, SetterBegins(t) PROVE WinInv'
  <2>1. setter' \in Settings
    BY <1>3, <1>5 DEF SetterBegins, SetterAt
  <2>2. WindowTyped'
    BY <1>1, <1>5, <2>1 DEF SetterBegins, WindowTyped
  <2>3. CASE win.min
    <3>1. UNCHANGED registry /\ UNCHANGED <<gate, known>>
      BY <1>5, <2>3 DEF SetterBegins, registry
    <3> QED
      BY <2>2, <3>1, <1>2, RegistryStays DEF WinInv, GateTyped
  <2>4. CASE ~win.min
    <3>1. BeginWin /\ UNCHANGED <<live, order, bottom, known>>
      BY <1>5, <2>4 DEF SetterBegins
    <3> QED
      BY <2>2, <3>1, BeginWinKeeps DEF WinInv
  <2> QED
    BY <2>3, <2>4
<1>6. ASSUME NEW t \in Setters, SetterSends(t) PROVE WinInv'
  <2> DEFINE r == [SetterIdle EXCEPT !.pc = SetterDone(t), !.value = setter[t].value]
  <2>1. r \in Setting
    BY <1>1 DEF SetterIdle, SetterDone, Setting
  <2>2. setter' = [setter EXCEPT ![t] = r]
    BY <1>6 DEF SetterSends
  <2> HIDE DEF r
  <2>3. setter' \in Settings
    BY <2>1, <2>2, SetterReplaced
  <2>4. mpvFull' \in BOOLEAN
    <3>1. setter[t].value \in BOOLEAN
      BY <1>1 DEF Setting
    <3>2. (~mpvFull) \in BOOLEAN
      OBVIOUS
    <3> QED
      BY <1>6, <3>1, <3>2 DEF SetterSends
  <2>5. asked' \in Askable
    BY <1>1, <1>6 DEF SetterSends, Askable
  <2>6. WindowTyped'
    BY <1>1, <1>6, <2>3, <2>4, <2>5 DEF SetterSends, OutsideRegistry, WindowTyped
  <2>7. UNCHANGED registry /\ GateTyped'
    BY <1>2, <1>6 DEF SetterSends, OutsideRegistry, GateTyped
  <2> QED
    BY <2>6, <2>7, RegistryStays DEF WinInv
<1>7. CASE TakeProperty
  <2>1. "events" \in Setters
    BY DEF Setters
  <2>2. CheckFullscreen("events", mpvFull)
    BY <1>7 DEF TakeProperty
  <2>3. setter' \in Settings /\ was' \in Remembered /\ gate' \in Gates
    BY <1>1, <2>1, <2>2, CheckKeeps
  <2>4. WindowTyped' /\ GateTyped' /\ UNCHANGED registry
    BY <1>1, <1>2, <1>7, <2>3 DEF TakeProperty, WindowTyped, GateTyped
  <2> QED
    BY <2>4, RegistryStays DEF WinInv
<1>8. CASE IngestProperty
  <2>1. "events" \in Setters /\ setter["events"] \in Setting
    BY <1>1 DEF Setters
  <2>2. setter' \in Settings
    BY <1>3, <1>8, <2>1 DEF IngestProperty, SetterAt
  <2>3. ingested' \in BOOLEAN
    BY <1>8, <2>1 DEF IngestProperty, Setting
  <2>4. WindowTyped' /\ GateTyped' /\ UNCHANGED registry
    BY <1>1, <1>2, <1>8, <2>2, <2>3 DEF IngestProperty, OutsideRegistry, WindowTyped, GateTyped
  <2> QED
    BY <2>4, RegistryStays DEF WinInv
<1> QED
  BY <1>4, <1>5, <1>6, <1>7, <1>8 DEF SetterAction, EventAction

(* Where the window moves, the thread of the hook hears of a client size.   *)
LEMMA WindowMoves ==
  ASSUME WinInv, NEW w \in Windows, WindowBecomes(w)
  PROVE  win' \in Windows /\ hook' \in Hooked \cup {Nobody} /\ was' \in Remembered
<1>1. was \in Remembered
  BY DEF WinInv, WindowTyped
<1>2. [was EXCEPT !.min = TRUE] \in Remembered
  BY <1>1 DEF Remembered
<1>3. [at |-> "edge", size |-> ClientSize(w), full |-> w.full, force |-> FALSE] \in Hooked
  BY DEF Hooked, ClientSize, WinSizes, Windows
<1> QED
  BY <1>1, <1>2, <1>3 DEF WindowBecomes

(* The window and its hook keep it all.                                     *)
LEMMA WindowKeeps ==
  ASSUME WinInv, WindowThread \/ WindowChanges
  PROVE  WinInv'
<1>1. /\ setter \in Settings /\ was \in Remembered /\ win \in Windows
      /\ hook \in Hooked \cup {Nobody} /\ mpvFull \in BOOLEAN /\ asked \in Askable
      /\ ingested \in BOOLEAN /\ seen \in BOOLEAN /\ wishes \in 0..MaxWishes
  BY DEF WinInv, WindowTyped
<1>2. gate \in Gates /\ known \in WinSizes \cup {0}
  BY DEF WinInv, GateTyped
<1>3. CASE MpvMovesWindow
  <2>1. /\ [win EXCEPT !.full = mpvFull] \in Windows /\ [win EXCEPT !.min = FALSE] \in Windows
        /\ [win EXCEPT !.max = TRUE] \in Windows
    BY <1>1 DEF Windows
  <2>2. \/ \E w \in Windows : WindowBecomes(w)
        \/ UNCHANGED <<win, hook, was>>
    BY <1>3, <2>1 DEF MpvMovesWindow
  <2>3. win' \in Windows /\ hook' \in Hooked \cup {Nobody} /\ was' \in Remembered
    BY <1>1, <2>2, WindowMoves
  <2>4. asked' \in Askable
    BY <1>1, <1>3 DEF MpvMovesWindow, Askable
  <2>5. WindowTyped' /\ GateTyped' /\ UNCHANGED registry
    BY <1>1, <1>2, <1>3, <2>3, <2>4 DEF MpvMovesWindow, WindowTyped, GateTyped
  <2> QED
    BY <2>5, RegistryStays DEF WinInv
<1>4. CASE WindowChanges
  <2>1. ASSUME NEW n \in Normal, NEW max \in BOOLEAN, NEW min \in BOOLEAN
        PROVE  [full |-> win.full, max |-> max, min |-> min, normal |-> n] \in Windows
    BY <1>1 DEF Windows
  <2>2. \/ \E w \in Windows : WindowBecomes(w) /\ UNCHANGED mpvFull
        \/ UNCHANGED <<win, hook, was>> /\ mpvFull' = ~mpvFull
    BY <1>4, <2>1 DEF WindowChanges
  <2>3. win' \in Windows /\ hook' \in Hooked \cup {Nobody} /\ was' \in Remembered
    BY <1>1, <2>2, WindowMoves
  <2>4. mpvFull' \in BOOLEAN
    BY <1>1, <2>2
  <2>5. WindowTyped' /\ GateTyped' /\ UNCHANGED registry
    BY <1>1, <1>2, <1>4, <2>3, <2>4, WinAssumption DEF WindowChanges, WindowTyped, GateTyped
  <2> QED
    BY <2>5, RegistryStays DEF WinInv
<1>5. CASE HookEdge
  <2>1. hook \in Hooked
    BY <1>1, <1>5 DEF HookEdge
  <2>2. hook' \in Hooked
    <3>1. ((hook.full # was.full) \/ was.min) \in BOOLEAN
      OBVIOUS
    <3> QED
      BY <1>5, <2>1, <3>1 DEF HookEdge, Hooked
  <2>3. was' \in Remembered
    BY <1>1, <1>5, <2>1 DEF HookEdge, Hooked, Remembered
  <2>4. WindowTyped'
    BY <1>1, <1>5, <2>2, <2>3 DEF HookEdge, fullscreen, WindowTyped
  <2>5. CASE hook.full # was.full /\ ~was.min
    <3>1. BeginWin /\ UNCHANGED <<live, order, bottom, known>>
      BY <1>5, <2>5 DEF HookEdge
    <3> QED
      BY <2>4, <3>1, BeginWinKeeps DEF WinInv
  <2>6. CASE ~(hook.full # was.full /\ ~was.min)
    <3>1. UNCHANGED registry /\ UNCHANGED <<gate, known>>
      BY <1>5, <2>6 DEF HookEdge, registry
    <3> QED
      BY <2>4, <3>1, <1>2, RegistryStays DEF WinInv, GateTyped
  <2> QED
    BY <2>5, <2>6
<1>6. CASE HookSize
  <2>1. hook \in Hooked
    BY <1>1, <1>6 DEF HookSize
  <2>2. GateTyped'
    BY <1>2, <1>6, <2>1, EndedTyped DEF HookSize, Hooked, GateTyped
  <2>3. WindowTyped' /\ UNCHANGED registry
    BY <1>1, <1>6 DEF HookSize, fullscreen, WindowTyped
  <2> QED
    BY <2>2, <2>3, RegistryStays DEF WinInv
<1> QED
  BY <1>3, <1>4, <1>5, <1>6 DEF WindowThread

(* Nothing lives when the window is made.                                   *)
LEMMA WinStarts ==
  ASSUME WinInit
  PROVE  WinInv
<1>1. <<>> \in Stacks /\ IsInjective(<<>>) /\ ToSet(<<>>) = {}
  BY DEF Stacks, IsInjective, ToSet
<1>2. wsurf \in Surfaces /\ \A l \in WinLayers : ~wsurf[l].alive
  BY DEF WinInit, NoSurfaceWin, Surfaces, Surface
<1>3. TreeTyped /\ ListsInv /\ BottomIsMain
  BY <1>1, <1>2 DEF WinInit, TreeTyped, ListsInv, BottomIsMain
<1>4. GateTyped
  BY EndedTyped DEF WinInit, GateTyped
<1>5. WindowTyped
  BY WinAssumption
     DEF WinInit, WindowTyped, Windows, Remembered, Settings, Setting, SetterIdle, Askable
<1> QED
  BY <1>3, <1>4, <1>5 DEF WinInv

(* Every step of the window and its surfaces keeps the invariant.           *)
LEMMA WinSteps ==
  ASSUME WinInv, [WinNext]_winVars
  PROVE  WinInv'
<1>1. CASE UNCHANGED winVars
  <2>1. UNCHANGED registry /\ WindowTyped' /\ GateTyped'
    BY <1>1 DEF winVars, registry, WinInv, WindowTyped, GateTyped
  <2> QED
    BY <2>1, RegistryStays DEF WinInv
<1> QED
  BY <1>1, SurfacesKeep, SettersKeep, WindowKeeps DEF WinNext

(* The types by name are those of the module.                               *)
LEMMA WinTypes == WinInv => WinTypeOK
BY DEF WinInv, TreeTyped, GateTyped, WindowTyped, WinTypeOK, Gates, Stacks, Surfaces, Surface,
       Windows, Remembered, Hooked, Settings, Setting, Askable

(* The window, its gate and its surfaces hold the values of their types.    *)
THEOREM WinTypeCorrect == WinSpec => []WinTypeOK
<1>1. WinSpec => WinInit /\ [][WinNext]_winVars
  BY DEF WinSpec
<1>2. WinInit => WinInv
  BY WinStarts
<1>3. WinInv /\ [WinNext]_winVars => WinInv'
  BY WinSteps
<1> QED
  BY <1>1, <1>2, <1>3, WinTypes, PTL

(* The main surface is the bottom-most one that is in the tree, and there   *)
(* is one as long as a surface lives, however surfaces are made, freed and  *)
(* restacked.                                                               *)
THEOREM BottomCorrect == WinSpec => []BottomIsMain
<1>1. WinSpec => WinInit /\ [][WinNext]_winVars
  BY DEF WinSpec
<1>2. WinInit => WinInv
  BY WinStarts
<1>3. WinInv /\ [WinNext]_winVars => WinInv'
  BY WinSteps
<1>4. WinInv => BottomIsMain
  BY DEF WinInv
<1> QED
  BY <1>1, <1>2, <1>3, <1>4, PTL

(* The gate lets the main surface get no frame: what it has while the gate  *)
(* is closed it had before, when it may not have been the main one.         *)
HidesMain == gate'.on /\ bottom' # Nobody /\ wsurf'[bottom'].content
               => gate.on /\ wsurf[bottom'].content

(* A step that gives no surface a frame and does not close the gate.        *)
LEMMA GivesNothing ==
  ASSUME WinInv, WinInv', gate' = gate \/ gate' = Ended,
         \A l \in WinLayers : wsurf'[l].content => wsurf[l].content
  PROVE  HidesMain
<1>1. bottom' \in WinLayers \cup {Nobody}
  BY DEF WinInv, TreeTyped
<1> QED
  BY <1>1 DEF HidesMain, Ended

(* begin_transition_locked closes the gate, and takes the content away.     *)
LEMMA BeginHides ==
  ASSUME WinInv, WinInv', BeginWin, bottom' = bottom
  PROVE  HidesMain
<1>1. CASE gate.on
  BY <1>1, GivesNothing DEF BeginWin
<1>2. CASE ~gate.on /\ bottom # Nobody
  <2>1. bottom \in WinLayers /\ wsurf' = [wsurf EXCEPT ![bottom].content = FALSE]
    BY <1>2 DEF BeginWin, WinInv, TreeTyped
  <2>2. ~wsurf'[bottom].content
    BY <2>1, ContentSet
  <2> QED
    BY <2>2 DEF HidesMain
<1>3. CASE bottom = Nobody
  BY <1>3 DEF HidesMain
<1> QED
  BY <1>1, <1>2, <1>3

(* Every step of the window and its surfaces keeps the main surface hidden  *)
(* while the gate is closed.                                                *)
LEMMA StepsHide ==
  ASSUME WinInv, [WinNext]_winVars
  PROVE  HidesMain
<1> USE DEF OutsideRegistry
<1>1. WinInv'
  BY WinSteps
<1>2. bottom \in WinLayers \cup {Nobody} /\ bottom' \in WinLayers \cup {Nobody}
  BY <1>1 DEF WinInv, TreeTyped
<1>3. wsurf \in Surfaces /\ \A l \in WinLayers : wsurf[l] \in Surface
  BY DEF WinInv, TreeTyped, Surfaces
<1>4. CASE gate' = gate /\ wsurf' = wsurf
  BY <1>1, <1>4, GivesNothing
<1>5. ASSUME NEW l \in WinLayers, AllocWin(l) \/ FreeWin(l) PROVE HidesMain
  <2>1. gate' = gate
    BY <1>5 DEF AllocWin, FreeWin
  <2>2. PICK r \in Surface : ~r.content /\ wsurf' = [wsurf EXCEPT ![l] = r]
    BY <1>5 DEF AllocWin, FreeWin, NoSurfaceWin, Surface
  <2>3. wsurf'[l] = r /\ \A m \in WinLayers : m # l => wsurf'[m] = wsurf[m]
    BY <2>2, SurfaceReplaced
  <2>4. ASSUME NEW m \in WinLayers, wsurf'[m].content PROVE wsurf[m].content
    BY <2>2, <2>3, <2>4
  <2> QED
    BY <1>1, <2>1, <2>4, GivesNothing
<1>6. ASSUME NEW l \in WinLayers, ResizeFailsWin(l) PROVE HidesMain
  <2>1. wsurf' = [wsurf EXCEPT ![l].content = FALSE] /\ gate' = gate
    BY <1>6 DEF ResizeFailsWin
  <2>2. ~wsurf'[l].content /\ \A m \in WinLayers : m # l => wsurf'[m] = wsurf[m]
    BY <2>1, ContentSet
  <2>3. ASSUME NEW m \in WinLayers, wsurf'[m].content PROVE wsurf[m].content
    BY <2>2, <2>3
  <2> QED
    BY <1>1, <2>1, <2>3, GivesNothing
<1>7. ASSUME NEW l \in WinLayers, PopupShowWin(l) \/ PopupHideWin(l) \/ PopupPresentWin(l)
      PROVE  HidesMain
  <2>1. gate' = gate
    BY <1>7 DEF PopupShowWin, PopupHideWin, PopupPresentWin
  <2>2. ASSUME NEW m \in WinLayers PROVE wsurf'[m].content = wsurf[m].content
    BY <1>3, <1>7 DEF PopupShowWin, PopupHideWin, PopupPresentWin, Surfaces, Surface
  <2>3. \A m \in WinLayers : wsurf'[m].content => wsurf[m].content
    BY <2>2
  <2> QED
    BY <1>1, <2>1, <2>3, GivesNothing
<1>8. ASSUME NEW entered, RestackWin(entered) PROVE HidesMain
  <2>1. gate' = gate
    BY <1>8 DEF RestackWin
  <2>2. ASSUME NEW m \in WinLayers PROVE wsurf'[m].content = wsurf[m].content
    <3>1. wsurf'[m] = [wsurf[m] EXCEPT !.inTree = m \in ToSet(entered)]
      BY <1>8 DEF RestackWin
    <3> QED
      BY <1>3, <3>1 DEF Surface
  <2>3. \A m \in WinLayers : wsurf'[m].content => wsurf[m].content
    BY <2>2
  <2> QED
    BY <1>1, <2>1, <2>3, GivesNothing
<1>9. ASSUME NEW l \in WinLayers, NEW n \in WinSizes, PresentWin(l, n) PROVE HidesMain
  <2>1. /\ gate' = IF l = bottom /\ gate.on THEN Ended ELSE gate
        /\ wsurf' = wsurf \/ wsurf' = [wsurf EXCEPT ![l].content = TRUE]
        /\ bottom' = bottom
    BY <1>9 DEF PresentWin
  <2>2. \A m \in WinLayers : m # l => wsurf'[m] = wsurf[m]
    BY <2>1, ContentSet
  <2>3. CASE l = bottom
    <3>1. ~gate'.on
      <4>1. gate.on \in BOOLEAN
        BY DEF WinInv, GateTyped, Gates
      <4> QED
        BY <2>1, <2>3, <4>1 DEF Ended
    <3> QED
      BY <3>1 DEF HidesMain
  <2>4. CASE l # bottom
    BY <1>2, <2>1, <2>2, <2>4 DEF HidesMain
  <2> QED
    BY <2>3, <2>4
<1>10. CASE RequestFullscreen \/ EventAction
  <2>1. wsurf' = wsurf /\ (gate' = gate \/ gate' = Ended)
    BY <1>10 DEF RequestFullscreen, EventAction, TakeProperty, IngestProperty, registry,
         CheckFullscreen, ChangeFullscreen
  <2> QED
    BY <1>1, <2>1, GivesNothing
<1>11. ASSUME NEW t \in Setters, SetterBegins(t) \/ SetterSends(t) PROVE HidesMain
  <2>1. (gate' = gate /\ wsurf' = wsurf) \/ (BeginWin /\ bottom' = bottom)
    BY <1>11 DEF SetterBegins, SetterSends, registry
  <2> QED
    BY <1>1, <1>4, <2>1, BeginHides
<1>12. CASE WindowThread
  <2>1. \/ wsurf' = wsurf /\ (gate' = gate \/ gate' = Ended)
        \/ BeginWin /\ bottom' = bottom
    BY <1>12 DEF WindowThread, MpvMovesWindow, HookEdge, HookSize, registry
  <2> QED
    BY <1>1, <2>1, BeginHides, GivesNothing
<1>13. CASE WindowChanges \/ UNCHANGED winVars
  <2>1. gate' = gate /\ wsurf' = wsurf
    BY <1>13 DEF WindowChanges, winVars, registry
  <2> QED
    BY <1>4, <2>1
<1> QED
  BY <1>5, <1>6, <1>7, <1>8, <1>9, <1>10, <1>11, <1>12, <1>13
     DEF WinNext, SurfaceAction, SetterAction

(* While the gate is closed the main surface gets no frame: one that shows  *)
(* a frame got it before it was the main surface.                           *)
THEOREM HiddenCorrect == WinSpec => MainStaysHidden
<1>1. WinSpec => WinInit /\ [][WinNext]_winVars
  BY DEF WinSpec
<1>2. WinInit => WinInv
  BY WinStarts
<1>3. WinInv /\ [WinNext]_winVars => WinInv'
  BY WinSteps
<1>4. WinInv /\ [WinNext]_winVars =>
        [gate'.on /\ bottom' # Nobody /\ wsurf'[bottom'].content
           => gate.on /\ wsurf[bottom'].content]_winVars
  BY StepsHide DEF HidesMain
<1> QED
  BY <1>1, <1>2, <1>3, <1>4, PTL DEF MainStaysHidden

-----------------------------------------------------------------------------
(* Menus. *)

Pointers == [down : SUBSET MenuButtons, mods : SUBSET MenuButtons,
             swallowed : SUBSET MenuButtons, seen : SUBSET MenuButtons]
Handlers == [at : {"idle", "pressed", "armed", "released", "dismissed"},
             button : MenuButtons \cup {NoMenu}, gen : Generations \cup {0}]
AnyMenu == [kind : {"context", "select"}, request : Requests \cup {0}, mapped : BOOLEAN]
OpenMenus == {m \in AnyMenu : m.kind = "context" => m.request \in Requests}
MenuIos == [phase : Phases, gen : Generations \cup {0}, menu : OpenMenus \cup {NoMenu}]
AnyCommand == [op : {"show", "reposition", "hide"}, gen : Generations \cup {0}]
Commanded == {c \in AnyCommand : c.op = "show" => c.gen \in Generations}
CommandQueues == Seq(Commanded)
Popups == [gen : Generations, due : Nat]
ResultQueues == Seq(Requests)
Answers == [Requests -> [how : {"none", "held", "cancelled", "result"}, by : Requests \cup {0}]]
Uses == [presses : 0..MaxPresses, menus : 0..MaxMenus, selects : 0..MaxSelects, closes : 0..1]

(* The types, by name.  A generation is given out for a press, a context    *)
(* menu or a drop-down; a menu that waits for its popup is there.           *)
InputTyped ==
  /\ pointer \in Pointers /\ handler \in Handlers
  /\ handler.at \in {"pressed", "armed"} => handler.gen \in Generations
PopupTyped ==
  /\ io \in MenuIos /\ (io.phase = "AwaitMenu" => io.menu \in OpenMenus)
  /\ active \in BOOLEAN /\ select \in {"closed", "open", "deactivated"} /\ commands \in CommandQueues
  /\ popup \in Popups \cup {NoMenu} /\ caller \in Commanded \cup {NoMenu}
  /\ results \in ResultQueues
AnswersTyped == owner \in Requests \cup {NoMenu} /\ pendingCb \in Requests \cup {NoMenu} /\ answer \in Answers
UsesTyped ==
  /\ used \in Uses /\ generation \in Nat
  /\ generation <= used.presses + used.menus + used.selects

(* While a request has the slot its callback is the one that is held.       *)
HeldInv == AnswersMatch /\ (owner # NoMenu => pendingCb = owner)

(* A press is on its way to CEF until the popup for it is armed.            *)
OnItsWay == handler.at \in {"pressed", "armed"}
PressInv ==
  /\ pointer.mods = pointer.seen /\ pointer.seen \cap pointer.swallowed = {}
  /\ ~OnItsWay => pointer.seen \cup pointer.swallowed = pointer.down
  /\ OnItsWay => /\ handler.button \notin pointer.seen \cup pointer.swallowed
                 /\ pointer.seen \cup pointer.swallowed \cup ToCef(handler.button) = pointer.down

MenusInv == InputTyped /\ PopupTyped /\ AnswersTyped /\ UsesTyped /\ HeldInv /\ PressInv

(* Generations and requests that are still to be given out.                 *)
LEMMA GivenOut ==
  ASSUME UsesTyped
  PROVE  /\ generation \in Generations \cup {0} /\ used.menus \in Nat
         /\ used.menus < MaxMenus => used.menus + 1 \in Requests
         /\ (used.presses < MaxPresses \/ used.menus < MaxMenus \/ used.selects < MaxSelects) =>
              generation + 1 \in Generations
<1>1. /\ used.presses \in 0..MaxPresses /\ used.menus \in 0..MaxMenus /\ used.selects \in 0..MaxSelects
      /\ MaxPresses \in Nat /\ MaxMenus \in Nat /\ MaxSelects \in Nat
      /\ generation \in Nat /\ generation <= used.presses + used.menus + used.selects
  BY MenusAssumption DEF UsesTyped, Uses
<1> QED
  BY <1>1 DEF Generations, Requests

(* A queue with one more, and one without its head.                         *)
LEMMA Queued ==
  ASSUME NEW S, NEW s \in Seq(S)
  PROVE  /\ \A e \in S : Append(s, e) \in Seq(S)
         /\ s # <<>> => Head(s) \in S /\ Tail(s) \in Seq(S)
OBVIOUS

(* Closing a menu posts its result, and leaves nothing of it.               *)
LEMMA Closes ==
  ASSUME MenusInv, Fire \/ results' = results, ClearMenu
  PROVE  /\ results' \in ResultQueues /\ active' \in BOOLEAN
         /\ io' \in MenuIos /\ (io'.phase = "AwaitMenu" => io'.menu \in OpenMenus)
<1>1. io' \in MenuIos /\ io'.phase # "AwaitMenu" /\ active' \in BOOLEAN
  BY DEF ClearMenu, NoMenuIo, MenuIos, Phases
<1>2. results' \in ResultQueues
  <2>1. results \in ResultQueues /\ io \in MenuIos
    BY DEF MenusInv, PopupTyped
  <2>2. CASE io.menu # NoMenu /\ io.menu.kind = "context" /\ Fire
    <3>1. io.menu \in OpenMenus
      BY <2>1, <2>2 DEF MenuIos
    <3>2. io.menu.request \in Requests
      BY <2>2, <3>1 DEF OpenMenus
    <3> QED
      BY <2>1, <2>2, <3>2, Queued DEF Fire, ResultQueues
  <2>3. CASE ~(io.menu # NoMenu /\ io.menu.kind = "context" /\ Fire)
    BY <2>1, <2>3 DEF Fire
  <2> QED
    BY <2>2, <2>3
<1> QED
  BY <1>1, <1>2

(* What a command is.                                                       *)
LEMMA CommandTyped ==
  /\ Command("hide", 0) \in Commanded /\ Command("reposition", 0) \in Commanded
  /\ \A g \in Generations : Command("show", g) \in Commanded
BY DEF Command, Commanded, AnyCommand

(* A command is queued.                                                     *)
LEMMA Enqueues ==
  ASSUME MenusInv, NEW c \in Commanded, Enqueue(c)
  PROVE  commands' \in CommandQueues
BY Queued DEF MenusInv, PopupTyped, CommandQueues, Enqueue

(* The popup's side stays as it is.                                         *)
LEMMA PopupStays ==
  ASSUME MenusInv, UNCHANGED <<io, active, commands, popup, caller, results, select>>
  PROVE  PopupTyped'
BY DEF MenusInv, PopupTyped

(* The answers stay as they are.                                            *)
LEMMA AnswersStay ==
  ASSUME MenusInv, UNCHANGED <<owner, pendingCb, answer>>
  PROVE  AnswersTyped' /\ HeldInv'
BY DEF MenusInv, AnswersTyped, HeldInv, AnswersMatch

(* The buttons and their handler stay as they are.                          *)
LEMMA InputStays ==
  ASSUME MenusInv, UNCHANGED <<pointer, handler>>
  PROVE  InputTyped' /\ PressInv'
BY DEF MenusInv, InputTyped, PressInv, OnItsWay

(* The bounds and the generations stay as they are.                         *)
LEMMA UsesStay ==
  ASSUME MenusInv, UNCHANGED <<used, generation>>
  PROVE  UsesTyped'
BY DEF MenusInv, UsesTyped

(* The presses and releases of a button.                                    *)
LEMMA ButtonsKeep ==
  ASSUME MenusInv, NEW b \in MenuButtons,
         PressOnMenu(b) \/ Press(b) \/ ReleaseOnMenu(b) \/ ReleaseSwallowed(b) \/ Release(b)
  PROVE  MenusInv'
<1>1. /\ pointer \in Pointers /\ handler \in Handlers /\ used \in Uses
      /\ pointer.mods = pointer.seen /\ pointer.seen \cap pointer.swallowed = {}
      /\ handler.at = "idle" => pointer.seen \cup pointer.swallowed = pointer.down
  BY DEF MenusInv, InputTyped, UsesTyped, PressInv, OnItsWay
<1>2. AnswersTyped' /\ HeldInv'
  BY AnswersStay DEF PressOnMenu, Press, ReleaseOnMenu, ReleaseSwallowed, Release
<1>3. CASE PressOnMenu(b)
  <2>1. PopupTyped'
    <3>1. CASE UNCHANGED <<io, active, commands, results>>
      BY <1>3, <3>1, PopupStays DEF PressOnMenu
    <3>2. CASE CloseMenu
      <4>1. commands' \in CommandQueues
        BY <3>2, Enqueues, CommandTyped DEF CloseMenu
      <4> QED
        BY <1>3, <3>2, <4>1, Closes DEF PressOnMenu, CloseMenu, MenusInv, PopupTyped
    <3> QED
      BY <1>3, <3>1, <3>2 DEF PressOnMenu
  <2>2. InputTyped' /\ PressInv'
    <3>1. pointer' = [pointer EXCEPT !.down = @ \cup {b}, !.swallowed = @ \cup {b}] /\ handler' = handler
      BY <1>3 DEF PressOnMenu
    <3>2. pointer' \in Pointers
      BY <1>1, <3>1 DEF Pointers
    <3> QED
      BY <1>1, <1>3, <3>1, <3>2 DEF PressOnMenu, InputTyped, PressInv, OnItsWay, Pointers
  <2>3. UsesTyped'
    BY <1>1, <1>3, MenusAssumption DEF PressOnMenu, MenusInv, UsesTyped, Uses
  <2> QED
    BY <1>2, <2>1, <2>2, <2>3 DEF MenusInv
<1>4. CASE Press(b)
  <2>1. PopupTyped'
    BY <1>4, PopupStays DEF Press
  <2>2. InputTyped' /\ PressInv'
    <3>1. /\ pointer' = [pointer EXCEPT !.down = @ \cup {b}] /\ b \notin pointer.down
          /\ handler' = [at |-> "pressed", button |-> b, gen |-> generation + 1]
          /\ handler.at = "idle"
      BY <1>4 DEF Press
    <3>2. pointer' \in Pointers
      BY <1>1, <3>1 DEF Pointers
    <3>3. generation + 1 \in Generations
      BY <1>4, GivenOut DEF Press, MenusInv
    <3>4. handler' \in Handlers /\ handler'.gen \in Generations
      BY <3>1, <3>3 DEF Handlers
    <3>5. ToCef(b) = {b}
      BY MenusAssumption DEF ToCef
    <3>6. PressInv'
      BY <1>1, <3>1, <3>5 DEF PressInv, OnItsWay, Pointers
    <3> QED
      BY <3>2, <3>4, <3>6 DEF InputTyped
  <2>3. UsesTyped'
    BY <1>1, <1>4, MenusAssumption DEF Press, MenusInv, UsesTyped, Uses
  <2> QED
    BY <1>2, <2>1, <2>2, <2>3 DEF MenusInv
<1>5. CASE ReleaseOnMenu(b) \/ ReleaseSwallowed(b) \/ Release(b)
  <2>1. PopupTyped' /\ UsesTyped'
    BY <1>5, PopupStays, UsesStay DEF ReleaseOnMenu, ReleaseSwallowed, Release
  <2>2. handler.at = "idle" /\ handler'.at \in {"idle", "released"} /\ handler' \in Handlers
    <3>1. handler' = handler \/ handler' = [handler EXCEPT !.at = "released"]
      BY <1>5 DEF ReleaseOnMenu, ReleaseSwallowed, Release
    <3>2. handler.at = "idle"
      BY <1>5 DEF ReleaseOnMenu, ReleaseSwallowed, Release
    <3> QED
      BY <1>1, <3>1, <3>2 DEF Handlers
  <2>3. /\ pointer' \in Pointers /\ pointer'.mods = pointer.mods \ {b}
        /\ pointer'.down = pointer.down \ {b}
        /\ pointer'.seen = pointer.seen \ {b} /\ pointer'.swallowed = pointer.swallowed \ {b}
    <3>1. CASE ReleaseOnMenu(b)
      <4>1. pointer' = [pointer EXCEPT !.down = @ \ {b}, !.mods = @ \ {b},
               !.seen = IF b \in pointer.mods THEN @ \ {b} ELSE @,
               !.swallowed = IF b \in pointer.mods THEN @ ELSE @ \ {b}]
        BY <3>1 DEF ReleaseOnMenu
      <4>2. CASE b \in pointer.mods
        <5>1. b \notin pointer.swallowed
          BY <1>1, <4>2
        <5> QED
          BY <1>1, <4>1, <4>2, <5>1 DEF Pointers
      <4>3. CASE b \notin pointer.mods
        <5>1. b \notin pointer.seen
          BY <1>1, <4>3
        <5> QED
          BY <1>1, <4>1, <4>3, <5>1 DEF Pointers
      <4> QED
        BY <4>2, <4>3
    <3>2. CASE ReleaseSwallowed(b)
      <4>1. pointer' = [pointer EXCEPT !.down = @ \ {b}, !.swallowed = @ \ {b}] /\ b \in pointer.swallowed
        BY <3>2 DEF ReleaseSwallowed
      <4>2. b \notin pointer.seen /\ b \notin pointer.mods
        BY <1>1, <4>1
      <4> QED
        BY <1>1, <4>1, <4>2 DEF Pointers
    <3>3. CASE Release(b)
      <4>1. /\ pointer' = [pointer EXCEPT !.down = @ \ {b}, !.mods = @ \ {b}, !.seen = @ \ {b}]
            /\ b \notin pointer.swallowed
        BY <3>3 DEF Release
      <4> QED
        BY <1>1, <4>1 DEF Pointers
    <3> QED
      BY <1>5, <3>1, <3>2, <3>3
  <2>4. InputTyped' /\ PressInv'
    BY <1>1, <2>2, <2>3 DEF InputTyped, PressInv, OnItsWay
  <2> QED
    BY <1>2, <2>1, <2>4 DEF MenusInv
<1> QED
  BY <1>3, <1>4, <1>5


(* The popup a press arms, and its end when no menu came of it.             *)
LEMMA ArmingKeeps ==
  ASSUME MenusInv,
         PressMenuKey \/ Arm \/ ArmShow \/ DismissIfSpeculative \/ DismissHide \/ KeyClosesMenu
  PROVE  MenusInv'
<1>1. /\ pointer \in Pointers /\ handler \in Handlers /\ used \in Uses
      /\ pointer.mods = pointer.seen /\ pointer.seen \cap pointer.swallowed = {}
      /\ ~OnItsWay => pointer.seen \cup pointer.swallowed = pointer.down
      /\ OnItsWay => /\ handler.gen \in Generations
                     /\ handler.button \notin pointer.seen \cup pointer.swallowed
                     /\ pointer.seen \cup pointer.swallowed \cup ToCef(handler.button) = pointer.down
  BY DEF MenusInv, InputTyped, UsesTyped, PressInv, OnItsWay
<1>2. AnswersTyped' /\ HeldInv'
  BY AnswersStay DEF PressMenuKey, Arm, ArmShow, DismissIfSpeculative, DismissHide, KeyClosesMenu
<1>3. HandlerIdle \in Handlers /\ HandlerIdle.at = "idle"
  BY DEF HandlerIdle, Handlers
<1>4. CASE PressMenuKey
  <2>1. PopupTyped'
    BY <1>4, PopupStays DEF PressMenuKey
  <2>2. handler' = [at |-> "pressed", button |-> NoMenu, gen |-> generation + 1] /\ pointer' = pointer
    BY <1>4 DEF PressMenuKey
  <2>3. generation + 1 \in Generations
    BY <1>4, GivenOut DEF PressMenuKey, MenusInv
  <2>4. InputTyped'
    BY <1>1, <2>2, <2>3 DEF InputTyped, Handlers
  <2>5. PressInv'
    <3>1. ToCef(NoMenu) = {} /\ NoMenu \notin pointer.seen \cup pointer.swallowed
      BY <1>1, MenusAssumption DEF ToCef, Pointers
    <3>2. pointer.seen \cup pointer.swallowed = pointer.down
      BY <1>1, <1>4 DEF PressMenuKey, OnItsWay
    <3> QED
      BY <1>1, <2>2, <3>1, <3>2 DEF PressInv, OnItsWay
  <2>6. UsesTyped'
    BY <1>1, <1>4, MenusAssumption DEF PressMenuKey, MenusInv, UsesTyped, Uses
  <2> QED
    BY <1>2, <2>1, <2>4, <2>5, <2>6 DEF MenusInv
<1>5. CASE Arm
  <2>1. io' = [phase |-> "AwaitPlaceholder", gen |-> handler.gen, menu |-> NoMenu] /\ active' = FALSE
    BY <1>5 DEF Arm
  <2>2. io' \in MenuIos /\ io'.phase # "AwaitMenu"
    BY <1>1, <2>1 DEF Handlers, MenuIos, Phases
  <2>3. PopupTyped'
    BY <1>5, <2>1, <2>2 DEF Arm, MenusInv, PopupTyped
  <2>4. /\ handler.at = "pressed" /\ handler' = [handler EXCEPT !.at = "armed"]
        /\ pointer' = pointer
    BY <1>5 DEF Arm
  <2>5. /\ handler' \in Handlers /\ handler'.at = "armed" /\ handler'.button = handler.button
        /\ handler'.gen = handler.gen
    BY <1>1, <2>4 DEF Handlers
  <2>6. InputTyped' /\ PressInv'
    BY <1>1, <2>4, <2>5 DEF InputTyped, PressInv, OnItsWay
  <2>7. UsesTyped'
    BY <1>5, UsesStay DEF Arm
  <2> QED
    BY <1>2, <2>3, <2>6, <2>7 DEF MenusInv
<1>6. CASE ArmShow
  <2>1. handler.at = "armed" /\ handler.gen \in Generations
    BY <1>1, <1>6 DEF ArmShow, OnItsWay
  <2>2. commands' \in CommandQueues
    BY <1>6, <2>1, CommandTyped, Enqueues DEF ArmShow
  <2>3. PopupTyped'
    BY <1>6, <2>2 DEF ArmShow, MenusInv, PopupTyped
  <2>4. /\ pointer' = [pointer EXCEPT !.mods = @ \cup ToCef(handler.button),
                                      !.seen = @ \cup ToCef(handler.button)]
        /\ handler' = HandlerIdle
    BY <1>6 DEF ArmShow
  <2>5. ToCef(handler.button) \subseteq MenuButtons /\ ToCef(handler.button) \subseteq {handler.button}
    BY <1>1 DEF ToCef, Handlers
  <2>6. pointer' \in Pointers
    BY <1>1, <2>4, <2>5 DEF Pointers
  <2>7. /\ pointer'.mods = pointer'.seen /\ pointer'.swallowed = pointer.swallowed
        /\ pointer'.seen = pointer.seen \cup ToCef(handler.button) /\ pointer'.down = pointer.down
    BY <1>1, <2>4 DEF Pointers
  <2>8. handler.button \notin pointer.swallowed
    BY <1>1, <2>1 DEF OnItsWay
  <2>9. pointer.seen \cup pointer.swallowed \cup ToCef(handler.button) = pointer.down
    BY <1>1, <2>1 DEF OnItsWay
  <2>10. InputTyped' /\ PressInv'
    BY <1>1, <1>3, <2>4, <2>5, <2>6, <2>7, <2>8, <2>9 DEF InputTyped, PressInv, OnItsWay
  <2>11. UsesTyped'
    BY <1>6, UsesStay DEF ArmShow
  <2> QED
    BY <1>2, <2>3, <2>10, <2>11 DEF MenusInv
<1>7. CASE DismissIfSpeculative
  <2>1. PopupTyped'
    <3>1. CASE UNCHANGED <<io, active>>
      BY <1>7, <3>1, PopupStays DEF DismissIfSpeculative
    <3>2. CASE ClearMenu
      BY <1>7, <3>2, Closes DEF DismissIfSpeculative, MenusInv, PopupTyped
    <3> QED
      BY <1>7, <3>1, <3>2 DEF DismissIfSpeculative
  <2>2. handler.at = "released" /\ handler' \in Handlers /\ handler'.at \in {"idle", "dismissed"}
    <3>1. handler' = HandlerIdle \/ handler' = [handler EXCEPT !.at = "dismissed"]
      BY <1>7 DEF DismissIfSpeculative
    <3> QED
      BY <1>1, <1>3, <1>7, <3>1 DEF DismissIfSpeculative, Handlers
  <2>3. InputTyped' /\ PressInv'
    BY <1>1, <1>7, <2>2 DEF DismissIfSpeculative, InputTyped, PressInv, OnItsWay
  <2>4. UsesTyped'
    BY <1>7, UsesStay DEF DismissIfSpeculative
  <2> QED
    BY <1>2, <2>1, <2>3, <2>4 DEF MenusInv
<1>8. CASE DismissHide
  <2>1. commands' \in CommandQueues
    BY <1>8, CommandTyped, Enqueues DEF DismissHide
  <2>2. PopupTyped'
    BY <1>8, <2>1 DEF DismissHide, MenusInv, PopupTyped
  <2>3. handler.at = "dismissed" /\ handler' = HandlerIdle /\ pointer' = pointer
    BY <1>8 DEF DismissHide
  <2>4. InputTyped' /\ PressInv'
    BY <1>1, <1>3, <2>3 DEF InputTyped, PressInv, OnItsWay
  <2>5. UsesTyped'
    BY <1>8, UsesStay DEF DismissHide
  <2> QED
    BY <1>2, <2>2, <2>4, <2>5 DEF MenusInv
<1>9. CASE KeyClosesMenu
  <2>1. CloseMenu
    BY <1>9 DEF KeyClosesMenu
  <2>2. commands' \in CommandQueues
    BY <2>1, Enqueues, CommandTyped DEF CloseMenu
  <2>3. PopupTyped'
    BY <1>9, <2>1, <2>2, Closes DEF KeyClosesMenu, CloseMenu, MenusInv, PopupTyped
  <2>4. InputTyped' /\ PressInv' /\ UsesTyped'
    BY <1>9, InputStays, UsesStay DEF KeyClosesMenu
  <2> QED
    BY <1>2, <2>3, <2>4 DEF MenusInv
<1> QED
  BY <1>4, <1>5, <1>6, <1>7, <1>8, <1>9

(* A menu is shown, whatever phase it finds.                                *)
LEMMA ShownMenu ==
  ASSUME MenusInv, NEW k \in {"context", "select"}, NEW r \in Requests \cup {0},
         k = "context" => r \in Requests, generation + 1 \in Generations,
         caller = NoMenu, ShowMenu(k, r)
  PROVE  /\ io' \in MenuIos /\ (io'.phase = "AwaitMenu" => io'.menu \in OpenMenus)
         /\ active' \in BOOLEAN /\ caller' \in Commanded \cup {NoMenu}
         /\ generation' \in {generation, generation + 1}
<1>1. io \in MenuIos /\ active \in BOOLEAN /\ caller \in Commanded \cup {NoMenu}
  BY DEF MenusInv, PopupTyped
<1>2. MenuOf(k, r, FALSE) \in OpenMenus /\ MenuOf(k, r, TRUE) \in OpenMenus
  BY DEF MenuOf, OpenMenus, AnyMenu
<1>3. ASSUME NEW m \in OpenMenus
      PROVE  /\ Begun(m) \in MenuIos /\ Begun(m).menu = m
             /\ [io EXCEPT !.menu = m] \in MenuIos /\ [io EXCEPT !.menu = m].menu = m
             /\ \A g \in Generations :
                  /\ [phase |-> "AwaitMenu", gen |-> g, menu |-> m] \in MenuIos
                  /\ [phase |-> "AwaitMenu", gen |-> g, menu |-> m].menu = m
  BY <1>1 DEF Begun, MenuIos, Phases
<1>4. io.phase \in Phases
  BY <1>1 DEF MenuIos
<1>5. CASE io.phase = "Placeholder"
  <2>1. io' = Begun(MenuOf(k, r, FALSE)) /\ active' = TRUE /\ caller' = Command("reposition", 0)
        /\ generation' = generation
    BY <1>5 DEF ShowMenu
  <2> QED
    BY <1>2, <1>3, <2>1, CommandTyped
<1>6. CASE io.phase \in {"AwaitPlaceholder", "AwaitMenu"}
  <2>1. io' = [io EXCEPT !.menu = MenuOf(k, r, FALSE)] /\ UNCHANGED <<active, caller, generation>>
    BY <1>6 DEF ShowMenu
  <2> QED
    BY <1>1, <1>2, <1>3, <2>1
<1>7. CASE io.phase = "Idle"
  <2>1. /\ io' = [phase |-> "AwaitMenu", gen |-> generation + 1, menu |-> MenuOf(k, r, FALSE)]
        /\ generation' = generation + 1 /\ caller' = Command("show", generation + 1)
        /\ active' = active
    BY <1>7 DEF ShowMenu
  <2> QED
    BY <1>1, <1>2, <1>3, <2>1, CommandTyped
<1>8. CASE io.phase = "Shown"
  <2>1. io' = [io EXCEPT !.menu = MenuOf(k, r, TRUE)] /\ caller' = Command("reposition", 0)
        /\ UNCHANGED <<active, generation>>
    BY <1>8 DEF ShowMenu
  <2> QED
    BY <1>1, <1>2, <1>3, <2>1, CommandTyped
<1> QED
  BY <1>4, <1>5, <1>6, <1>7, <1>8 DEF Phases

(* CEF's UI thread keeps it all.                                            *)
LEMMA UiThreadKeeps ==
  ASSUME MenusInv, UiThread
  PROVE  MenusInv'
<1>1. /\ owner \in Requests \cup {NoMenu} /\ pendingCb \in Requests \cup {NoMenu}
      /\ answer \in Answers /\ used \in Uses /\ AnswersMatch
      /\ owner # NoMenu => pendingCb = owner
      /\ MaxMenus \in Nat /\ MaxSelects \in Nat /\ MaxPresses \in Nat
      /\ \A r \in Requests : r # NoMenu
  BY MenusAssumption DEF MenusInv, AnswersTyped, UsesTyped, HeldInv, Requests
<1>2. InputTyped' /\ PressInv'
  BY InputStays DEF UiThread, RunContextMenu, RefuseContextMenu, ShowSelect, HideSelect,
     DeactivateSelect, HideDropDown, QueueCall, DispatchMenuResult, CloseAllMenus
<1>3. CASE RunContextMenu
  <2> DEFINE r == used.menus + 1
  <2>1. r \in Requests /\ generation + 1 \in Generations
    BY <1>3, GivenOut DEF RunContextMenu, NextRequest, MenusInv
  <2>2. /\ owner' = r /\ StorePending(r) /\ used' = [used EXCEPT !.menus = r]
        /\ ShowMenu("context", r) /\ caller = NoMenu /\ used.menus < MaxMenus
        /\ UNCHANGED <<commands, popup, results, select>>
    BY <1>3 DEF RunContextMenu, NextRequest
  <2>3. UsesTyped'
    <3>1. generation' \in {generation, generation + 1}
      BY <2>1, <2>2, ShownMenu
    <3>2. /\ used.presses \in Nat /\ used.menus \in 0..MaxMenus /\ used.selects \in Nat
          /\ used' \in Uses /\ used'.presses = used.presses /\ used'.selects = used.selects
          /\ used'.menus = used.menus + 1
      BY <1>1, <2>2 DEF Uses
    <3>3. generation \in Nat /\ generation <= used.presses + used.menus + used.selects
      BY DEF MenusInv, UsesTyped
    <3> QED
      BY <3>1, <3>2, <3>3 DEF UsesTyped
  <2>4. PopupTyped'
    BY <2>1, <2>2, ShownMenu DEF MenusInv, PopupTyped
  <2> HIDE DEF r
  <2>5. pendingCb' = r /\ answer' = [q \in Requests |-> CASE q = r -> Answer("held", 0)
                                       [] q = pendingCb -> Answer("cancelled", 0)
                                       [] OTHER -> answer[q]]
    BY <2>2 DEF StorePending
  <2>6. ASSUME NEW q \in Requests
        PROVE  /\ answer'[q] \in [how : {"none", "held", "cancelled", "result"}, by : Requests \cup {0}]
               /\ answer'[q].how = "held" => pendingCb' = q
               /\ answer'[q].how = "result" => answer'[q].by = q
    <3>1. answer[q] \in [how : {"none", "held", "cancelled", "result"}, by : Requests \cup {0}]
      BY <1>1 DEF Answers
    <3>2. CASE q = r
      BY <2>5, <3>2 DEF Answer
    <3>3. CASE q # r /\ q = pendingCb
      BY <2>5, <3>3 DEF Answer
    <3>4. CASE q # r /\ q # pendingCb
      <4>1. answer'[q] = answer[q]
        BY <2>5, <3>4
      <4> QED
        BY <1>1, <3>1, <3>4, <4>1 DEF AnswersMatch
    <3> QED
      BY <3>2, <3>3, <3>4
  <2>7. AnswersTyped' /\ HeldInv'
    BY <2>1, <2>2, <2>5, <2>6 DEF AnswersTyped, HeldInv, AnswersMatch, Answers
  <2> QED
    BY <1>2, <2>3, <2>4, <2>7 DEF MenusInv
<1>4. CASE RefuseContextMenu
  <2> DEFINE r == used.menus + 1
  <2>1. r \in Requests
    BY <1>4, GivenOut DEF RefuseContextMenu, NextRequest, MenusInv
  <2>2. /\ answer' = [answer EXCEPT ![r] = Answer("cancelled", 0)]
        /\ used' = [used EXCEPT !.menus = r] /\ used.menus < MaxMenus
        /\ UNCHANGED <<pendingCb, owner, generation>>
    BY <1>4 DEF RefuseContextMenu, NextRequest
  <2>3. PopupTyped'
    BY <1>4, PopupStays DEF RefuseContextMenu
  <2>4. UsesTyped'
    BY <1>1, <2>2 DEF MenusInv, UsesTyped, Uses
  <2> HIDE DEF r
  <2>5. AnswersTyped' /\ HeldInv'
    BY <1>1, <2>1, <2>2 DEF AnswersTyped, HeldInv, AnswersMatch, Answers, Answer
  <2> QED
    BY <1>2, <2>3, <2>4, <2>5 DEF MenusInv
<1>5. CASE ShowSelect
  <2>1. generation + 1 \in Generations /\ ShowMenu("select", 0) /\ caller = NoMenu
    BY <1>5, GivenOut DEF ShowSelect, MenusInv
  <2>2. PopupTyped'
    BY <1>5, <2>1, ShownMenu DEF ShowSelect, MenusInv, PopupTyped
  <2>3. UsesTyped'
    <3>1. generation' \in {generation, generation + 1}
      BY <2>1, ShownMenu
    <3> QED
      BY <1>1, <1>5, <3>1 DEF ShowSelect, MenusInv, UsesTyped, Uses
  <2>4. AnswersTyped' /\ HeldInv'
    BY <1>5, AnswersStay DEF ShowSelect
  <2> QED
    BY <1>2, <2>2, <2>3, <2>4 DEF MenusInv
<1>6. CASE HideSelect \/ DeactivateSelect
  <2> USE DEF HideSelect, DeactivateSelect, HideDropDown
  <2>1. PopupTyped'
    <3>1. CASE UNCHANGED <<io, active, caller>>
      BY <1>6, <3>1 DEF MenusInv, PopupTyped
    <3>2. CASE ClearMenu /\ caller' = Command("hide", 0)
      BY <1>6, <3>2, Closes, CommandTyped DEF MenusInv, PopupTyped
    <3> QED
      BY <1>6, <3>1, <3>2
  <2>2. UsesTyped' /\ AnswersTyped' /\ HeldInv'
    BY <1>6, UsesStay, AnswersStay
  <2> QED
    BY <1>2, <2>1, <2>2 DEF MenusInv
<1>7. CASE QueueCall
  <2>1. caller \in Commanded
    BY <1>7 DEF QueueCall, MenusInv, PopupTyped
  <2>2. commands' \in CommandQueues
    BY <1>7, <2>1, Enqueues DEF QueueCall
  <2>3. PopupTyped'
    BY <1>7, <2>2 DEF QueueCall, MenusInv, PopupTyped
  <2>4. UsesTyped' /\ AnswersTyped' /\ HeldInv'
    BY <1>7, UsesStay, AnswersStay DEF QueueCall
  <2> QED
    BY <1>2, <2>3, <2>4 DEF MenusInv
<1>8. CASE DispatchMenuResult
  <2> DEFINE r == Head(results)
  <2>1. r \in Requests /\ results' \in ResultQueues
    BY <1>8, Queued DEF DispatchMenuResult, MenusInv, PopupTyped, ResultQueues
  <2>2. PopupTyped'
    BY <1>8, <2>1 DEF DispatchMenuResult, MenusInv, PopupTyped
  <2>3. UsesTyped'
    BY <1>8, UsesStay DEF DispatchMenuResult
  <2> HIDE DEF r
  <2>4. CASE owner # r
    <3>1. UNCHANGED <<owner, pendingCb, answer>>
      BY <1>8, <2>4 DEF DispatchMenuResult, Resolves, r
    <3> QED
      BY <1>2, <2>2, <2>3, <3>1, AnswersStay DEF MenusInv
  <2>5. CASE owner = r
    <3>1. /\ owner' = NoMenu /\ pendingCb' = NoMenu /\ pendingCb = r
          /\ answer' = [answer EXCEPT ![r] = Answer("result", r)]
      BY <1>1, <1>8, <2>1, <2>5 DEF DispatchMenuResult, Resolves, r
    <3>2. ASSUME NEW q \in Requests
          PROVE  /\ answer'[q] \in [how : {"none", "held", "cancelled", "result"}, by : Requests \cup {0}]
                 /\ answer'[q].how # "held"
                 /\ answer'[q].how = "result" => answer'[q].by = q
      BY <1>1, <2>1, <3>1 DEF Answers, Answer, AnswersMatch
    <3>3. answer' \in Answers
      BY <1>1, <3>1, <3>2 DEF Answers
    <3>4. AnswersTyped' /\ HeldInv'
      BY <3>1, <3>2, <3>3 DEF AnswersTyped, HeldInv, AnswersMatch
    <3> QED
      BY <1>2, <2>2, <2>3, <3>4 DEF MenusInv
  <2> QED
    BY <2>4, <2>5
<1>9. CASE CloseAllMenus
  <2>1. PopupTyped'
    BY <1>9, PopupStays DEF CloseAllMenus
  <2>2. UsesTyped'
    BY <1>1, <1>9 DEF CloseAllMenus, MenusInv, UsesTyped, Uses
  <2>3. AnswersTyped' /\ HeldInv'
    BY <1>1, <1>9 DEF CloseAllMenus, AnswersTyped, HeldInv, AnswersMatch
  <2> QED
    BY <1>2, <2>1, <2>2, <2>3 DEF MenusInv
<1> QED
  BY <1>3, <1>4, <1>5, <1>6, <1>7, <1>8, <1>9 DEF UiThread

(* The thread of the proxy and the compositor keep it all.                  *)
LEMMA ProxyKeeps ==
  ASSUME MenusInv, ProxyThread
  PROVE  MenusInv'
<1>1. /\ io \in MenuIos /\ (io.phase = "AwaitMenu" => io.menu \in OpenMenus) /\ active \in BOOLEAN
      /\ commands \in CommandQueues /\ popup \in Popups \cup {NoMenu} /\ results \in ResultQueues
  BY DEF MenusInv, PopupTyped
<1>2. InputTyped' /\ PressInv' /\ UsesTyped' /\ AnswersTyped' /\ HeldInv'
  BY InputStays, UsesStay, AnswersStay DEF ProxyThread, ApplyCommand, OnReady, OnDone
<1>3. CASE ApplyCommand
  <2> DEFINE c == Head(commands)
  <2>1. c \in Commanded /\ commands' \in CommandQueues
    BY <1>1, <1>3, Queued DEF ApplyCommand, CommandQueues
  <2>2. popup' = CASE c.op = "show" -> [gen |-> c.gen, due |-> 1]
                   [] c.op = "reposition" ->
                        IF popup = NoMenu THEN NoMenu ELSE [popup EXCEPT !.due = @ + 1]
                   [] c.op = "hide" -> NoMenu
    BY <1>3 DEF ApplyCommand
  <2> HIDE DEF c
  <2>3. popup' \in Popups \cup {NoMenu}
    <3>1. c.op \in {"show", "reposition", "hide"} /\ (c.op = "show" => c.gen \in Generations)
      BY <2>1 DEF Commanded, AnyCommand
    <3>2. CASE c.op = "show"
      BY <2>2, <3>1, <3>2 DEF Popups
    <3>3. CASE c.op = "reposition"
      BY <1>1, <2>2, <3>3 DEF Popups
    <3>4. CASE c.op = "hide"
      BY <2>2, <3>4
    <3> QED
      BY <3>1, <3>2, <3>3, <3>4
  <2>4. PopupTyped'
    BY <1>3, <2>1, <2>3 DEF ApplyCommand, MenusInv, PopupTyped
  <2> QED
    BY <1>2, <2>4 DEF MenusInv
<1>4. CASE OnReady
  <2>1. popup \in Popups /\ popup.due > 0
    BY <1>1, <1>4 DEF OnReady
  <2>2. [popup EXCEPT !.due = @ - 1] \in Popups
    BY <2>1 DEF Popups
  <2>3. /\ popup' = [popup EXCEPT !.due = @ - 1]
        /\ \/ io' = Begun(io.menu) /\ io.menu # NoMenu /\ active' = TRUE /\ Enqueue(Command("reposition", 0))
           \/ io' = [io EXCEPT !.phase = "Placeholder"] /\ UNCHANGED <<active, commands>>
           \/ /\ io.phase = "AwaitMenu" /\ io' = [io EXCEPT !.phase = "Shown", !.menu.mapped = TRUE]
              /\ UNCHANGED <<active, commands>>
           \/ UNCHANGED <<io, active, commands>>
    BY <1>4 DEF OnReady
  <2>4. io' \in MenuIos /\ (io'.phase = "AwaitMenu" => io'.menu \in OpenMenus)
    <3>1. CASE io' = Begun(io.menu) /\ io.menu # NoMenu
      BY <1>1, <3>1 DEF Begun, MenuIos, Phases
    <3>2. CASE io' = [io EXCEPT !.phase = "Placeholder"]
      BY <1>1, <3>2 DEF MenuIos, Phases
    <3>3. CASE io.phase = "AwaitMenu" /\ io' = [io EXCEPT !.phase = "Shown", !.menu.mapped = TRUE]
      <4>1. [io.menu EXCEPT !.mapped = TRUE] \in OpenMenus
        BY <1>1, <3>3 DEF OpenMenus, AnyMenu
      <4> QED
        BY <1>1, <3>3, <4>1 DEF MenuIos, Phases
    <3> QED
      BY <1>1, <2>3, <3>1, <3>2, <3>3
  <2>5. commands' \in CommandQueues /\ active' \in BOOLEAN
    BY <1>1, <2>3, Enqueues, CommandTyped
  <2>6. PopupTyped'
    BY <1>4, <2>2, <2>3, <2>4, <2>5 DEF OnReady, MenusInv, PopupTyped
  <2> QED
    BY <1>2, <2>6 DEF MenusInv
<1>5. CASE OnDone
  <2>1. PopupTyped'
    <3>1. CASE UNCHANGED <<results, io, active>>
      BY <1>5, <3>1 DEF OnDone, MenusInv, PopupTyped
    <3>2. CASE Fire /\ ClearMenu
      BY <1>5, <3>2, Closes DEF OnDone, MenusInv, PopupTyped
    <3> QED
      BY <1>5, <3>1, <3>2 DEF OnDone
  <2> QED
    BY <1>2, <2>1 DEF MenusInv
<1> QED
  BY <1>3, <1>4, <1>5 DEF ProxyThread

(* Nothing is open at first.                                                *)
LEMMA MenusStart ==
  ASSUME MenusInit
  PROVE  MenusInv
<1>1. InputTyped /\ PressInv
  BY DEF MenusInit, InputTyped, PressInv, OnItsWay, Pointers, Handlers, HandlerIdle
<1>2. PopupTyped
  <2>1. io \in MenuIos /\ io.phase # "AwaitMenu"
    BY DEF MenusInit, NoMenuIo, MenuIos, Phases
  <2>2. commands \in CommandQueues /\ results \in ResultQueues
    BY DEF MenusInit, CommandQueues, ResultQueues
  <2> QED
    BY <2>1, <2>2 DEF MenusInit, PopupTyped
<1>3. AnswersTyped /\ HeldInv
  BY DEF MenusInit, AnswersTyped, HeldInv, AnswersMatch, Answers, Answer
<1>4. UsesTyped
  BY MenusAssumption DEF MenusInit, UsesTyped, Uses
<1> QED
  BY <1>1, <1>2, <1>3, <1>4 DEF MenusInv

(* Every step of the four parties keeps the invariant.                      *)
LEMMA MenusSteps ==
  ASSUME MenusInv, [MenusNext]_menuVars
  PROVE  MenusInv'
<1>1. CASE UNCHANGED menuVars
  BY <1>1, PopupStays, AnswersStay, InputStays, UsesStay DEF menuVars, MenusInv
<1> QED
  BY <1>1, ButtonsKeep, ArmingKeeps, UiThreadKeeps, ProxyKeeps DEF MenusNext, InputThread

(* The types by name are those of the module, and the promises are part of  *)
(* the invariant.                                                           *)
LEMMA MenusFacts == MenusInv => MenusTypeOK /\ MenuPromises
<1>1. SUFFICES ASSUME MenusInv PROVE MenusTypeOK /\ MenuPromises
  OBVIOUS
<1>2. MenuPromises
  BY <1>1 DEF MenusInv, PressInv, OnItsWay, HeldInv, MenuPromises, ReleasesMatch
<1>3. commands \in Seq(AnyCommand) /\ caller \in AnyCommand \cup {NoMenu}
  <2>1. Commanded \subseteq AnyCommand
    BY DEF Commanded
  <2> QED
    BY <1>1, <2>1 DEF MenusInv, PopupTyped, CommandQueues
<1>4. io \in [phase : Phases, gen : Generations \cup {0}, menu : AnyMenu \cup {NoMenu}]
  BY <1>1 DEF MenusInv, PopupTyped, MenuIos, OpenMenus
<1>5. generation \in Generations \cup {0}
  BY <1>1, GivenOut DEF MenusInv
<1>6. MenusTypeOK
  BY <1>1, <1>3, <1>4, <1>5
     DEF MenusInv, InputTyped, PopupTyped, AnswersTyped, UsesTyped, MenusTypeOK, Pointers, Handlers,
         AnyMenu, AnyCommand, Popups, ResultQueues, Answers, Uses
<1> QED
  BY <1>2, <1>6

(* The four parties of a menu hold the values of their types.               *)
THEOREM MenusTypeCorrect == MenusSpec => []MenusTypeOK
<1>1. MenusInit => MenusInv
  BY MenusStart
<1>2. MenusInv /\ [MenusNext]_menuVars => MenusInv'
  BY MenusSteps
<1> QED
  BY <1>1, <1>2, MenusFacts, PTL DEF MenusSpec

(* CEF gets every answer it waits for from the menu it asked for, and the   *)
(* releases of the presses it saw.                                          *)
THEOREM MenusCorrect == MenusSpec => []MenuPromises
<1>1. MenusInit => MenusInv
  BY MenusStart
<1>2. MenusInv /\ [MenusNext]_menuVars => MenusInv'
  BY MenusSteps
<1> QED
  BY <1>1, <1>2, MenusFacts, PTL DEF MenusSpec

-----------------------------------------------------------------------------
(* ProxyShell. *)

Nets == [made : SUBSET Connections, captured : Seq(SameProcess), seq : Nat, vo : Nat \cup {-1},
         raced : BOOLEAN, index : [Connections -> Nat \cup {-1}], served : SUBSET Connections]
Roots == [mpv : {"none", "surface", "toplevel"}, told : Sized, cur : Sized, demote : BOOLEAN,
          roundtrip : {"none", "started", "done"}, globals : {"none", "bare", "all"},
          built : BOOLEAN, acked : BOOLEAN, mapped : BOOLEAN,
          shown : Colours \cup {Nothing}, dest : Sized]
HostSides == [created : BOOLEAN, named : BOOLEAN, arrived : BOOLEAN, adopted : BOOLEAN, dest : Sized]
Pending == [have : BOOLEAN, w : Sized, scale : ShellScales \cup {120}, suspended : BOOLEAN]
Reports == [pw : Nat, scale : ShellScales \cup {0}, visible : BOOLEAN]
Commands == Seq(WindowCommands \cup {"background"})
Carried == Seq(WindowCommands \cup {"maximize", "background"})
Themes == [rgb : Colours \cup {Nothing}, pc : {"idle", "push"}]
ConfigureEvents == [kind : {"configure"}, w : Sized, suspended : BOOLEAN]
ScaleEvents == [kind : {"scale"}, scale : ShellScales]
ShellEvents == ConfigureEvents \cup ScaleEvents
Compositors == [restored : BOOLEAN, events : Seq(ShellEvents), sent : Nat, size : Sized,
                suspended : BOOLEAN, scale : ShellScales \cup {120},
                asked : Carried, posted : Commands]

(* The types, by name.                                                      *)
NetTyped == net \in Nets /\ net.served \subseteq net.made
LoopTyped == loopAt \in {"dispatch", "drain", "build"}
RootTyped == shell \in Roots /\ hostSide \in HostSides
HostTyped == pendingC \in Pending /\ reported \in Reports /\ hostCommands \in Commands /\ theme \in Themes
CompositorTyped == compositor \in Compositors

(* Without a race the records of both ends name the connections in the same *)
(* order; one connection at most is not on both yet, and it is the last.    *)
Recorded(c) == \E i \in DOMAIN net.captured : net.captured[i] = c
Pair(d) ==
  IF Counted(d)
  THEN net.index[d] < Len(net.captured) /\ net.captured[net.index[d] + 1] = d
  ELSE CASE Recorded(d) -> net.seq + 1 = Len(net.captured) /\ net.captured[Len(net.captured)] = d
         [] net.index[d] >= 0 -> net.index[d] = Len(net.captured) /\ net.seq = Len(net.captured) + 1
         [] OTHER -> net.seq = Len(net.captured)
IndexInv ==
  /\ \A c \in Connections : c \notin net.made => net.index[c] = -1 /\ ~Recorded(c)
  /\ \A c \in Connections : net.index[c] >= 0 => c \in SameProcess /\ c \in net.served
  /\ \A c \in SameProcess : c \in net.served => net.index[c] >= 0
  /\ shell.mpv # "none" => Counted(VO)
  /\ net.vo >= 0 => Counted(VO) /\ net.vo = net.index[VO]
  /\ ~net.raced =>
       /\ \A d \in net.made \cap SameProcess : Pair(d)
       /\ \A d, e \in net.made \cap SameProcess : ~Counted(d) /\ ~Counted(e) => d = e
       /\ (\A d \in net.made \cap SameProcess : Counted(d)) => net.seq = Len(net.captured)

(* The last event of a kind, and none of it.                                *)
LastOf(q, kind, i) == q[i].kind = kind /\ \A j \in 1..Len(q) : q[j].kind = kind => j <= i
Lacks(q, kind) == \A i \in 1..Len(q) : q[i].kind # kind

(* What comes after what: the root, its first configure, the host's surface *)
(* and its commands.                                                        *)
OrderOfShell ==
  /\ shell.built => shell.demote /\ shell.mpv = "toplevel" /\ shell.roundtrip = "done"
  /\ ~shell.built => Lacks(compositor.events, "configure")
  /\ pendingC.have <=> shell.mapped
  /\ shell.mapped => shell.built /\ shell.acked
  /\ shell.dest > 0 => shell.mapped
  /\ reported.pw > 0 => shell.mapped
  /\ hostSide.created => shell.mapped
  /\ hostSide.named => hostSide.created
  /\ hostSide.adopted => hostSide.named
  /\ ~hostSide.named => hostCommands = <<>> /\ compositor.posted = <<>> /\ theme.pc = "idle"
  /\ ~shell.built => compositor.asked = <<>>

(* mpv's toplevel is what asked for the globals and for a root.             *)
DemotedInv ==
  /\ shell.demote <=> shell.mpv = "toplevel"
  /\ shell.roundtrip # "none" <=> shell.demote
  /\ shell.cur > 0 <=> shell.demote

(* Everybody has the size, the scale and the visibility that were handled.  *)
HandledInv ==
  /\ shell.mapped =>
       /\ shell.cur = pendingC.w /\ shell.told = pendingC.w /\ pendingC.w > 0
       /\ CanFill(shell) => shell.dest = pendingC.w
       /\ hostSide.adopted => hostSide.dest = pendingC.w
       /\ reported.pw = Physical(pendingC.w, pendingC.scale)
  /\ reported.visible = ~pendingC.suspended
  /\ shell.mapped /\ CanFill(shell) /\ theme.pc = "idle" /\ "background" \notin ToSet(hostCommands) =>
       shell.shown = theme.rgb

(* What was sent last is the last of the events, or was handled.            *)
NewestConfigure ==
  /\ \A i \in 1..Len(compositor.events) : LastOf(compositor.events, "configure", i) =>
       /\ compositor.events[i].w = compositor.size
       /\ compositor.events[i].suspended = compositor.suspended
  /\ Lacks(compositor.events, "configure") =>
       /\ pendingC.suspended = compositor.suspended
       /\ shell.mapped => pendingC.w = WantedSize
NewestScale ==
  /\ \A i \in 1..Len(compositor.events) : LastOf(compositor.events, "scale", i) =>
       compositor.events[i].scale = compositor.scale
  /\ Lacks(compositor.events, "scale") => pendingC.scale = compositor.scale

ShellInv ==
  /\ NetTyped /\ LoopTyped /\ RootTyped /\ HostTyped /\ CompositorTyped
  /\ IndexInv /\ OrderOfShell /\ DemotedInv /\ HandledInv /\ NewestConfigure /\ NewestScale /\ CommandsKept


(* What is in a sequence after something was appended.                      *)
LEMMA AppendItems ==
  ASSUME NEW S, NEW s \in Seq(S), NEW e \in S
  PROVE  /\ Append(s, e) \in Seq(S) /\ Len(Append(s, e)) = Len(s) + 1
         /\ Append(s, e)[Len(s) + 1] = e
         /\ \A i \in 1..Len(s) : Append(s, e)[i] = s[i]
         /\ Len(s) \in Nat
         /\ DOMAIN s = 1..Len(s) /\ DOMAIN Append(s, e) = 1..(Len(s) + 1)
OBVIOUS

(* What is in a sequence after its head was taken.                          *)
LEMMA TailItems ==
  ASSUME NEW S, NEW s \in Seq(S), s # <<>>
  PROVE  /\ Head(s) = s[1] /\ Head(s) \in S
         /\ Tail(s) \in Seq(S) /\ Len(Tail(s)) = Len(s) - 1
         /\ \A i \in 1..Len(Tail(s)) : Tail(s)[i] = s[i + 1] /\ i + 1 \in 1..Len(s)
         /\ Len(s) \in Nat /\ Len(s) > 0 /\ 1 \in 1..Len(s)
OBVIOUS

(* The last event of a kind after one was appended.                         *)
LastAfter(r, q, e, k) ==
  /\ \A i \in 1..Len(r) : LastOf(r, k, i) =>
       IF e.kind = k THEN r[i] = e
       ELSE i \in 1..Len(q) /\ LastOf(q, k, i) /\ r[i] = q[i]
  /\ Lacks(r, k) <=> Lacks(q, k) /\ e.kind # k

LEMMA LastAppend ==
  ASSUME NEW q \in Seq(ShellEvents), NEW e \in ShellEvents, NEW k
  PROVE  LastAfter(Append(q, e), q, e, k)
<1> DEFINE r == Append(q, e)
<1>1. /\ Len(r) = Len(q) + 1 /\ r[Len(q) + 1] = e /\ Len(q) \in Nat
      /\ \A i \in 1..Len(q) : r[i] = q[i]
  BY AppendItems
<1> HIDE DEF r
<1>2. Len(q) + 1 \in 1..Len(r) /\ \A i \in 1..Len(q) : i \in 1..Len(r)
  BY <1>1
<1>3. ASSUME NEW i \in 1..Len(r), LastOf(r, k, i), e.kind = k PROVE r[i] = e
  <2>1. Len(q) + 1 <= i
    BY <1>1, <1>2, <1>3 DEF LastOf
  <2>2. i = Len(q) + 1
    BY <1>1, <2>1
  <2> QED
    BY <1>1, <2>2
<1>4. ASSUME NEW i \in 1..Len(r), LastOf(r, k, i), e.kind # k
      PROVE  i \in 1..Len(q) /\ LastOf(q, k, i) /\ r[i] = q[i]
  <2>1. r[i].kind = k /\ \A j \in 1..Len(r) : r[j].kind = k => j <= i
    BY <1>4 DEF LastOf
  <2>2. i # Len(q) + 1
    BY <1>1, <1>4, <2>1
  <2>3. i \in 1..Len(q)
    BY <1>1, <2>2
  <2>4. \A j \in 1..Len(q) : q[j].kind = k => j <= i
    BY <1>1, <1>2, <2>1
  <2> QED
    BY <1>1, <2>1, <2>3, <2>4 DEF LastOf
<1>5. Lacks(r, k) <=> Lacks(q, k) /\ e.kind # k
  <2>1. ASSUME Lacks(r, k) PROVE Lacks(q, k) /\ e.kind # k
    BY <1>1, <1>2, <2>1 DEF Lacks
  <2>2. ASSUME Lacks(q, k), e.kind # k PROVE Lacks(r, k)
    <3>1. ASSUME NEW i \in 1..Len(r) PROVE r[i].kind # k
      <4>1. i \in 1..Len(q) \/ i = Len(q) + 1
        BY <1>1
      <4> QED
        BY <1>1, <2>2, <4>1 DEF Lacks
    <3> QED
      BY <3>1 DEF Lacks
  <2> QED
    BY <2>1, <2>2
<1> QED
  BY <1>3, <1>4, <1>5 DEF r, LastAfter

(* The last event of a kind after the first event was read.                 *)
LEMMA LastTail ==
  ASSUME NEW q \in Seq(ShellEvents), q # <<>>, NEW k
  PROVE  /\ \A i \in 1..Len(Tail(q)) : LastOf(Tail(q), k, i) =>
              i + 1 \in 1..Len(q) /\ LastOf(q, k, i + 1) /\ Tail(q)[i] = q[i + 1]
         /\ Lacks(Tail(q), k) /\ Head(q).kind = k =>
              1 \in 1..Len(q) /\ LastOf(q, k, 1) /\ Head(q) = q[1]
         /\ Lacks(Tail(q), k) /\ Head(q).kind # k => Lacks(q, k)
         /\ Lacks(q, k) => Lacks(Tail(q), k) /\ Head(q).kind # k
<1> DEFINE r == Tail(q)
<1>1. /\ Head(q) = q[1] /\ Len(r) = Len(q) - 1 /\ Len(q) \in Nat /\ Len(q) > 0 /\ 1 \in 1..Len(q)
      /\ \A i \in 1..Len(r) : r[i] = q[i + 1] /\ i + 1 \in 1..Len(q)
  BY TailItems
<1> HIDE DEF r
<1>2. ASSUME NEW j \in 1..Len(q) PROVE j = 1 \/ (j - 1 \in 1..Len(r) /\ q[j] = r[j - 1])
  <2>1. CASE j # 1
    <3>1. j - 1 \in 1..Len(r) /\ (j - 1) + 1 = j
      BY <1>1, <2>1
    <3> QED
      BY <1>1, <3>1
  <2> QED
    BY <2>1
<1>3. ASSUME NEW i \in 1..Len(r), LastOf(r, k, i) PROVE LastOf(q, k, i + 1)
  <2>1. r[i].kind = k /\ \A j \in 1..Len(r) : r[j].kind = k => j <= i
    BY <1>3 DEF LastOf
  <2>2. ASSUME NEW j \in 1..Len(q), q[j].kind = k PROVE j <= i + 1
    <3>1. CASE j = 1
      BY <3>1
    <3>2. CASE j # 1
      <4>1. j - 1 \in 1..Len(r) /\ q[j] = r[j - 1]
        BY <1>2, <3>2
      <4>2. j - 1 <= i
        BY <2>1, <2>2, <4>1
      <4> QED
        BY <4>2
    <3> QED
      BY <3>1, <3>2
  <2>3. q[i + 1].kind = k
    BY <1>1, <2>1
  <2> QED
    BY <2>2, <2>3 DEF LastOf
<1>4. ASSUME Lacks(r, k), Head(q).kind = k PROVE LastOf(q, k, 1)
  BY <1>1, <1>2, <1>4 DEF Lacks, LastOf
<1>5. ASSUME Lacks(r, k), Head(q).kind # k PROVE Lacks(q, k)
  BY <1>1, <1>2, <1>5 DEF Lacks
<1>6. ASSUME Lacks(q, k) PROVE Lacks(r, k) /\ Head(q).kind # k
  BY <1>1, <1>6 DEF Lacks
<1> QED
  BY <1>1, <1>3, <1>4, <1>5, <1>6 DEF r

(* The connections stay as they are.                                        *)
LEMMA NetStays ==
  ASSUME ShellInv, UNCHANGED net, shell'.mpv # "none" => Counted(VO)
  PROVE  NetTyped' /\ IndexInv'
<1>1. NetTyped'
  BY DEF ShellInv, NetTyped
<1>2. \A c \in Connections : /\ Counted(c)' <=> Counted(c)
                             /\ Recorded(c)' <=> Recorded(c)
                             /\ Pair(c)' <=> Pair(c)
  BY DEF Counted, Recorded, Pair
<1>3. VO \in Connections /\ SameProcess \subseteq Connections
  BY DEF SameProcess, Connections
<1>4. IndexInv'
  BY <1>2, <1>3 DEF ShellInv, IndexInv
<1> QED
  BY <1>1, <1>4

(* The root, the host and the compositor stay as they are.                  *)
LEMMA RestStays ==
  ASSUME ShellInv, UNCHANGED <<shell, hostSide, pendingC, reported, hostCommands, theme, compositor>>
  PROVE  /\ RootTyped' /\ HostTyped' /\ CompositorTyped'
         /\ OrderOfShell' /\ DemotedInv' /\ HandledInv' /\ NewestConfigure' /\ NewestScale' /\ CommandsKept'
BY DEF ShellInv, RootTyped, HostTyped, CompositorTyped, OrderOfShell, DemotedInv, HandledInv, NewestConfigure,
       NewestScale, CommandsKept, CanFill, WantedSize, MaximizeRequest, LastOf, Lacks

(* The loop's place is all that changes.                                    *)
LEMMA NothingElse ==
  ASSUME ShellInv, UNCHANGED net, UNCHANGED <<shell, hostSide, pendingC, reported, hostCommands,
         theme, compositor>>, loopAt' \in {"dispatch", "drain", "build"}
  PROVE  ShellInv'
<1>1. NetTyped' /\ IndexInv'
  BY NetStays DEF ShellInv, IndexInv
<1> QED
  BY <1>1, RestStays DEF ShellInv, LoopTyped


(* A connection is made, recorded on the one end, counted on the other.     *)
LEMMA ConnectionsKeep ==
  ASSUME ShellInv, NEW c \in Connections, Connect(c) \/ RecordConnect(c) \/ RunClient(c)
  PROVE  ShellInv'
<1> DEFINE cap == net.captured
<1>1. /\ net \in Nets /\ net.served \subseteq net.made /\ net.made \subseteq Connections
      /\ cap \in Seq(SameProcess) /\ Len(cap) \in Nat /\ DOMAIN cap = 1..Len(cap)
      /\ net.seq \in Nat /\ net.index \in [Connections -> Nat \cup {-1}] /\ net.vo \in Nat \cup {-1}
      /\ net.raced \in BOOLEAN /\ SameProcess \subseteq Connections /\ VO \in SameProcess
  BY DEF ShellInv, NetTyped, Nets, SameProcess, Connections
<1>2. /\ \A d \in Connections : d \notin net.made => net.index[d] = -1 /\ ~Recorded(d)
      /\ \A d \in Connections : net.index[d] >= 0 => d \in SameProcess /\ d \in net.served
      /\ \A d \in SameProcess : d \in net.served => net.index[d] >= 0
      /\ shell.mpv # "none" => Counted(VO)
      /\ net.vo >= 0 => Counted(VO) /\ net.vo = net.index[VO]
  BY DEF ShellInv, IndexInv
<1>3. ~net.raced =>
       /\ \A d \in net.made \cap SameProcess : Pair(d)
       /\ \A d, e \in net.made \cap SameProcess : ~Counted(d) /\ ~Counted(e) => d = e
       /\ (\A d \in net.made \cap SameProcess : Counted(d)) => net.seq = Len(cap)
  BY DEF ShellInv, IndexInv
<1>4. UNCHANGED <<loopAt, shell, hostSide, pendingC, reported, hostCommands, theme, compositor>>
  BY DEF Connect, RecordConnect, RunClient
<1>5. SUFFICES NetTyped' /\ IndexInv'
  BY <1>4, RestStays DEF ShellInv, LoopTyped
<1>6. CASE Connect(c)
  <2>1. /\ c \notin net.made /\ net'.made = net.made \cup {c} /\ net'.captured = cap
        /\ net'.seq = net.seq /\ net'.vo = net.vo /\ net'.index = net.index /\ net'.served = net.served
        /\ net'.raced = (net.raced \/ (c \in SameProcess /\ \E d \in net.made \cap SameProcess : ~Counted(d)))
        /\ net' \in Nets
    <3>1. (net.raced \/ (c \in SameProcess /\ \E d \in net.made \cap SameProcess : ~Counted(d))) \in BOOLEAN
      OBVIOUS
    <3> QED
      BY <1>1, <1>6, <3>1 DEF Connect, Nets
  <2>2. NetTyped'
    BY <1>1, <2>1 DEF NetTyped
  <2>3. \A d \in Connections : (Counted(d)' <=> Counted(d)) /\ (Recorded(d)' <=> Recorded(d))
                               /\ (Pair(d)' <=> Pair(d))
    BY <2>1 DEF Counted, Recorded, Pair
  <2>4. ~Recorded(c) /\ net.index[c] = -1 /\ ~Counted(c)
    BY <1>2, <2>1 DEF Counted
  <2>5. ASSUME ~net'.raced
        PROVE  /\ \A d \in net'.made \cap SameProcess : Pair(d)'
               /\ \A d, e \in net'.made \cap SameProcess : ~Counted(d)' /\ ~Counted(e)' => d = e
               /\ (\A d \in net'.made \cap SameProcess : Counted(d)') => net'.seq = Len(net'.captured)
    <3>1. ~net.raced /\ (c \in SameProcess => \A d \in net.made \cap SameProcess : Counted(d))
      BY <2>1, <2>5
    <3>2. c \in SameProcess => net.seq = Len(cap)
      BY <1>3, <3>1
    <3>3. c \in SameProcess => Pair(c)
      BY <2>4, <3>2 DEF Pair
    <3>4. net'.made \cap SameProcess \subseteq (net.made \cap SameProcess) \cup ({c} \cap SameProcess)
      BY <2>1
    <3> QED
      BY <1>1, <1>3, <2>1, <2>3, <2>4, <3>1, <3>2, <3>3, <3>4
  <2>6. IndexInv'
    BY <1>1, <1>2, <1>4, <2>1, <2>3, <2>5 DEF IndexInv
  <2> QED
    BY <2>2, <2>6
<1>7. CASE RecordConnect(c)
  <2>1. /\ c \in net.made \cap SameProcess /\ ~Recorded(c) /\ net'.captured = Append(cap, c)
        /\ net'.made = net.made /\ net'.seq = net.seq /\ net'.vo = net.vo /\ net'.index = net.index
        /\ net'.served = net.served /\ net'.raced = net.raced
    BY <1>1, <1>7 DEF RecordConnect, Nets, Recorded
  <2>2. /\ net'.captured \in Seq(SameProcess) /\ Len(net'.captured) = Len(cap) + 1
        /\ net'.captured[Len(cap) + 1] = c
        /\ \A i \in 1..Len(cap) : net'.captured[i] = cap[i]
        /\ DOMAIN net'.captured = 1..(Len(cap) + 1)
    BY <1>1, <2>1, AppendItems
  <2>3. NetTyped'
    BY <1>1, <1>7, <2>1, <2>2 DEF NetTyped, RecordConnect, Nets
  <2>4. ASSUME NEW d \in Connections PROVE Recorded(d)' <=> (Recorded(d) \/ d = c)
    <3>1. ASSUME Recorded(d) PROVE Recorded(d)'
      BY <1>1, <2>2, <3>1 DEF Recorded
    <3>2. Recorded(c)'
      BY <1>1, <2>2 DEF Recorded
    <3>3. ASSUME Recorded(d)', d # c PROVE Recorded(d)
      <4>1. PICK i \in 1..(Len(cap) + 1) : net'.captured[i] = d
        BY <2>2, <3>3 DEF Recorded
      <4>2. i \in 1..Len(cap)
        BY <1>1, <2>2, <3>3, <4>1
      <4> QED
        BY <1>1, <2>2, <4>1, <4>2 DEF Recorded
    <3> QED
      BY <3>1, <3>2, <3>3
  <2>5. \A d \in Connections : Counted(d) <=> net.index[d] >= 0 /\ Recorded(d)
    BY DEF Counted, Recorded
  <2>6. \A d \in Connections : Counted(d)' <=> net.index[d] >= 0 /\ Recorded(d)'
    BY <2>1 DEF Counted, Recorded
  <2>7. \A d \in Connections : Counted(d) => Counted(d)'
    BY <2>4, <2>5, <2>6
  <2>8. ASSUME ~net.raced
        PROVE  /\ \A d \in net.made \cap SameProcess : Pair(d)'
               /\ \A d, e \in net.made \cap SameProcess : ~Counted(d)' /\ ~Counted(e)' => d = e
               /\ (\A d \in net.made \cap SameProcess : Counted(d)') => net.seq = Len(cap) + 1
    <3>1. ~Counted(c) /\ Pair(c)
      BY <1>1, <1>3, <2>1, <2>5, <2>8
    <3>2. \A d \in net.made \cap SameProcess : d # c => Counted(d)
      BY <1>3, <2>1, <2>8, <3>1
    <3>3. Counted(c)' <=> net.index[c] >= 0
      BY <1>1, <2>1, <2>4, <2>6
    <3>4. IF net.index[c] >= 0 THEN net.index[c] = Len(cap) /\ net.seq = Len(cap) + 1
          ELSE net.seq = Len(cap)
      BY <2>1, <3>1 DEF Pair
    <3>5. ASSUME NEW d \in net.made \cap SameProcess, d # c PROVE Pair(d)'
      <4>1. Counted(d) /\ Pair(d)
        BY <1>3, <2>8, <3>2, <3>5
      <4>2. net.index[d] < Len(cap) /\ cap[net.index[d] + 1] = d /\ net.index[d] \in Nat
        BY <1>1, <4>1 DEF Pair, Counted
      <4>3. Counted(d)'
        BY <2>7, <4>1, <1>1
      <4>4. net.index[d] + 1 \in 1..Len(cap)
        BY <1>1, <4>2
      <4>5. net'.captured[net.index[d] + 1] = d
        BY <2>2, <4>2, <4>4
      <4> QED
        BY <1>1, <2>1, <2>2, <4>2, <4>3, <4>5 DEF Pair
    <3>6. Pair(c)'
      <4>1. CASE net.index[c] >= 0
        BY <1>1, <2>1, <2>2, <3>3, <3>4, <4>1 DEF Pair
      <4>2. CASE ~(net.index[c] >= 0)
        <5>1. ~Counted(c)' /\ Recorded(c)'
          BY <1>1, <2>1, <2>4, <3>3, <4>2
        <5> QED
          BY <1>1, <2>1, <2>2, <3>4, <4>2, <5>1 DEF Pair
      <4> QED
        BY <4>1, <4>2
    <3>7. \A d, e \in net.made \cap SameProcess : ~Counted(d)' /\ ~Counted(e)' => d = e
      BY <1>1, <2>7, <3>2
    <3>8. (\A d \in net.made \cap SameProcess : Counted(d)') => net.seq = Len(cap) + 1
      BY <2>1, <3>3, <3>4
    <3> QED
      BY <3>5, <3>6, <3>7, <3>8
  <2>9. IndexInv'
    <3>1. \A d \in Connections : d \notin net.made => net.index[d] = -1 /\ ~Recorded(d)'
      BY <1>2, <2>1, <2>4
    <3>2. shell.mpv # "none" => Counted(VO)'
      BY <1>1, <1>2, <2>7
    <3>3. net.vo >= 0 => Counted(VO)' /\ net.vo = net.index[VO]
      BY <1>1, <1>2, <2>7
    <3> QED
      BY <1>2, <1>4, <2>1, <2>2, <2>8, <3>1, <3>2, <3>3 DEF IndexInv
  <2> QED
    BY <2>3, <2>9
<1>8. CASE RunClient(c)
  <2> DEFINE same == c \in SameProcess
  <2>1. /\ c \in net.made \ net.served /\ net'.made = net.made /\ net'.captured = cap /\ net'.vo = net.vo
        /\ net'.raced = net.raced /\ net'.served = net.served \cup {c}
        /\ net'.index = [net.index EXCEPT ![c] = IF same THEN net.seq ELSE -1]
        /\ net'.seq = IF same THEN net.seq + 1 ELSE net.seq
    BY <1>1, <1>8 DEF RunClient, Nets
  <2>2. /\ net'.index \in [Connections -> Nat \cup {-1}] /\ net'.seq \in Nat
        /\ net'.index[c] = (IF same THEN net.seq ELSE -1)
        /\ \A d \in Connections : d # c => net'.index[d] = net.index[d]
    BY <1>1, <2>1
  <2>3. NetTyped'
    BY <1>1, <1>8, <2>1, <2>2 DEF NetTyped, RunClient, Nets
  <2>4. \A d \in Connections : Recorded(d)' <=> Recorded(d)
    BY <2>1 DEF Recorded
  <2>5. \A d \in Connections : Counted(d) <=> net.index[d] >= 0 /\ Recorded(d)
    BY DEF Counted, Recorded
  <2>6. \A d \in Connections : Counted(d)' <=> net'.index[d] >= 0 /\ Recorded(d)
    BY <2>1 DEF Counted, Recorded
  <2>7. net.index[c] = -1
    <3>1. ~(net.index[c] >= 0)
      BY <1>2, <2>1
    <3>2. net.index[c] \in Nat \cup {-1}
      BY <1>1
    <3> QED
      BY <3>1, <3>2
  <2>8. \A d \in Connections : Counted(d) => Counted(d)' /\ d # c
    BY <2>2, <2>5, <2>6, <2>7
  <2>9. ASSUME ~net.raced
        PROVE  /\ \A d \in net.made \cap SameProcess : Pair(d)'
               /\ \A d, e \in net.made \cap SameProcess : ~Counted(d)' /\ ~Counted(e)' => d = e
               /\ (\A d \in net.made \cap SameProcess : Counted(d)') => net'.seq = Len(cap)
    <3>1. CASE ~same
      <4>1. \A d \in net.made \cap SameProcess : d \in Connections /\ d # c
        BY <1>1, <3>1
      <4>2. \A d \in net.made \cap SameProcess : (Counted(d)' <=> Counted(d)) /\ net'.index[d] = net.index[d]
        BY <2>2, <2>5, <2>6, <4>1
      <4>3. net'.seq = net.seq
        BY <2>1, <3>1
      <4>4. \A d \in net.made \cap SameProcess : Pair(d)' <=> Pair(d)
        BY <2>1, <2>4, <4>1, <4>2, <4>3 DEF Pair
      <4> QED
        BY <1>3, <2>9, <4>2, <4>3, <4>4
    <3>2. CASE same
      <4>1. c \in net.made \cap SameProcess /\ ~Counted(c) /\ Pair(c)
        BY <1>3, <2>1, <2>5, <2>7, <2>9, <3>2
      <4>2. \A d \in net.made \cap SameProcess : d # c => Counted(d)
        BY <1>3, <2>9, <4>1
      <4>3. net'.seq = net.seq + 1 /\ net'.index[c] = net.seq /\ net.seq >= 0
        BY <1>1, <2>1, <2>2, <3>2
      <4>4. Counted(c)' <=> Recorded(c)
        BY <2>6, <4>3
      <4>5. IF Recorded(c) THEN net.seq + 1 = Len(cap) /\ cap[Len(cap)] = c ELSE net.seq = Len(cap)
        BY <2>7, <4>1 DEF Pair
      <4>6. ASSUME NEW d \in net.made \cap SameProcess, d # c PROVE Pair(d)'
        <5>1. Counted(d) /\ Pair(d) /\ Counted(d)' /\ net'.index[d] = net.index[d]
          BY <1>1, <1>3, <2>2, <2>8, <2>9, <4>2, <4>6
        <5> QED
          BY <2>1, <5>1 DEF Pair
      <4>7. Pair(c)'
        <5>1. CASE Recorded(c)
          BY <1>1, <2>1, <4>3, <4>4, <4>5, <5>1 DEF Pair
        <5>2. CASE ~Recorded(c)
          <6>1. ~Recorded(c)' /\ ~Counted(c)'
            BY <1>1, <2>4, <4>4, <5>2
          <6> QED
            BY <1>1, <2>1, <4>3, <4>5, <5>2, <6>1 DEF Pair
        <5> QED
          BY <5>1, <5>2
      <4>8. \A d, e \in net.made \cap SameProcess : ~Counted(d)' /\ ~Counted(e)' => d = e
        BY <1>1, <2>8, <4>2
      <4>9. (\A d \in net.made \cap SameProcess : Counted(d)') => net'.seq = Len(cap)
        BY <4>1, <4>3, <4>4, <4>5
      <4> QED
        BY <4>6, <4>7, <4>8, <4>9
    <3> QED
      BY <3>1, <3>2
  <2>10. IndexInv'
    <3>1. \A d \in Connections : d \notin net.made => net'.index[d] = -1 /\ ~Recorded(d)'
      BY <1>2, <2>1, <2>2, <2>4
    <3>2. \A d \in Connections : net'.index[d] >= 0 => d \in SameProcess /\ d \in net'.served
      BY <1>2, <2>1, <2>2
    <3>3. \A d \in SameProcess : d \in net'.served => net'.index[d] >= 0
      BY <1>1, <1>2, <2>1, <2>2
    <3>4. shell.mpv # "none" => Counted(VO)'
      BY <1>1, <1>2, <2>8
    <3>5. net.vo >= 0 => Counted(VO)' /\ net.vo = net'.index[VO]
      BY <1>1, <1>2, <2>2, <2>8
    <3> QED
      BY <1>4, <2>1, <2>9, <3>1, <3>2, <3>3, <3>4, <3>5 DEF IndexInv
  <2> QED
    BY <2>3, <2>10
<1> QED
  BY <1>6, <1>7, <1>8


(* What a concatenation of commands is.                                     *)
LEMMA ConcatAll ==
  ASSUME NEW a \in Carried, NEW b \in Carried
  PROVE  a \o b \in Carried /\ (a \o b) \o <<>> = a \o b
BY DEF Carried

LEMMA CarriedAreCommands ==
  /\ \A s \in Commands : s \in Carried
  /\ <<"maximize">> \in Carried /\ <<>> \in Carried
<1>1. WindowCommands \cup {"background"} \subseteq WindowCommands \cup {"maximize", "background"}
  OBVIOUS
<1> QED
  BY <1>1 DEF Commands, Carried

(* Appending to a concatenation appends to its second part.                 *)
LEMMA ConcatAppend ==
  ASSUME NEW a \in Carried, NEW b \in Carried, NEW x \in WindowCommands \cup {"background"}
  PROVE  Append(a \o b, x) = a \o Append(b, x)
BY DEF Carried

(* A command is queued and noted as posted.                                 *)
LEMMA PostedKept ==
  ASSUME ShellInv, NEW x \in WindowCommands \cup {"background"},
         UNCHANGED shell, compositor'.restored = compositor.restored,
         compositor'.asked = compositor.asked,
         hostCommands' = Append(hostCommands, x),
         compositor'.posted = Append(compositor.posted, x)
  PROVE  CommandsKept'
<1> DEFINE m == IF shell.built THEN MaximizeRequest ELSE <<>>
           a == compositor.asked
           h == hostCommands
           p == compositor.posted
<1>1. a \in Carried /\ h \in Carried /\ p \in Carried
  BY CarriedAreCommands DEF ShellInv, HostTyped, CompositorTyped, Compositors
<1>2. m \in Carried
  BY CarriedAreCommands DEF MaximizeRequest
<1>3. a \o h = m \o p
  BY DEF ShellInv, CommandsKept
<1>4. a \o Append(h, x) = m \o Append(p, x)
  <2> HIDE DEF m, a, h, p
  <2>1. Append(a \o h, x) = a \o Append(h, x)
    BY <1>1, ConcatAppend
  <2>2. Append(m \o p, x) = m \o Append(p, x)
    BY <1>1, <1>2, ConcatAppend
  <2> QED
    BY <1>3, <2>1, <2>2
<1> QED
  BY <1>4 DEF CommandsKept, MaximizeRequest

(* The host's commands are carried out by the thread whose shell has the    *)
(* root.                                                                    *)
LEMMA DrainKeeps ==
  ASSUME ShellInv, NEW c \in Connections, DrainCommands(c)
  PROVE  ShellInv'
<1> USE DEF DrainsFor
<1>1. CASE ~(c = VO /\ shell.built)
  <2>1. UNCHANGED <<shell, hostSide, pendingC, reported, hostCommands, theme, compositor>> /\ UNCHANGED net
    BY <1>1 DEF DrainCommands
  <2>2. loopAt' \in {"dispatch", "drain", "build"}
    BY DEF DrainCommands, ShellInv, LoopTyped
  <2> QED
    BY <2>1, <2>2, NothingElse
<1>2. CASE c = VO /\ shell.built
  <2> DEFINE painted == "background" \in ToSet(hostCommands) /\ shell.cur > 0 /\ CanFill(shell)
  <2>1. /\ hostCommands' = <<>> /\ loopAt' = "build"
        /\ compositor' = [compositor EXCEPT !.asked = @ \o hostCommands]
        /\ shell' = IF painted THEN [shell EXCEPT !.dest = shell.cur, !.shown = theme.rgb] ELSE shell
        /\ UNCHANGED <<net, hostSide, pendingC, reported, theme>>
    BY <1>2 DEF DrainCommands, RefillRoot, FillRoot
  <2>2. /\ shell \in Roots /\ hostSide \in HostSides /\ theme \in Themes /\ compositor \in Compositors
        /\ hostCommands \in Commands /\ pendingC \in Pending /\ reported \in Reports
    BY DEF ShellInv, RootTyped, HostTyped, CompositorTyped
  <2>3. ToSet(<<>>) = {}
    BY DEF ToSet
  <2>4. "background" \in ToSet(hostCommands) => shell.mapped
    BY <2>3 DEF ShellInv, OrderOfShell
  <2>5. /\ shell'.mpv = shell.mpv /\ shell'.told = shell.told /\ shell'.cur = shell.cur
        /\ shell'.demote = shell.demote /\ shell'.roundtrip = shell.roundtrip
        /\ shell'.globals = shell.globals /\ shell'.built = shell.built /\ shell'.acked = shell.acked
        /\ shell'.mapped = shell.mapped
        /\ shell'.shown = (IF painted THEN theme.rgb ELSE shell.shown)
        /\ shell'.dest = IF painted THEN shell.cur ELSE shell.dest
    BY <2>1, <2>2 DEF Roots
  <2>6. RootTyped'
    <3>1. shell' \in Roots
      BY <2>1, <2>2 DEF Roots, Themes
    <3> QED
      BY <2>1, <2>2, <3>1 DEF RootTyped
  <2>7. HostTyped'
    <3>1. <<>> \in Commands
      BY DEF Commands
    <3> QED
      BY <2>1, <2>2, <3>1 DEF HostTyped
  <2>8. /\ compositor'.events = compositor.events /\ compositor'.posted = compositor.posted
        /\ compositor'.size = compositor.size /\ compositor'.suspended = compositor.suspended
        /\ compositor'.scale = compositor.scale /\ compositor'.restored = compositor.restored
        /\ compositor'.asked = compositor.asked \o hostCommands
    BY <2>1, <2>2 DEF Compositors
  <2>9. CompositorTyped' /\ CommandsKept'
    <3>1. hostCommands \in Carried /\ compositor.asked \in Carried
      BY <2>2, CarriedAreCommands DEF Compositors
    <3>2. /\ compositor.asked \o hostCommands \in Carried
          /\ (compositor.asked \o hostCommands) \o <<>> = compositor.asked \o hostCommands
      BY <3>1, ConcatAll
    <3>3. CompositorTyped'
      BY <2>1, <2>2, <3>2 DEF CompositorTyped, Compositors
    <3>4. CommandsKept'
      BY <2>1, <2>5, <2>8, <3>2 DEF ShellInv, CommandsKept, MaximizeRequest
    <3> QED
      BY <3>3, <3>4
  <2>10. NetTyped' /\ IndexInv'
    BY <2>1, <2>5, NetStays DEF ShellInv, IndexInv
  <2>11. OrderOfShell'
    BY <1>2, <2>1, <2>4, <2>5, <2>8 DEF ShellInv, OrderOfShell
  <2>12. HandledInv'
    BY <2>1, <2>2, <2>4, <2>5 DEF ShellInv, HandledInv, CanFill, Roots, Sized
  <2>13. NewestConfigure' /\ NewestScale'
    BY <2>1, <2>5, <2>8 DEF ShellInv, NewestConfigure, NewestScale, WantedSize, LastOf, Lacks
  <2>14. DemotedInv'
    BY <2>5 DEF ShellInv, DemotedInv
  <2> QED
    BY <2>1, <2>6, <2>7, <2>9, <2>10, <2>11, <2>12, <2>13, <2>14 DEF ShellInv, LoopTyped
<1> QED
  BY <1>1, <1>2

(* The root is built, the host's surface put below it.                      *)
LEMMA BuildKeeps ==
  ASSUME ShellInv, MaybeBuildRoot
  PROVE  ShellInv'
<1>1. loopAt' = "dispatch" /\ UNCHANGED <<net, pendingC, reported, hostCommands, theme>>
  BY DEF MaybeBuildRoot
<1>2. /\ shell \in Roots /\ hostSide \in HostSides /\ compositor \in Compositors
  BY DEF ShellInv, RootTyped, CompositorTyped
<1>3. CASE shell.roundtrip = "done" /\ CanBuild
  <2>1. /\ shell' = [shell EXCEPT !.built = TRUE] /\ hostSide' = hostSide
        /\ compositor' = [compositor EXCEPT !.asked = MaximizeRequest]
        /\ shell.demote /\ ~shell.built /\ shell.roundtrip = "done"
    BY <1>3 DEF MaybeBuildRoot, BuildRoot, CanBuild
  <2>2. shell' \in Roots /\ compositor' \in Compositors
    <3>1. MaximizeRequest \in Carried
      BY CarriedAreCommands DEF MaximizeRequest
    <3> QED
      BY <1>2, <2>1, <3>1 DEF Roots, Compositors
  <2>3. /\ shell'.mpv = shell.mpv /\ shell'.told = shell.told /\ shell'.cur = shell.cur
        /\ shell'.demote = shell.demote /\ shell'.roundtrip = shell.roundtrip
        /\ shell'.globals = shell.globals /\ shell'.built /\ shell'.acked = shell.acked
        /\ shell'.mapped = shell.mapped /\ shell'.shown = shell.shown /\ shell'.dest = shell.dest
    BY <1>2, <2>1 DEF Roots
  <2>4. /\ compositor'.events = compositor.events /\ compositor'.posted = compositor.posted
        /\ compositor'.size = compositor.size /\ compositor'.suspended = compositor.suspended
        /\ compositor'.scale = compositor.scale /\ compositor'.restored = compositor.restored
        /\ compositor'.asked = MaximizeRequest
    BY <1>2, <2>1 DEF Compositors
  <2>5. NetTyped' /\ IndexInv'
    BY <1>1, <2>3, NetStays DEF ShellInv, IndexInv
  <2>6. RootTyped' /\ HostTyped' /\ CompositorTyped'
    BY <1>1, <1>2, <2>1, <2>2 DEF ShellInv, RootTyped, HostTyped, CompositorTyped
  <2>7. ~hostSide.named /\ hostCommands = <<>> /\ compositor.posted = <<>>
    BY <2>1 DEF ShellInv, OrderOfShell
  <2>8. shell.mpv = "toplevel"
    BY <2>1 DEF ShellInv, DemotedInv
  <2>9. OrderOfShell'
    BY <1>1, <2>1, <2>3, <2>4, <2>7, <2>8 DEF ShellInv, OrderOfShell
  <2>10. DemotedInv'
    BY <2>3 DEF ShellInv, DemotedInv
  <2>11. HandledInv'
    BY <1>1, <2>1, <2>3 DEF ShellInv, HandledInv, CanFill
  <2>12. NewestConfigure' /\ NewestScale'
    BY <1>1, <2>3, <2>4 DEF ShellInv, NewestConfigure, NewestScale, WantedSize, LastOf, Lacks
  <2>13. CommandsKept'
    BY <1>1, <2>3, <2>4, <2>7 DEF CommandsKept, MaximizeRequest
  <2> QED
    BY <1>1, <2>5, <2>6, <2>9, <2>10, <2>11, <2>12, <2>13 DEF ShellInv, LoopTyped
<1>4. CASE ~(shell.roundtrip = "done" /\ CanBuild) /\ shell.roundtrip = "done" /\ CanAdopt
  <2>1. /\ hostSide' = [hostSide EXCEPT !.adopted = TRUE, !.dest = shell.cur]
        /\ UNCHANGED <<shell, compositor>> /\ hostSide.named
    BY <1>4 DEF MaybeBuildRoot, AdoptHost, CanAdopt, FoundHostSurface
  <2>2. hostSide' \in HostSides
    BY <1>2, <2>1 DEF Roots, HostSides
  <2>3. /\ hostSide'.created = hostSide.created /\ hostSide'.named = hostSide.named
        /\ hostSide'.adopted /\ hostSide'.dest = shell.cur
    BY <1>2, <2>1 DEF HostSides
  <2>4. NetTyped' /\ IndexInv'
    BY <1>1, <2>1, NetStays DEF ShellInv, IndexInv
  <2>5. RootTyped' /\ HostTyped' /\ CompositorTyped'
    BY <1>1, <1>2, <2>1, <2>2 DEF ShellInv, RootTyped, HostTyped, CompositorTyped
  <2>6. OrderOfShell' /\ DemotedInv'
    BY <1>1, <2>1, <2>3 DEF ShellInv, OrderOfShell, DemotedInv, Lacks
  <2>7. HandledInv'
    BY <1>1, <2>1, <2>3 DEF ShellInv, HandledInv, CanFill
  <2>8. NewestConfigure' /\ NewestScale' /\ CommandsKept'
    BY <1>1, <2>1 DEF ShellInv, NewestConfigure, NewestScale, CommandsKept, MaximizeRequest,
       WantedSize, LastOf, Lacks
  <2> QED
    BY <1>1, <2>4, <2>5, <2>6, <2>7, <2>8 DEF ShellInv, LoopTyped
<1>5. CASE ~(shell.roundtrip = "done" /\ CanBuild) /\ ~(shell.roundtrip = "done" /\ CanAdopt)
  <2>1. UNCHANGED <<shell, hostSide, pendingC, reported, hostCommands, theme, compositor>> /\ UNCHANGED net
    BY <1>1, <1>5 DEF MaybeBuildRoot
  <2> QED
    BY <1>1, <2>1, NothingElse
<1> QED
  BY <1>3, <1>4, <1>5


(* A size is a number.                                                      *)
LEMMA SizesAreNumbers ==
  /\ \A w \in Sized : w \in Nat
  /\ InitialSize \in Sized /\ InitialSize > 0
BY ShellAssumption DEF Sized

(* What of the root and of the host's side the rest of the promises reads,  *)
(* when only these change.                                                  *)
LEMMA HostSideKeeps ==
  ASSUME ShellInv, CreateParent \/ SetHostSurface \/ ParentArrives
  PROVE  ShellInv'
<1>1. UNCHANGED <<net, loopAt, shell, pendingC, reported, hostCommands, theme, compositor>>
  BY DEF CreateParent, SetHostSurface, ParentArrives
<1>2. /\ hostSide' \in HostSides
      /\ hostSide'.dest = hostSide.dest /\ hostSide'.adopted = hostSide.adopted
      /\ hostSide.named => hostSide'.named
      /\ hostSide.created => hostSide'.created
      /\ hostSide'.named => hostSide'.created
      /\ hostSide'.created => hostSide.created \/ reported.pw > 0
  BY DEF CreateParent, SetHostSurface, ParentArrives, ShellInv, RootTyped, HostSides, OrderOfShell
<1>3. NetTyped' /\ IndexInv'
  BY <1>1, NetStays DEF ShellInv, IndexInv
<1>4. RootTyped' /\ HostTyped' /\ CompositorTyped'
  BY <1>1, <1>2 DEF ShellInv, RootTyped, HostTyped, CompositorTyped
<1>5. OrderOfShell' /\ DemotedInv'
  BY <1>1, <1>2 DEF ShellInv, OrderOfShell, DemotedInv, Lacks
<1>6. HandledInv'
  BY <1>1, <1>2 DEF ShellInv, HandledInv, CanFill
<1>7. NewestConfigure' /\ NewestScale' /\ CommandsKept'
  BY <1>1 DEF ShellInv, NewestConfigure, NewestScale, CommandsKept, MaximizeRequest,
     WantedSize, LastOf, Lacks
<1> QED
  BY <1>1, <1>3, <1>4, <1>5, <1>6, <1>7 DEF ShellInv, LoopTyped

(* Appending keeps what a sequence holds.                                   *)
LEMMA AppendKeeps ==
  ASSUME NEW S, NEW s \in Seq(S), NEW e \in S
  PROVE  /\ e \in ToSet(Append(s, e))
         /\ \A x \in ToSet(s) : x \in ToSet(Append(s, e))
<1>1. /\ Append(s, e)[Len(s) + 1] = e /\ DOMAIN s = 1..Len(s) /\ DOMAIN Append(s, e) = 1..(Len(s) + 1)
      /\ \A i \in 1..Len(s) : Append(s, e)[i] = s[i]
      /\ Len(s) \in Nat
  BY AppendItems
<1>2. Len(s) + 1 \in DOMAIN Append(s, e) /\ \A i \in DOMAIN s : i \in DOMAIN Append(s, e)
  BY <1>1
<1>3. ToSet(Append(s, e)) = {Append(s, e)[i] : i \in DOMAIN Append(s, e)} /\ ToSet(s) = {s[i] : i \in DOMAIN s}
  BY DEF ToSet
<1> QED
  BY <1>1, <1>2, <1>3

(* A command or a colour is queued, a colour stored.                        *)
LEMMA PostKeeps ==
  ASSUME ShellInv, PostCommand \/ PushColour
  PROVE  ShellInv'
<1>1. /\ UNCHANGED <<net, loopAt, shell, hostSide, pendingC, reported>>
      /\ hostSide.named
      /\ \E x \in WindowCommands \cup {"background"} :
           /\ hostCommands' = Append(hostCommands, x)
           /\ compositor' = [compositor EXCEPT !.posted = Append(@, x)]
           /\ x = "background" \/ theme' = theme
      /\ theme' \in Themes /\ theme'.rgb = theme.rgb
  BY DEF PostCommand, PushColour, ShellInv, OrderOfShell, HostTyped, Themes
<1>2. PICK x \in WindowCommands \cup {"background"} :
           /\ hostCommands' = Append(hostCommands, x)
           /\ compositor' = [compositor EXCEPT !.posted = Append(@, x)]
           /\ x = "background" \/ theme' = theme
  BY <1>1
<1>3. /\ hostCommands \in Commands /\ compositor \in Compositors /\ compositor.posted \in Commands
  BY DEF ShellInv, HostTyped, CompositorTyped, Compositors
<1>4. Append(hostCommands, x) \in Commands /\ Append(compositor.posted, x) \in Commands
  BY <1>3 DEF Commands
<1>5. compositor' \in Compositors
  BY <1>2, <1>3, <1>4 DEF Compositors
<1>6. /\ compositor'.events = compositor.events
      /\ compositor'.posted = Append(compositor.posted, x) /\ compositor'.asked = compositor.asked
      /\ compositor'.size = compositor.size /\ compositor'.suspended = compositor.suspended
      /\ compositor'.scale = compositor.scale /\ compositor'.restored = compositor.restored
  BY <1>2, <1>3 DEF Compositors
<1>7. NetTyped' /\ IndexInv'
  BY <1>1, NetStays DEF ShellInv, IndexInv
<1>8. RootTyped' /\ HostTyped' /\ CompositorTyped'
  BY <1>1, <1>2, <1>4, <1>5 DEF ShellInv, RootTyped, HostTyped, CompositorTyped
<1>9. OrderOfShell' /\ DemotedInv'
  BY <1>1, <1>6 DEF ShellInv, OrderOfShell, DemotedInv
<1>10. HandledInv'
  <2>1. /\ x \in ToSet(hostCommands')
        /\ "background" \in ToSet(hostCommands) => "background" \in ToSet(hostCommands')
    BY <1>2, <1>3, AppendKeeps DEF Commands
  <2> QED
    BY <1>1, <1>2, <2>1 DEF ShellInv, HandledInv, CanFill
<1>11. NewestConfigure' /\ NewestScale'
  BY <1>1, <1>6 DEF ShellInv, NewestConfigure, NewestScale, WantedSize, LastOf, Lacks
<1>12. CommandsKept'
  BY <1>1, <1>2, <1>6, PostedKept
<1> QED
  BY <1>1, <1>7, <1>8, <1>9, <1>10, <1>11, <1>12 DEF ShellInv, LoopTyped

LEMMA ColourKeeps ==
  ASSUME ShellInv, StoreColour
  PROVE  ShellInv'
<1>1. /\ UNCHANGED <<net, loopAt, shell, hostSide, pendingC, reported, hostCommands, compositor>>
      /\ hostSide.named /\ theme' \in Themes /\ theme'.pc = "push"
  BY DEF StoreColour, Themes
<1>2. NetTyped' /\ IndexInv'
  BY <1>1, NetStays DEF ShellInv, IndexInv
<1>3. RootTyped' /\ HostTyped' /\ CompositorTyped'
  BY <1>1 DEF ShellInv, RootTyped, HostTyped, CompositorTyped
<1>4. OrderOfShell' /\ DemotedInv'
  BY <1>1 DEF ShellInv, OrderOfShell, DemotedInv, Lacks
<1>5. HandledInv'
  BY <1>1 DEF ShellInv, HandledInv, CanFill
<1>6. NewestConfigure' /\ NewestScale' /\ CommandsKept'
  BY <1>1 DEF ShellInv, NewestConfigure, NewestScale, CommandsKept, MaximizeRequest,
     WantedSize, LastOf, Lacks
<1> QED
  BY <1>1, <1>2, <1>3, <1>4, <1>5, <1>6 DEF ShellInv, LoopTyped

(* mpv's window, from its surface to the globals of the root.               *)
LEMMA MpvKeeps ==
  ASSUME ShellInv, GetXdgSurface \/ GetToplevel \/ RoundtripDone
  PROVE  ShellInv'
<1>1. UNCHANGED <<loopAt, hostSide, pendingC, reported, hostCommands, theme, compositor>>
  BY DEF GetXdgSurface, GetToplevel, RoundtripDone
<1>2. shell \in Roots /\ net \in Nets /\ net.served \subseteq net.made /\ VO \in Connections
  BY DEF ShellInv, RootTyped, NetTyped, Connections
<1>3. InitialSize \in Sized /\ InitialSize > 0
  BY SizesAreNumbers
<1>4. ~shell.built /\ ~shell.mapped /\ shell.dest = 0
  <2>1. ~shell.built
    BY DEF GetXdgSurface, GetToplevel, RoundtripDone, ShellInv, OrderOfShell
  <2>2. ~shell.mapped
    BY <2>1 DEF ShellInv, OrderOfShell
  <2>3. shell.dest \in Nat
    <3>1. shell.dest \in Sized
      BY <1>2 DEF Roots
    <3> QED
      BY <3>1, SizesAreNumbers
  <2> QED
    BY <2>1, <2>2, <2>3 DEF ShellInv, OrderOfShell
<1>5. /\ shell' \in Roots /\ shell'.built = shell.built /\ shell'.mapped = shell.mapped
      /\ shell'.acked = shell.acked /\ shell'.dest = shell.dest /\ DemotedInv'
      /\ shell'.mpv # "none" => Counted(VO)
  <2>1. CASE GetXdgSurface
    <3>1. shell' = [shell EXCEPT !.mpv = "surface"] /\ Counted(VO) /\ shell.mpv = "none"
      BY <2>1 DEF GetXdgSurface
    <3> QED
      BY <1>2, <3>1 DEF Roots, DemotedInv, ShellInv
  <2>2. CASE GetToplevel
    <3> DEFINE w == IF shell.cur = 0 THEN InitialSize ELSE shell.cur
    <3>1. /\ shell' = [shell EXCEPT !.mpv = "toplevel", !.demote = TRUE, !.cur = w, !.told = w,
                         !.roundtrip = "started"]
          /\ shell.mpv = "surface"
      BY <1>2, <2>2 DEF GetToplevel, EnsureRoot, SynthMpv, ShellInv, DemotedInv, Roots
    <3>2. w \in Sized /\ w > 0
      <4>1. shell.cur \in Sized
        BY <1>2 DEF Roots
      <4>2. shell.cur \in Nat
        BY <4>1, SizesAreNumbers
      <4> QED
        BY <1>3, <4>1, <4>2
    <3>3. Counted(VO)
      BY <3>1 DEF ShellInv, IndexInv
    <3> HIDE DEF w
    <3>4. shell' \in Roots
      BY <1>2, <3>1, <3>2 DEF Roots
    <3>5. /\ shell'.built = shell.built /\ shell'.mapped = shell.mapped /\ shell'.cur = w
          /\ shell'.acked = shell.acked /\ shell'.dest = shell.dest
          /\ shell'.mpv = "toplevel" /\ shell'.demote /\ shell'.roundtrip = "started"
      BY <1>2, <3>1 DEF Roots
    <3> QED
      BY <3>2, <3>3, <3>4, <3>5 DEF DemotedInv
  <2>3. CASE RoundtripDone
    <3>1. PICK g \in {"all", "bare", "none"} :
            shell' = [shell EXCEPT !.roundtrip = "done", !.globals = g] /\ shell.roundtrip = "started"
      BY <2>3 DEF RoundtripDone
    <3> QED
      BY <1>2, <3>1 DEF Roots, DemotedInv, ShellInv, IndexInv
  <2> QED
    BY <2>1, <2>2, <2>3
<1>6. NetTyped' /\ IndexInv'
  <2>1. CASE UNCHANGED net
    BY <1>5, <2>1, NetStays
  <2>2. CASE GetToplevel
    <3>1. net' = [net EXCEPT !.vo = net.index[VO]] /\ Counted(VO)
      BY <2>2 DEF GetToplevel, ShellInv, IndexInv
    <3>2. net.index[VO] \in Nat
      BY <1>2, <3>1 DEF Counted, Nets
    <3>3. /\ net' \in Nets /\ net'.vo = net.index[VO]
          /\ net'.made = net.made /\ net'.captured = net.captured /\ net'.seq = net.seq
          /\ net'.raced = net.raced /\ net'.index = net.index /\ net'.served = net.served
      BY <1>2, <3>1, <3>2 DEF Nets
    <3>4. NetTyped'
      BY <1>2, <3>3 DEF NetTyped
    <3>5. \A d \in Connections : (Counted(d)' <=> Counted(d)) /\ (Recorded(d)' <=> Recorded(d))
                                 /\ (Pair(d)' <=> Pair(d))
      BY <3>3 DEF Counted, Recorded, Pair
    <3>6. SameProcess \subseteq Connections
      BY DEF SameProcess, Connections
    <3>7. IndexInv'
      BY <1>2, <3>1, <3>3, <3>5, <3>6 DEF ShellInv, IndexInv
    <3> QED
      BY <3>4, <3>7
  <2> QED
    BY <2>1, <2>2 DEF GetXdgSurface, RoundtripDone
<1>7. RootTyped' /\ HostTyped' /\ CompositorTyped'
  BY <1>1, <1>5 DEF ShellInv, RootTyped, HostTyped, CompositorTyped
<1>8. OrderOfShell'
  BY <1>1, <1>4, <1>5 DEF ShellInv, OrderOfShell, Lacks
<1>9. HandledInv'
  BY <1>1, <1>4, <1>5 DEF ShellInv, HandledInv
<1>10. NewestConfigure' /\ NewestScale' /\ CommandsKept'
  BY <1>1, <1>4, <1>5 DEF ShellInv, NewestConfigure, NewestScale, CommandsKept, MaximizeRequest,
     WantedSize, LastOf, Lacks
<1> QED
  BY <1>1, <1>5, <1>6, <1>7, <1>8, <1>9, <1>10 DEF ShellInv, LoopTyped


(* The compositor sends a configure or a scale.                             *)
LEMMA SendKeeps ==
  ASSUME ShellInv, SendsConfigure \/ SendsScale
  PROVE  ShellInv'
<1>1. UNCHANGED <<net, loopAt, shell, hostSide, pendingC, reported, hostCommands, theme>>
  BY DEF SendsConfigure, SendsScale
<1>2. compositor \in Compositors /\ compositor.events \in Seq(ShellEvents)
  BY DEF ShellInv, CompositorTyped, Compositors
<1>3. PICK e \in ShellEvents :
        /\ compositor'.events = Append(compositor.events, e)
        /\ compositor'.posted = compositor.posted /\ compositor'.asked = compositor.asked
        /\ compositor'.restored = compositor.restored
        /\ compositor' \in Compositors
        /\ \/ /\ e.kind = "configure" /\ shell.built /\ compositor'.scale = compositor.scale
              /\ e.w = compositor'.size /\ e.suspended = compositor'.suspended
           \/ /\ e.kind = "scale" /\ compositor'.size = compositor.size
              /\ compositor'.suspended = compositor.suspended /\ e.scale = compositor'.scale
  <2>1. CASE SendsConfigure
    <3>1. PICK w \in Sized, s \in BOOLEAN :
            compositor' = [compositor EXCEPT !.sent = @ + 1, !.size = w, !.suspended = s,
              !.events = Append(@, [kind |-> "configure", w |-> w, suspended |-> s])]
      BY <2>1 DEF SendsConfigure, Sized
    <3> DEFINE e == [kind |-> "configure", w |-> w, suspended |-> s]
    <3>2. e \in ShellEvents /\ e.kind = "configure" /\ e.w = w /\ e.suspended = s
      BY DEF ShellEvents, ConfigureEvents
    <3> HIDE DEF e
    <3>3. Append(compositor.events, e) \in Seq(ShellEvents)
      BY <1>2, <3>2, AppendItems
    <3>4. compositor' = [compositor EXCEPT !.sent = @ + 1, !.size = w, !.suspended = s,
                           !.events = Append(@, e)]
      BY <3>1 DEF e
    <3>5. compositor' \in Compositors
      <4>1. compositor.sent + 1 \in Nat
        BY <1>2 DEF Compositors
      <4> QED
        BY <1>2, <3>3, <3>4, <4>1 DEF Compositors
    <3>6. /\ compositor'.events = Append(compositor.events, e)
          /\ compositor'.posted = compositor.posted /\ compositor'.asked = compositor.asked
          /\ compositor'.restored = compositor.restored /\ compositor'.scale = compositor.scale
          /\ compositor'.size = w /\ compositor'.suspended = s
      BY <1>2, <3>4 DEF Compositors
    <3>7. shell.built
      BY <2>1 DEF SendsConfigure
    <3> QED
      BY <3>2, <3>5, <3>6, <3>7
  <2>2. CASE SendsScale
    <3>1. PICK sc \in ShellScales :
            compositor' = [compositor EXCEPT !.sent = @ + 1, !.scale = sc,
              !.events = Append(@, [kind |-> "scale", scale |-> sc])]
      BY <2>2 DEF SendsScale
    <3> DEFINE e == [kind |-> "scale", scale |-> sc]
    <3>2. e \in ShellEvents /\ e.kind = "scale" /\ e.scale = sc
      BY DEF ShellEvents, ScaleEvents
    <3> HIDE DEF e
    <3>3. Append(compositor.events, e) \in Seq(ShellEvents)
      BY <1>2, <3>2, AppendItems
    <3>4. compositor' = [compositor EXCEPT !.sent = @ + 1, !.scale = sc, !.events = Append(@, e)]
      BY <3>1 DEF e
    <3>5. compositor' \in Compositors
      <4>1. compositor.sent + 1 \in Nat
        BY <1>2 DEF Compositors
      <4> QED
        BY <1>2, <3>3, <3>4, <4>1 DEF Compositors
    <3>6. /\ compositor'.events = Append(compositor.events, e)
          /\ compositor'.posted = compositor.posted /\ compositor'.asked = compositor.asked
          /\ compositor'.restored = compositor.restored /\ compositor'.scale = sc
          /\ compositor'.size = compositor.size /\ compositor'.suspended = compositor.suspended
      BY <1>2, <3>4 DEF Compositors
    <3> QED
      BY <3>2, <3>5, <3>6
  <2> QED
    BY <2>1, <2>2
<1>4. NetTyped' /\ IndexInv'
  BY <1>1, NetStays DEF ShellInv, IndexInv
<1>5. RootTyped' /\ HostTyped' /\ CompositorTyped'
  BY <1>1, <1>3 DEF ShellInv, RootTyped, HostTyped, CompositorTyped
<1> DEFINE q == compositor.events
           r == compositor'.events
<1>6. LastAfter(r, q, e, "configure") /\ LastAfter(r, q, e, "scale")
  <2>1. r = Append(q, e) /\ q \in Seq(ShellEvents) /\ e \in ShellEvents
    BY <1>2, <1>3
  <2> HIDE DEF q, r
  <2> QED
    BY <2>1, LastAppend
<1>7. Lacks(r, "configure") <=> Lacks(q, "configure") /\ e.kind # "configure"
  BY <1>6 DEF LastAfter
<1>8. OrderOfShell' /\ DemotedInv'
  BY <1>1, <1>3, <1>7 DEF ShellInv, OrderOfShell, DemotedInv
<1>9. HandledInv' /\ CommandsKept'
  BY <1>1, <1>3 DEF ShellInv, HandledInv, CanFill, CommandsKept, MaximizeRequest
<1>10. NewestConfigure'
  BY <1>1, <1>3, <1>6 DEF ShellInv, NewestConfigure, WantedSize, LastAfter
<1>11. NewestScale'
  BY <1>1, <1>3, <1>6 DEF ShellInv, NewestScale, LastAfter
<1> QED
  BY <1>1, <1>4, <1>5, <1>8, <1>9, <1>10, <1>11 DEF ShellInv, LoopTyped

(* A size in device pixels.                                                 *)
LEMMA PhysicalSize ==
  ASSUME NEW w \in Nat, NEW s \in Nat, w > 0, s > 0
  PROVE  Physical(w, s) \in Nat
<1>1. w * s \in Nat
  OBVIOUS
<1> QED
  BY <1>1 DEF Physical

LEMMA ScalesAreNumbers == \A s \in ShellScales \cup {120} : s \in Nat /\ s > 0
BY ShellAssumption

(* The root is configured.                                                  *)
LEMMA ConfigureKeeps ==
  ASSUME ShellInv, RootConfigured
  PROVE  ShellInv'
<1> DEFINE q == compositor.events
           ev == Head(q)
           w == IF ev.w > 0 THEN ev.w ELSE InitialSize
<1>1. /\ UNCHANGED <<net, loopAt, hostCommands, theme>>
      /\ q # <<>> /\ ev.kind = "configure"
      /\ compositor' = [compositor EXCEPT !.events = Tail(q)]
  BY DEF RootConfigured
<1>2. /\ shell \in Roots /\ hostSide \in HostSides /\ pendingC \in Pending /\ reported \in Reports
      /\ theme \in Themes /\ compositor \in Compositors /\ q \in Seq(ShellEvents)
  BY DEF ShellInv, RootTyped, HostTyped, CompositorTyped, Compositors
<1>3. ev \in ShellEvents /\ Tail(q) \in Seq(ShellEvents)
  BY <1>1, <1>2, TailItems
<1>4. ev.w \in Sized /\ ev.suspended \in BOOLEAN
  BY <1>1, <1>3 DEF ShellEvents, ConfigureEvents, ScaleEvents
<1>5. w \in Sized /\ w \in Nat /\ w > 0
  BY <1>4, SizesAreNumbers
<1>6. /\ pendingC' = [pendingC EXCEPT !.have = TRUE, !.w = w, !.suspended = ev.suspended]
      /\ reported' = FireSuspended(pendingC.suspended, ev.suspended, FireConfigure(pendingC', reported))
  BY DEF RootConfigured, ToplevelConfigured
<1> HIDE DEF w
<1>7. /\ pendingC' \in Pending /\ pendingC'.have /\ pendingC'.w = w /\ pendingC'.scale = pendingC.scale
      /\ pendingC'.suspended = ev.suspended
  BY <1>2, <1>4, <1>5, <1>6 DEF Pending
<1>8. Physical(w, pendingC.scale) \in Nat
  <2>1. pendingC.scale \in Nat /\ pendingC.scale > 0
    BY <1>2, ScalesAreNumbers DEF Pending
  <2> QED
    BY <1>5, <2>1, PhysicalSize
<1>9. reported' \in Reports /\ reported'.pw = Physical(w, pendingC.scale) /\ reported'.visible = ~ev.suspended
  <2>1. reported.visible = ~pendingC.suspended
    BY DEF ShellInv, HandledInv
  <2> DEFINE r == FireConfigure(pendingC', reported)
  <2>2. r = [reported EXCEPT !.pw = Physical(w, pendingC.scale)]
    BY <1>7 DEF FireConfigure
  <2>3. r \in Reports /\ r.pw = Physical(w, pendingC.scale) /\ r.visible = reported.visible
    BY <1>2, <1>8, <2>2 DEF Reports
  <2> HIDE DEF r
  <2>4. reported' = IF pendingC.suspended = ev.suspended THEN r ELSE [r EXCEPT !.visible = ~ev.suspended]
    BY <1>6 DEF FireSuspended, r
  <2>5. CASE pendingC.suspended = ev.suspended
    BY <2>1, <2>3, <2>4, <2>5
  <2>6. CASE pendingC.suspended # ev.suspended
    <3>1. (~ev.suspended) \in BOOLEAN
      OBVIOUS
    <3> QED
      BY <2>3, <2>4, <2>6, <3>1 DEF Reports
  <2> QED
    BY <2>5, <2>6
<1>10. /\ shell' = SynthMpv([FillRoot([shell EXCEPT !.acked = TRUE, !.cur = w], w) EXCEPT !.mapped = TRUE], w)
       /\ hostSide' = IF hostSide.adopted THEN [hostSide EXCEPT !.dest = w] ELSE hostSide
  BY <1>7 DEF RootConfigured, SurfaceConfigured
<1>11. /\ shell' = [shell EXCEPT !.acked = TRUE, !.cur = w, !.mapped = TRUE, !.told = w,
                      !.dest = IF CanFill(shell) THEN w ELSE shell.dest,
                      !.shown = IF CanFill(shell) THEN theme.rgb ELSE shell.shown]
  <2>1. CASE CanFill(shell)
    BY <1>2, <1>10, <2>1 DEF SynthMpv, FillRoot, CanFill, Roots
  <2>2. CASE ~CanFill(shell)
    BY <1>2, <1>10, <2>2 DEF SynthMpv, FillRoot, CanFill, Roots
  <2> QED
    BY <2>1, <2>2
<1>12. shell' \in Roots
  BY <1>2, <1>5, <1>11 DEF Roots, Themes
<1>13. /\ shell'.acked /\ shell'.mapped /\ shell'.cur = w /\ shell'.told = w
       /\ shell'.built = shell.built /\ shell'.mpv = shell.mpv /\ shell'.demote = shell.demote
       /\ shell'.roundtrip = shell.roundtrip /\ shell'.globals = shell.globals
       /\ shell'.dest = (IF CanFill(shell) THEN w ELSE shell.dest)
       /\ shell'.shown = (IF CanFill(shell) THEN theme.rgb ELSE shell.shown)
  BY <1>2, <1>11 DEF Roots
<1>14. /\ hostSide' \in HostSides /\ hostSide'.adopted = hostSide.adopted
       /\ hostSide'.created = hostSide.created /\ hostSide'.named = hostSide.named
       /\ hostSide.adopted => hostSide'.dest = w
  BY <1>2, <1>5, <1>10 DEF HostSides
<1>15. /\ compositor' \in Compositors /\ compositor'.events = Tail(q)
       /\ compositor'.size = compositor.size /\ compositor'.suspended = compositor.suspended
       /\ compositor'.scale = compositor.scale /\ compositor'.restored = compositor.restored
       /\ compositor'.posted = compositor.posted /\ compositor'.asked = compositor.asked
  BY <1>1, <1>2, <1>3 DEF Compositors
<1>16. NetTyped' /\ IndexInv'
  BY <1>1, <1>13, NetStays DEF ShellInv, IndexInv
<1>17. RootTyped' /\ HostTyped' /\ CompositorTyped'
  BY <1>1, <1>7, <1>9, <1>12, <1>14, <1>15 DEF ShellInv, RootTyped, HostTyped, CompositorTyped
<1>18. /\ \A i \in 1..Len(Tail(q)) : LastOf(Tail(q), "configure", i) =>
             i + 1 \in 1..Len(q) /\ LastOf(q, "configure", i + 1) /\ Tail(q)[i] = q[i + 1]
       /\ Lacks(Tail(q), "configure") => 1 \in 1..Len(q) /\ LastOf(q, "configure", 1) /\ ev = q[1]
       /\ ~Lacks(q, "configure")
  <2>1. q # <<>> /\ q \in Seq(ShellEvents) /\ ev = Head(q) /\ ev.kind = "configure"
    BY <1>1, <1>2
  <2> HIDE DEF q, ev
  <2> QED
    BY <2>1, LastTail
<1>19. /\ \A i \in 1..Len(Tail(q)) : LastOf(Tail(q), "scale", i) =>
             i + 1 \in 1..Len(q) /\ LastOf(q, "scale", i + 1) /\ Tail(q)[i] = q[i + 1]
       /\ Lacks(Tail(q), "scale") => Lacks(q, "scale")
  <2>1. q # <<>> /\ q \in Seq(ShellEvents) /\ ev = Head(q) /\ ev.kind = "configure"
    BY <1>1, <1>2
  <2> HIDE DEF q, ev
  <2> QED
    BY <2>1, LastTail
<1>20. shell.built
  BY <1>18 DEF ShellInv, OrderOfShell
<1>21. OrderOfShell'
  BY <1>1, <1>7, <1>13, <1>14, <1>15, <1>20 DEF ShellInv, OrderOfShell
<1>22. DemotedInv'
  BY <1>5, <1>13, <1>20 DEF ShellInv, DemotedInv, OrderOfShell
<1>23. HandledInv'
  BY <1>1, <1>5, <1>7, <1>9, <1>13, <1>14 DEF HandledInv, CanFill
<1>24. NewestConfigure'
  <2>1. \A i \in 1..Len(Tail(q)) : LastOf(Tail(q), "configure", i) =>
          /\ Tail(q)[i].w = compositor.size
          /\ Tail(q)[i].suspended = compositor.suspended
    BY <1>18 DEF ShellInv, NewestConfigure
  <2>2. Lacks(Tail(q), "configure") => ev.w = compositor.size /\ ev.suspended = compositor.suspended
    BY <1>18 DEF ShellInv, NewestConfigure
  <2> QED
    BY <1>7, <1>15, <2>1, <2>2 DEF NewestConfigure, WantedSize, w
<1>25. NewestScale'
  BY <1>7, <1>15, <1>19 DEF ShellInv, NewestScale
<1>26. CommandsKept'
  BY <1>1, <1>13, <1>15 DEF ShellInv, CommandsKept, MaximizeRequest
<1> QED
  BY <1>1, <1>16, <1>17, <1>21, <1>22, <1>23, <1>24, <1>25, <1>26 DEF ShellInv, LoopTyped

(* The scale changes.                                                       *)
LEMMA ScaleKeeps ==
  ASSUME ShellInv, PreferredScale
  PROVE  ShellInv'
<1> DEFINE q == compositor.events
           ev == Head(q)
           s == ev.scale
<1>1. /\ UNCHANGED <<net, loopAt, shell, hostSide, hostCommands, theme>>
      /\ q # <<>> /\ ev.kind = "scale"
      /\ compositor' = [compositor EXCEPT !.events = Tail(q)]
      /\ pendingC' = [pendingC EXCEPT !.scale = s]
      /\ reported' = FireConfigure(pendingC', [reported EXCEPT !.scale = s])
  BY DEF PreferredScale
<1>2. /\ pendingC \in Pending /\ reported \in Reports
      /\ compositor \in Compositors /\ q \in Seq(ShellEvents)
  BY DEF ShellInv, HostTyped, CompositorTyped, Compositors
<1>3. ev \in ShellEvents /\ Tail(q) \in Seq(ShellEvents)
  BY <1>1, <1>2, TailItems
<1>4. s \in ShellScales
  BY <1>1, <1>3 DEF ShellEvents, ConfigureEvents, ScaleEvents
<1>5. s \in Nat /\ s > 0
  BY <1>4, ScalesAreNumbers
<1> HIDE DEF s
<1>6. /\ pendingC' \in Pending /\ pendingC'.have = pendingC.have /\ pendingC'.w = pendingC.w
      /\ pendingC'.scale = s /\ pendingC'.suspended = pendingC.suspended
  BY <1>1, <1>2, <1>4 DEF Pending
<1>7. pendingC.have <=> shell.mapped
  BY DEF ShellInv, OrderOfShell
<1>8. /\ reported' \in Reports /\ reported'.visible = reported.visible
      /\ reported'.pw = IF pendingC.have THEN Physical(pendingC.w, s) ELSE reported.pw
  <2> DEFINE r == [reported EXCEPT !.scale = s]
  <2>1. r \in Reports /\ r.visible = reported.visible /\ r.pw = reported.pw
    BY <1>2, <1>4 DEF Reports
  <2> HIDE DEF r
  <2>2. reported' = IF pendingC.have THEN [r EXCEPT !.pw = Physical(pendingC.w, s)] ELSE r
    BY <1>1, <1>6 DEF FireConfigure, r
  <2>3. CASE pendingC.have
    <3>1. pendingC.w \in Nat /\ pendingC.w > 0
      <4>1. pendingC.w \in Sized
        BY <1>2 DEF Pending
      <4> QED
        BY <1>7, <2>3, <4>1, SizesAreNumbers DEF ShellInv, HandledInv
    <3>2. Physical(pendingC.w, s) \in Nat
      BY <1>5, <3>1, PhysicalSize
    <3> QED
      BY <2>1, <2>2, <2>3, <3>2 DEF Reports
  <2>4. CASE ~pendingC.have
    BY <2>1, <2>2, <2>4
  <2> QED
    BY <2>3, <2>4
<1>9. /\ compositor' \in Compositors /\ compositor'.events = Tail(q)
      /\ compositor'.size = compositor.size /\ compositor'.suspended = compositor.suspended
      /\ compositor'.scale = compositor.scale /\ compositor'.restored = compositor.restored
      /\ compositor'.posted = compositor.posted /\ compositor'.asked = compositor.asked
  BY <1>1, <1>2, <1>3 DEF Compositors
<1>10. NetTyped' /\ IndexInv'
  BY <1>1, NetStays DEF ShellInv, IndexInv
<1>11. RootTyped' /\ HostTyped' /\ CompositorTyped'
  BY <1>1, <1>6, <1>8, <1>9 DEF ShellInv, RootTyped, HostTyped, CompositorTyped
<1>12. /\ \A i \in 1..Len(Tail(q)) : LastOf(Tail(q), "configure", i) =>
             i + 1 \in 1..Len(q) /\ LastOf(q, "configure", i + 1) /\ Tail(q)[i] = q[i + 1]
       /\ Lacks(Tail(q), "configure") <=> Lacks(q, "configure")
  <2>1. q # <<>> /\ q \in Seq(ShellEvents) /\ ev = Head(q) /\ ev.kind = "scale"
    BY <1>1, <1>2
  <2> HIDE DEF q, ev
  <2> QED
    BY <2>1, LastTail
<1>13. /\ \A i \in 1..Len(Tail(q)) : LastOf(Tail(q), "scale", i) =>
             i + 1 \in 1..Len(q) /\ LastOf(q, "scale", i + 1) /\ Tail(q)[i] = q[i + 1]
       /\ Lacks(Tail(q), "scale") => 1 \in 1..Len(q) /\ LastOf(q, "scale", 1) /\ ev = q[1]
  <2>1. q # <<>> /\ q \in Seq(ShellEvents) /\ ev = Head(q) /\ ev.kind = "scale"
    BY <1>1, <1>2
  <2> HIDE DEF q, ev
  <2> QED
    BY <2>1, LastTail
<1>14. OrderOfShell' /\ DemotedInv'
  BY <1>1, <1>6, <1>7, <1>8, <1>9, <1>12 DEF ShellInv, OrderOfShell, DemotedInv
<1>15. HandledInv'
  BY <1>1, <1>6, <1>7, <1>8 DEF ShellInv, HandledInv, CanFill
<1>16. NewestConfigure'
  BY <1>1, <1>6, <1>9, <1>12 DEF ShellInv, NewestConfigure, WantedSize
<1>17. NewestScale'
  BY <1>6, <1>9, <1>13 DEF ShellInv, NewestScale, s
<1>18. CommandsKept'
  BY <1>1, <1>9 DEF ShellInv, CommandsKept, MaximizeRequest
<1> QED
  BY <1>1, <1>10, <1>11, <1>14, <1>15, <1>16, <1>17, <1>18 DEF ShellInv, LoopTyped


LEMMA ShellStart == ShellInit => ShellInv
<1> SUFFICES ASSUME ShellInit PROVE ShellInv
  OBVIOUS
<1> USE DEF ShellInit
<1>1. NetTyped /\ LoopTyped
  <2>1. [c \in Connections |-> -1] \in [Connections -> Nat \cup {-1}]
    OBVIOUS
  <2> QED
    BY <2>1 DEF NetTyped, LoopTyped, Nets
<1>2. RootTyped
  <2>1. 0 \in Sized
    BY DEF Sized
  <2> QED
    BY <2>1 DEF RootTyped, Roots, HostSides
<1>3. HostTyped
  <2>1. 0 \in Sized
    BY DEF Sized
  <2>2. pendingC \in Pending /\ reported \in Reports /\ theme \in Themes
    BY <2>1 DEF Pending, Reports, Themes
  <2>3. hostCommands \in Commands
    BY DEF Commands
  <2> QED
    BY <2>2, <2>3 DEF HostTyped
<1>4. CompositorTyped
  <2>1. 0 \in Sized
    BY DEF Sized
  <2>2. <<>> \in Commands /\ <<>> \in Carried /\ <<>> \in Seq(ShellEvents)
    BY DEF Commands, Carried
  <2> QED
    BY <2>1, <2>2 DEF CompositorTyped, Compositors
<1>5. IndexInv
  <2>1. net.made = {} /\ net.captured = <<>> /\ net.vo = -1 /\ net.served = {} /\ shell.mpv = "none"
        /\ net.index = [c \in Connections |-> -1] /\ net.seq = 0
    OBVIOUS
  <2>2. \A c \in Connections : net.index[c] = -1
    BY <2>1
  <2>3. SameProcess \subseteq Connections
    BY DEF SameProcess, Connections
  <2>4. \A c \in Connections : ~Recorded(c)
    BY <2>1 DEF Recorded
  <2> QED
    BY <2>1, <2>2, <2>3, <2>4 DEF IndexInv
<1>6. compositor.events = <<>> /\ compositor.posted = <<>> /\ compositor.asked = <<>>
      /\ Lacks(compositor.events, "configure")
  BY DEF Lacks
<1>7. OrderOfShell /\ DemotedInv
  BY <1>6 DEF OrderOfShell, DemotedInv
<1>8. HandledInv
  BY DEF HandledInv
<1>9. NewestConfigure /\ NewestScale
  BY DEF NewestConfigure, NewestScale
<1>10. CommandsKept
  BY <1>6 DEF CommandsKept
<1> QED
  BY <1>1, <1>2, <1>3, <1>4, <1>5, <1>7, <1>8, <1>9, <1>10 DEF ShellInv

LEMMA ShellSteps == ShellInv /\ [ShellNext]_shellVars => ShellInv'
<1> SUFFICES ASSUME ShellInv, [ShellNext]_shellVars PROVE ShellInv'
  OBVIOUS
<1>1. CASE \E c \in Connections : Connect(c) \/ RecordConnect(c) \/ RunClient(c) \/ DrainCommands(c)
  BY <1>1, ConnectionsKeep, DrainKeeps
<1>2. CASE EndDispatch
  BY <1>2, NothingElse DEF EndDispatch
<1>3. CASE MaybeBuildRoot
  BY <1>3, BuildKeeps
<1>4. CASE GetXdgSurface \/ GetToplevel \/ RoundtripDone
  BY <1>4, MpvKeeps
<1>5. CASE RootConfigured
  BY <1>5, ConfigureKeeps
<1>6. CASE PreferredScale
  BY <1>6, ScaleKeeps
<1>7. CASE SendsConfigure \/ SendsScale
  BY <1>7, SendKeeps
<1>8. CASE CreateParent \/ SetHostSurface \/ ParentArrives
  BY <1>8, HostSideKeeps
<1>9. CASE PostCommand \/ PushColour
  BY <1>9, PostKeeps
<1>10. CASE StoreColour
  BY <1>10, ColourKeeps
<1>11. CASE UNCHANGED shellVars
  BY <1>11, NothingElse DEF shellVars, ShellInv, LoopTyped
<1> QED
  BY <1>1, <1>2, <1>3, <1>4, <1>5, <1>6, <1>7, <1>8, <1>9, <1>10, <1>11 DEF ShellNext

(* What the invariant says of a moment at which all is handled.             *)
LEMMA ShellInvKept == ShellInv => ShellKept
<1> SUFFICES ASSUME ShellInv PROVE ShellKept
  OBVIOUS
<1>1. ShellAgrees
  <2> SUFFICES ASSUME compositor.events = <<>>, shell.mapped
               PROVE  /\ shell.cur = WantedSize /\ shell.told = WantedSize
                      /\ CanFill(shell) => shell.dest = WantedSize
                      /\ hostSide.adopted => hostSide.dest = WantedSize
                      /\ reported.pw = Physical(WantedSize, compositor.scale)
                      /\ reported.visible = ~compositor.suspended
    BY DEF ShellAgrees
  <2>1. Lacks(compositor.events, "configure") /\ Lacks(compositor.events, "scale")
    BY DEF Lacks
  <2>2. /\ pendingC.suspended = compositor.suspended /\ pendingC.w = WantedSize
        /\ pendingC.scale = compositor.scale
    BY <2>1 DEF ShellInv, NewestConfigure, NewestScale
  <2> QED
    BY <2>2 DEF ShellInv, HandledInv
<1>2. RootPainted
  BY DEF ShellInv, OrderOfShell, HandledInv, RootPainted
<1>3. CommandsKept
  BY DEF ShellInv
<1>4. IndexNamesDisplay
  <2> SUFFICES ASSUME net.vo >= 0, ~net.raced
               PROVE  net.vo < Len(net.captured) /\ net.captured[net.vo + 1] = VO
    BY DEF IndexNamesDisplay
  <2>1. Counted(VO) /\ net.vo = net.index[VO] /\ VO \in SameProcess /\ VO \in Connections
    BY DEF ShellInv, IndexInv, SameProcess, Connections
  <2>2. VO \in net.served /\ net.served \subseteq net.made
    BY <2>1 DEF ShellInv, IndexInv, Counted, NetTyped
  <2>3. Pair(VO)
    BY <2>1, <2>2 DEF ShellInv, IndexInv
  <2> QED
    BY <2>1, <2>3 DEF Pair
<1> QED
  BY <1>1, <1>2, <1>3, <1>4 DEF ShellKept

LEMMA ShellInvTyped == ShellInv => ShellTypeOK
<1> SUFFICES ASSUME ShellInv PROVE ShellTypeOK
  OBVIOUS
<1>1. /\ net.made \subseteq Connections /\ net.served \subseteq net.made
      /\ net.captured \in Seq(SameProcess \cup {Nothing}) /\ net.seq \in Nat /\ net.vo \in Nat \cup {-1}
      /\ net.index \in [Connections -> Nat \cup {-1}] /\ net.raced \in BOOLEAN
  <2>1. net \in Nets /\ net.served \subseteq net.made
    BY DEF ShellInv, NetTyped
  <2>2. net.captured \in Seq(SameProcess)
    BY <2>1 DEF Nets
  <2>3. SameProcess \subseteq SameProcess \cup {Nothing}
    OBVIOUS
  <2>4. net.captured \in Seq(SameProcess \cup {Nothing})
    BY <2>2, <2>3
  <2> QED
    BY <2>1, <2>4 DEF Nets
<1>2. loopAt \in {"dispatch", "drain", "build"}
  BY DEF ShellInv, LoopTyped
<1>3. shell \in Roots /\ hostSide \in HostSides
  BY DEF ShellInv, RootTyped
<1>4. /\ pendingC \in Pending /\ reported.pw \in Nat /\ reported.scale \in ShellScales \cup {0}
      /\ reported.visible \in BOOLEAN /\ hostCommands \in Commands /\ theme \in Themes
  BY DEF ShellInv, HostTyped, Reports
<1>5. compositor.asked \in Carried
  BY DEF ShellInv, CompositorTyped, Compositors
<1> QED
  BY <1>1, <1>2, <1>3, <1>4, <1>5
     DEF ShellTypeOK, Roots, HostSides, Pending, Commands, Themes, Carried

LEMMA ShellInvariant == ShellSpec => []ShellInv
BY ShellStart, ShellSteps, PTL DEF ShellSpec

(* The proxy's variables have their types.                                  *)
THEOREM ShellTypeCorrect == ShellSpec => []ShellTypeOK
BY ShellInvariant, ShellInvTyped, PTL

(* However connections, events, commands and colours come in between, the   *)
(* root, mpv, the host and the host's surface agree with what the           *)
(* compositor said last once it is handled; nothing is attached to the root *)
(* before its first configure; no command is lost or overtaken; and the     *)
(* index of the video output names its display unless connections raced.    *)
THEOREM ShellCorrect == ShellSpec => []ShellKept
BY ShellInvariant, ShellInvKept, PTL

-----------------------------------------------------------------------------
(* MediaSession. *)

Titles == MediaItems \cup {Untitled}
MediaEvent == [kind : MediaKinds, item : Titles]
StampedEvent == [kind : MediaKinds, item : Titles, snap : Snapshots]
Batches == Seq(MediaEvent)
Channels == Seq(StampedEvent)

(* The types, by name.                                                      *)
PlaybackTyped ==
  /\ phase \in {"Stopped", "Starting", "Playing", "Paused"}
  /\ loading \in BOOLEAN /\ announced \subseteq PhaseKinds
  /\ seeking \in BOOLEAN /\ buffering \in BOOLEAN
  /\ noticed \subseteq {"SeekingChanged", "BufferingChanged"}
SinkTyped ==
  /\ transport \in Transports /\ dropped \in BOOLEAN
  /\ cached \in Titles /\ shown \in Views /\ sink \in {"running", "stopping", "stopped"}
EventsTyped == batch \in Batches /\ channel \in Channels

(* What the player does, and what MPRIS shows of it.                        *)
Cur == [phase |-> phase, seeking |-> seeking, buffering |-> buffering]
MprisShows ==
  /\ shown.status = phase /\ (phase = "Stopped" => shown.item = Untitled)
  /\ phase = "Playing" => (shown.rate = 0 <=> seeking \/ buffering)
  /\ phase # "Stopped" => shown.item = cached

(* MPRIS reads the state off the snapshots.  The last event that is not of  *)
(* the metadata, which may keep the view, has the state of the player, and  *)
(* so have those behind it; there is none only if the view has it.          *)
Tells(e) == e.kind # "MetadataChanged"
MprisInv ==
  transport = "mpris" /\ sink = "running" /\ phase # "Starting"
  /\ (\A i \in 1..Len(batch) : ~Tells(batch[i])) =>
    \E k \in 0..Len(channel) :
      /\ IF k = 0 THEN MprisShows ELSE Tells(channel[k])
      /\ \A j \in 1..Len(channel) : j >= k => channel[j].snap = Cur

(* The harness reads it off the kinds: the last event that is of a phase is *)
(* of the phase of the player, and there is none only if the view has it.   *)
OfPhase(e) == e.kind \in PhaseKinds
LastOfPhase(q, k) ==
  /\ OfPhase(q[k]) /\ MapKindToPhase(q[k].kind) = phase
  /\ \A j \in 1..Len(q) : j > k => ~OfPhase(q[j])
QueuedShows ==
  shown.status = phase /\ (phase = "Stopped" /\ transport # "now_playing" => shown.item = Untitled)
QueuedInv ==
  transport # "mpris" /\ sink = "running" /\ ~dropped /\ phase # "Starting" =>
    \/ \E k \in 1..Len(batch) : LastOfPhase(batch, k)
    \/ /\ \A i \in 1..Len(batch) : ~OfPhase(batch[i])
       /\ \/ \E k \in 1..Len(channel) : LastOfPhase(channel, k)
          \/ QueuedShows /\ \A j \in 1..Len(channel) : ~OfPhase(channel[j])

MediaInv == PlaybackTyped /\ SinkTyped /\ EventsTyped /\ MprisInv /\ QueuedInv

(* What is in a batch, or in the channel, after more was added.             *)
LEMMA BatchItems ==
  ASSUME NEW s \in Batches, NEW t \in Batches
  PROVE  /\ s \o t \in Batches /\ Len(s \o t) = Len(s) + Len(t) /\ Len(s) \in Nat /\ Len(t) \in Nat
         /\ \A i \in 1..Len(s) : (s \o t)[i] = s[i]
         /\ \A i \in 1..Len(t) : (s \o t)[Len(s) + i] = t[i]
BY DEF Batches

LEMMA ChannelItems ==
  ASSUME NEW s \in Channels, NEW t \in Channels
  PROVE  /\ s \o t \in Channels /\ Len(s \o t) = Len(s) + Len(t) /\ Len(s) \in Nat /\ Len(t) \in Nat
         /\ \A i \in 1..Len(s) : (s \o t)[i] = s[i]
         /\ \A i \in 1..Len(t) : (s \o t)[Len(s) + i] = t[i]
BY DEF Channels

LEMMA ChannelTail ==
  ASSUME NEW q \in Channels, q # <<>>
  PROVE  /\ Head(q) = q[1] /\ Head(q) \in StampedEvent /\ Tail(q) \in Channels
         /\ Len(q) \in Nat /\ Len(q) > 0 /\ Len(Tail(q)) = Len(q) - 1
         /\ \A i \in 1..Len(Tail(q)) : Tail(q)[i] = q[i + 1]
BY DEF Channels

LEMMA ChannelCut ==
  ASSUME NEW q \in Channels, NEW n \in Nat, n <= Len(q)
  PROVE  SubSeq(q, 1, n) \in Channels
BY DEF Channels

(* The events of a batch, as they are published.                            *)
LEMMA StampedIs ==
  ASSUME PlaybackTyped, EventsTyped
  PROVE  /\ Stamped \in Channels /\ Len(Stamped) = Len(batch) /\ Cur \in Snapshots
         /\ \A i \in 1..Len(batch) : Stamped[i].kind = batch[i].kind /\ Stamped[i].snap = Cur
<1>1. batch \in Seq(MediaEvent) /\ Len(batch) \in Nat /\ DOMAIN batch = 1..Len(batch)
  BY DEF EventsTyped, Batches
<1>2. Cur \in Snapshots
  BY DEF PlaybackTyped, Cur, Snapshots
<1>3. \A i \in 1..Len(batch) : batch[i] \in MediaEvent
  BY <1>1
<1>4. Stamped = [i \in 1..Len(batch) |-> [kind |-> batch[i].kind, item |-> batch[i].item, snap |-> Cur]]
  BY <1>1 DEF Stamped, Cur
<1>5. \A i \in 1..Len(batch) :
        [kind |-> batch[i].kind, item |-> batch[i].item, snap |-> Cur] \in StampedEvent
  BY <1>2, <1>3 DEF MediaEvent, StampedEvent
<1> HIDE DEF Cur
<1>6. Stamped \in [1..Len(batch) -> StampedEvent]
  BY <1>4, <1>5
<1>7. Stamped \in Channels /\ Len(Stamped) = Len(batch)
  BY <1>1, <1>6 DEF Channels
<1> QED
  BY <1>2, <1>4, <1>7

(* What an input adds to the batch: whatever changed is told, and a phase   *)
(* by an event of that phase, the last one; only a switch is silent.        *)
Tidings(added) ==
  /\ added \in Batches
  /\ phase' # "Starting" /\ Cur' # Cur => \E i \in 1..Len(added) : Tells(added[i])
  /\ \/ /\ \A i \in 1..Len(added) : ~OfPhase(added[i])
        /\ phase' \in {phase, "Starting"}
     \/ /\ Len(added) \in 1..Len(added) /\ OfPhase(added[Len(added)])
        /\ phase' # "Starting" => MapKindToPhase(added[Len(added)].kind) = phase'

LEMMA IfAdds ==
  ASSUME NEW change \in BOOLEAN, NEW kind \in {"SeekingChanged", "BufferingChanged"}
  PROVE  /\ If(change, kind) \in Batches /\ Len(If(change, kind)) = IF change THEN 1 ELSE 0
         /\ \A i \in 1..Len(If(change, kind)) : If(change, kind)[i].kind = kind
<1>1. Of(kind) \in MediaEvent /\ Of(kind).kind = kind
  BY DEF Of, MediaEvent, MediaKinds, Titles
<1> HIDE DEF Of
<1> QED
  BY <1>1 DEF If, Batches

LEMMA InputAdds ==
  ASSUME PlaybackTyped, ApplyInput
  PROVE  PlaybackTyped' /\ \E added : batch' = batch \o added /\ Tidings(added)
<1> DEFINE one == If("SeekingChanged" \in noticed', "SeekingChanged")
           two == If("BufferingChanged" \in noticed', "BufferingChanged")
           changed == one \o two
           last(kind) == <<Of(kind)>>
<1>1. /\ Promise!SourceNext
      /\ batch' = batch \o (changed \o (IF announced' = {} THEN <<>>
                                         ELSE last(CHOOSE kind \in announced' : TRUE)))
  BY DEF ApplyInput
<1>2. /\ one \in Batches /\ Len(one) = (IF "SeekingChanged" \in noticed' THEN 1 ELSE 0)
      /\ \A i \in 1..Len(one) : one[i].kind \in {"SeekingChanged", "BufferingChanged"}
  <2>1. ("SeekingChanged" \in noticed') \in BOOLEAN
    OBVIOUS
  <2> QED
    BY <2>1, IfAdds, Zenon
<1>3. /\ two \in Batches /\ Len(two) = (IF "BufferingChanged" \in noticed' THEN 1 ELSE 0)
      /\ \A i \in 1..Len(two) : two[i].kind \in {"SeekingChanged", "BufferingChanged"}
  <2>1. ("BufferingChanged" \in noticed') \in BOOLEAN
    OBVIOUS
  <2> QED
    BY <2>1, IfAdds, Zenon
<1> HIDE DEF one, two
<1>4. /\ changed \in Batches /\ Len(changed) = Len(one) + Len(two) /\ Len(changed) \in Nat
      /\ "SeekingChanged" \in noticed' \/ "BufferingChanged" \in noticed' => Len(changed) > 0
      /\ \A i \in 1..Len(changed) : changed[i].kind \in {"SeekingChanged", "BufferingChanged"}
  <2>1. /\ changed \in Batches /\ Len(changed) = Len(one) + Len(two) /\ Len(one) \in Nat /\ Len(two) \in Nat
        /\ \A i \in 1..Len(one) : changed[i] = one[i]
        /\ \A i \in 1..Len(two) : changed[Len(one) + i] = two[i]
    BY <1>2, <1>3, BatchItems
  <2> HIDE DEF changed
  <2>2. ASSUME NEW i \in 1..Len(changed) PROVE changed[i].kind \in {"SeekingChanged", "BufferingChanged"}
    <3>1. CASE i \in 1..Len(one)
      BY <1>2, <2>1, <3>1
    <3>2. CASE i \notin 1..Len(one)
      <4>1. i - Len(one) \in 1..Len(two) /\ Len(one) + (i - Len(one)) = i
        BY <2>1, <3>2
      <4>2. changed[i] = two[i - Len(one)]
        BY <2>1, <4>1
      <4> QED
        BY <1>3, <4>1, <4>2
    <3> QED
      BY <3>1, <3>2
  <2> QED
    BY <1>2, <1>3, <2>1, <2>2
<1> HIDE DEF changed
<1>5. ASSUME NEW kind \in PhaseKinds
      PROVE  /\ last(kind) \in Batches /\ Len(last(kind)) = 1 /\ last(kind)[1].kind = kind
  <2>1. Of(kind) \in MediaEvent /\ Of(kind).kind = kind
    BY DEF Of, MediaEvent, MediaKinds, Titles
  <2> HIDE DEF Of
  <2> QED
    BY <2>1 DEF Batches
<1> HIDE DEF last
<1>6. ASSUME NEW kind \in PhaseKinds
      PROVE  LET q == changed \o last(kind)
             IN  /\ q \in Batches /\ Len(q) \in 1..Len(q) /\ q[Len(q)].kind = kind
  <2> DEFINE q == changed \o last(kind)
  <2> DEFINE z == last(kind)
  <2>0. z \in Batches /\ Len(z) = 1 /\ z[1].kind = kind /\ 1 \in 1..Len(z)
    BY <1>5
  <2> HIDE DEF z
  <2>1. /\ q \in Batches /\ Len(q) = Len(changed) + 1 /\ Len(changed) \in Nat
        /\ q[Len(changed) + 1].kind = kind
    <3>1. /\ changed \o z \in Batches /\ Len(changed \o z) = Len(changed) + Len(z)
          /\ \A i \in 1..Len(z) : (changed \o z)[Len(changed) + i] = z[i]
      BY <1>4, <2>0, BatchItems
    <3> QED
      BY <1>4, <2>0, <3>1 DEF z
  <2> HIDE DEF q
  <2>2. Len(q) \in 1..Len(q) /\ q[Len(q)].kind = kind
    BY <2>1
  <2> QED
    BY <2>1, <2>2 DEF q
<1> USE DEF Promise!SourceNext, Promise!Load, Promise!Start, Promise!Pause, Promise!End, Promise!Switch,
            Promise!Other, Promise!Ending
<1>7. phase' \in {"Stopped", "Starting", "Playing", "Paused"} /\ loading' \in BOOLEAN
  BY <1>1 DEF PlaybackTyped
<1>8. \/ announced' = {} /\ phase' \in {phase, "Starting"} /\ noticed' = Promise!Changes
      \/ announced' = {"TrackLoaded"} /\ phase' = "Starting"
      \/ announced' = {"Started"} /\ phase' = "Playing"
      \/ announced' = {"Paused"} /\ phase' = "Paused"
      \/ phase' = "Stopped" /\ \E kind \in TerminalKinds : announced' = {kind}
  BY <1>1 DEF TerminalKinds
<1>9. announced' \subseteq PhaseKinds
  BY <1>8 DEF PhaseKinds, TerminalKinds
<1>10. /\ seeking' \in BOOLEAN /\ buffering' \in BOOLEAN
       /\ noticed' \subseteq {"SeekingChanged", "BufferingChanged"}
  BY <1>1 DEF PlaybackTyped, Promise!Changes, Promise!If
<1>11. PlaybackTyped'
  BY <1>7, <1>9, <1>10 DEF PlaybackTyped
<1>12. CASE announced' = {} /\ phase' \in {phase, "Starting"} /\ noticed' = Promise!Changes
  <2>1. batch' = batch \o changed
    <3>1. changed \o <<>> = changed
      BY <1>4 DEF Batches
    <3> QED
      BY <1>1, <1>12, <3>1
  <2>2. ASSUME phase' # "Starting", Cur' # Cur PROVE \E i \in 1..Len(changed) : Tells(changed[i])
    <3>1. "SeekingChanged" \in noticed' \/ "BufferingChanged" \in noticed'
      BY <1>12, <2>2 DEF Cur, Promise!Changes, Promise!If
    <3>2. 1 \in 1..Len(changed)
      BY <1>4, <3>1
    <3>3. Tells(changed[1])
      BY <1>4, <3>2 DEF Tells
    <3> QED
      BY <3>2, <3>3
  <2>3. \A i \in 1..Len(changed) : ~OfPhase(changed[i])
    BY <1>4 DEF OfPhase, PhaseKinds, TerminalKinds
  <2>4. Tidings(changed)
    BY <1>4, <1>12, <2>2, <2>3 DEF Tidings
  <2> QED
    BY <1>11, <2>1, <2>4
<1>13. ASSUME NEW kind \in PhaseKinds, announced' = {kind},
              phase' # "Starting" => phase' = MapKindToPhase(kind)
       PROVE  \E added : batch' = batch \o added /\ Tidings(added)
  <2> DEFINE q == changed \o last(kind)
  <2>1. (CHOOSE k \in announced' : TRUE) = kind
    BY <1>13
  <2>2. batch' = batch \o q
    BY <1>1, <1>13, <2>1
  <2>3. q \in Batches /\ Len(q) \in 1..Len(q) /\ q[Len(q)].kind = kind
    BY <1>6
  <2> HIDE DEF q
  <2>4. OfPhase(q[Len(q)]) /\ Tells(q[Len(q)])
    BY <2>3 DEF OfPhase, Tells, PhaseKinds, TerminalKinds
  <2>5. Tidings(q)
    BY <1>13, <2>3, <2>4 DEF Tidings
  <2> QED
    BY <2>2, <2>5
<1>14. CASE announced' = {"TrackLoaded"} /\ phase' = "Starting"
  BY <1>11, <1>14, <1>13 DEF PhaseKinds
<1>15. CASE announced' = {"Started"} /\ phase' = "Playing"
  BY <1>11, <1>13, <1>15 DEF PhaseKinds, MapKindToPhase
<1>16. CASE announced' = {"Paused"} /\ phase' = "Paused"
  BY <1>11, <1>13, <1>16 DEF PhaseKinds, MapKindToPhase
<1>17. CASE phase' = "Stopped" /\ \E kind \in TerminalKinds : announced' = {kind}
  <2>1. PICK kind \in TerminalKinds : announced' = {kind}
    BY <1>17
  <2>2. kind \in PhaseKinds /\ MapKindToPhase(kind) = "Stopped"
    BY <2>1 DEF PhaseKinds, TerminalKinds, MapKindToPhase
  <2> QED
    BY <1>11, <1>13, <1>17, <2>1, <2>2
<1> QED
  BY <1>8, <1>12, <1>14, <1>15, <1>16, <1>17

(* More in the batch keeps the invariant.                                   *)
LEMMA AddingKeeps ==
  ASSUME MediaInv, PlaybackTyped', UNCHANGED sinkState,
         NEW added, batch' = batch \o added, Tidings(added)
  PROVE  MediaInv'
<1>1. /\ PlaybackTyped /\ SinkTyped /\ EventsTyped /\ MprisInv /\ QueuedInv
      /\ transport' = transport /\ channel' = channel /\ dropped' = dropped
      /\ cached' = cached /\ shown' = shown /\ sink' = sink
  BY DEF MediaInv, sinkState
<1>2. batch \in Batches /\ added \in Batches
  BY <1>1 DEF EventsTyped, Tidings
<1>3. /\ batch' \in Batches /\ Len(batch') = Len(batch) + Len(added)
      /\ Len(batch) \in Nat /\ Len(added) \in Nat
      /\ \A i \in 1..Len(batch) : batch'[i] = batch[i]
      /\ \A i \in 1..Len(added) : batch'[Len(batch) + i] = added[i]
  BY <1>2, BatchItems
<1>4. SinkTyped' /\ EventsTyped'
  BY <1>1, <1>3 DEF SinkTyped, EventsTyped
<1>5. MprisInv'
  <2>1. SUFFICES ASSUME transport' = "mpris", sink' = "running", phase' # "Starting",
                        \A i \in 1..Len(batch') : ~Tells(batch'[i])
                 PROVE  \E k \in 0..Len(channel) :
                          /\ IF k = 0 THEN MprisShows' ELSE Tells(channel[k])
                          /\ \A j \in 1..Len(channel) : j >= k => channel[j].snap = Cur'
    BY <1>1 DEF MprisInv, Tells
  <2>2. \A i \in 1..Len(added) : ~Tells(added[i])
    <3>1. TAKE i \in 1..Len(added)
    <3>2. Len(batch) + i \in 1..Len(batch')
      BY <1>3
    <3> QED
      BY <1>3, <2>1, <3>2
  <2>3. \A i \in 1..Len(batch) : ~Tells(batch[i])
    <3>1. TAKE i \in 1..Len(batch)
    <3>2. i \in 1..Len(batch')
      BY <1>3
    <3> QED
      BY <1>3, <2>1, <3>2
  <2>4. Cur' = Cur
    BY <2>1, <2>2 DEF Tidings
  <2>5. phase' = phase /\ seeking' = seeking /\ buffering' = buffering
    BY <2>4 DEF Cur
  <2>6. PICK k \in 0..Len(channel) :
          /\ IF k = 0 THEN MprisShows ELSE Tells(channel[k])
          /\ \A j \in 1..Len(channel) : j >= k => channel[j].snap = Cur
    BY <1>1, <2>1, <2>3, <2>5 DEF MprisInv
  <2>7. MprisShows => MprisShows'
    BY <1>1, <2>5 DEF MprisShows
  <2> QED
    BY <2>4, <2>6, <2>7
<1>6. QueuedInv'
  <2>1. SUFFICES ASSUME transport' # "mpris", sink' = "running", ~dropped', phase' # "Starting"
                 PROVE  \/ \E k \in 1..Len(batch') : LastOfPhase(batch, k)'
                        \/ /\ \A i \in 1..Len(batch') : ~OfPhase(batch'[i])
                           /\ \/ \E k \in 1..Len(channel) : LastOfPhase(channel, k)'
                              \/ QueuedShows' /\ \A j \in 1..Len(channel) : ~OfPhase(channel[j])
    BY <1>1 DEF QueuedInv, OfPhase
  <2>2. CASE Len(added) \in 1..Len(added) /\ OfPhase(added[Len(added)])
    <3>1. PICK n \in Nat : n = Len(added)
      BY <1>3
    <3>2. PICK k \in Nat : k = Len(batch) + n
      BY <1>3, <3>1
    <3>3. k \in 1..Len(batch') /\ k = Len(batch') /\ batch'[k] = added[n] /\ OfPhase(added[n])
      BY <1>3, <2>2, <3>1, <3>2
    <3>4. MapKindToPhase(added[n].kind) = phase'
      BY <2>1, <2>2, <3>1 DEF Tidings
    <3>5. LastOfPhase(batch, k)'
      BY <1>3, <3>3, <3>4 DEF LastOfPhase, OfPhase, MapKindToPhase
    <3> QED
      BY <3>3, <3>5
  <2>3. CASE (\A i \in 1..Len(added) : ~OfPhase(added[i])) /\ phase' \in {phase, "Starting"}
    <3>1. phase' = phase
      BY <2>1, <2>3
    <3>2. \A i \in 1..Len(batch') : i > Len(batch) => ~OfPhase(batch'[i])
      <4>1. TAKE i \in 1..Len(batch')
      <4>2. HAVE i > Len(batch)
      <4>3. i - Len(batch) \in 1..Len(added) /\ i = Len(batch) + (i - Len(batch))
        BY <1>3, <4>2
      <4>4. batch'[i] = added[i - Len(batch)]
        BY <1>3, <4>3
      <4> QED
        BY <2>3, <4>3, <4>4
    <3>3. CASE \E k \in 1..Len(batch) : LastOfPhase(batch, k)
      <4>1. PICK k \in 1..Len(batch) : LastOfPhase(batch, k)
        BY <3>3
      <4>2. k \in 1..Len(batch') /\ batch'[k] = batch[k]
        BY <1>3
      <4>3. \A j \in 1..Len(batch') : j > k => ~OfPhase(batch'[j])
        <5>1. TAKE j \in 1..Len(batch')
        <5>2. CASE j \in 1..Len(batch)
          BY <1>3, <4>1, <5>2 DEF LastOfPhase
        <5>3. CASE j \notin 1..Len(batch)
          BY <1>3, <3>2, <5>3
        <5> QED
          BY <5>2, <5>3
      <4>4. LastOfPhase(batch, k)'
        BY <3>1, <4>1, <4>2, <4>3 DEF LastOfPhase, OfPhase, MapKindToPhase
      <4> QED
        BY <4>2, <4>4
    <3>4. CASE ~\E k \in 1..Len(batch) : LastOfPhase(batch, k)
      <4>1. /\ \A i \in 1..Len(batch) : ~OfPhase(batch[i])
            /\ \/ \E k \in 1..Len(channel) : LastOfPhase(channel, k)
               \/ QueuedShows /\ \A j \in 1..Len(channel) : ~OfPhase(channel[j])
        BY <1>1, <2>1, <3>1, <3>4 DEF QueuedInv
      <4>2. \A i \in 1..Len(batch') : ~OfPhase(batch'[i])
        <5>1. TAKE i \in 1..Len(batch')
        <5>2. CASE i \in 1..Len(batch)
          BY <1>3, <4>1, <5>2
        <5>3. CASE i \notin 1..Len(batch)
          BY <1>3, <3>2, <5>3
        <5> QED
          BY <5>2, <5>3
      <4>3. \A k \in 1..Len(channel) : LastOfPhase(channel, k) => LastOfPhase(channel, k)'
        BY <1>1, <3>1 DEF LastOfPhase, OfPhase, MapKindToPhase
      <4>4. QueuedShows => QueuedShows'
        BY <1>1, <3>1 DEF QueuedShows
      <4> QED
        BY <4>1, <4>2, <4>3, <4>4
    <3> QED
      BY <3>3, <3>4
  <2> QED
    BY <2>2, <2>3 DEF Tidings
<1> QED
  BY <1>4, <1>5, <1>6 DEF MediaInv

LEMMA MetadataAdds ==
  ASSUME PlaybackTyped, ApplyMetadata
  PROVE  PlaybackTyped' /\ \E added : batch' = batch \o added /\ Tidings(added)
<1>1. PICK item \in MediaItems : batch' = Append(batch, [kind |-> "MetadataChanged", item |-> item])
  BY DEF ApplyMetadata
<1>2. /\ phase' = phase /\ loading' = loading /\ announced' = announced
      /\ seeking' = seeking /\ buffering' = buffering /\ noticed' = noticed
  BY DEF ApplyMetadata, playback
<1> DEFINE event == [kind |-> "MetadataChanged", item |-> item]
           added == <<event>>
<1>3. event \in MediaEvent /\ event.kind = "MetadataChanged"
  BY DEF MediaEvent, MediaKinds, Titles
<1>4. batch' = batch \o <<event>>
  BY <1>1
<1> HIDE DEF event
<1>5. added \in Batches /\ Len(added) = 1 /\ added[1] = event
  BY <1>3 DEF Batches
<1>6. batch' = batch \o added
  BY <1>4
<1> HIDE DEF added
<1>7. Tidings(added)
  BY <1>2, <1>3, <1>5 DEF Tidings, OfPhase, PhaseKinds, TerminalKinds, Cur
<1> QED
  BY <1>2, <1>6, <1>7 DEF PlaybackTyped

(* A publication keeps the invariant.                                       *)
LEMMA PublishedIn ==
  ASSUME PlaybackTyped, EventsTyped
  PROVE  /\ channel \o Stamped \in Channels
         /\ Len(channel \o Stamped) = Len(channel) + Len(batch)
         /\ Len(channel) \in Nat /\ Len(batch) \in Nat
         /\ \A i \in 1..Len(channel) : (channel \o Stamped)[i] = channel[i]
         /\ \A i \in 1..Len(batch) :
              /\ (channel \o Stamped)[Len(channel) + i].kind = batch[i].kind
              /\ (channel \o Stamped)[Len(channel) + i].snap = Cur
<1>1. /\ Stamped \in Channels /\ Len(Stamped) = Len(batch)
      /\ \A i \in 1..Len(batch) : Stamped[i].kind = batch[i].kind /\ Stamped[i].snap = Cur
  BY StampedIs
<1>2. channel \in Channels
  BY DEF EventsTyped
<1> DEFINE s == channel
           t == Stamped
<1>3. s \in Channels /\ t \in Channels
  BY <1>1, <1>2
<1> HIDE DEF s, t
<1>4. /\ s \o t \in Channels /\ Len(s \o t) = Len(s) + Len(t) /\ Len(s) \in Nat /\ Len(t) \in Nat
      /\ \A i \in 1..Len(s) : (s \o t)[i] = s[i]
      /\ \A i \in 1..Len(t) : (s \o t)[Len(s) + i] = t[i]
  BY <1>3, ChannelItems
<1>5. channel = s /\ Stamped = t
  BY DEF s, t
<1>6. Len(t) = Len(batch) /\ \A i \in 1..Len(t) : t[i].kind = batch[i].kind /\ t[i].snap = Cur
  BY <1>1, <1>5
<1> QED
  BY <1>4, <1>5, <1>6

LEMMA PublishKeeps ==
  ASSUME MediaInv, Publish
  PROVE  MediaInv'
<1>1. /\ PlaybackTyped /\ SinkTyped /\ EventsTyped /\ MprisInv /\ QueuedInv
      /\ phase' = phase /\ loading' = loading /\ announced' = announced
      /\ seeking' = seeking /\ buffering' = buffering /\ noticed' = noticed
      /\ transport' = transport /\ cached' = cached /\ shown' = shown /\ sink' = sink
      /\ batch' = <<>> /\ batch # <<>>
      /\ PublishMpris \/ PublishQueued
  BY DEF MediaInv, Publish, playback, PublishMpris, PublishQueued
<1>2. batch' \in Batches /\ Len(batch') = 0
  BY <1>1 DEF Batches
<1> DEFINE all == channel \o Stamped
<1>3. /\ all \in Channels /\ Len(all) = Len(channel) + Len(batch)
      /\ Len(channel) \in Nat /\ Len(batch) \in Nat
      /\ \A i \in 1..Len(channel) : all[i] = channel[i]
      /\ \A i \in 1..Len(batch) :
           all[Len(channel) + i].kind = batch[i].kind /\ all[Len(channel) + i].snap = Cur
  BY <1>1, PublishedIn
<1>4. /\ \/ channel' = channel
         \/ channel' = all
         \/ channel' = SubSeq(all, 1, QueueCap) /\ Len(all) > QueueCap /\ dropped' /\ transport # "mpris"
      /\ dropped' \in BOOLEAN /\ (~dropped' => ~dropped)
      /\ sink = "running" /\ transport = "mpris" => channel' = all
      /\ transport # "mpris" /\ ~dropped' => channel' = all
  BY <1>1 DEF PublishMpris, PublishQueued, SinkTyped
<1> HIDE DEF all
<1>5. channel' \in Channels
  <2>1. channel \in Channels /\ QueueCap \in Nat
    BY <1>1, MediaAssumption DEF EventsTyped
  <2>2. Len(all) > QueueCap => SubSeq(all, 1, QueueCap) \in Channels
    <3>1. HAVE Len(all) > QueueCap
    <3>2. QueueCap <= Len(all)
      BY <1>3, <2>1, <3>1
    <3> QED
      BY <1>3, <2>1, <3>2, ChannelCut
  <2> QED
    BY <1>3, <1>4, <2>1, <2>2
<1>6. PlaybackTyped' /\ SinkTyped' /\ EventsTyped'
  BY <1>1, <1>2, <1>4, <1>5 DEF PlaybackTyped, SinkTyped, EventsTyped
<1>7. \A j \in 1..Len(all) : j > Len(channel) =>
        /\ all[j].snap = Cur /\ j - Len(channel) \in 1..Len(batch)
        /\ all[j].kind = batch[j - Len(channel)].kind
  <2>1. TAKE j \in 1..Len(all)
  <2>2. HAVE j > Len(channel)
  <2>3. j - Len(channel) \in 1..Len(batch) /\ j = Len(channel) + (j - Len(channel))
    BY <1>3, <2>2
  <2> QED
    BY <1>3, <2>3
<1>8. Cur' = Cur
  BY <1>1 DEF Cur
<1>9. MprisInv'
  <2>1. SUFFICES ASSUME transport = "mpris", sink = "running", phase # "Starting"
                 PROVE  \E k \in 0..Len(all) :
                          /\ IF k = 0 THEN MprisShows ELSE Tells(all[k])
                          /\ \A j \in 1..Len(all) : j >= k => all[j].snap = Cur
    BY <1>1, <1>4, <1>8 DEF MprisInv, MprisShows, Tells
  <2>2. CASE \E i \in 1..Len(batch) : Tells(batch[i])
    <3>1. PICK i \in 1..Len(batch) : Tells(batch[i])
      BY <2>2
    <3>2. PICK k \in Nat : k = Len(channel) + i
      BY <1>3
    <3>3. k \in 0..Len(all) /\ k # 0 /\ Tells(all[k])
      BY <1>3, <3>1, <3>2 DEF Tells
    <3>4. \A j \in 1..Len(all) : j >= k => all[j].snap = Cur
      BY <1>3, <1>7, <3>2
    <3> QED
      BY <3>3, <3>4
  <2>3. CASE \A i \in 1..Len(batch) : ~Tells(batch[i])
    <3>1. PICK k \in 0..Len(channel) :
            /\ IF k = 0 THEN MprisShows ELSE Tells(channel[k])
            /\ \A j \in 1..Len(channel) : j >= k => channel[j].snap = Cur
      BY <1>1, <2>1, <2>3 DEF MprisInv
    <3>2. k \in 0..Len(all) /\ (k # 0 => k \in 1..Len(channel) /\ Tells(all[k]))
      BY <1>3, <3>1
    <3>3. \A j \in 1..Len(all) : j >= k => all[j].snap = Cur
      <4>1. TAKE j \in 1..Len(all)
      <4>2. HAVE j >= k
      <4>3. CASE j <= Len(channel)
        <5>1. j \in 1..Len(channel) /\ all[j] = channel[j]
          BY <1>3, <4>3
        <5> QED
          BY <3>1, <4>2, <5>1
      <4>4. CASE j > Len(channel)
        BY <1>7, <4>4
      <4> QED
        BY <1>3, <4>3, <4>4
    <3> QED
      BY <3>1, <3>2, <3>3
  <2> QED
    BY <2>2, <2>3
<1>10. QueuedInv'
  <2>1. SUFFICES ASSUME transport # "mpris", sink = "running", ~dropped, phase # "Starting"
                 PROVE  \/ \E k \in 1..Len(all) : LastOfPhase(all, k)
                        \/ QueuedShows /\ \A j \in 1..Len(all) : ~OfPhase(all[j])
    BY <1>1, <1>2, <1>4 DEF QueuedInv, QueuedShows, OfPhase, LastOfPhase, MapKindToPhase
  <2>2. CASE \E i \in 1..Len(batch) : LastOfPhase(batch, i)
    <3>1. PICK i \in 1..Len(batch) : LastOfPhase(batch, i)
      BY <2>2
    <3>2. PICK k \in Nat : k = Len(channel) + i
      BY <1>3
    <3>3. k \in 1..Len(all) /\ OfPhase(all[k]) /\ MapKindToPhase(all[k].kind) = phase
      BY <1>3, <3>1, <3>2 DEF LastOfPhase, OfPhase
    <3>4. \A j \in 1..Len(all) : j > k => ~OfPhase(all[j])
      <4>1. TAKE j \in 1..Len(all)
      <4>2. HAVE j > k
      <4>3. /\ j - Len(channel) \in 1..Len(batch) /\ j - Len(channel) > i
            /\ all[j].kind = batch[j - Len(channel)].kind
        BY <1>3, <1>7, <3>2, <4>2
      <4> QED
        BY <3>1, <4>3 DEF LastOfPhase, OfPhase
    <3> QED
      BY <3>3, <3>4 DEF LastOfPhase
  <2>3. CASE \A i \in 1..Len(batch) : ~OfPhase(batch[i])
    <3>1. \A j \in 1..Len(all) : j > Len(channel) => ~OfPhase(all[j])
      BY <1>7, <2>3 DEF OfPhase
    <3>2. \/ \E k \in 1..Len(channel) : LastOfPhase(channel, k)
          \/ QueuedShows /\ \A j \in 1..Len(channel) : ~OfPhase(channel[j])
      BY <1>1, <2>1, <2>3 DEF QueuedInv, LastOfPhase
    <3>3. CASE \E k \in 1..Len(channel) : LastOfPhase(channel, k)
      <4>1. PICK k \in 1..Len(channel) : LastOfPhase(channel, k)
        BY <3>3
      <4>2. k \in 1..Len(all) /\ all[k] = channel[k]
        BY <1>3
      <4>3. \A j \in 1..Len(all) : j > k => ~OfPhase(all[j])
        <5>1. TAKE j \in 1..Len(all)
        <5>2. HAVE j > k
        <5>3. CASE j <= Len(channel)
          <6>1. j \in 1..Len(channel) /\ all[j] = channel[j]
            BY <1>3, <5>3
          <6> QED
            BY <4>1, <5>2, <6>1 DEF LastOfPhase
        <5>4. CASE j > Len(channel)
          BY <3>1, <5>4
        <5> QED
          BY <1>3, <5>3, <5>4
      <4> QED
        BY <4>1, <4>2, <4>3 DEF LastOfPhase
    <3>4. CASE QueuedShows /\ \A j \in 1..Len(channel) : ~OfPhase(channel[j])
      <4>1. \A j \in 1..Len(all) : ~OfPhase(all[j])
        <5>1. TAKE j \in 1..Len(all)
        <5>2. CASE j <= Len(channel)
          <6>1. j \in 1..Len(channel) /\ all[j] = channel[j]
            BY <1>3, <5>2
          <6> QED
            BY <3>4, <6>1
        <5>3. CASE j > Len(channel)
          BY <3>1, <5>3
        <5> QED
          BY <1>3, <5>2, <5>3
      <4> QED
        BY <3>4, <4>1
    <3> QED
      BY <3>2, <3>3, <3>4
  <2> QED
    BY <1>1, <2>1, <2>2, <2>3 DEF QueuedInv
<1> QED
  BY <1>6, <1>9, <1>10 DEF MediaInv

(* A delivery keeps the invariant.                                          *)
LEMMA DeliverKeeps ==
  ASSUME MediaInv, Deliver
  PROVE  MediaInv'
<1> DEFINE event == Head(channel)
<1>1. /\ PlaybackTyped /\ SinkTyped /\ EventsTyped /\ MprisInv /\ QueuedInv
      /\ phase' = phase /\ loading' = loading /\ announced' = announced
      /\ seeking' = seeking /\ buffering' = buffering /\ noticed' = noticed
      /\ batch' = batch /\ transport' = transport /\ dropped' = dropped /\ sink' = sink
      /\ channel # <<>> /\ channel' = Tail(channel)
      /\ HandleMpris(event) \/ DeliverQueued(event)
  BY DEF MediaInv, Deliver, playback
<1>2. /\ event = channel[1] /\ event \in StampedEvent /\ channel' \in Channels
      /\ Len(channel) \in Nat /\ Len(channel) > 0 /\ Len(channel') = Len(channel) - 1
      /\ \A i \in 1..Len(channel') : channel'[i] = channel[i + 1]
  BY <1>1, ChannelTail DEF EventsTyped
<1> HIDE DEF event
<1>3. /\ event.kind \in MediaKinds /\ event.item \in Titles /\ event.snap \in Snapshots
      /\ event.snap.phase \in {"Stopped", "Starting", "Playing", "Paused"}
      /\ cached \in Titles /\ shown \in Views /\ Untitled \in Titles
  BY <1>1, <1>2 DEF StampedEvent, Snapshots, SinkTyped, Titles
<1>4. /\ shown.status \in {"Stopped", "Playing", "Paused"} /\ shown.rate \in {0, 1} /\ shown.item \in Titles
      /\ \A status \in {"Stopped", "Playing", "Paused"}, rate \in {0, 1}, item \in Titles :
           [status |-> status, rate |-> rate, item |-> item] \in Views
  BY <1>3 DEF Views, Titles
<1>5. CASE transport = "mpris"
  <2>1. HandleMpris(event)
    BY <1>1, <1>5 DEF DeliverQueued
  <2>2. cached' \in Titles /\ (Tells(event) => cached' = cached)
    BY <1>3, <2>1 DEF HandleMpris, Tells
  <2>3. Project(event.snap, cached') \in Views
    <3>1. StatusFor(event.snap) \in {"Stopped", "Playing", "Paused"}
      BY <1>3 DEF StatusFor
    <3> QED
      BY <1>3, <1>4, <2>2, <3>1 DEF Project
  <2>4. \/ shown' = Project(event.snap, cached')
        \/ ~Tells(event) /\ UNCHANGED <<cached, shown>>
    BY <2>1 DEF HandleMpris, Tells
  <2>5. shown' \in Views
    BY <1>3, <2>3, <2>4
  <2>6. PlaybackTyped' /\ SinkTyped' /\ EventsTyped'
    BY <1>1, <1>2, <2>2, <2>5 DEF PlaybackTyped, SinkTyped, EventsTyped
  <2>7. MprisInv'
    <3>1. SUFFICES ASSUME sink = "running", phase # "Starting", \A i \in 1..Len(batch) : ~Tells(batch[i])
                   PROVE  \E k \in 0..Len(channel') :
                            /\ IF k = 0 THEN MprisShows' ELSE Tells(channel'[k])
                            /\ \A j \in 1..Len(channel') : j >= k => channel'[j].snap = Cur
      BY <1>1 DEF MprisInv, Tells, Cur
    <3>2. PICK k \in 0..Len(channel) :
            /\ IF k = 0 THEN MprisShows ELSE Tells(channel[k])
            /\ \A j \in 1..Len(channel) : j >= k => channel[j].snap = Cur
      BY <1>1, <1>5, <3>1 DEF MprisInv
    <3>3. \A j \in 1..Len(channel') : j + 1 \in 1..Len(channel) /\ channel'[j] = channel[j + 1]
      BY <1>2
    <3>4. CASE k > 1
      <4>1. k - 1 \in 0..Len(channel') /\ k - 1 # 0 /\ k - 1 \in 1..Len(channel') /\ k = (k - 1) + 1
        BY <1>2, <3>2, <3>4
      <4>2. Tells(channel'[k - 1])
        BY <3>2, <3>3, <3>4, <4>1
      <4>3. \A j \in 1..Len(channel') : j >= k - 1 => channel'[j].snap = Cur
        BY <3>2, <3>3
      <4> QED
        BY <4>1, <4>2, <4>3
    <3>5. CASE k \in {0, 1}
      <4>1. event.snap = Cur
        BY <1>2, <3>2, <3>5
      <4>2. Tells(event) \/ MprisShows
        BY <1>2, <3>2, <3>5
      <4>3. shown' = Project(Cur, cached') => MprisShows'
        <5>1. HAVE shown' = Project(Cur, cached')
        <5>2. /\ shown'.status = StatusFor(Cur) /\ shown'.rate = (IF Rolling(Cur) THEN 1 ELSE 0)
              /\ shown'.item = (IF Active(Cur) THEN cached' ELSE Untitled)
          BY <5>1 DEF Project
        <5> QED
          BY <1>1, <3>1, <5>2 DEF MprisShows, StatusFor, Rolling, Active, Cur, PlaybackTyped
      <4>4. MprisShows'
        BY <1>1, <2>4, <4>1, <4>2, <4>3 DEF MprisShows
      <4>5. \A j \in 1..Len(channel') : channel'[j].snap = Cur
        BY <3>2, <3>3, <3>5
      <4>6. 0 \in 0..Len(channel')
        BY <1>2
      <4> QED
        BY <4>4, <4>5, <4>6
    <3> QED
      BY <3>2, <3>4, <3>5
  <2>8. QueuedInv'
    BY <1>1, <1>5 DEF QueuedInv
  <2> QED
    BY <2>6, <2>7, <2>8 DEF MediaInv
<1>6. CASE transport # "mpris"
  <2>1. DeliverQueued(event)
    BY <1>1, <1>6 DEF HandleMpris
  <2> DEFINE status == MapKindToPhase(event.kind)
  <2>2. cached' \in Titles
    BY <1>3, <2>1 DEF DeliverQueued
  <2>3. status \in {"Stopped", "Playing", "Paused"}
    BY DEF MapKindToPhase
  <2>4. /\ ~OfPhase(event) => /\ shown'.status = shown.status
                              /\ transport # "now_playing" => shown'.item = shown.item
        /\ OfPhase(event) => /\ shown'.status = status
                             /\ status = "Stopped" => shown'.item = Untitled
        /\ shown' \in Views
    <3>1. shown = [status |-> shown.status, rate |-> shown.rate, item |-> shown.item]
      BY <1>3 DEF Views
    <3>2. CASE OfPhase(event) /\ status = "Stopped"
      <4>1. shown' = [status |-> status, rate |-> shown.rate, item |-> Untitled]
        BY <2>1, <3>1, <3>2 DEF DeliverQueued, OfPhase
      <4> QED
        BY <1>3, <1>4, <2>3, <3>2, <4>1
    <3>3. CASE OfPhase(event) /\ status # "Stopped"
      <4>1. PICK item \in Titles : shown' = [status |-> status, rate |-> shown.rate, item |-> item]
        BY <1>3, <1>4, <2>1, <3>1, <3>3 DEF DeliverQueued, OfPhase
      <4> QED
        BY <1>4, <2>3, <3>3, <4>1
    <3>4. CASE ~OfPhase(event)
      <4>1. \/ shown' = shown
            \/ /\ transport = "now_playing"
               /\ shown' = [status |-> shown.status, rate |-> shown.rate, item |-> event.item]
        BY <2>1, <3>1, <3>4 DEF DeliverQueued, OfPhase
      <4> QED
        BY <1>3, <1>4, <3>4, <4>1
    <3> QED
      BY <3>2, <3>3, <3>4
  <2>5. PlaybackTyped' /\ SinkTyped' /\ EventsTyped'
    BY <1>1, <1>2, <2>2, <2>4 DEF PlaybackTyped, SinkTyped, EventsTyped
  <2>6. MprisInv'
    BY <1>1, <1>6 DEF MprisInv
  <2>7. QueuedInv'
    <3>1. SUFFICES ASSUME sink = "running", ~dropped, phase # "Starting",
                          ~\E k \in 1..Len(batch) : LastOfPhase(batch, k)
                   PROVE  \/ \E k \in 1..Len(channel') : LastOfPhase(channel', k)
                          \/ QueuedShows' /\ \A j \in 1..Len(channel') : ~OfPhase(channel'[j])
      <4>1. CASE ~(sink = "running" /\ ~dropped /\ phase # "Starting")
        BY <1>1, <4>1 DEF QueuedInv
      <4>2. CASE /\ sink = "running" /\ ~dropped /\ phase # "Starting"
                 /\ \E k \in 1..Len(batch) : LastOfPhase(batch, k)
        BY <1>1, <4>2 DEF QueuedInv, LastOfPhase, OfPhase, MapKindToPhase
      <4>3. CASE /\ sink = "running" /\ ~dropped /\ phase # "Starting"
                 /\ ~\E k \in 1..Len(batch) : LastOfPhase(batch, k)
        <5>1. \A i \in 1..Len(batch) : ~OfPhase(batch[i])
          BY <1>1, <1>6, <4>3 DEF QueuedInv
        <5>2. \/ \E k \in 1..Len(channel') : LastOfPhase(channel', k)
              \/ QueuedShows' /\ \A j \in 1..Len(channel') : ~OfPhase(channel'[j])
          BY <3>1, <4>3
        <5> QED
          BY <1>1, <5>1, <5>2 DEF QueuedInv, LastOfPhase, OfPhase, MapKindToPhase
      <4> QED
        BY <4>1, <4>2, <4>3
    <3>2. \A j \in 1..Len(channel') : j + 1 \in 1..Len(channel) /\ channel'[j] = channel[j + 1]
      BY <1>2
    <3>3. \/ \E k \in 1..Len(channel) : LastOfPhase(channel, k)
          \/ QueuedShows /\ \A j \in 1..Len(channel) : ~OfPhase(channel[j])
      BY <1>1, <1>6, <3>1 DEF QueuedInv
    <3>4. CASE \E k \in 1..Len(channel) : LastOfPhase(channel, k)
      <4>1. PICK k \in 1..Len(channel) : LastOfPhase(channel, k)
        BY <3>4
      <4>2. \A j \in 1..Len(channel) : j > k => ~OfPhase(channel[j])
        BY <4>1 DEF LastOfPhase
      <4>3. \A j \in 1..Len(channel') : j > k - 1 => ~OfPhase(channel'[j])
        BY <3>2, <4>2
      <4>4. CASE k > 1
        <5>1. k - 1 \in 1..Len(channel') /\ k = (k - 1) + 1
          BY <1>2, <4>4
        <5>2. channel'[k - 1] = channel[k]
          BY <3>2, <5>1
        <5> QED
          BY <4>1, <4>3, <5>1, <5>2 DEF LastOfPhase
      <4>5. CASE k = 1
        <5>1. OfPhase(event) /\ status = phase
          BY <1>2, <4>1, <4>5 DEF LastOfPhase
        <5>2. QueuedShows'
          BY <1>1, <2>4, <5>1 DEF QueuedShows
        <5> QED
          BY <4>3, <4>5, <5>2
      <4> QED
        BY <4>4, <4>5
    <3>5. CASE QueuedShows /\ \A j \in 1..Len(channel) : ~OfPhase(channel[j])
      <4>1. ~OfPhase(event)
        BY <1>2, <3>5
      <4>2. QueuedShows'
        BY <1>1, <2>4, <3>5, <4>1 DEF QueuedShows
      <4> QED
        BY <3>2, <3>5, <4>2
    <3> QED
      BY <3>3, <3>4, <3>5
  <2> QED
    BY <2>5, <2>6, <2>7 DEF MediaInv
<1> QED
  BY <1>5, <1>6

LEMMA SinkStops ==
  ASSUME MediaInv, StopSink \/ SinkEnds
  PROVE  MediaInv'
<1>1. /\ PlaybackTyped /\ SinkTyped /\ EventsTyped
      /\ phase' = phase /\ loading' = loading /\ announced' = announced
      /\ seeking' = seeking /\ buffering' = buffering /\ noticed' = noticed
      /\ transport' = transport /\ dropped' = dropped /\ cached' = cached
      /\ sink' \in {"stopping", "stopped"}
  BY DEF MediaInv, StopSink, SinkEnds, playback
<1>2. batch' \in {batch, <<>>} /\ channel' \in {channel, <<>>}
  BY DEF StopSink, SinkEnds
<1>3. <<>> \in Batches /\ <<>> \in Channels
  BY DEF Batches, Channels
<1>4. shown' = shown \/ shown' = [shown EXCEPT !.status = "Stopped", !.item = Untitled]
  BY DEF StopSink, SinkEnds
<1>5. shown' \in Views
  BY <1>1, <1>4 DEF SinkTyped, Views
<1> QED
  BY <1>1, <1>2, <1>3, <1>5 DEF MediaInv, PlaybackTyped, SinkTyped, EventsTyped, MprisInv, QueuedInv

LEMMA MediaStart == MediaInit => MediaInv
<1> SUFFICES ASSUME MediaInit PROVE MediaInv
  OBVIOUS
<1>1. /\ phase = "Stopped" /\ loading = FALSE /\ announced = {} /\ noticed = {}
      /\ seeking = FALSE /\ buffering = FALSE /\ batch = <<>> /\ channel = <<>>
      /\ transport \in Transports /\ dropped = FALSE /\ cached = Untitled
      /\ shown = [status |-> "Stopped", rate |-> 1, item |-> Untitled] /\ sink = "running"
  BY DEF MediaInit, Promise!SourceInit, Promise!Init
<1>2. shown \in Views /\ Untitled \in Titles /\ shown.status = "Stopped" /\ shown.item = Untitled
  BY <1>1 DEF Views, Titles
<1>3. batch \in Batches /\ channel \in Channels /\ Len(batch) = 0 /\ Len(channel) = 0
  BY <1>1 DEF Batches, Channels
<1>4. MprisShows /\ QueuedShows
  BY <1>1, <1>2 DEF MprisShows, QueuedShows
<1>5. MprisInv
  BY <1>3, <1>4 DEF MprisInv
<1>6. QueuedInv
  BY <1>3, <1>4 DEF QueuedInv
<1> QED
  BY <1>1, <1>2, <1>3, <1>5, <1>6 DEF MediaInv, PlaybackTyped, SinkTyped, EventsTyped

LEMMA MediaSteps == MediaInv /\ [MediaNext]_mediaVars => MediaInv'
<1> SUFFICES ASSUME MediaInv, [MediaNext]_mediaVars PROVE MediaInv'
  OBVIOUS
<1>1. CASE ApplyInput
  BY <1>1, InputAdds, AddingKeeps DEF MediaInv, ApplyInput
<1>2. CASE ApplyMetadata
  BY <1>2, MetadataAdds, AddingKeeps DEF MediaInv, ApplyMetadata
<1>3. CASE Publish
  BY <1>3, PublishKeeps
<1>4. CASE Deliver
  BY <1>4, DeliverKeeps
<1>5. CASE StopSink \/ SinkEnds
  BY <1>5, SinkStops
<1>6. CASE UNCHANGED mediaVars
  <2>1. /\ phase' = phase /\ loading' = loading /\ announced' = announced
        /\ seeking' = seeking /\ buffering' = buffering /\ noticed' = noticed
        /\ batch' = batch /\ transport' = transport /\ channel' = channel /\ dropped' = dropped
        /\ cached' = cached /\ shown' = shown /\ sink' = sink
    BY <1>6 DEF mediaVars, playback, sinkState
  <2>2. MprisInv'
    BY <2>1 DEF MediaInv, MprisInv, MprisShows, Tells, Cur
  <2>3. QueuedInv'
    BY <2>1 DEF MediaInv, QueuedInv, QueuedShows, LastOfPhase, OfPhase, MapKindToPhase
  <2> QED
    BY <2>1, <2>2, <2>3 DEF MediaInv, PlaybackTyped, SinkTyped, EventsTyped
<1> QED
  BY <1>1, <1>2, <1>3, <1>4, <1>5, <1>6 DEF MediaNext

LEMMA MediaInvariant == MediaSpec => []MediaInv
<1> QED
  BY MediaStart, MediaSteps, PTL DEF MediaSpec

(* What waits and what is shown is always well formed: every event that a   *)
(* batch or the channel holds has one of the kinds, and the transport shows *)
(* a view that there is.                                                    *)
THEOREM MediaTypeCorrect == MediaSpec => []MediaTypeOK
<1>1. MediaInv => MediaTypeOK
  BY DEF MediaInv, PlaybackTyped, SinkTyped, EventsTyped, MediaTypeOK, Batches, Channels,
     MediaEvent, StampedEvent, Titles
<1> QED
  BY <1>1, MediaInvariant, PTL

(* The transport mirrors the player: once every event was delivered and     *)
(* none was dropped, the desktop shows the state of the player, for any     *)
(* length of the queue and any number of events that wait.                  *)
THEOREM TransportCorrect == MediaSpec => []TransportMirrors
<1>1. MediaInv => TransportMirrors
  <2> SUFFICES ASSUME MediaInv, MediaQuiet, phase # "Starting"
               PROVE  /\ shown.status = phase
                      /\ phase = "Stopped" /\ transport # "now_playing" => shown.item = Untitled
                      /\ transport = "mpris" =>
                           /\ phase = "Playing" => (shown.rate = 0 <=> seeking \/ buffering)
                           /\ phase # "Stopped" => shown.item = cached
    BY DEF TransportMirrors
  <2>1. Len(batch) = 0 /\ Len(channel) = 0 /\ sink = "running" /\ ~dropped
    BY DEF MediaQuiet
  <2>2. MprisInv /\ QueuedInv
    BY DEF MediaInv
  <2>3. CASE transport = "mpris"
    <3>1. MprisShows
      BY <2>1, <2>2, <2>3 DEF MprisInv
    <3> QED
      BY <2>3, <3>1 DEF MprisShows
  <2>4. CASE transport # "mpris"
    <3>1. QueuedShows
      BY <2>1, <2>2, <2>4 DEF QueuedInv
    <3> QED
      BY <2>4, <3>1 DEF QueuedShows
  <2> QED
    BY <2>3, <2>4
<1> QED
  BY <1>1, MediaInvariant, PTL

-----------------------------------------------------------------------------
(* X11Overlays. *)

OverlayWindow == [mapped : BOOLEAN, override : BOOLEAN, at : Places, size : Places,
                  above : BOOLEAN, watched : BOOLEAN]
Belief == [mapped : BOOLEAN, unmanaged : BOOLEAN]
Resizes == Seq(Places)
Findings == [at : Places, size : Places, mapped : BOOLEAN]
Geometry ==
  [pc : {"poll", "look", "state", "snapshot", "overlay", "watch", "apply", "store", "ended"},
   up : BOOLEAN, reassert : BOOLEAN, at : Places, full : BOOLEAN,
   todo : SUBSET Overlays, it : SUBSET Overlays, seen : Findings,
   done : SUBSET (Overlays \X Belief)]
Parents == [mapped : BOOLEAN, at : Places, full : BOOLEAN]

(* The types, by name: those of the parent, of the overlays, of the thread. *)
ParentTyped == parent \in Parents /\ cache \in [at : Places, size : Places, full : BOOLEAN]
OverlaysTyped ==
  /\ stage \in [Overlays -> {"new", "live", "unlisted", "gone"}]
  /\ window \in [Overlays -> OverlayWindow] /\ belief \in [Overlays -> Belief]
  /\ dims \in [Overlays -> Resizes] /\ withdraw \subseteq Overlays
ThreadTyped ==
  /\ thread \in Geometry /\ events \subseteq {"External", "Overlay", "Map", "Unmap"}
  /\ resync \in BOOLEAN /\ closing \in BOOLEAN /\ told \in BOOLEAN /\ changes \in 0..MaxChanges

(* What a pass of the thread has before it and behind it.                   *)
Past(o) == \E s \in thread.done : s[1] = o
PassInv ==
  /\ thread.pc \in {"watch", "apply"} => \E o \in Overlays : thread.it = {o}
  /\ thread.pc \notin {"watch", "apply"} => thread.it = {}
  /\ thread.pc \notin {"overlay", "watch", "apply"} => thread.todo = {}
  /\ thread.pc \notin {"overlay", "watch", "apply", "store"} => thread.done = {}
  /\ thread.it \cap thread.todo = {}
  /\ \A o \in Overlays :
       /\ o \in thread.it \cup thread.todo => stage[o] # "new" /\ ~Past(o)
       /\ Past(o) => stage[o] # "new"

(* What it saw of the parent is what there is, unless an event tells more.  *)
External == "External" \in events
SeenParentInv ==
  /\ thread.pc # "look" => thread.at = parent.at \/ External
  /\ thread.pc \notin {"look", "state"} => thread.full = ParentFull \/ External
MappedInv ==
  /\ "Map" \in events => parent.mapped
  /\ "Unmap" \in events => ~parent.mapped
  /\ events \cap {"Map", "Unmap"} = {} => thread.up = parent.mapped
  /\ ~closing => told = thread.up
  /\ thread.pc = "ended" => closing

(* What it believes of an overlay, or is about to store, is what the window *)
(* is like: not unmanaged or mapped behind its back.                        *)
BeliefInv ==
  \A o \in Live :
    /\ ~Past(o) => belief[o].unmanaged = window[o].override /\ (window[o].mapped => belief[o].mapped)
    /\ \A s \in thread.done : s[1] = o =>
         s[2].unmanaged = window[o].override /\ (window[o].mapped => s[2].mapped)

(* The last size a layer is yet to be told is that of mpv's window.         *)
SidesInv ==
  /\ readable \in BOOLEAN
  /\ \A o \in Overlays : dims[o] # <<>> =>
       stage[o] = "live" /\ dims[o][Len(dims[o])] = parent.at

(* It has that size already, or is yet to be told.                          *)
Settling(o) == dims[o] # <<>> \/ window[o].size = parent.at

(* The overlay at hand is as it was found, but for its size, which nobody   *)
(* may hear of, and tells of what comes next.                               *)
AtHandInv ==
  \A o \in Overlays : thread.it = {o} /\ Exists(o) =>
    /\ thread.seen.at = window[o].at \/ "Overlay" \in events
    /\ stage[o] = "live" => thread.seen.size = window[o].size \/ Settling(o)
    /\ thread.pc = "apply" =>
         /\ window[o].watched /\ (window[o].mapped => thread.seen.mapped)
         /\ thread.seen.mapped = window[o].mapped \/ "Overlay" \in events

(* An overlay the thread is done with is as the parent was seen, or there   *)
(* is news of it; one that came behind the snapshot asked for another pass. *)
Passed(o) ==
  thread.pc \in {"overlay", "watch", "apply", "store", "poll"} /\ o \notin thread.todo \cup thread.it
InPlace(o) ==
  /\ window[o].watched /\ window[o].override = thread.full
  /\ \/ "Overlay" \in events
     \/ /\ window[o].mapped = thread.up
        /\ thread.up => window[o].at = thread.at /\ (window[o].size = thread.at \/ Settling(o))
PlacedInv == ~closing => \A o \in Live : Passed(o) => resync \/ InPlace(o)

(* One that mpv's window was raised over will be raised again.              *)
ToRaise(o) == thread.pc \in {"look", "state", "snapshot"} \/ o \in thread.todo \cup thread.it
AboveInv ==
  ~closing => \A o \in Live : window[o].mapped /\ ~window[o].above =>
    window[o].override /\ (External \/ (thread.reassert /\ ToRaise(o)))

OverlayInv ==
  /\ ParentTyped /\ OverlaysTyped /\ ThreadTyped
  /\ PassInv /\ SeenParentInv /\ MappedInv /\ BeliefInv /\ AtHandInv /\ PlacedInv /\ AboveInv

(* What an overlay may go through without the thread: it stays as it is but *)
(* for what the thread will hear of, or does not know yet; or it is new.    *)
Stays(o) ==
  /\ Exists(o) /\ (stage'[o] = "live" => stage[o] = "live")
  /\ belief'[o] = belief[o]
  /\ window'[o].override = window[o].override /\ window'[o].watched = window[o].watched
  /\ window'[o].mapped => window[o].mapped
  /\ window[o].above => window'[o].above \/ (window[o].override /\ External')
  /\ \/ window'[o].mapped = window[o].mapped /\ window'[o].at = window[o].at
     \/ "Overlay" \in events'
     \/ ~window[o].watched /\ (window'[o].at = window[o].at \/ thread.it # {o})
  /\ stage'[o] = "live" =>
       \/ Settling(o)'
       \/ window'[o].size = window[o].size /\ dims'[o] = dims[o] /\ parent'.at = parent.at
Born(o) ==
  /\ stage[o] = "new" /\ stage'[o] = "live"
  /\ belief'[o].unmanaged = window'[o].override /\ belief'[o].mapped
  /\ window'[o].above /\ resync'

(* Nothing of what the thread relies on is lost meanwhile.                  *)
Meanwhile ==
  /\ thread' = thread /\ (closing => closing') /\ (resync => resync')
  /\ (External => External') /\ ("Overlay" \in events => "Overlay" \in events')
  /\ (parent'.at = parent.at /\ parent'.full = parent.full) \/ External'
  /\ \A o \in Overlays : stage[o] # "new" => stage'[o] # "new"
  /\ \A o \in Overlays : stage'[o] \in {"live", "unlisted"} => Stays(o) \/ Born(o)

LEMMA StaysKeep ==
  ASSUME PassInv, SeenParentInv, BeliefInv, AtHandInv, PlacedInv, AboveInv, Meanwhile
  PROVE  PassInv' /\ SeenParentInv' /\ BeliefInv' /\ AtHandInv' /\ PlacedInv' /\ AboveInv'
<1>1. /\ thread' = thread /\ (closing => closing') /\ (resync => resync')
      /\ (External => External') /\ ("Overlay" \in events => "Overlay" \in events')
      /\ (parent'.at = parent.at /\ parent'.full = parent.full) \/ External'
  BY DEF Meanwhile
<1>2. \A o \in Overlays : stage[o] # "new" => stage'[o] # "new"
  BY DEF Meanwhile
<1>3. \A o \in Overlays : stage'[o] \in {"live", "unlisted"} => Stays(o) \/ Born(o)
  BY DEF Meanwhile
<1>4. \A o \in Overlays : Past(o)' <=> Past(o)
  BY <1>1 DEF Past
<1>5. PassInv'
  BY <1>1, <1>2, <1>4 DEF PassInv
<1>6. SeenParentInv'
  BY <1>1 DEF SeenParentInv, External, ParentFull, Covers
<1>7. BeliefInv'
  <2> SUFFICES ASSUME NEW o \in Overlays, stage'[o] = "live"
               PROVE  /\ ~Past(o) => /\ belief'[o].unmanaged = window'[o].override
                                     /\ window'[o].mapped => belief'[o].mapped
                      /\ \A s \in thread.done : s[1] = o =>
                           s[2].unmanaged = window'[o].override /\ (window'[o].mapped => s[2].mapped)
    BY <1>1, <1>4 DEF BeliefInv, Live
  <2>1. CASE Stays(o)
    BY <2>1 DEF Stays, BeliefInv, Live
  <2>2. CASE Born(o)
    BY <2>2 DEF Born, PassInv, Past
  <2> QED
    BY <1>3, <2>1, <2>2
<1>8. AtHandInv'
  <2> SUFFICES ASSUME NEW o \in Overlays, thread.it = {o}, stage'[o] \in {"live", "unlisted"}
               PROVE  /\ thread.seen.at = window'[o].at \/ "Overlay" \in events'
                      /\ stage'[o] = "live" => thread.seen.size = window'[o].size \/ Settling(o)'
                      /\ thread.pc = "apply" =>
                           /\ window'[o].watched /\ (window'[o].mapped => thread.seen.mapped)
                           /\ thread.seen.mapped = window'[o].mapped \/ "Overlay" \in events'
    BY <1>1 DEF AtHandInv, Exists
  <2>1. stage[o] # "new"
    BY DEF PassInv
  <2>2. Stays(o)
    BY <1>3, <2>1 DEF Born
  <2>3. stage'[o] = "live" => thread.seen.size = window'[o].size \/ Settling(o)'
    BY <2>2 DEF Stays, AtHandInv, Settling
  <2> QED
    BY <1>1, <2>2, <2>3 DEF Stays, AtHandInv
<1>9. PlacedInv'
  <2> SUFFICES ASSUME ~closing', NEW o \in Overlays, stage'[o] = "live", Passed(o), ~resync'
               PROVE  InPlace(o)'
    BY <1>1 DEF PlacedInv, Live, Passed
  <2>1. Stays(o)
    BY <1>3 DEF Born
  <2>2. InPlace(o)
    BY <1>1, <2>1 DEF PlacedInv, Live, Stays
  <2>3. window[o].size = thread.at \/ Settling(o) => window'[o].size = thread.at \/ Settling(o)'
    BY <2>1 DEF Stays, Settling
  <2> QED
    BY <1>1, <2>1, <2>2, <2>3 DEF Stays, InPlace
<1>10. AboveInv'
  <2> SUFFICES ASSUME ~closing', NEW o \in Overlays, stage'[o] = "live",
                      window'[o].mapped, ~window'[o].above
               PROVE  window'[o].override /\ (External' \/ (thread.reassert /\ ToRaise(o)))
    BY <1>1 DEF AboveInv, Live, ToRaise
  <2>1. Stays(o)
    BY <1>3 DEF Born
  <2> QED
    BY <1>1, <2>1 DEF Stays, AboveInv, Live
<1> QED
  BY <1>5, <1>6, <1>7, <1>8, <1>9, <1>10

(* The state of an overlay that is not touched.                             *)
LEMMA Untouched ==
  ASSUME NEW o \in Overlays, Exists(o), window'[o] = window[o], belief'[o] = belief[o],
         stage'[o] = "live" => stage[o] = "live" /\ dims'[o] = dims[o],
         parent'.at = parent.at
  PROVE  Stays(o)
BY DEF Stays

LEMMA CacheTyped ==
  ASSUME ParentTyped
  PROVE  /\ cache.at \in Places /\ cache.size \in Places /\ cache.full \in BOOLEAN
         /\ parent.at \in Places /\ parent.mapped \in BOOLEAN /\ parent.full \in BOOLEAN
BY DEF ParentTyped, Parents

(* The calls of CEF.                                                        *)
LEMMA AllocKeeps ==
  ASSUME OverlayInv, NEW o \in Overlays, Alloc(o)
  PROVE  OverlayInv'
<1> DEFINE w == [mapped |-> TRUE, override |-> cache.full, at |-> cache.at, size |-> cache.size,
                 above |-> TRUE, watched |-> FALSE]
           b == [mapped |-> TRUE, unmanaged |-> cache.full]
<1>1. /\ ParentTyped /\ OverlaysTyped /\ ThreadTyped
      /\ PassInv /\ SeenParentInv /\ MappedInv /\ BeliefInv /\ AtHandInv /\ PlacedInv /\ AboveInv
  BY DEF OverlayInv
<1>2. /\ stage[o] = "new" /\ stage' = [stage EXCEPT ![o] = "live"]
      /\ window' = [window EXCEPT ![o] = w] /\ belief' = [belief EXCEPT ![o] = b]
      /\ resync' = TRUE /\ cache' = cache /\ events' = events /\ dims' = dims
      /\ parent' = parent /\ withdraw' = withdraw /\ thread' = thread /\ told' = told
      /\ changes' = changes /\ closing' = closing
  BY DEF Alloc, Outside
<1>3. w \in OverlayWindow /\ b \in Belief
  BY <1>1, CacheTyped DEF OverlayWindow, Belief
<1>4. w.override = b.unmanaged /\ b.mapped /\ w.above
  OBVIOUS
<1> HIDE DEF w, b
<1>5. ParentTyped' /\ OverlaysTyped' /\ ThreadTyped'
  BY <1>1, <1>2, <1>3 DEF ParentTyped, OverlaysTyped, ThreadTyped
<1>6. Born(o)
  BY <1>1, <1>2, <1>4 DEF Born, OverlaysTyped
<1>7. \A p \in Overlays : stage'[p] \in {"live", "unlisted"} => Stays(p) \/ Born(p)
  <2>1. TAKE p \in Overlays
  <2>2. HAVE stage'[p] \in {"live", "unlisted"}
  <2>3. CASE p = o
    BY <1>6, <2>3
  <2>4. CASE p # o
    <3>1. /\ stage'[p] = stage[p] /\ window'[p] = window[p] /\ belief'[p] = belief[p]
          /\ dims'[p] = dims[p] /\ parent'.at = parent.at
      BY <1>1, <1>2, <2>4 DEF OverlaysTyped
    <3> QED
      BY <2>2, <3>1, Untouched DEF Exists
  <2> QED
    BY <2>3, <2>4
<1>8. Meanwhile
  BY <1>1, <1>2, <1>7 DEF Meanwhile, External, OverlaysTyped
<1>9. MappedInv'
  BY <1>1, <1>2 DEF MappedInv
<1> QED
  BY <1>1, <1>5, <1>8, <1>9, StaysKeep DEF OverlayInv

LEMMA UnlistKeeps ==
  ASSUME OverlayInv, NEW o \in Overlays, Unlist(o)
  PROVE  OverlayInv'
<1>1. /\ ParentTyped /\ OverlaysTyped /\ ThreadTyped
      /\ PassInv /\ SeenParentInv /\ MappedInv /\ BeliefInv /\ AtHandInv /\ PlacedInv /\ AboveInv
  BY DEF OverlayInv
<1>2. /\ stage[o] = "live" /\ stage' = [stage EXCEPT ![o] = "unlisted"]
      /\ dims' = [dims EXCEPT ![o] = <<>>]
      /\ window' = window /\ belief' = belief
      /\ resync' = resync /\ cache' = cache /\ events' = events
      /\ parent' = parent /\ withdraw' = withdraw /\ thread' = thread /\ told' = told
      /\ changes' = changes /\ closing' = closing
  BY DEF Unlist, Outside
<1>3. <<>> \in Resizes
  BY DEF Resizes
<1>4. ParentTyped' /\ OverlaysTyped' /\ ThreadTyped'
  BY <1>1, <1>2, <1>3 DEF ParentTyped, OverlaysTyped, ThreadTyped
<1>5. \A p \in Overlays : stage'[p] \in {"live", "unlisted"} => Stays(p)
  BY <1>1, <1>2, Untouched DEF Exists, OverlaysTyped
<1>6. Meanwhile
  BY <1>1, <1>2, <1>5 DEF Meanwhile, External, OverlaysTyped
<1>7. MappedInv'
  BY <1>1, <1>2 DEF MappedInv
<1> QED
  BY <1>1, <1>4, <1>6, <1>7, StaysKeep DEF OverlayInv

LEMMA DestroyKeeps ==
  ASSUME OverlayInv, NEW o \in Overlays, Destroy(o)
  PROVE  OverlayInv'
<1>1. /\ ParentTyped /\ OverlaysTyped /\ ThreadTyped
      /\ PassInv /\ SeenParentInv /\ MappedInv /\ BeliefInv /\ AtHandInv /\ PlacedInv /\ AboveInv
  BY DEF OverlayInv
<1>2. /\ stage[o] = "unlisted" /\ stage' = [stage EXCEPT ![o] = "gone"]
      /\ window' = [window EXCEPT ![o] = NoWindow]
      /\ events' \in {events, events \cup {"Overlay"}}
      /\ dims' = dims /\ belief' = belief /\ resync' = resync /\ cache' = cache
      /\ parent' = parent /\ withdraw' = withdraw /\ thread' = thread /\ told' = told
      /\ changes' = changes /\ closing' = closing
  BY DEF Destroy, Outside, Notice
<1>3. NoWindow \in OverlayWindow
  BY DEF NoWindow, OverlayWindow, Places
<1>4. ParentTyped' /\ OverlaysTyped' /\ ThreadTyped'
  BY <1>1, <1>2, <1>3 DEF ParentTyped, OverlaysTyped, ThreadTyped
<1>5. \A p \in Overlays : stage'[p] \in {"live", "unlisted"} => Stays(p)
  BY <1>1, <1>2, Untouched DEF Exists, OverlaysTyped
<1>6. Meanwhile
  BY <1>1, <1>2, <1>5 DEF Meanwhile, External, OverlaysTyped
<1>7. MappedInv'
  BY <1>1, <1>2 DEF MappedInv
<1> QED
  BY <1>1, <1>4, <1>6, <1>7, StaysKeep DEF OverlayInv

(* What is left of a sequence before it is empty is its last element.       *)
LEMMA LastLeft ==
  ASSUME NEW S, NEW s \in Seq(S), s # <<>>, Tail(s) = <<>>
  PROVE  Head(s) = s[Len(s)]
<1> DEFINE t == Tail(s)
<1>1. Len(t) = Len(s) - 1 /\ Len(s) \in Nat /\ Head(s) = s[1]
  OBVIOUS
<1>2. t = <<>>
  OBVIOUS
<1> HIDE DEF t
<1>3. Len(t) = 0
  BY <1>2
<1>4. Len(s) = 1
  BY <1>1, <1>3
<1> QED
  BY <1>1, <1>4

LEMMA ResizeKeeps ==
  ASSUME OverlayInv, SidesInv, NEW o \in Overlays, ResizeOverlay(o)
  PROVE  OverlayInv'
<1> DEFINE size == Head(dims[o])
<1>1. /\ ParentTyped /\ OverlaysTyped /\ ThreadTyped
      /\ PassInv /\ SeenParentInv /\ MappedInv /\ BeliefInv /\ AtHandInv /\ PlacedInv /\ AboveInv
  BY DEF OverlayInv
<1>2. /\ stage[o] = "live" /\ dims[o] # <<>> /\ dims' = [dims EXCEPT ![o] = Tail(dims[o])]
      /\ cache' = [cache EXCEPT !.size = size]
      /\ window' = [window EXCEPT ![o] = [window[o] EXCEPT !.size = size]]
      /\ events' = events \cup IF window[o].size # size THEN Notice(o) ELSE {}
      /\ stage' = stage /\ belief' = belief /\ resync' = resync
      /\ parent' = parent /\ withdraw' = withdraw /\ thread' = thread /\ told' = told
      /\ changes' = changes /\ closing' = closing
  BY DEF ResizeOverlay, Arrive, Outside
<1>3. dims[o] \in Resizes /\ size \in Places /\ Tail(dims[o]) \in Resizes
  BY <1>1, <1>2 DEF OverlaysTyped, Resizes
<1> HIDE DEF size
<1>4. window[o] \in OverlayWindow
  BY <1>1 DEF OverlaysTyped
<1>5. [window[o] EXCEPT !.size = size] \in OverlayWindow
  BY <1>3, <1>4 DEF OverlayWindow
<1>6. events' \in {events, events \cup {"Overlay"}}
  BY <1>2 DEF Notice
<1>7. OverlaysTyped'
  BY <1>1, <1>2, <1>3, <1>5 DEF OverlaysTyped
<1>8. ParentTyped' /\ ThreadTyped'
  BY <1>1, <1>2, <1>3, <1>6 DEF ParentTyped, ThreadTyped
<1>9. Stays(o)
  <2> DEFINE w == [window[o] EXCEPT !.size = size]
  <2>1. /\ w.mapped = window[o].mapped /\ w.override = window[o].override /\ w.at = window[o].at
        /\ w.above = window[o].above /\ w.watched = window[o].watched /\ w.size = size
    BY <1>4 DEF OverlayWindow
  <2>2. window'[o] = w
    BY <1>1, <1>2 DEF OverlaysTyped
  <2> HIDE DEF w
  <2>3. Settling(o)'
    <3>1. dims[o] \in Seq(Places) /\ dims'[o] = Tail(dims[o]) /\ parent' = parent
      BY <1>1, <1>2, <1>3 DEF OverlaysTyped, Resizes
    <3>2. dims[o][Len(dims[o])] = parent.at
      BY <1>2 DEF SidesInv
    <3>3. Tail(dims[o]) = <<>> => size = parent.at
      BY <1>2, <3>1, <3>2, LastLeft DEF size
    <3> QED
      BY <2>1, <2>2, <3>1, <3>3 DEF Settling
  <2> QED
    BY <1>2, <2>1, <2>2, <2>3 DEF Stays, Exists
<1>10. \A p \in Overlays : stage'[p] \in {"live", "unlisted"} => Stays(p)
  <2>1. \A p \in Overlays : p # o => window'[p] = window[p] /\ dims'[p] = dims[p]
    BY <1>1, <1>2 DEF OverlaysTyped
  <2> QED
    BY <1>2, <1>9, <2>1, Untouched DEF Exists
<1>11. Meanwhile
  BY <1>1, <1>2, <1>6, <1>10 DEF Meanwhile, External
<1>12. MappedInv'
  BY <1>1, <1>2, <1>6 DEF MappedInv
<1> QED
  BY <1>1, <1>7, <1>8, <1>11, <1>12, StaysKeep DEF OverlayInv

LEMMA RestackKeeps ==
  ASSUME OverlayInv, Restack
  PROVE  OverlayInv'
<1>1. /\ ParentTyped /\ OverlaysTyped /\ ThreadTyped
      /\ PassInv /\ SeenParentInv /\ MappedInv /\ BeliefInv /\ AtHandInv /\ PlacedInv /\ AboveInv
  BY DEF OverlayInv
<1>2. /\ window' = [o \in Overlays |-> [window[o] EXCEPT !.above = window[o].above \/ o \in Live]]
      /\ stage' = stage /\ belief' = belief /\ resync' = resync /\ dims' = dims /\ cache' = cache
      /\ parent' = parent /\ withdraw' = withdraw /\ thread' = thread /\ told' = told
      /\ changes' = changes /\ closing' = closing
  BY DEF Restack, Outside
<1>3. events \subseteq events' /\ events' \subseteq events \cup {"Overlay"}
  BY DEF Restack, Arrive, Notice
<1>4. \A o \in Overlays :
        /\ window[o] \in OverlayWindow /\ window'[o] \in OverlayWindow
        /\ window'[o].mapped = window[o].mapped /\ window'[o].override = window[o].override
        /\ window'[o].at = window[o].at /\ window'[o].size = window[o].size
        /\ window'[o].watched = window[o].watched
        /\ window[o].above => window'[o].above
  <2>1. TAKE o \in Overlays
  <2>2. window[o] \in OverlayWindow
    BY <1>1 DEF OverlaysTyped
  <2>3. window'[o] = [window[o] EXCEPT !.above = window[o].above \/ o \in Live]
    BY <1>2
  <2>4. (window[o].above \/ o \in Live) \in BOOLEAN
    OBVIOUS
  <2> QED
    BY <2>2, <2>3, <2>4 DEF OverlayWindow
<1>5. window' \in [Overlays -> OverlayWindow]
  BY <1>2, <1>4
<1>6. ParentTyped' /\ OverlaysTyped' /\ ThreadTyped'
  BY <1>1, <1>2, <1>3, <1>5 DEF ParentTyped, OverlaysTyped, ThreadTyped
<1>7. \A o \in Overlays : stage'[o] \in {"live", "unlisted"} => Stays(o)
  BY <1>2, <1>4 DEF Stays, Exists
<1>8. Meanwhile
  BY <1>2, <1>3, <1>7 DEF Meanwhile, External
<1>9. MappedInv'
  <2>1. "Map" \in events' <=> "Map" \in events
    BY <1>3
  <2>2. "Unmap" \in events' <=> "Unmap" \in events
    BY <1>3
  <2> QED
    BY <1>1, <1>2, <2>1, <2>2 DEF MappedInv
<1> QED
  BY <1>1, <1>6, <1>8, <1>9, StaysKeep DEF OverlayInv

(* What the user, mpv and the window manager do.                            *)
LEMMA ChangeTyped ==
  ASSUME ThreadTyped, Change
  PROVE  changes' \in 0..MaxChanges /\ ~closing
BY OverlayAssumption DEF ThreadTyped, Change

LEMMA ParentMovesKeeps ==
  ASSUME OverlayInv, NEW at \in Places, ParentMoves(at)
  PROVE  OverlayInv'
<1>1. /\ ParentTyped /\ OverlaysTyped /\ ThreadTyped
      /\ PassInv /\ SeenParentInv /\ MappedInv /\ BeliefInv /\ AtHandInv /\ PlacedInv /\ AboveInv
  BY DEF OverlayInv
<1>2. /\ Change /\ parent' = [parent EXCEPT !.at = at] /\ events' = events \cup {"External"}
      /\ dims' = [o \in Overlays |-> IF o \in Live THEN Append(dims[o], at) ELSE <<>>]
      /\ cache' = cache /\ stage' = stage /\ window' = window /\ belief' = belief
      /\ withdraw' = withdraw /\ resync' = resync /\ closing' = closing /\ thread' = thread
      /\ told' = told
  BY DEF ParentMoves, Arrive
<1>3. dims' \in [Overlays -> Resizes]
  <2>1. \A o \in Overlays : Append(dims[o], at) \in Resizes /\ <<>> \in Resizes
    BY <1>1 DEF OverlaysTyped, Resizes
  <2> QED
    BY <1>2, <2>1
<1>4. parent' \in Parents /\ parent'.mapped = parent.mapped
  BY <1>1, <1>2 DEF ParentTyped, Parents
<1>5. ParentTyped' /\ OverlaysTyped' /\ ThreadTyped'
  BY <1>1, <1>2, <1>3, <1>4, ChangeTyped DEF ParentTyped, OverlaysTyped, ThreadTyped
<1>6. \A p \in Overlays : stage'[p] \in {"live", "unlisted"} => Stays(p)
  <2> SUFFICES ASSUME NEW p \in Overlays, stage'[p] \in {"live", "unlisted"}
               PROVE  Stays(p)
    OBVIOUS
  <2>1. stage'[p] = "live" => dims'[p] # <<>>
    <3>1. dims[p] \in Seq(Places)
      BY <1>1 DEF OverlaysTyped, Resizes
    <3>2. Append(dims[p], at) # <<>>
      BY <3>1
    <3> QED
      BY <1>2, <3>2 DEF Live
  <2> QED
    BY <1>2, <2>1 DEF Stays, Exists, Settling
<1>7. Meanwhile
  BY <1>2, <1>6 DEF Meanwhile, External
<1>8. MappedInv'
  BY <1>1, <1>2, <1>4 DEF MappedInv
<1> QED
  BY <1>1, <1>5, <1>7, <1>8, StaysKeep DEF OverlayInv

LEMMA ParentStateKeeps ==
  ASSUME OverlayInv, ParentState
  PROVE  OverlayInv'
<1>1. /\ ParentTyped /\ OverlaysTyped /\ ThreadTyped
      /\ PassInv /\ SeenParentInv /\ MappedInv /\ BeliefInv /\ AtHandInv /\ PlacedInv /\ AboveInv
  BY DEF OverlayInv
<1>2. /\ Change /\ parent' = [parent EXCEPT !.full = ~parent.full]
      /\ events' = events \cup {"External"} /\ dims' = dims
      /\ cache' = cache /\ stage' = stage /\ window' = window /\ belief' = belief
      /\ withdraw' = withdraw /\ resync' = resync /\ closing' = closing /\ thread' = thread
      /\ told' = told
  BY DEF ParentState, Arrive
<1>3. parent' \in Parents /\ parent'.mapped = parent.mapped /\ parent'.at = parent.at
  BY <1>1, <1>2 DEF ParentTyped, Parents
<1>4. ParentTyped' /\ OverlaysTyped' /\ ThreadTyped'
  BY <1>1, <1>2, <1>3, ChangeTyped DEF ParentTyped, OverlaysTyped, ThreadTyped
<1>5. \A p \in Overlays : stage'[p] \in {"live", "unlisted"} => Stays(p)
  BY <1>2, <1>3, Untouched DEF Exists
<1>6. Meanwhile
  BY <1>2, <1>5 DEF Meanwhile, External
<1>7. MappedInv'
  BY <1>1, <1>2, <1>3 DEF MappedInv
<1> QED
  BY <1>1, <1>4, <1>6, <1>7, StaysKeep DEF OverlayInv

LEMMA ParentMappedKeeps ==
  ASSUME OverlayInv, ParentMapped
  PROVE  OverlayInv'
<1>1. /\ ParentTyped /\ OverlaysTyped /\ ThreadTyped
      /\ PassInv /\ SeenParentInv /\ MappedInv /\ BeliefInv /\ AtHandInv /\ PlacedInv /\ AboveInv
  BY DEF OverlayInv
<1>2. /\ Change /\ parent' = [parent EXCEPT !.mapped = ~parent.mapped]
      /\ events' = (events \ {"Map", "Unmap"}) \cup {IF parent.mapped THEN "Unmap" ELSE "Map"}
      /\ dims' = dims
      /\ cache' = cache /\ stage' = stage /\ window' = window /\ belief' = belief
      /\ withdraw' = withdraw /\ resync' = resync /\ closing' = closing /\ thread' = thread
      /\ told' = told
  BY DEF ParentMapped
<1>3. /\ parent' \in Parents /\ parent'.mapped = ~parent.mapped /\ parent'.at = parent.at
      /\ parent'.full = parent.full
  BY <1>1, <1>2 DEF ParentTyped, Parents
<1>4. events' \subseteq {"External", "Overlay", "Map", "Unmap"}
  BY <1>1, <1>2 DEF ThreadTyped
<1>5. ParentTyped' /\ OverlaysTyped' /\ ThreadTyped'
  BY <1>1, <1>2, <1>3, <1>4, ChangeTyped DEF ParentTyped, OverlaysTyped, ThreadTyped
<1>6. \A p \in Overlays : stage'[p] \in {"live", "unlisted"} => Stays(p)
  BY <1>2, <1>3, Untouched DEF Exists
<1>7. Meanwhile
  BY <1>2, <1>3, <1>6 DEF Meanwhile, External
<1>8. MappedInv'
  BY <1>1, <1>2, <1>3 DEF MappedInv
<1> QED
  BY <1>1, <1>5, <1>7, <1>8, StaysKeep DEF OverlayInv

LEMMA ParentRaisedKeeps ==
  ASSUME OverlayInv, ParentRaised
  PROVE  OverlayInv'
<1>1. /\ ParentTyped /\ OverlaysTyped /\ ThreadTyped
      /\ PassInv /\ SeenParentInv /\ MappedInv /\ BeliefInv /\ AtHandInv /\ PlacedInv /\ AboveInv
  BY DEF OverlayInv
<1>2. /\ Change
      /\ window' = [o \in Overlays |-> [window[o] EXCEPT !.above = window[o].above /\ ~window[o].override]]
      /\ events' = events \cup {"External"} /\ dims' = dims /\ parent' = parent
      /\ cache' = cache /\ stage' = stage /\ belief' = belief
      /\ withdraw' = withdraw /\ resync' = resync /\ closing' = closing /\ thread' = thread
      /\ told' = told
  BY DEF ParentRaised, Arrive
<1>3. \A o \in Overlays :
        /\ window[o] \in OverlayWindow /\ window'[o] \in OverlayWindow
        /\ window'[o].mapped = window[o].mapped /\ window'[o].override = window[o].override
        /\ window'[o].at = window[o].at /\ window'[o].size = window[o].size
        /\ window'[o].watched = window[o].watched
        /\ window[o].above => window'[o].above \/ window[o].override
  <2>1. TAKE o \in Overlays
  <2>2. window[o] \in OverlayWindow
    BY <1>1 DEF OverlaysTyped
  <2>3. window'[o] = [window[o] EXCEPT !.above = window[o].above /\ ~window[o].override]
    BY <1>2
  <2>4. (window[o].above /\ ~window[o].override) \in BOOLEAN
    OBVIOUS
  <2> QED
    BY <2>2, <2>3, <2>4 DEF OverlayWindow
<1>4. window' \in [Overlays -> OverlayWindow]
  BY <1>2, <1>3
<1>5. ParentTyped' /\ OverlaysTyped' /\ ThreadTyped'
  BY <1>1, <1>2, <1>4, ChangeTyped DEF ParentTyped, OverlaysTyped, ThreadTyped
<1>6. \A o \in Overlays : stage'[o] \in {"live", "unlisted"} => Stays(o)
  BY <1>2, <1>3 DEF Stays, Exists, External
<1>7. Meanwhile
  BY <1>2, <1>6 DEF Meanwhile, External
<1>8. MappedInv'
  BY <1>1, <1>2 DEF MappedInv
<1> QED
  BY <1>1, <1>5, <1>7, <1>8, StaysKeep DEF OverlayInv

LEMMA CallbackKeeps ==
  ASSUME OverlayInv, NEW full \in BOOLEAN, FullscreenCallback(full)
  PROVE  OverlayInv'
<1>1. /\ ParentTyped /\ OverlaysTyped /\ ThreadTyped
      /\ PassInv /\ SeenParentInv /\ MappedInv /\ BeliefInv /\ AtHandInv /\ PlacedInv /\ AboveInv
  BY DEF OverlayInv
<1>2. /\ Change /\ cache' = [cache EXCEPT !.full = full] /\ resync' = TRUE
      /\ events' = events /\ dims' = dims /\ parent' = parent
      /\ stage' = stage /\ window' = window /\ belief' = belief
      /\ withdraw' = withdraw /\ closing' = closing /\ thread' = thread /\ told' = told
  BY DEF FullscreenCallback
<1>3. ParentTyped' /\ OverlaysTyped' /\ ThreadTyped'
  BY <1>1, <1>2, ChangeTyped DEF ParentTyped, OverlaysTyped, ThreadTyped
<1>4. \A p \in Overlays : stage'[p] \in {"live", "unlisted"} => Stays(p)
  BY <1>2, Untouched DEF Exists
<1>5. Meanwhile
  BY <1>2, <1>4 DEF Meanwhile, External
<1>6. MappedInv'
  BY <1>1, <1>2 DEF MappedInv
<1> QED
  BY <1>1, <1>3, <1>5, <1>6, StaysKeep DEF OverlayInv

LEMMA ClampKeeps ==
  ASSUME OverlayInv, NEW o \in Overlays, NEW at \in Places, Clamp(o, at)
  PROVE  OverlayInv'
<1>1. /\ ParentTyped /\ OverlaysTyped /\ ThreadTyped
      /\ PassInv /\ SeenParentInv /\ MappedInv /\ BeliefInv /\ AtHandInv /\ PlacedInv /\ AboveInv
  BY DEF OverlayInv
<1>2. /\ Change /\ window' = [window EXCEPT ![o] = [window[o] EXCEPT !.at = at]]
      /\ events' = events \cup Notice(o) /\ (window[o].watched \/ thread.it # {o})
      /\ Exists(o) /\ cache' = cache /\ resync' = resync /\ dims' = dims /\ parent' = parent
      /\ stage' = stage /\ belief' = belief
      /\ withdraw' = withdraw /\ closing' = closing /\ thread' = thread /\ told' = told
  BY DEF Clamp, Arrive
<1>3. window[o] \in OverlayWindow
  BY <1>1 DEF OverlaysTyped
<1>4. [window[o] EXCEPT !.at = at] \in OverlayWindow
  BY <1>3 DEF OverlayWindow
<1>5. events' \in {events, events \cup {"Overlay"}}
  BY <1>2 DEF Notice
<1>6. OverlaysTyped'
  BY <1>1, <1>2, <1>4 DEF OverlaysTyped
<1>7. ParentTyped' /\ ThreadTyped'
  BY <1>1, <1>2, <1>5, ChangeTyped DEF ParentTyped, ThreadTyped
<1>8. Stays(o)
  <2> DEFINE w == [window[o] EXCEPT !.at = at]
  <2>1. /\ w.mapped = window[o].mapped /\ w.override = window[o].override
        /\ w.above = window[o].above /\ w.watched = window[o].watched /\ w.size = window[o].size
    BY <1>3 DEF OverlayWindow
  <2>2. window'[o] = w
    BY <1>1, <1>2 DEF OverlaysTyped
  <2> HIDE DEF w
  <2>3. "Overlay" \in events' \/ (~window[o].watched /\ thread.it # {o})
    BY <1>2 DEF Notice
  <2> QED
    BY <1>2, <2>1, <2>2, <2>3 DEF Stays
<1>9. \A p \in Overlays : stage'[p] \in {"live", "unlisted"} => Stays(p)
  <2>1. \A p \in Overlays : p # o => window'[p] = window[p]
    BY <1>1, <1>2 DEF OverlaysTyped
  <2> QED
    BY <1>2, <1>8, <2>1, Untouched DEF Exists
<1>10. Meanwhile
  BY <1>1, <1>2, <1>5, <1>9 DEF Meanwhile, External
<1>11. MappedInv'
  BY <1>1, <1>2, <1>5 DEF MappedInv
<1> QED
  BY <1>1, <1>6, <1>7, <1>10, <1>11, StaysKeep DEF OverlayInv

LEMMA WithdrawKeeps ==
  ASSUME OverlayInv, NEW o \in Overlays, Withdraw(o)
  PROVE  OverlayInv'
<1>1. /\ ParentTyped /\ OverlaysTyped /\ ThreadTyped
      /\ PassInv /\ SeenParentInv /\ MappedInv /\ BeliefInv /\ AtHandInv /\ PlacedInv /\ AboveInv
  BY DEF OverlayInv
<1>2. /\ withdraw' = withdraw \ {o}
      /\ window' = [window EXCEPT ![o] = [window[o] EXCEPT !.mapped = FALSE]]
      /\ events' = events \cup IF window[o].mapped THEN Notice(o) ELSE {}
      /\ cache' = cache /\ resync' = resync /\ dims' = dims /\ parent' = parent
      /\ stage' = stage /\ belief' = belief /\ changes' = changes
      /\ closing' = closing /\ thread' = thread /\ told' = told
  BY DEF Withdraw, Arrive
<1>3. window[o] \in OverlayWindow
  BY <1>1 DEF OverlaysTyped
<1>4. [window[o] EXCEPT !.mapped = FALSE] \in OverlayWindow
  BY <1>3 DEF OverlayWindow
<1>5. events' \in {events, events \cup {"Overlay"}}
  BY <1>2 DEF Notice
<1>6. OverlaysTyped'
  BY <1>1, <1>2, <1>4 DEF OverlaysTyped
<1>7. ParentTyped' /\ ThreadTyped'
  BY <1>1, <1>2, <1>5 DEF ParentTyped, ThreadTyped
<1>8. Exists(o) => Stays(o)
  <2> DEFINE w == [window[o] EXCEPT !.mapped = FALSE]
  <2>1. /\ w.mapped = FALSE /\ w.override = window[o].override /\ w.at = window[o].at
        /\ w.above = window[o].above /\ w.watched = window[o].watched /\ w.size = window[o].size
        /\ window[o].mapped \in BOOLEAN
    BY <1>3 DEF OverlayWindow
  <2>2. window'[o] = w
    BY <1>1, <1>2 DEF OverlaysTyped
  <2> HIDE DEF w
  <2>3. window[o].mapped => "Overlay" \in events' \/ ~window[o].watched
    BY <1>2 DEF Notice
  <2> QED
    BY <1>2, <2>1, <2>2, <2>3 DEF Stays, Exists
<1>9. \A p \in Overlays : stage'[p] \in {"live", "unlisted"} => Stays(p)
  <2>1. \A p \in Overlays : p # o => window'[p] = window[p]
    BY <1>1, <1>2 DEF OverlaysTyped
  <2> QED
    BY <1>2, <1>8, <2>1, Untouched DEF Exists
<1>10. Meanwhile
  BY <1>1, <1>2, <1>5, <1>9 DEF Meanwhile, External
<1>11. MappedInv'
  BY <1>1, <1>2, <1>5 DEF MappedInv
<1> QED
  BY <1>1, <1>6, <1>7, <1>10, <1>11, StaysKeep DEF OverlayInv

LEMMA ShutdownKeeps ==
  ASSUME OverlayInv, Shutdown \/ ReadAhead \/ UNCHANGED overlayVars
  PROVE  OverlayInv'
<1>1. /\ ParentTyped /\ OverlaysTyped /\ ThreadTyped
      /\ PassInv /\ SeenParentInv /\ MappedInv /\ BeliefInv /\ AtHandInv /\ PlacedInv /\ AboveInv
  BY DEF OverlayInv
<1>2. /\ closing' \in {TRUE, closing} /\ (closing => closing')
      /\ events' = events /\ dims' = dims /\ parent' = parent
      /\ cache' = cache /\ resync' = resync /\ changes' = changes
      /\ stage' = stage /\ window' = window /\ belief' = belief
      /\ withdraw' = withdraw /\ thread' = thread /\ told' = told
  <2>1. CASE Shutdown
    BY <2>1 DEF Shutdown
  <2>2. CASE ReadAhead
    BY <2>2 DEF ReadAhead, ReadReply, Others
  <2>3. CASE UNCHANGED overlayVars
    BY <2>3 DEF overlayVars
  <2> QED
    BY <2>1, <2>2, <2>3
<1>3. ParentTyped' /\ OverlaysTyped' /\ ThreadTyped'
  BY <1>1, <1>2 DEF ParentTyped, OverlaysTyped, ThreadTyped
<1>4. \A p \in Overlays : stage'[p] \in {"live", "unlisted"} => Stays(p)
  BY <1>2, Untouched DEF Exists
<1>5. Meanwhile
  BY <1>2, <1>4 DEF Meanwhile, External
<1>6. MappedInv'
  BY <1>1, <1>2 DEF MappedInv
<1> QED
  BY <1>1, <1>3, <1>5, <1>6, StaysKeep DEF OverlayInv

(* The steps of the geometry thread.                                        *)
LEMMA PollKeeps ==
  ASSUME OverlayInv, Poll
  PROVE  OverlayInv'
<1> DEFINE up == IF "Map" \in events THEN TRUE ELSE IF "Unmap" \in events THEN FALSE ELSE thread.up
           again == resync \/ events \cap {"External", "Map"} # {}
           next == IF resync \/ events # {} THEN "look" ELSE "poll"
<1>1. /\ ParentTyped /\ OverlaysTyped /\ ThreadTyped
      /\ PassInv /\ SeenParentInv /\ MappedInv /\ BeliefInv /\ AtHandInv /\ PlacedInv /\ AboveInv
  BY DEF OverlayInv
<1>2. /\ thread.pc = "poll" /\ ~closing /\ resync' = FALSE /\ events' = {}
      /\ thread' = [thread EXCEPT !.pc = next, !.up = up, !.reassert = again] /\ told' = up
      /\ cache' = cache /\ window' = window /\ belief' = belief /\ withdraw' = withdraw
      /\ parent' = parent /\ stage' = stage /\ dims' = dims /\ changes' = changes
      /\ closing' = closing
  BY DEF Poll, Others
<1>3. thread \in Geometry /\ up \in BOOLEAN /\ again \in BOOLEAN
  BY <1>1 DEF ThreadTyped, Geometry
<1>4. up = parent.mapped /\ (External => again)
  BY <1>1 DEF MappedInv, External, ParentTyped, Parents
<1>5. /\ next \in {"look", "poll"}
      /\ next = "poll" => ~resync /\ events = {} /\ up = thread.up
  OBVIOUS
<1> HIDE DEF up, again, next
<1>6. /\ thread'.pc = next /\ thread'.up = up /\ thread'.reassert = again
      /\ thread'.it = thread.it /\ thread'.todo = thread.todo /\ thread'.done = thread.done
      /\ thread'.at = thread.at /\ thread'.full = thread.full
      /\ thread' \in Geometry
  BY <1>2, <1>3, <1>5 DEF Geometry
<1>7. thread.it = {} /\ thread.todo = {} /\ thread.done = {}
  BY <1>1, <1>2 DEF PassInv
<1>8. ParentTyped' /\ OverlaysTyped' /\ ThreadTyped'
  BY <1>1, <1>2, <1>3, <1>6 DEF ParentTyped, OverlaysTyped, ThreadTyped
<1>9. PassInv'
  BY <1>5, <1>6, <1>7 DEF PassInv, Past
<1>10. SeenParentInv'
  BY <1>1, <1>2, <1>5, <1>6 DEF SeenParentInv, External, ParentFull
<1>11. MappedInv'
  BY <1>2, <1>4, <1>5, <1>6 DEF MappedInv
<1>12. BeliefInv'
  BY <1>1, <1>2, <1>6 DEF BeliefInv, Live, Past
<1>13. AtHandInv'
  BY <1>6, <1>7 DEF AtHandInv
<1>14. PlacedInv'
  <2>1. CASE next = "look"
    BY <1>6, <2>1 DEF PlacedInv, Passed
  <2>2. CASE next = "poll"
    BY <1>1, <1>2, <1>5, <1>6, <1>7, <2>2 DEF PlacedInv, Passed, InPlace, Settling, Live
  <2> QED
    BY <1>5, <2>1, <2>2
<1>15. AboveInv'
  <2> SUFFICES ASSUME NEW o \in Live, window[o].mapped, ~window[o].above
               PROVE  window[o].override /\ again /\ next = "look"
    BY <1>2, <1>6 DEF AboveInv, Live, ToRaise
  <2>1. window[o].override /\ External
    BY <1>1, <1>2, <1>7 DEF AboveInv, ToRaise
  <2> QED
    BY <1>4, <1>5, <2>1 DEF External
<1> QED
  BY <1>8, <1>9, <1>10, <1>11, <1>12, <1>13, <1>14, <1>15 DEF OverlayInv

LEMMA HideKeeps ==
  ASSUME OverlayInv, HideOverlays
  PROVE  OverlayInv'
<1>1. /\ ParentTyped /\ OverlaysTyped /\ ThreadTyped
      /\ PassInv /\ SeenParentInv /\ MappedInv /\ BeliefInv /\ AtHandInv /\ PlacedInv /\ AboveInv
  BY DEF OverlayInv
<1>2. /\ thread.pc = "poll" /\ closing /\ thread' = [thread EXCEPT !.pc = "ended"]
      /\ window' = [o \in Overlays |-> [window[o] EXCEPT !.mapped = window[o].mapped /\ o \notin Live]]
      /\ told' = FALSE /\ resync' = resync /\ events' = events
      /\ cache' = cache /\ belief' = belief /\ withdraw' = withdraw
      /\ parent' = parent /\ stage' = stage /\ dims' = dims /\ changes' = changes
      /\ closing' = closing
  BY DEF HideOverlays, Others
<1>3. /\ thread'.pc = "ended" /\ thread'.up = thread.up /\ thread'.at = thread.at
      /\ thread'.full = thread.full
      /\ thread'.it = thread.it /\ thread'.todo = thread.todo /\ thread'.done = thread.done
      /\ thread' \in Geometry
  BY <1>1, <1>2 DEF ThreadTyped, Geometry
<1>4. thread.it = {} /\ thread.todo = {} /\ thread.done = {}
  BY <1>1, <1>2 DEF PassInv
<1>5. \A o \in Overlays :
        /\ window'[o] \in OverlayWindow /\ window'[o].override = window[o].override
        /\ window'[o].mapped => window[o].mapped
  <2>1. TAKE o \in Overlays
  <2>2. window[o] \in OverlayWindow
    BY <1>1 DEF OverlaysTyped
  <2>3. window'[o] = [window[o] EXCEPT !.mapped = window[o].mapped /\ o \notin Live]
    BY <1>2
  <2>4. (window[o].mapped /\ o \notin Live) \in BOOLEAN
    OBVIOUS
  <2> QED
    BY <2>2, <2>3, <2>4 DEF OverlayWindow
<1>6. window' \in [Overlays -> OverlayWindow]
  BY <1>2, <1>5
<1>7. ParentTyped' /\ OverlaysTyped' /\ ThreadTyped'
  BY <1>1, <1>2, <1>3, <1>6 DEF ParentTyped, OverlaysTyped, ThreadTyped
<1>8. PassInv'
  BY <1>3, <1>4 DEF PassInv, Past
<1>9. SeenParentInv' /\ MappedInv'
  BY <1>1, <1>2, <1>3 DEF SeenParentInv, MappedInv, External, ParentFull
<1>10. BeliefInv'
  BY <1>1, <1>2, <1>3, <1>5 DEF BeliefInv, Live, Past
<1>11. AtHandInv' /\ PlacedInv' /\ AboveInv'
  BY <1>2, <1>3, <1>4 DEF AtHandInv, PlacedInv, AboveInv
<1> QED
  BY <1>7, <1>8, <1>9, <1>10, <1>11 DEF OverlayInv

LEMMA LooksKeep ==
  ASSUME OverlayInv, LookAtParent \/ LookAtState
  PROVE  OverlayInv'
<1>1. /\ ParentTyped /\ OverlaysTyped /\ ThreadTyped
      /\ PassInv /\ SeenParentInv /\ MappedInv /\ BeliefInv /\ AtHandInv /\ PlacedInv /\ AboveInv
  BY DEF OverlayInv
<1>2. /\ cache' = cache /\ window' = window /\ belief' = belief /\ withdraw' = withdraw
      /\ events' = events /\ resync' = resync /\ told' = told
      /\ parent' = parent /\ stage' = stage /\ dims' = dims /\ changes' = changes
      /\ closing' = closing
  BY DEF LookAtParent, LookAtState, ReadReply, Others
<1>3. /\ parent.at \in Places /\ Covers(parent.full, thread.at) \in BOOLEAN
      /\ thread \in Geometry /\ thread.at \in Places
  BY <1>1 DEF ParentTyped, Parents, ThreadTyped, Geometry, Covers
<1>4. /\ thread.pc \in {"look", "state"} /\ thread'.pc \in {"state", "snapshot"}
      /\ thread'.up = thread.up /\ thread'.reassert = thread.reassert
      /\ thread'.it = thread.it /\ thread'.todo = thread.todo /\ thread'.done = thread.done
      /\ thread' \in Geometry
      /\ thread'.pc = "state" => thread'.at = parent.at
      /\ thread'.pc = "snapshot" => /\ thread.pc = "state" /\ thread'.at = thread.at
                                    /\ thread'.full = Covers(parent.full, thread.at)
  <2>1. CASE LookAtParent
    <3>1. thread.pc = "look" /\ thread' = [thread EXCEPT !.pc = "state", !.at = parent.at]
      BY <2>1 DEF LookAtParent
    <3> QED
      BY <1>3, <3>1 DEF Geometry
  <2>2. CASE LookAtState
    <3> DEFINE full == Covers(parent.full, thread.at)
    <3>1. thread.pc = "state" /\ thread' = [thread EXCEPT !.pc = "snapshot", !.full = full]
      BY <2>2 DEF LookAtState
    <3>2. full \in BOOLEAN
      BY <1>3
    <3> HIDE DEF full
    <3>3. /\ thread'.pc = "snapshot" /\ thread'.at = thread.at /\ thread'.full = full
          /\ thread'.up = thread.up /\ thread'.reassert = thread.reassert
          /\ thread'.it = thread.it /\ thread'.todo = thread.todo /\ thread'.done = thread.done
          /\ thread' \in Geometry
      BY <1>3, <3>1, <3>2 DEF Geometry
    <3> QED
      BY <3>1, <3>3 DEF full
  <2> QED
    BY <2>1, <2>2
<1>5. thread.it = {} /\ thread.todo = {} /\ thread.done = {}
  BY <1>1, <1>4 DEF PassInv
<1>6. ParentTyped' /\ OverlaysTyped' /\ ThreadTyped'
  BY <1>1, <1>2, <1>4 DEF ParentTyped, OverlaysTyped, ThreadTyped
<1>7. PassInv'
  BY <1>4, <1>5 DEF PassInv, Past
<1>8. SeenParentInv'
  BY <1>1, <1>2, <1>4 DEF SeenParentInv, External, ParentFull, Covers
<1>9. MappedInv'
  BY <1>1, <1>2, <1>4 DEF MappedInv
<1>10. BeliefInv'
  BY <1>1, <1>2, <1>4 DEF BeliefInv, Live, Past
<1>11. AtHandInv' /\ PlacedInv'
  BY <1>4, <1>5 DEF AtHandInv, PlacedInv, Passed
<1>12. AboveInv'
  BY <1>1, <1>2, <1>4 DEF AboveInv, Live, ToRaise, External
<1> QED
  BY <1>6, <1>7, <1>8, <1>9, <1>10, <1>11, <1>12 DEF OverlayInv

LEMMA SnapshotKeeps ==
  ASSUME OverlayInv, Snapshot
  PROVE  OverlayInv'
<1> DEFINE next == IF Live = {} THEN "poll" ELSE "overlay"
           place == [at |-> thread.at, size |-> thread.at, full |-> thread.full]
<1>1. /\ ParentTyped /\ OverlaysTyped /\ ThreadTyped
      /\ PassInv /\ SeenParentInv /\ MappedInv /\ BeliefInv /\ AtHandInv /\ PlacedInv /\ AboveInv
  BY DEF OverlayInv
<1>2. /\ thread.pc = "snapshot" /\ cache' = place
      /\ thread' = [thread EXCEPT !.pc = next, !.todo = Live]
      /\ window' = window /\ belief' = belief /\ withdraw' = withdraw
      /\ events' = events /\ resync' = resync /\ told' = told
      /\ parent' = parent /\ stage' = stage /\ dims' = dims /\ changes' = changes
      /\ closing' = closing
  BY DEF Snapshot, Others
<1>3. /\ thread \in Geometry /\ place \in [at : Places, size : Places, full : BOOLEAN]
      /\ Live \subseteq Overlays
  BY <1>1 DEF ThreadTyped, Geometry, Live
<1>4. next \in {"poll", "overlay"} /\ (next = "poll" => Live = {})
  OBVIOUS
<1> HIDE DEF next, place
<1>5. /\ thread'.pc = next /\ thread'.up = thread.up /\ thread'.reassert = thread.reassert
      /\ thread'.at = thread.at /\ thread'.full = thread.full
      /\ thread'.it = thread.it /\ thread'.todo = Live /\ thread'.done = thread.done
      /\ thread' \in Geometry
  BY <1>2, <1>3, <1>4 DEF Geometry
<1>6. thread.it = {} /\ thread.todo = {} /\ thread.done = {}
  BY <1>1, <1>2 DEF PassInv
<1>7. ParentTyped' /\ OverlaysTyped' /\ ThreadTyped'
  BY <1>1, <1>2, <1>3, <1>5 DEF ParentTyped, OverlaysTyped, ThreadTyped
<1>8. PassInv'
  BY <1>2, <1>4, <1>5, <1>6 DEF PassInv, Past, Live
<1>9. SeenParentInv' /\ MappedInv'
  BY <1>1, <1>2, <1>4, <1>5 DEF SeenParentInv, MappedInv, External, ParentFull
<1>10. BeliefInv'
  BY <1>1, <1>2, <1>5 DEF BeliefInv, Live, Past
<1>11. AtHandInv'
  BY <1>5, <1>6 DEF AtHandInv
<1>12. PlacedInv' /\ AboveInv'
  BY <1>1, <1>2, <1>5 DEF PlacedInv, AboveInv, Passed, ToRaise, Live, External
<1> QED
  BY <1>7, <1>8, <1>9, <1>10, <1>11, <1>12 DEF OverlayInv

LEMMA LookAtOverlayKeeps ==
  ASSUME OverlayInv, NEW o \in Overlays, LookAtOverlay(o)
  PROVE  OverlayInv'
<1>1. /\ ParentTyped /\ OverlaysTyped /\ ThreadTyped
      /\ PassInv /\ SeenParentInv /\ MappedInv /\ BeliefInv /\ AtHandInv /\ PlacedInv /\ AboveInv
  BY DEF OverlayInv
<1>2. /\ thread.pc = "overlay" /\ o \in thread.todo
      /\ thread' = [thread EXCEPT !.pc = "watch", !.it = {o}, !.todo = thread.todo \ {o},
                                  !.seen = Found(o)]
      /\ cache' = cache /\ window' = window /\ belief' = belief /\ withdraw' = withdraw
      /\ events' = events /\ resync' = resync /\ told' = told
      /\ parent' = parent /\ stage' = stage /\ dims' = dims /\ changes' = changes
      /\ closing' = closing
  BY DEF LookAtOverlay, ReadReply, Others
<1>3. thread \in Geometry /\ thread.todo \subseteq Overlays
  BY <1>1 DEF ThreadTyped, Geometry
<1>4. Found(o) \in Findings /\ Found(o).at = window[o].at /\ Found(o).size = window[o].size
  BY <1>1 DEF OverlaysTyped, OverlayWindow, Found, Findings
<1>5. /\ thread'.pc = "watch" /\ thread'.up = thread.up /\ thread'.reassert = thread.reassert
      /\ thread'.at = thread.at /\ thread'.full = thread.full
      /\ thread'.it = {o} /\ thread'.todo = thread.todo \ {o} /\ thread'.done = thread.done
      /\ thread'.seen = Found(o)
  BY <1>2, <1>3 DEF Geometry
<1>6. thread' \in Geometry
  BY <1>2, <1>3, <1>4 DEF Geometry
<1>7. thread.it = {}
  BY <1>1, <1>2 DEF PassInv
<1>8. ParentTyped' /\ OverlaysTyped' /\ ThreadTyped'
  BY <1>1, <1>2, <1>6 DEF ParentTyped, OverlaysTyped, ThreadTyped
<1>9. PassInv'
  BY <1>1, <1>2, <1>5 DEF PassInv, Past
<1>10. SeenParentInv' /\ MappedInv'
  BY <1>1, <1>2, <1>5 DEF SeenParentInv, MappedInv, External, ParentFull
<1>11. BeliefInv'
  BY <1>1, <1>2, <1>5 DEF BeliefInv, Live, Past
<1>12. AtHandInv'
  BY <1>2, <1>4, <1>5 DEF AtHandInv, Exists
<1>13. thread'.todo \cup thread'.it = thread.todo \cup thread.it
  BY <1>2, <1>5, <1>7
<1>14. PlacedInv'
  BY <1>1, <1>2, <1>5, <1>13 DEF PlacedInv, Passed, InPlace, Settling, Live
<1>15. AboveInv'
  BY <1>1, <1>2, <1>5, <1>13 DEF AboveInv, ToRaise, Live, External
<1> QED
  BY <1>8, <1>9, <1>10, <1>11, <1>12, <1>14, <1>15 DEF OverlayInv

LEMMA WatchKeeps ==
  ASSUME OverlayInv, NEW o \in Overlays, Watch(o)
  PROVE  OverlayInv'
<1> DEFINE w == [window[o] EXCEPT !.watched = Exists(o)]
           found == [thread.seen EXCEPT !.mapped = window[o].mapped]
<1>1. /\ ParentTyped /\ OverlaysTyped /\ ThreadTyped
      /\ PassInv /\ SeenParentInv /\ MappedInv /\ BeliefInv /\ AtHandInv /\ PlacedInv /\ AboveInv
  BY DEF OverlayInv
<1>2. /\ thread.pc = "watch" /\ thread.it = {o}
      /\ thread' = [thread EXCEPT !.pc = "apply", !.seen = found] /\ window' = [window EXCEPT ![o] = w]
      /\ cache' = cache /\ belief' = belief /\ withdraw' = withdraw
      /\ events' = events /\ resync' = resync /\ told' = told
      /\ parent' = parent /\ stage' = stage /\ dims' = dims /\ changes' = changes
      /\ closing' = closing
  BY DEF Watch, ReadReply, Others
<1>3. window[o] \in OverlayWindow /\ Exists(o) \in BOOLEAN
  BY <1>1 DEF OverlaysTyped, Exists
<1>4. /\ w \in OverlayWindow /\ w.mapped = window[o].mapped /\ w.override = window[o].override
      /\ w.at = window[o].at /\ w.size = window[o].size /\ w.above = window[o].above
      /\ w.watched = Exists(o)
  BY <1>3 DEF OverlayWindow
<1>5. /\ found \in Findings /\ found.at = thread.seen.at /\ found.size = thread.seen.size
       /\ found.mapped = window[o].mapped
  BY <1>1, <1>3 DEF ThreadTyped, Geometry, Findings, OverlayWindow
<1> HIDE DEF w, found
<1>6. window'[o] = w /\ \A p \in Overlays : p # o => window'[p] = window[p]
  BY <1>1, <1>2 DEF OverlaysTyped
<1>7. /\ thread'.pc = "apply" /\ thread'.up = thread.up /\ thread'.reassert = thread.reassert
      /\ thread'.at = thread.at /\ thread'.full = thread.full /\ thread'.seen = found
      /\ thread'.it = {o} /\ thread'.todo = thread.todo /\ thread'.done = thread.done
      /\ thread' \in Geometry
  BY <1>1, <1>2, <1>5 DEF ThreadTyped, Geometry
<1>8. ParentTyped' /\ OverlaysTyped' /\ ThreadTyped'
  BY <1>1, <1>2, <1>4, <1>7 DEF ParentTyped, OverlaysTyped, ThreadTyped
<1>9. PassInv'
  BY <1>1, <1>2, <1>7 DEF PassInv, Past
<1>10. SeenParentInv' /\ MappedInv'
  BY <1>1, <1>2, <1>7 DEF SeenParentInv, MappedInv, External, ParentFull
<1>11. \A p \in Overlays :
         /\ window'[p].mapped = window[p].mapped /\ window'[p].override = window[p].override
         /\ window'[p].at = window[p].at /\ window'[p].size = window[p].size
         /\ window'[p].above = window[p].above
  BY <1>4, <1>6
<1>12. BeliefInv'
  BY <1>1, <1>2, <1>7, <1>11 DEF BeliefInv, Live, Past
<1>13. AtHandInv'
  <2> SUFFICES ASSUME NEW p \in Overlays, {p} = {o}, Exists(p)
               PROVE  /\ found.at = window'[p].at \/ "Overlay" \in events
                      /\ stage[p] = "live" => found.size = window'[p].size \/ Settling(p)'
                      /\ window'[p].watched /\ found.mapped = window'[p].mapped
    BY <1>2, <1>7 DEF AtHandInv, Exists
  <2>1. p = o
    OBVIOUS
  <2>2. Settling(o) => Settling(o)'
    BY <1>2, <1>4, <1>6 DEF Settling
  <2> QED
    BY <1>1, <1>2, <1>4, <1>5, <1>6, <2>1, <2>2 DEF AtHandInv
<1>14. PlacedInv'
  <2> SUFFICES ASSUME ~closing, NEW p \in Live, Passed(p)'
               PROVE  resync \/ InPlace(p)'
    BY <1>2 DEF PlacedInv, Live
  <2>1. Passed(p) /\ p # o /\ p \in Overlays
    BY <1>2, <1>7 DEF Passed, Live
  <2> QED
    BY <1>1, <1>2, <1>6, <1>7, <2>1 DEF PlacedInv, InPlace, Settling
<1>15. AboveInv'
  BY <1>1, <1>2, <1>7, <1>11 DEF AboveInv, ToRaise, Live, External
<1> QED
  BY <1>8, <1>9, <1>10, <1>12, <1>13, <1>14, <1>15 DEF OverlayInv

LEMMA OverlayStoreKeeps ==
  ASSUME OverlayInv, Store
  PROVE  OverlayInv'
<1> DEFINE kept(o) == (CHOOSE s \in thread.done : s[1] = o)[2]
           now(o) == IF o \in Live /\ Past(o) THEN kept(o) ELSE belief[o]
<1>1. /\ ParentTyped /\ OverlaysTyped /\ ThreadTyped
      /\ PassInv /\ SeenParentInv /\ MappedInv /\ BeliefInv /\ AtHandInv /\ PlacedInv /\ AboveInv
  BY DEF OverlayInv
<1>2. /\ thread.pc = "store" /\ thread' = [thread EXCEPT !.pc = "poll", !.done = {}]
      /\ belief' = [o \in Overlays |-> now(o)]
      /\ cache' = cache /\ window' = window /\ withdraw' = withdraw
      /\ events' = events /\ resync' = resync /\ told' = told
      /\ parent' = parent /\ stage' = stage /\ dims' = dims /\ changes' = changes
      /\ closing' = closing
  BY DEF Store, Others, Past
<1>3. \A o \in Live : Past(o) =>
        /\ kept(o) \in Belief /\ kept(o).unmanaged = window[o].override
        /\ window[o].mapped => kept(o).mapped
  <2>1. TAKE o \in Live
  <2>2. HAVE Past(o)
  <2>3. PICK s \in thread.done : s = (CHOOSE t \in thread.done : t[1] = o) /\ s[1] = o
    BY <2>2 DEF Past
  <2>4. s \in Overlays \X Belief
    BY <1>1 DEF ThreadTyped, Geometry
  <2>5. kept(o) = s[2]
    BY <2>3
  <2> HIDE DEF kept
  <2> QED
    BY <1>1, <2>3, <2>4, <2>5 DEF BeliefInv
<1>4. \A o \in Overlays : now(o) \in Belief
  BY <1>1, <1>3 DEF OverlaysTyped
<1>5. \A o \in Live : now(o).unmanaged = window[o].override /\ (window[o].mapped => now(o).mapped)
  BY <1>1, <1>3 DEF BeliefInv
<1> HIDE DEF now
<1>6. /\ thread'.pc = "poll" /\ thread'.up = thread.up /\ thread'.reassert = thread.reassert
      /\ thread'.at = thread.at /\ thread'.full = thread.full
      /\ thread'.it = thread.it /\ thread'.todo = thread.todo /\ thread'.done = {}
      /\ thread' \in Geometry
  BY <1>1, <1>2 DEF ThreadTyped, Geometry
<1>7. thread.it = {} /\ thread.todo = {}
  BY <1>1, <1>2 DEF PassInv
<1>8. belief' \in [Overlays -> Belief]
  BY <1>2, <1>4
<1>9. ParentTyped' /\ OverlaysTyped' /\ ThreadTyped'
  BY <1>1, <1>2, <1>6, <1>8 DEF ParentTyped, OverlaysTyped, ThreadTyped
<1>10. PassInv'
  BY <1>6, <1>7 DEF PassInv, Past
<1>11. SeenParentInv' /\ MappedInv'
  BY <1>1, <1>2, <1>6 DEF SeenParentInv, MappedInv, External, ParentFull
<1>12. BeliefInv'
  BY <1>2, <1>5, <1>6 DEF BeliefInv, Live
<1>13. AtHandInv'
  BY <1>6, <1>7 DEF AtHandInv
<1>14. PlacedInv'
  BY <1>1, <1>2, <1>6, <1>7 DEF PlacedInv, Passed, InPlace, Settling, Live
<1>15. AboveInv'
  BY <1>1, <1>2, <1>6, <1>7 DEF AboveInv, ToRaise, Live, External
<1> QED
  BY <1>9, <1>10, <1>11, <1>12, <1>13, <1>14, <1>15 DEF OverlayInv

(* What the effects do to a window of which the thread believed the truth:  *)
(* it is managed and mapped as wanted, unless it was unmapped since; of the *)
(* size and in the place wanted, unless it was found so; and raised if it   *)
(* is mapped anew.                                                          *)
AppliedTo(w, b, full, up, at, had, reassert) ==
  Applied(w, Effects(b, full, up, at, had), Stepped(full, up), at, reassert)

AppliedWell(w, b, full, up, at, had, reassert, a) ==
  /\ a \in OverlayWindow /\ a.watched = w.watched
  /\ b.unmanaged = w.override /\ (w.mapped => b.mapped /\ had.mapped) =>
       /\ a.override = full /\ (a.mapped => up) /\ (had.mapped = w.mapped => a.mapped = up)
       /\ up => a.size = at \/ (a.size = w.size /\ had.size = at)
       /\ up => a.at = at \/ (a.at = w.at /\ had.at = at)
       /\ a.mapped /\ ~a.above =>
            w.mapped /\ ~w.above /\ w.override = full /\ ~(reassert /\ full)

LEMMA AppliedIs ==
  ASSUME NEW w \in OverlayWindow, NEW b \in Belief, NEW full \in BOOLEAN, NEW up \in BOOLEAN,
         NEW at \in Places, NEW had \in Findings, NEW reassert \in BOOLEAN
  PROVE  AppliedWell(w, b, full, up, at, had, reassert,
                     AppliedTo(w, b, full, up, at, had, reassert))
<1> DEFINE e == Effects(b, full, up, at, had)
           state == Stepped(full, up)
           a == Applied(w, e, state, at, reassert)
           same == b.unmanaged = full
           now == b.mapped /\ had.mapped /\ same
<1>1. /\ w.mapped \in BOOLEAN /\ w.override \in BOOLEAN /\ w.at \in Places /\ w.size \in Places
      /\ w.above \in BOOLEAN /\ w.watched \in BOOLEAN /\ had.mapped \in BOOLEAN
      /\ b.mapped \in BOOLEAN /\ b.unmanaged \in BOOLEAN
  BY DEF OverlayWindow, Belief, Findings
<1>2. /\ e.flip = ~same /\ e.unmap = (~up /\ now) /\ e.map = (up /\ ~now)
      /\ e.poke = (up /\ (e.map \/ had.at # at)) /\ e.resize = (up /\ had.size # at)
  BY DEF Effects, Corrected
<1>3. state.mapped = up /\ state.unmanaged = full
  BY DEF Stepped
<1> DEFINE override == IF e.flip THEN ~w.override ELSE w.override
           mapped == IF e.map THEN TRUE ELSE IF e.flip \/ e.unmap THEN FALSE ELSE w.mapped
           above == w.above \/ e.map \/ (reassert /\ state.unmanaged /\ state.mapped)
           place == IF e.poke THEN at ELSE w.at
           size == IF e.resize THEN at ELSE w.size
<1>4. a = [w EXCEPT !.override = override, !.mapped = mapped, !.above = above, !.at = place,
                    !.size = size]
  BY DEF Applied
<1>5. override \in BOOLEAN /\ mapped \in BOOLEAN /\ above \in BOOLEAN /\ place \in Places /\ size \in Places
  BY <1>1
<1> HIDE DEF a, override, mapped, above, place, size
<1>6. /\ a.override = override /\ a.mapped = mapped /\ a.above = above /\ a.at = place
      /\ a.size = size /\ a.watched = w.watched /\ a \in OverlayWindow
  BY <1>4, <1>5 DEF OverlayWindow
<1> HIDE DEF e, state
<1>7. /\ override = (IF same THEN w.override ELSE ~w.override)
      /\ mapped = (IF up /\ ~now THEN TRUE ELSE IF ~same \/ (~up /\ now) THEN FALSE ELSE w.mapped)
      /\ above <=> w.above \/ (up /\ ~now) \/ (reassert /\ full /\ up)
      /\ place = (IF up /\ ((up /\ ~now) \/ had.at # at) THEN at ELSE w.at)
      /\ size = (IF up /\ had.size # at THEN at ELSE w.size)
  BY <1>2, <1>3 DEF override, mapped, above, place, size
<1> HIDE DEF same, now
<1>8. ASSUME b.unmanaged = w.override, w.mapped => b.mapped /\ had.mapped
      PROVE  /\ override = full /\ (mapped => up) /\ (had.mapped = w.mapped => mapped = up)
             /\ up => size = at \/ (size = w.size /\ had.size = at)
             /\ up => place = at \/ (place = w.at /\ had.at = at)
             /\ mapped /\ ~above => w.mapped /\ ~w.above /\ w.override = full /\ ~(reassert /\ full)
  BY <1>1, <1>7, <1>8 DEF same, now
<1> QED
  BY <1>6, <1>8 DEF a, e, state, AppliedTo, AppliedWell

LEMMA ApplyEffectsKeeps ==
  ASSUME OverlayInv, NEW o \in Overlays, ApplyEffects(o)
  PROVE  OverlayInv'
<1> DEFINE e == Effects(belief[o], thread.full, thread.up, thread.at, thread.seen)
           state == Stepped(thread.full, thread.up)
           after == Applied(window[o], e, state, thread.at, thread.reassert)
           next == IF thread.todo = {} THEN "store" ELSE "overlay"
           done == thread.done \cup {<<o, state>>}
<1>1. /\ ParentTyped /\ OverlaysTyped /\ ThreadTyped
      /\ PassInv /\ SeenParentInv /\ MappedInv /\ BeliefInv /\ AtHandInv /\ PlacedInv /\ AboveInv
  BY DEF OverlayInv
<1>2. /\ thread.pc = "apply" /\ thread.it = {o}
      /\ thread' = [thread EXCEPT !.pc = next, !.it = {}, !.seen = Unseen, !.done = done]
      /\ window' = IF Exists(o) THEN [window EXCEPT ![o] = after] ELSE window
      /\ cache' = cache /\ belief' = belief /\ resync' = resync /\ told' = told
      /\ parent' = parent /\ stage' = stage /\ dims' = dims /\ changes' = changes
      /\ closing' = closing
  BY DEF ApplyEffects, Others
<1>3. withdraw' \subseteq withdraw \cup {o} /\ events' \in {events, events \cup {"Overlay"}}
  BY DEF ApplyEffects, Notice
<1>4. /\ window[o] \in OverlayWindow /\ belief[o] \in Belief /\ thread \in Geometry
      /\ thread.full \in BOOLEAN /\ thread.up \in BOOLEAN /\ thread.at \in Places
      /\ thread.seen \in Findings /\ Unseen \in Findings /\ thread.reassert \in BOOLEAN
      /\ thread.done \subseteq Overlays \X Belief
  BY <1>1 DEF OverlaysTyped, ThreadTyped, Geometry, Unseen, Findings, Places
<1>5. /\ after \in OverlayWindow /\ after.watched = window[o].watched
      /\ /\ belief[o].unmanaged = window[o].override
         /\ window[o].mapped => belief[o].mapped /\ thread.seen.mapped
         =>
           /\ after.override = thread.full /\ (after.mapped => thread.up)
           /\ thread.seen.mapped = window[o].mapped => after.mapped = thread.up
           /\ thread.up => \/ after.size = thread.at
                           \/ after.size = window[o].size /\ thread.seen.size = thread.at
           /\ thread.up => \/ after.at = thread.at
                           \/ after.at = window[o].at /\ thread.seen.at = thread.at
           /\ after.mapped /\ ~after.above =>
                /\ window[o].mapped /\ ~window[o].above /\ window[o].override = thread.full
                /\ ~(thread.reassert /\ thread.full)
  <2> DEFINE applied == AppliedTo(window[o], belief[o], thread.full, thread.up, thread.at, thread.seen,
                                  thread.reassert)
  <2>1. applied = after
    BY DEF AppliedTo
  <2> HIDE DEF after
  <2>2. AppliedWell(window[o], belief[o], thread.full, thread.up, thread.at, thread.seen,
                    thread.reassert, applied)
    BY <1>4, AppliedIs
  <2> HIDE DEF applied
  <2> QED
    BY <2>1, <2>2 DEF AppliedWell
<1>6. state \in Belief /\ state.unmanaged = thread.full /\ state.mapped = thread.up
  BY <1>4 DEF Stepped, Belief
<1> HIDE DEF e, state, after
<1>7. next \in {"store", "overlay"} /\ (next = "store" => thread.todo = {})
  OBVIOUS
<1>8. done \subseteq Overlays \X Belief
  BY <1>4, <1>6
<1>9. \A s \in done : s \in thread.done \/ (s[1] = o /\ s[2] = state)
  OBVIOUS
<1>10. (\E s \in done : s[1] = o) /\ thread.done \subseteq done
  <2>1. <<o, state>> \in done /\ <<o, state>>[1] = o
    OBVIOUS
  <2> QED
    BY <2>1
<1> HIDE DEF next, done
<1>11. /\ thread'.pc = next /\ thread'.up = thread.up /\ thread'.reassert = thread.reassert
       /\ thread'.at = thread.at /\ thread'.full = thread.full
       /\ thread'.it = {} /\ thread'.todo = thread.todo /\ thread'.done = done
       /\ thread' \in Geometry
  BY <1>2, <1>4, <1>7, <1>8 DEF Geometry
<1>12. /\ \A p \in Overlays : p # o => window'[p] = window[p]
       /\ window'[o] = IF Exists(o) THEN after ELSE window[o]
       /\ window' \in [Overlays -> OverlayWindow]
  BY <1>1, <1>2, <1>5 DEF OverlaysTyped
<1>13. ParentTyped' /\ OverlaysTyped' /\ ThreadTyped'
  BY <1>1, <1>2, <1>3, <1>11, <1>12 DEF ParentTyped, OverlaysTyped, ThreadTyped
<1>14. \A p \in Overlays : Past(p)' <=> Past(p) \/ p = o
  BY <1>9, <1>10, <1>11 DEF Past
<1>15. o \notin thread.todo /\ stage[o] # "new" /\ ~Past(o)
  BY <1>1, <1>2 DEF PassInv
<1>16. PassInv'
  BY <1>1, <1>2, <1>7, <1>11, <1>14, <1>15 DEF PassInv
<1>17. SeenParentInv'
  BY <1>1, <1>2, <1>3, <1>11 DEF SeenParentInv, External, ParentFull
<1>18. MappedInv'
  BY <1>1, <1>2, <1>3, <1>7, <1>11 DEF MappedInv
<1>19. o \in Live => /\ Exists(o) /\ window'[o] = after
                     /\ belief[o].unmanaged = window[o].override
                     /\ window[o].mapped => belief[o].mapped /\ thread.seen.mapped
  BY <1>1, <1>12, <1>15, <1>2 DEF Live, Exists, BeliefInv, AtHandInv
<1>20. BeliefInv'
  <2> SUFFICES ASSUME NEW p \in Live
               PROVE  /\ ~Past(p)' => /\ belief[p].unmanaged = window'[p].override
                                      /\ window'[p].mapped => belief[p].mapped
                      /\ \A s \in done : s[1] = p =>
                           s[2].unmanaged = window'[p].override /\ (window'[p].mapped => s[2].mapped)
    BY <1>2, <1>11 DEF BeliefInv, Live
  <2>1. CASE p = o
    <3>1. \A s \in done : s[1] = o => s[2] = state
      BY <1>9, <1>15 DEF Past
    <3> QED
      BY <1>5, <1>6, <1>14, <1>19, <2>1, <3>1
  <2>2. CASE p # o
    <3>1. p \in Overlays /\ window'[p] = window[p] /\ (Past(p)' <=> Past(p))
      BY <1>12, <1>14, <2>2 DEF Live
    <3>2. \A s \in done : s[1] = p => s \in thread.done
      BY <1>9, <2>2
    <3> QED
      BY <1>1, <3>1, <3>2 DEF BeliefInv
  <2> QED
    BY <2>1, <2>2
<1>21. AtHandInv'
  BY <1>11 DEF AtHandInv
<1>22. PlacedInv'
  <2> SUFFICES ASSUME ~closing, NEW p \in Live, Passed(p)'
               PROVE  resync \/ InPlace(p)'
    BY <1>2 DEF PlacedInv, Live
  <2>1. p \in Overlays /\ p \notin thread.todo
    BY <1>11 DEF Passed, Live
  <2>2. CASE p = o
    <3>1. /\ window[o].watched /\ stage[o] = "live"
          /\ \/ thread.seen.at = window[o].at /\ thread.seen.mapped = window[o].mapped
             \/ "Overlay" \in events
          /\ thread.seen.size = window[o].size \/ Settling(o)
      BY <1>1, <1>2, <1>19, <2>2 DEF AtHandInv, Live
    <3>2. /\ after.watched /\ after.override = thread.full /\ window'[o] = after
          /\ \/ "Overlay" \in events
             \/ after.mapped = thread.up /\ (thread.up => after.at = thread.at)
      BY <1>5, <1>19, <2>2, <3>1
    <3>3. thread.up => after.size = thread.at \/ Settling(o)'
      BY <1>2, <1>5, <1>19, <2>2, <3>1 DEF Settling
    <3> QED
      BY <1>3, <1>11, <2>2, <3>2, <3>3 DEF InPlace
  <2>3. CASE p # o
    <3>1. Passed(p)
      BY <1>2, <2>1, <2>3 DEF Passed
    <3>2. window'[p] = window[p]
      BY <1>12, <2>1, <2>3
    <3> QED
      BY <1>1, <1>2, <1>3, <1>11, <3>1, <3>2 DEF PlacedInv, InPlace, Settling
  <2> QED
    BY <2>2, <2>3
<1>23. AboveInv'
  <2> SUFFICES ASSUME ~closing, NEW p \in Live, window'[p].mapped, ~window'[p].above
               PROVE  window'[p].override /\ (External' \/ (thread.reassert /\ ToRaise(p)'))
    BY <1>2, <1>11 DEF AboveInv, Live
  <2>1. External => External'
    BY <1>3 DEF External
  <2>2. CASE p = o
    <3>1. /\ window[o].mapped /\ ~window[o].above /\ window[o].override = thread.full
          /\ ~(thread.reassert /\ thread.full) /\ window'[o].override = thread.full
      BY <1>5, <1>19, <2>2
    <3>2. window[o].override /\ (External \/ thread.reassert)
      BY <1>1, <2>2, <3>1 DEF AboveInv
    <3> QED
      BY <2>1, <2>2, <3>1, <3>2
  <2>3. CASE p # o
    <3>1. p \in Overlays /\ window'[p] = window[p]
      BY <1>12, <2>3 DEF Live
    <3>2. ToRaise(p) => ToRaise(p)'
      BY <1>2, <1>11, <2>3 DEF ToRaise
    <3> QED
      BY <1>1, <2>1, <3>1, <3>2 DEF AboveInv
  <2> QED
    BY <2>2, <2>3
<1> QED
  BY <1>13, <1>16, <1>17, <1>18, <1>20, <1>21, <1>22, <1>23 DEF OverlayInv

LEMMA OverlaysStart == OverlaysInit => OverlayInv /\ SidesInv
<1> SUFFICES ASSUME OverlaysInit PROVE OverlayInv /\ SidesInv
  OBVIOUS
<1>1. PICK full \in BOOLEAN, at \in Places : parent = [mapped |-> TRUE, at |-> at, full |-> full]
  BY DEF OverlaysInit
<1>2. /\ cache = [at |-> parent.at, size |-> parent.at, full |-> FALSE]
      /\ stage = [o \in Overlays |-> "new"] /\ window = [o \in Overlays |-> NoWindow]
      /\ belief = [o \in Overlays |-> [mapped |-> TRUE, unmanaged |-> FALSE]]
      /\ withdraw = {} /\ events = {} /\ resync = FALSE /\ closing = FALSE
      /\ dims = [o \in Overlays |-> <<>>] /\ told = TRUE /\ changes = 0
      /\ thread = [pc |-> "look", up |-> TRUE, reassert |-> TRUE, at |-> Screen, full |-> FALSE,
                   todo |-> {}, it |-> {}, seen |-> Unseen, done |-> {}]
      /\ readable = FALSE
  BY DEF OverlaysInit
<1>3. /\ NoWindow \in OverlayWindow /\ <<>> \in Resizes /\ Screen \in Places
      /\ Unseen \in Findings
  BY DEF NoWindow, OverlayWindow, Resizes, Places, Unseen, Findings
<1>4. parent \in Parents /\ parent.mapped = TRUE /\ parent.at \in Places
  BY <1>1 DEF Parents
<1>5. thread \in Geometry
  BY <1>2, <1>3 DEF Geometry
<1>6. ParentTyped /\ OverlaysTyped /\ ThreadTyped
  <2>1. [mapped |-> TRUE, unmanaged |-> FALSE] \in Belief
    BY DEF Belief
  <2>2. OverlaysTyped
    BY <1>2, <1>3, <2>1 DEF OverlaysTyped
  <2>3. ParentTyped
    BY <1>2, <1>4 DEF ParentTyped
  <2>4. changes \in 0..MaxChanges
    BY <1>2, OverlayAssumption
  <2>5. events = {} /\ resync = FALSE /\ closing = FALSE /\ told = TRUE
    BY <1>2
  <2>6. ThreadTyped
    BY <1>5, <2>4, <2>5 DEF ThreadTyped
  <2> QED
    BY <2>2, <2>3, <2>6
<1>7. Live = {} /\ thread.pc = "look" /\ thread.it = {} /\ thread.todo = {} /\ thread.done = {}
      /\ thread.up = TRUE
  BY <1>2 DEF Live
<1>8. PassInv /\ SeenParentInv /\ MappedInv
  BY <1>2, <1>4, <1>7 DEF PassInv, SeenParentInv, MappedInv, Past
<1>9. BeliefInv /\ AtHandInv /\ PlacedInv /\ AboveInv
  BY <1>7 DEF BeliefInv, AtHandInv, PlacedInv, AboveInv
<1>10. SidesInv
  BY <1>2 DEF SidesInv
<1> QED
  BY <1>6, <1>8, <1>9, <1>10 DEF OverlayInv

(* Sizes are dealt to the layers there are, and forgotten with them.        *)
LEMMA SidesStay ==
  ASSUME OverlayInv, SidesInv, [OverlaysNext]_overlayVars
  PROVE  SidesInv'
<1>1. /\ OverlaysTyped /\ ParentTyped /\ readable \in BOOLEAN
      /\ \A o \in Overlays : dims[o] # <<>> =>
           stage[o] = "live" /\ dims[o][Len(dims[o])] = parent.at
  BY DEF OverlayInv, SidesInv
<1>2. \A o \in Overlays : dims[o] \in Seq(Places)
  BY <1>1 DEF OverlaysTyped, Resizes
<1>3. readable' \in BOOLEAN
  <2>1. CASE CefCalls
    BY <1>1, <2>1 DEF CefCalls, Alloc, Unlist, Destroy, ResizeOverlay, Restack, Arrive
  <2>2. CASE Outsiders
    BY <1>1, <2>2 DEF Outsiders, ParentMoves, ParentState, ParentMapped, ParentRaised,
       FullscreenCallback, Clamp, Withdraw, Shutdown, Arrive
  <2>3. CASE GeometryThread
    <3>1. ASSUME NEW o \in Overlays, ApplyEffects(o)
          PROVE  readable' \in BOOLEAN
      BY <1>1, <3>1 DEF ApplyEffects
    <3> QED
      BY <1>1, <2>3, <3>1 DEF GeometryThread, Poll, HideOverlays, LookAtParent, LookAtState, Snapshot,
         Store, LookAtOverlay, Watch, ReadAhead, ReadReply
  <2>4. CASE UNCHANGED overlayVars
    BY <1>1, <2>4 DEF overlayVars
  <2> QED
    BY <2>1, <2>2, <2>3, <2>4 DEF OverlaysNext
<1>4. ASSUME dims' = dims, parent'.at = parent.at,
             \A o \in Overlays : stage[o] = "live" => stage'[o] = "live"
      PROVE  SidesInv'
  BY <1>1, <1>3, <1>4 DEF SidesInv
<1>5. CASE \E o \in Overlays : Alloc(o) \/ Destroy(o)
  <2>1. /\ dims' = dims /\ parent' = parent
    BY <1>5 DEF Alloc, Destroy, Outside
  <2>2. \A o \in Overlays : stage[o] = "live" => stage'[o] = "live"
    BY <1>1, <1>5 DEF Alloc, Destroy, OverlaysTyped
  <2> QED
    BY <1>4, <2>1, <2>2
<1>6. ASSUME NEW o \in Overlays, Unlist(o)
      PROVE  SidesInv'
  <2>1. /\ stage' = [stage EXCEPT ![o] = "unlisted"] /\ dims' = [dims EXCEPT ![o] = <<>>]
        /\ parent' = parent
    BY <1>6 DEF Unlist, Outside
  <2> SUFFICES ASSUME NEW p \in Overlays, dims'[p] # <<>>
               PROVE  stage'[p] = "live" /\ dims'[p][Len(dims'[p])] = parent'.at
    BY <1>3 DEF SidesInv
  <2>2. p # o /\ dims'[p] = dims[p] /\ stage'[p] = stage[p]
    BY <1>1, <2>1 DEF OverlaysTyped
  <2> QED
    BY <1>1, <2>1, <2>2
<1>7. ASSUME NEW o \in Overlays, ResizeOverlay(o)
      PROVE  SidesInv'
  <2>1. /\ stage' = stage /\ dims[o] # <<>> /\ dims' = [dims EXCEPT ![o] = Tail(dims[o])]
        /\ parent' = parent
    BY <1>7 DEF ResizeOverlay, Outside
  <2> SUFFICES ASSUME NEW p \in Overlays, dims'[p] # <<>>
               PROVE  stage'[p] = "live" /\ dims'[p][Len(dims'[p])] = parent'.at
    BY <1>3 DEF SidesInv
  <2>2. CASE p = o
    <3>1. dims'[o] = Tail(dims[o])
      BY <1>1, <2>1 DEF OverlaysTyped
    <3>2. Tail(dims[o])[Len(Tail(dims[o]))] = dims[o][Len(dims[o])]
      <4>1. dims[o] \in Seq(Places) /\ dims[o] # <<>> /\ Tail(dims[o]) # <<>>
        BY <1>2, <2>1, <2>2, <3>1
      <4> QED
        BY <4>1
    <3> QED
      BY <1>1, <2>1, <2>2, <3>1, <3>2
  <2>3. CASE p # o
    <3>1. dims'[p] = dims[p]
      BY <1>1, <2>1, <2>3 DEF OverlaysTyped
    <3> QED
      BY <1>1, <2>1, <3>1
  <2> QED
    BY <2>2, <2>3
<1>8. ASSUME NEW at \in Places, ParentMoves(at)
      PROVE  SidesInv'
  <2>1. /\ dims' = [o \in Overlays |-> IF o \in Live THEN Append(dims[o], at) ELSE <<>>]
        /\ stage' = stage /\ parent'.at = at
    BY <1>1, <1>8 DEF ParentMoves, ParentTyped, Parents
  <2> SUFFICES ASSUME NEW p \in Overlays, dims'[p] # <<>>
               PROVE  stage'[p] = "live" /\ dims'[p][Len(dims'[p])] = parent'.at
    BY <1>3 DEF SidesInv
  <2>2. p \in Live /\ dims'[p] = Append(dims[p], at)
    BY <2>1
  <2>3. Append(dims[p], at)[Len(Append(dims[p], at))] = at
    BY <1>2
  <2> QED
    BY <2>1, <2>2, <2>3 DEF Live
<1>9. CASE \/ Restack \/ ParentState \/ ParentMapped \/ ParentRaised \/ Shutdown
           \/ \E full \in BOOLEAN : FullscreenCallback(full)
           \/ \E o \in Overlays : Withdraw(o) \/ \E at \in Places : Clamp(o, at)
  <2>1. dims' = dims /\ stage' = stage /\ parent'.at = parent.at
    BY <1>1, <1>9 DEF Restack, ParentState, ParentMapped, ParentRaised, Shutdown,
       FullscreenCallback, Withdraw, Clamp, Outside, ParentTyped, Parents
  <2> QED
    BY <1>4, <2>1
<1>10. CASE GeometryThread \/ UNCHANGED overlayVars
  <2>1. dims' = dims /\ stage' = stage /\ parent' = parent
    BY <1>10 DEF GeometryThread, Poll, HideOverlays, LookAtParent, LookAtState, Snapshot, Store,
       LookAtOverlay, Watch, ApplyEffects, ReadAhead, Others, overlayVars
  <2> QED
    BY <1>4, <2>1
<1> QED
  BY <1>5, <1>6, <1>7, <1>8, <1>9, <1>10 DEF OverlaysNext, CefCalls, Outsiders

LEMMA OverlaysSteps ==
  OverlayInv /\ SidesInv /\ [OverlaysNext]_overlayVars => OverlayInv' /\ SidesInv'
<1> SUFFICES ASSUME OverlayInv, SidesInv, [OverlaysNext]_overlayVars PROVE OverlayInv'
  BY SidesStay
<1>1. CASE CefCalls
  BY <1>1, AllocKeeps, UnlistKeeps, DestroyKeeps, ResizeKeeps, RestackKeeps DEF CefCalls
<1>2. CASE Outsiders
  BY <1>2, ParentMovesKeeps, ParentStateKeeps, ParentMappedKeeps, ParentRaisedKeeps, CallbackKeeps,
     ClampKeeps, WithdrawKeeps, ShutdownKeeps DEF Outsiders
<1>3. CASE GeometryThread
  BY <1>3, PollKeeps, HideKeeps, LooksKeep, SnapshotKeeps, LookAtOverlayKeeps, WatchKeeps,
     ApplyEffectsKeeps, OverlayStoreKeeps, ShutdownKeeps DEF GeometryThread
<1>4. CASE UNCHANGED overlayVars
  BY <1>4, ShutdownKeeps
<1> QED
  BY <1>1, <1>2, <1>3, <1>4 DEF OverlaysNext

LEMMA OverlayInvariant == OverlaysSpec => [](OverlayInv /\ SidesInv)
<1> QED
  BY OverlaysStart, OverlaysSteps, PTL DEF OverlaysSpec

(* The parent, the overlays and the geometry thread are always well typed:  *)
(* no overlay is placed by anything but a place of the parent.              *)
THEOREM OverlaysTypeCorrect == OverlaysSpec => []OverlaysTypeOK
<1>1. OverlayInv /\ SidesInv => OverlaysTypeOK
  BY DEF OverlayInv, ParentTyped, OverlaysTyped, ThreadTyped, SidesInv, OverlaysTypeOK, Parents,
     OverlayWindow, Belief, Resizes, Geometry, Findings
<1> QED
  BY <1>1, OverlayInvariant, PTL

(* The overlays keep up with mpv's window, for any overlays and any number  *)
(* of changes.  Once the geometry thread read of all of them, every overlay *)
(* is in its place; while it sleeps with news of the parent unread, they    *)
(* are where its last look at the parent puts them, all of them; and it is  *)
(* never wrong about who manages one.  That it reads of a change is not     *)
(* claimed: what x11rb keeps wakes nobody.                                  *)
THEOREM OverlaysCorrect == OverlaysSpec => []OverlaysKeepUp
<1>1. OverlayInv => RestInPlace
  <2> SUFFICES ASSUME OverlayInv, AtRest
               PROVE  /\ told = parent.mapped
                      /\ \A o \in Live :
                           /\ window[o].mapped = parent.mapped
                           /\ window[o].override = ParentFull
                           /\ parent.mapped => window[o].at = parent.at /\ window[o].size = parent.at
                           /\ parent.mapped /\ ParentFull => window[o].above
    BY DEF RestInPlace
  <2>1. /\ thread.pc = "poll" /\ events = {} /\ ~resync /\ ~closing
        /\ \A o \in Live : dims[o] = <<>>
    BY DEF AtRest, Live
  <2>2. /\ thread.at = parent.at /\ thread.full = ParentFull /\ thread.up = parent.mapped
        /\ told = thread.up /\ thread.it = {} /\ thread.todo = {}
    BY <2>1 DEF OverlayInv, SeenParentInv, MappedInv, PassInv, External
  <2>3. ASSUME NEW o \in Live
        PROVE  InPlace(o) /\ (window[o].mapped => window[o].above)
    BY <2>1, <2>2 DEF OverlayInv, PlacedInv, AboveInv, Passed, ToRaise, External
  <2> QED
    BY <2>1, <2>2, <2>3 DEF InPlace, Settling
<1>2. OverlayInv => NotTorn
  <2> SUFFICES ASSUME OverlayInv, thread.pc = "poll", ~resync, ~closing, "Overlay" \notin events,
                      NEW o \in Live
               PROVE  /\ window[o].mapped = thread.up /\ window[o].override = thread.full
                      /\ thread.up => window[o].at = thread.at
                      /\ thread.up /\ dims[o] = <<>> => window[o].size \in {thread.at, parent.at}
    BY DEF NotTorn
  <2>1. thread.it = {} /\ thread.todo = {}
    BY DEF OverlayInv, PassInv
  <2>2. InPlace(o)
    BY <2>1 DEF OverlayInv, PlacedInv, Passed
  <2> QED
    BY <2>2 DEF InPlace, Settling
<1>3. OverlayInv => BeliefHolds
  BY DEF OverlayInv, BeliefInv, BeliefHolds, Past
<1>4. OverlayInv => OverlaysKeepUp
  BY <1>1, <1>2, <1>3 DEF OverlaysKeepUp
<1> QED
  BY <1>4, OverlayInvariant, PTL

-----------------------------------------------------------------------------
(* LogFiles. *)

LogLines == Seq(Line)
Piece == [of : Line, end : BOOLEAN]

(* The file worker writes to the first file, which is as long as it counts. *)
AtFirst == file.slot = 0 /\ disk[0] # NoFile /\ Len(Content(0)) = file.bytes

OpenInv ==
  /\ rotating.at = "opened" => AtFirst /\ file.bytes = 0
  /\ logAt = "both" /\ rotating.at = "no" /\ ~Due => AtFirst
  /\ logAt = "both" /\ rotating.at \notin {"no", "opened"} => Due
  /\ rotating.at # "no" => logAt \in {"file", "both"}

LogTypes ==
  /\ LogTypeOK
  /\ pipe \in [pieces : Seq(Piece), partial : LogLines]
  /\ seenLines \in [written : LogLines, fed : BOOLEAN]
  /\ spent \in [lines : 0..MaxLines, faults : Nat, kills : Nat]

(* The console worker's copy of stderr was made before the redirection.     *)
FedInv ==
  /\ ~seenLines.fed
  /\ stderrTo.copy # "pipe" /\ (logAt = "start" => stderrTo.fd = "real")
  /\ \A i \in 1..Len(pipe.pieces) : pipe.pieces[i].of.from = "stderr"

(* The slot a rotation has emptied: what moves next moves there.            *)
Hole == CASE rotating.at = "remove" -> -1
          [] rotating.at = "move" -> rotating.i + 1
          [] OTHER -> 0
Emptied == rotating.at \in {"move", "open"} => disk[Hole] = NoFile

(* What was written ends with the files: file i ends where at[i] says.      *)
Ends == 0..(MaxBackups + 1)
Placed(at) ==
  /\ at[0] = Len(seenLines.written)
  /\ \A i \in Slots :
       /\ at[i] = at[i + 1] + Len(Content(i))
       /\ \A k \in 1..Len(Content(i)) : Content(i)[k] = seenLines.written[at[i + 1] + k]

(* While nothing failed the files before one that has lines are full, but   *)
(* for the one the rotation has emptied; lost lines count as a last file.   *)
Lines(at, k) == IF k = MaxBackups + 1 THEN at[k] ELSE Len(Content(k))
FullBefore(at) ==
  \A k \in 1..(MaxBackups + 1) : Lines(at, k) > 0 =>
    \A j \in 0..(k - 1) : j # Hole => Len(Content(j)) = FileLimit

Unharmed(at) ==
  /\ rotating.at # "failed"
  /\ logAt = "both" /\ rotating.at = "no" => AtFirst
  /\ logAt \in {"start", "file"} => \A k \in Ends : Lines(at, k) = 0
  /\ FullBefore(at)

FilesInv ==
  \E at \in [Ends -> 0..Len(seenLines.written)] :
    Placed(at) /\ (spent.faults = 0 /\ spent.kills = 0 => Unharmed(at))

LogInv == LogTypes /\ OpenInv /\ FedInv /\ Emptied /\ FilesInv

(* A set of naturals has a least element: what holds of a natural whenever  *)
(* it holds of all before it holds of all.                                  *)
LEMMA LeastNat ==
  ASSUME NEW T \in SUBSET Nat, T # {}
  PROVE  \E x \in T : \A y \in T : x <= y
<1> DEFINE R == OpToRel(<, Nat)
<1>1. IsWellFoundedOn(R, Nat)
  BY NatLessThanWellFounded
<1>2. \A x, y \in Nat : <<x, y>> \in R <=> x < y
  BY DEF OpToRel
<1> HIDE DEF R
<1>3. PICK x \in T : \A y \in T : ~(<<y, x>> \in R)
  BY <1>1, WFMin
<1>4. \A y \in T : ~(y < x)
  BY <1>2, <1>3
<1>5. \A y \in T : x <= y
  BY <1>4
<1> QED
  BY <1>5

(* The elements of a concatenation.                                         *)
LEMMA ConcatIs ==
  ASSUME NEW S, NEW g \in Seq(S), NEW c \in Seq(S), NEW h, h = g \o c
  PROVE  /\ Len(h) = Len(g) + Len(c)
         /\ \A k \in 1..Len(h) : h[k] = IF k <= Len(g) THEN g[k] ELSE c[k - Len(g)]
OBVIOUS

(* FlattenSeq joins its sequences one by one: f[i] is the first i of them.  *)
JoinedBy(f, q, n) ==
  /\ f[1] = q[1]
  /\ \A i \in 2..n :
       /\ Len(f[i]) = Len(f[i - 1]) + Len(q[i])
       /\ \A k \in 1..Len(f[i]) :
            f[i][k] = IF k <= Len(f[i - 1]) THEN f[i - 1][k] ELSE q[i][k - Len(f[i - 1])]

LEMMA Flattened ==
  ASSUME NEW S, NEW n \in Nat, n > 0, NEW q \in [1..n -> Seq(S)]
  PROVE  \E f \in [1..n -> Seq(S)] : FlattenSeq(q) = f[n] /\ JoinedBy(f, q, n)
<1> DEFINE Joins(m, f) == f = [i \in 1..m |-> IF i = 1 THEN q[i] ELSE f[i - 1] \o q[i]]
<1>1. Len(q) = n
  OBVIOUS
<1>2. FlattenSeq(q) = (CHOOSE f : Joins(n, f))[n]
  BY <1>1 DEF FlattenSeq
<1>3. ASSUME NEW m \in 1..n, NEW f, Joins(m, f)
      PROVE  /\ f \in [1..m -> Seq(S)] /\ f[1] = q[1]
             /\ \A i \in 2..m : f[i] = f[i - 1] \o q[i]
  <2>1. DOMAIN f = 1..m /\ f = [i \in 1..m |-> f[i]]
    BY <1>3
  <2>2. \A i \in 1..m : f[i] = IF i = 1 THEN q[i] ELSE f[i - 1] \o q[i]
    BY <1>3
  <2>3. \A i \in 1..m : f[i] \in Seq(S)
    <3> DEFINE T == {i \in 1..m : f[i] \notin Seq(S)}
    <3>1. SUFFICES ASSUME T # {} PROVE FALSE
      OBVIOUS
    <3>2. PICK i \in T : \A j \in T : i <= j
      <4>1. T \in SUBSET Nat
        OBVIOUS
      <4> HIDE DEF T
      <4> QED
        BY <3>1, <4>1, LeastNat
    <3>3. i # 1
      BY <2>2, <3>2
    <3>4. i - 1 \in 1..m /\ ~(i <= i - 1) /\ i \in 1..n
      BY <3>2, <3>3
    <3>5. f[i - 1] \in Seq(S)
      BY <3>2, <3>4
    <3>6. f[i] = f[i - 1] \o q[i] /\ q[i] \in Seq(S)
      BY <2>2, <3>2, <3>3, <3>4
    <3>7. f[i] \in Seq(S)
      BY <3>5, <3>6
    <3> QED
      BY <3>2, <3>7
  <2>4. f[1] = q[1] /\ \A i \in 2..m : f[i] = f[i - 1] \o q[i]
    <3>1. 1 \in 1..m /\ \A i \in 2..m : i \in 1..m /\ i # 1
      OBVIOUS
    <3> HIDE DEF Joins
    <3> QED
      BY <2>2, <3>1
  <2> HIDE DEF Joins
  <2> QED
    BY <2>1, <2>3, <2>4
<1>4. \A m \in 1..n : \E f : Joins(m, f)
  <2> DEFINE T == {m \in 1..n : ~\E f : Joins(m, f)}
  <2>1. SUFFICES ASSUME T # {} PROVE FALSE
    OBVIOUS
  <2>2. PICK m \in T : \A j \in T : m <= j
    <3>1. T \in SUBSET Nat
      <4> HIDE DEF Joins
      <4> QED
        OBVIOUS
    <3> HIDE DEF T
    <3> QED
      BY <2>1, <3>1, LeastNat
  <2>3. m # 1
    <3> DEFINE g == [i \in 1..1 |-> q[1]]
    <3>1. Joins(1, g)
      OBVIOUS
    <3> QED
      BY <2>2, <3>1
  <2>4. m - 1 \in 1..n /\ ~(m <= m - 1) /\ m \in 1..n
    BY <2>2, <2>3
  <2>5. PICK f : Joins(m - 1, f)
    BY <2>2, <2>4, ZenonT(60)
  <2> DEFINE g == [i \in 1..m |-> IF i = m THEN f[m - 1] \o q[m] ELSE f[i]]
  <2>6. \A i \in 1..(m - 1) : f[i] = IF i = 1 THEN q[i] ELSE f[i - 1] \o q[i]
    BY <2>5
  <2>7. Joins(m, g)
    <3>1. ASSUME NEW i \in 1..m PROVE g[i] = IF i = 1 THEN q[i] ELSE g[i - 1] \o q[i]
      <4>1. CASE i = m
        <5>1. g[i] = f[m - 1] \o q[m] /\ g[m - 1] = f[m - 1] /\ i # 1
          BY <2>3, <2>4, <4>1
        <5> QED
          BY <4>1, <5>1
      <4>2. CASE i # m
        <5>1. i \in 1..(m - 1) /\ g[i] = f[i]
          BY <2>4, <4>2
        <5>2. i # 1 => i - 1 \in 1..m /\ i - 1 # m /\ g[i - 1] = f[i - 1]
          BY <2>4, <4>2
        <5> HIDE DEF g
        <5> QED
          BY <2>6, <5>1, <5>2
      <4> QED
        BY <4>1, <4>2
    <3>2. g = [i \in 1..m |-> g[i]]
      OBVIOUS
    <3> HIDE DEF g
    <3> QED
      BY <3>1, <3>2
  <2> QED
    BY <2>2, <2>7
<1> DEFINE f == CHOOSE f : Joins(n, f)
<1>5. Joins(n, f)
  <2>1. \E g : Joins(n, g)
    <3> HIDE DEF Joins
    <3> QED
      BY <1>4
  <2> HIDE DEF Joins
  <2> QED
    BY <2>1
<1>6. FlattenSeq(q) = f[n]
  BY <1>2
<1> HIDE DEF f, Joins
<1>7. /\ f \in [1..n -> Seq(S)] /\ f[1] = q[1]
      /\ \A i \in 2..n : f[i] = f[i - 1] \o q[i]
  <2>1. n \in 1..n
    OBVIOUS
  <2> QED
    BY <1>3, <1>5, <2>1
<1>8. ASSUME NEW i \in 2..n
      PROVE  /\ Len(f[i]) = Len(f[i - 1]) + Len(q[i])
             /\ \A k \in 1..Len(f[i]) :
                  f[i][k] = IF k <= Len(f[i - 1]) THEN f[i - 1][k] ELSE q[i][k - Len(f[i - 1])]
  <2>1. i - 1 \in 1..n /\ i \in 1..n
    OBVIOUS
  <2>2. f[i - 1] \in Seq(S) /\ q[i] \in Seq(S) /\ f[i] = f[i - 1] \o q[i]
    BY <1>7, <2>1
  <2> DEFINE g == f[i - 1]
             c == q[i]
             h == f[i]
  <2>3. g \in Seq(S) /\ c \in Seq(S) /\ h = g \o c
    BY <2>2
  <2> HIDE DEF g, c, h
  <2>4. /\ Len(h) = Len(g) + Len(c)
        /\ \A k \in 1..Len(h) : h[k] = IF k <= Len(g) THEN g[k] ELSE c[k - Len(g)]
    BY <2>3, ConcatIs
  <2> QED
    BY <2>4 DEF g, c, h
<1>9. f \in [1..n -> Seq(S)] /\ f[1] = q[1]
  BY <1>7
<1>10. JoinedBy(f, q, n)
  BY <1>8, <1>9 DEF JoinedBy
<1> QED
  BY <1>6, <1>9, <1>10

(* A suffix, by its elements.                                               *)
LEMMA SuffixBy ==
  ASSUME NEW S, NEW p \in Seq(S), NEW q \in Seq(S), Len(p) <= Len(q),
         \A k \in 1..Len(p) : p[k] = q[(Len(q) - Len(p)) + k]
  PROVE  IsSuffix(p, q)
<1>1. Len(p) \in Nat /\ Len(q) \in Nat
  OBVIOUS
<1>2. /\ Reverse(p) \in Seq(S) /\ Len(Reverse(p)) = Len(p)
      /\ \A k \in 1..Len(p) : Reverse(p)[k] = p[(Len(p) - k) + 1]
  BY DEF Reverse
<1>3. /\ Reverse(q) \in Seq(S) /\ Len(Reverse(q)) = Len(q)
      /\ \A k \in 1..Len(q) : Reverse(q)[k] = q[(Len(q) - k) + 1]
  BY DEF Reverse
<1>4. ASSUME NEW k \in 1..Len(p) PROVE Reverse(p)[k] = Reverse(q)[k]
  <2>1. (Len(p) - k) + 1 \in 1..Len(p) /\ k \in 1..Len(q)
        /\ (Len(q) - Len(p)) + ((Len(p) - k) + 1) = (Len(q) - k) + 1
    BY <1>1
  <2>2. p[(Len(p) - k) + 1] = q[(Len(q) - k) + 1]
    BY <2>1
  <2> QED
    BY <1>2, <1>3, <2>1, <2>2
<1> DEFINE a == Reverse(p)
           b == Reverse(q)
<1> HIDE DEF a, b
<1>5. a \in Seq(S) /\ b \in Seq(S) /\ Len(a) <= Len(b) /\ \A k \in 1..Len(a) : a[k] = b[k]
  BY <1>2, <1>3, <1>4 DEF a, b
<1>6. SubSeq(a, 1, Len(a)) = SubSeq(b, 1, Len(a))
  BY <1>5
<1>7. IsPrefix(a, b)
  BY <1>5, <1>6 DEF IsPrefix
<1> QED
  BY <1>7 DEF IsSuffix, a, b

-----------------------------------------------------------------------------
(* What the places of the files say of all files together.                  *)

(* One file more that is full, or the one that is not.                      *)
LEMMA PlaceStep ==
  ASSUME NEW a \in Nat, NEW b \in Nat, NEW e \in Nat, NEW F \in Nat, NEW x \in Nat, NEW y \in Nat,
         NEW z \in Int, NEW h \in Int, NEW i \in Int, NEW j \in Int, j > i,
         a >= b, i # h => a >= b + F, y + F = x, z + F = y,
         b >= e + y \/ (h >= j /\ b >= e + z)
  PROVE  a >= e + x \/ (h >= i /\ a >= e + y)
OBVIOUS

(* A rotated set of files with at most one that is not full.                *)
LEMMA FullFiles ==
  ASSUME NEW n \in Nat, n > 0, NEW F \in Nat, NEW at \in [0..n -> Nat], NEW h \in Int,
         \A i \in 0..(n - 1) : at[i] >= at[i + 1] /\ (i # h => at[i] >= at[i + 1] + F)
  PROVE  at[0] >= at[n] + (n - 1) * F
<1> DEFINE P(j) == \/ at[n - j] >= at[n] + j * F
                   \/ h >= n - j /\ at[n - j] >= at[n] + (j - 1) * F
           T == {j \in 0..n : ~P(j)}
<1>1. ASSUME T # {} PROVE FALSE
  <2>1. PICK j \in T : \A k \in T : j <= k
    <3>1. T \in SUBSET Nat
      OBVIOUS
    <3> HIDE DEF T
    <3> QED
      BY <1>1, <3>1, LeastNat
  <2>2. j # 0
    <3>1. n \in 0..n /\ at[n] \in Nat /\ n - 0 = n /\ 0 * F = 0
      OBVIOUS
    <3>2. P(0)
      BY <3>1
    <3> QED
      BY <2>1, <3>2
  <2>3. j - 1 \in 0..n /\ ~(j <= j - 1) /\ j \in Nat /\ j > 0
    BY <2>1, <2>2
  <2>4. P(j - 1)
    BY <2>1, <2>3
  <2>5. /\ n - j \in 0..(n - 1) /\ (n - j) + 1 = n - (j - 1)
        /\ n - j \in 0..n /\ n - (j - 1) \in 0..n /\ n \in 0..n
    BY <2>1, <2>3
  <2>6. /\ at[n - j] >= at[n - (j - 1)]
        /\ n - j # h => at[n - j] >= at[n - (j - 1)] + F
        /\ at[n - j] \in Nat /\ at[n - (j - 1)] \in Nat /\ at[n] \in Nat
    BY <2>5
  <2>7. (j - 1) * F + F = j * F /\ ((j - 1) - 1) * F + F = (j - 1) * F /\ j * F \in Nat /\ (j - 1) * F \in Nat
        /\ ((j - 1) - 1) * F \in Int
    BY <2>3
  <2> DEFINE x == j * F
             y == (j - 1) * F
             z == ((j - 1) - 1) * F
  <2>8. P(j)
    <3> HIDE DEF x, y, z
    <3>1. /\ y + F = x /\ z + F = y /\ x \in Nat /\ y \in Nat /\ z \in Int
          /\ at[n - (j - 1)] >= at[n] + y \/ (h >= n - (j - 1) /\ at[n - (j - 1)] >= at[n] + z)
      BY <2>4, <2>7 DEF x, y, z
    <3>2. n - j \in Int /\ n - (j - 1) \in Int /\ n - (j - 1) > n - j
      BY <2>3
    <3> DEFINE a == at[n - j]
               b == at[n - (j - 1)]
               e == at[n]
               s == n - j
               t == n - (j - 1)
    <3>3. /\ a >= b /\ (s # h => a >= b + F) /\ a \in Nat /\ b \in Nat /\ e \in Nat
          /\ b >= e + y \/ (h >= t /\ b >= e + z)
          /\ s \in Int /\ t \in Int /\ t > s
      BY <2>6, <3>1, <3>2
    <3> HIDE DEF P, T, a, b, e, s, t
    <3>4. a >= e + x \/ (h >= s /\ a >= e + y)
      BY <3>1, <3>3, PlaceStep
    <3> QED
      BY <3>4 DEF P, x, y, a, e, s
  <2> QED
    BY <2>1, <2>8
<1>2. P(n)
  <2>1. n \in 0..n
    OBVIOUS
  <2> HIDE DEF P
  <2> QED
    BY <1>1, <2>1
<1>3. n * F = (n - 1) * F + F /\ (n - 1) * F \in Nat /\ n - n = 0 /\ at[0] \in Nat /\ at[n] \in Nat
  OBVIOUS
<1> QED
  BY <1>2, <1>3

(* The contents of the files.                                               *)
LEMMA Contents ==
  ASSUME LogTypes, NEW i \in Slots
  PROVE  Content(i) \in LogLines /\ Len(Content(i)) \in Nat
BY DEF LogTypes, LogTypeOK, Content, LogLines

(* The sequences lie in w one behind the other, the last at its end; at has *)
(* their places, from the last to the first.                                *)
LieIn(w, at, q, n) ==
  /\ at[0] = Len(w)
  /\ \A j \in 1..n :
       /\ at[n - j] = at[(n - j) + 1] + Len(q[j])
       /\ \A k \in 1..Len(q[j]) : q[j][k] = w[at[(n - j) + 1] + k]

(* What lies so joins to the end of w.                                      *)
LEMMA JoinedEnd ==
  ASSUME NEW S, NEW n \in Nat, n > 0, NEW q \in [1..n -> Seq(S)], NEW w \in Seq(S),
         NEW at \in [0..n -> Nat], LieIn(w, at, q, n)
  PROVE  IsSuffix(FlattenSeq(q), w) /\ Len(FlattenSeq(q)) = Len(w) - at[n]
<1> /\ at[0] = Len(w)
    /\ \A j \in 1..n :
         /\ at[n - j] = at[(n - j) + 1] + Len(q[j])
         /\ \A k \in 1..Len(q[j]) : q[j][k] = w[at[(n - j) + 1] + k]
  BY DEF LieIn
<1>0. PICK f \in [1..n -> Seq(S)] : FlattenSeq(q) = f[n] /\ JoinedBy(f, q, n)
  BY Flattened
<1>1. /\ f[1] = q[1] /\ FlattenSeq(q) = f[n]
      /\ \A i \in 2..n :
           /\ Len(f[i]) = Len(f[i - 1]) + Len(q[i])
           /\ \A k \in 1..Len(f[i]) :
                f[i][k] = IF k <= Len(f[i - 1]) THEN f[i - 1][k] ELSE q[i][k - Len(f[i - 1])]
  BY <1>0 DEF JoinedBy
<1> DEFINE P(j) == /\ Len(f[j]) = at[n - j] - at[n]
                   /\ \A k \in 1..Len(f[j]) : f[j][k] = w[at[n] + k]
           T == {j \in 1..n : ~P(j)}
<1>2. T \in SUBSET Nat /\ \A j : j \in T <=> j \in 1..n /\ ~P(j)
  <2> HIDE DEF P
  <2> QED
    OBVIOUS
<1>3. ASSUME NEW j \in 1..n, \A k \in 1..n : k < j => P(k)
      PROVE  P(j)
  <2>1. /\ n - j \in 0..n /\ n \in 0..n /\ (n - j) + 1 \in 0..n /\ (n - j) + 1 = n - (j - 1)
        /\ q[j] \in Seq(S)
    OBVIOUS
  <2>2. at[n - j] \in Nat /\ at[n] \in Nat /\ at[(n - j) + 1] \in Nat /\ Len(q[j]) \in Nat
    BY <2>1
  <2>3. CASE j = 1
    <3>1. f[j] = q[j] /\ (n - j) + 1 = n
      BY <1>1, <2>3
    <3>2. at[n - j] = at[n] + Len(q[j]) /\ \A k \in 1..Len(q[j]) : q[j][k] = w[at[n] + k]
      BY <3>1
    <3>3. Len(f[j]) = at[n - j] - at[n]
      BY <2>2, <3>1, <3>2
    <3> QED
      BY <3>1, <3>2, <3>3
  <2>4. CASE j # 1
    <3> DEFINE g == f[j - 1]
               c == q[j]
               h == f[j]
               a == at[n - j]
               b == at[(n - j) + 1]
               e == at[n]
    <3>1. j - 1 \in 1..n /\ j \in 2..n /\ j - 1 < j /\ n - (j - 1) = (n - j) + 1
      BY <2>4
    <3>2. P(j - 1)
      BY <1>3, <3>1
    <3>3. g \in Seq(S) /\ Len(g) = b - e /\ \A k \in 1..Len(g) : g[k] = w[e + k]
      <4>1. g \in Seq(S)
        BY <1>1, <3>1
      <4> QED
        BY <3>1, <3>2, <4>1
    <3>4. /\ c \in Seq(S) /\ a = b + Len(c)
          /\ \A k \in 1..Len(c) : c[k] = w[b + k]
      BY <2>1, <2>2
    <3>5. /\ Len(h) = Len(g) + Len(c)
          /\ \A k \in 1..Len(h) : h[k] = IF k <= Len(g) THEN g[k] ELSE c[k - Len(g)]
      BY <1>1, <3>1
    <3>6. a \in Nat /\ b \in Nat /\ e \in Nat
      BY <2>2
    <3> HIDE DEF g, c, h, a, b, e, P, T
    <3>7. Len(h) = a - e /\ \A k \in 1..Len(h) : h[k] = w[e + k]
      <4>1. Len(g) \in Nat /\ Len(c) \in Nat
        BY <3>3, <3>4
      <4>2. ASSUME NEW k \in 1..Len(h) PROVE h[k] = w[e + k]
        <5>1. CASE k <= Len(g)
          <6>1. k \in 1..Len(g) /\ h[k] = g[k]
            BY <3>5, <4>1, <5>1
          <6> QED
            BY <3>3, <6>1
        <5>2. CASE ~(k <= Len(g))
          <6>1. k - Len(g) \in 1..Len(c) /\ b + (k - Len(g)) = e + k
            BY <3>3, <3>5, <3>6, <4>1, <5>2
          <6> QED
            BY <3>4, <3>5, <5>2, <6>1
        <5> QED
          BY <5>1, <5>2
      <4> QED
        BY <3>3, <3>4, <3>5, <3>6, <4>1, <4>2, SMTT(30)
    <3> QED
      BY <3>7 DEF P, h, a, e
  <2> QED
    BY <2>3, <2>4
<1>4. P(n)
  <2> HIDE DEF P, T
  <2>1. ASSUME T # {} PROVE FALSE
    <3>1. PICK j \in T : \A k \in T : j <= k
      BY <1>2, <2>1, LeastNat
    <3>2. j \in 1..n /\ ~P(j) /\ \A k \in 1..n : k < j => k \notin T
      BY <1>2, <3>1
    <3>3. \A k \in 1..n : k < j => P(k)
      BY <1>2, <3>2
    <3> QED
      BY <1>3, <3>2, <3>3
  <2>2. n \in 1..n
    OBVIOUS
  <2> QED
    BY <1>2, <2>1, <2>2
<1>5. f[n] \in Seq(S) /\ Len(f[n]) = Len(w) - at[n] /\ at[n] \in Nat /\ Len(w) \in Nat /\ n - n = 0
  BY <1>1, <1>4
<1>6. Len(w) - Len(f[n]) = at[n] /\ Len(f[n]) <= Len(w)
  BY <1>5
<1>7. IsSuffix(f[n], w)
  BY <1>4, <1>5, <1>6, SuffixBy, ZenonT(60)
<1> QED
  BY <1>1, <1>5, <1>7

(* All files together are the end of what was written.                      *)
LEMMA InFilesAre ==
  ASSUME LogTypes, NEW at \in [Ends -> 0..Len(seenLines.written)], Placed(at)
  PROVE  /\ IsSuffix(InFiles, seenLines.written)
         /\ Len(InFiles) = Len(seenLines.written) - at[MaxBackups + 1]
<1> DEFINE q == [i \in 1..(MaxBackups + 1) |-> Content(MaxBackups + 1 - i)]
<1>1. InFiles = FlattenSeq(q)
  BY DEF InFiles
<1>2. PICK n \in Nat : n = MaxBackups + 1 /\ n > 0 /\ MaxBackups \in Nat
  BY LogAssumption
<1>3. \A j \in 1..n : n - j \in Slots
  BY <1>2 DEF Slots
<1>4. \A j \in 1..n : q[j] = Content(n - j)
  BY <1>2
<1>5. q \in [1..n -> Seq(Line)]
  <2>1. \A j \in 1..n : Content(n - j) \in Seq(Line)
    BY <1>3, Contents DEF LogLines
  <2> QED
    BY <1>2, <2>1
<1> HIDE DEF q
<1>6. seenLines.written \in Seq(Line) /\ at \in [0..n -> Nat]
  BY <1>2 DEF LogTypes, LogLines, Ends
<1>7. \A j \in 1..n :
        /\ at[n - j] = at[(n - j) + 1] + Len(q[j])
        /\ \A k \in 1..Len(q[j]) : q[j][k] = seenLines.written[at[(n - j) + 1] + k]
  BY <1>3, <1>4, SMTT(30) DEF Placed
<1>8. at[0] = Len(seenLines.written)
  BY DEF Placed
<1> DEFINE w == seenLines.written
<1>9. LieIn(w, at, q, n) /\ w \in Seq(Line)
  BY <1>6, <1>7, <1>8 DEF LieIn
<1> HIDE DEF w
<1>10. IsSuffix(FlattenSeq(q), w) /\ Len(FlattenSeq(q)) = Len(w) - at[n]
  BY <1>2, <1>5, <1>6, <1>9, JoinedEnd, ZenonT(60)
<1> QED
  BY <1>1, <1>2, <1>10 DEF w

-----------------------------------------------------------------------------
(* The types, and what the file worker's and the console's steps keep.      *)

LEMMA LineOf ==
  ASSUME LogTypes, spent.lines < MaxLines, NEW from \in {"app", "stderr"}
  PROVE  [from |-> from, n |-> spent.lines] \in Line /\ spent.lines + 1 \in 0..MaxLines
BY LogAssumption DEF LogTypes, Line

LEMMA EmittedTypes ==
  ASSUME LogTypes, NEW l \in Line
  PROVE  Emitted(l) \in [console : LogLines, file : LogLines]
<1>1. channels.console \in LogLines /\ channels.file \in LogLines
  BY DEF LogTypes, LogTypeOK, LogLines
<1>2. ASSUME NEW q \in LogLines PROVE Lossy(q, l) \in LogLines
  BY <1>2 DEF Lossy, LogLines
<1> QED
  BY <1>1, <1>2 DEF Emitted

LEMMA FirstOf ==
  ASSUME NEW S, NEW q \in Seq(S), q # <<>>
  PROVE  Head(q) \in S /\ Tail(q) \in Seq(S)
OBVIOUS

LEMMA LogFields ==
  ASSUME LogTypes
  PROVE  /\ logAt \in {"start", "file", "both", "console"}
         /\ disk \in [Slots -> LogLines \cup {NoFile}]
         /\ file \in [slot : Slots \cup {-1}, bytes : 0..FileLimit]
         /\ rotating \in [at : {"no", "remove", "move", "open", "opened", "failed"},
                          i : 0..(MaxBackups - 1)]
         /\ channels \in [console : LogLines, file : LogLines]
         /\ stderrTo \in [fd : {"real", "pipe"}, copy : {"none", "real", "pipe"}]
         /\ pipe \in [pieces : Seq(Piece), partial : LogLines]
         /\ seenLines \in [written : LogLines, fed : BOOLEAN]
         /\ spent \in [lines : 0..MaxLines, faults : Nat, kills : Nat]
BY DEF LogTypes, LogTypeOK, LogLines

LEMMA LogTypesFrom ==
  ASSUME /\ logAt' \in {"start", "file", "both", "console"}
         /\ disk' \in [Slots -> LogLines \cup {NoFile}]
         /\ file' \in [slot : Slots \cup {-1}, bytes : 0..FileLimit]
         /\ rotating' \in [at : {"no", "remove", "move", "open", "opened", "failed"},
                           i : 0..(MaxBackups - 1)]
         /\ channels' \in [console : LogLines, file : LogLines]
         /\ stderrTo' \in [fd : {"real", "pipe"}, copy : {"none", "real", "pipe"}]
         /\ pipe' \in [pieces : Seq(Piece), partial : LogLines]
         /\ seenLines' \in [written : LogLines, fed : BOOLEAN]
         /\ spent' \in [lines : 0..MaxLines, faults : Nat, kills : Nat]
  PROVE  LogTypes'
BY DEF LogTypes, LogTypeOK, LogLines, Piece

LEMMA LogTypesStep ==
  ASSUME LogTypes, OpenInv, [LogNext]_logVars
  PROVE  LogTypes'
<1> USE LogAssumption
<1>0. \A how \in {"no", "remove", "move", "open", "opened", "failed"} :
        Done(how) \in [at : {"no", "remove", "move", "open", "opened", "failed"},
                       i : 0..(MaxBackups - 1)]
  BY DEF Done
<1>n. <<>> \in LogLines /\ <<>> \in Seq(Piece)
  BY DEF LogLines
<1>1. CASE UNCHANGED logVars
  BY <1>1, LogFields, LogTypesFrom DEF logVars
<1>2. CASE Killed
  <2>1. /\ logAt' = "start" /\ rotating' = Done("no") /\ file' = [slot |-> -1, bytes |-> 0]
        /\ channels' = [console |-> <<>>, file |-> <<>>]
        /\ stderrTo' = [fd |-> "real", copy |-> "none"]
        /\ pipe' = [pieces |-> <<>>, partial |-> <<>>]
        /\ spent' = [spent EXCEPT !.kills = @ + 1] /\ UNCHANGED <<disk, seenLines>>
    BY <1>2 DEF Killed, NewProcess
  <2>2. file' \in [slot : Slots \cup {-1}, bytes : 0..FileLimit]
    BY <2>1
  <2>3. /\ channels' \in [console : LogLines, file : LogLines]
        /\ stderrTo' \in [fd : {"real", "pipe"}, copy : {"none", "real", "pipe"}]
        /\ pipe' \in [pieces : Seq(Piece), partial : LogLines]
    BY <1>n, <2>1
  <2>4. spent' \in [lines : 0..MaxLines, faults : Nat, kills : Nat]
    <3>1. spent \in [lines : 0..MaxLines, faults : Nat, kills : Nat]
      BY LogFields
    <3>2. spent' = [spent EXCEPT !.kills = @ + 1]
      BY <2>1
    <3> QED
      BY <3>1, <3>2, SMTT(30)
  <2>5. rotating' \in [at : {"no", "remove", "move", "open", "opened", "failed"},
                       i : 0..(MaxBackups - 1)]
    BY <1>0, <2>1
  <2>6. disk' = disk /\ seenLines' = seenLines /\ logAt' \in {"start", "file", "both", "console"}
    BY <2>1
  <2> QED
    BY <2>2, <2>3, <2>4, <2>5, <2>6, LogFields, LogTypesFrom
<1>3. CASE RemoveOldest
  <2>1. MaxBackups \in Slots /\ MaxBackups - 1 \in 0..(MaxBackups - 1)
    BY DEF Slots
  <2>2. disk' \in [Slots -> LogLines \cup {NoFile}]
    BY <1>3, <2>1, LogFields DEF RemoveOldest
  <2>3. file' \in [slot : Slots \cup {-1}, bytes : 0..FileLimit]
    BY <1>3, LogFields DEF RemoveOldest
  <2>4. rotating' \in [at : {"no", "remove", "move", "open", "opened", "failed"},
                       i : 0..(MaxBackups - 1)]
    BY <1>3, <2>1 DEF RemoveOldest
  <2> QED
    BY <1>3, <2>2, <2>3, <2>4, LogFields, LogTypesFrom DEF RemoveOldest
<1>4. CASE Rename
  <2>1. rotating.i \in Slots /\ rotating.i + 1 \in Slots
    BY LogFields DEF Slots
  <2>2. disk' \in [Slots -> LogLines \cup {NoFile}]
    BY <1>4, <2>1, LogFields DEF Rename, Moved
  <2>3. file' \in [slot : Slots \cup {-1}, bytes : 0..FileLimit]
    BY <1>4, <2>1, LogFields, SMTT(30) DEF Rename, Moved
  <2>4. spent' \in [lines : 0..MaxLines, faults : Nat, kills : Nat]
    BY <1>4, LogFields, SMTT(30) DEF Rename, Fails
  <2>5. NextMove(rotating.i) \in [at : {"no", "remove", "move", "open", "opened", "failed"},
                                  i : 0..(MaxBackups - 1)]
    BY <1>0, LogFields, SMTT(30) DEF NextMove
  <2>6. rotating' \in [at : {"no", "remove", "move", "open", "opened", "failed"},
                       i : 0..(MaxBackups - 1)]
    BY <1>0, <1>4, <2>5 DEF Rename
  <2> QED
    BY <1>4, <2>2, <2>3, <2>4, <2>6, LogFields, LogTypesFrom DEF Rename
<1>5. CASE OpenFresh
  <2>1. 0 \in Slots
    BY DEF Slots
  <2>2. disk' \in [Slots -> LogLines \cup {NoFile}]
    BY <1>5, <1>n, <2>1, LogFields DEF OpenFresh
  <2>3. file' \in [slot : Slots \cup {-1}, bytes : 0..FileLimit]
    BY <1>5, <2>1, LogFields DEF OpenFresh
  <2>4. spent' \in [lines : 0..MaxLines, faults : Nat, kills : Nat]
    BY <1>5, LogFields, SMTT(30) DEF OpenFresh, Fails
  <2>5. rotating' \in [at : {"no", "remove", "move", "open", "opened", "failed"},
                       i : 0..(MaxBackups - 1)]
    BY <1>0, <1>5 DEF OpenFresh
  <2>6. UNCHANGED <<logAt, channels, stderrTo, pipe, seenLines>>
    BY <1>5 DEF OpenFresh
  <2> QED
    BY <2>2, <2>3, <2>4, <2>5, <2>6, LogFields, LogTypesFrom
<1>6. CASE DupStderr
  BY <1>0, <1>6, LogFields, LogTypesFrom DEF DupStderr
<1>7. CASE FileOpened
  BY <1>0, <1>7, LogFields, LogTypesFrom DEF FileOpened
<1>8. CASE StartCapture
  BY <1>8, LogFields, LogTypesFrom DEF StartCapture
<1>9. CASE Log
  <2>1. Emitted([from |-> "app", n |-> spent.lines]) \in [console : LogLines, file : LogLines]
    BY <1>9, LineOf, EmittedTypes DEF Log
  <2>2. spent' \in [lines : 0..MaxLines, faults : Nat, kills : Nat]
    BY <1>9, LineOf, LogFields DEF Log
  <2> QED
    BY <1>9, <2>1, <2>2, LogFields, LogTypesFrom DEF Log
<1>10. CASE ForeignWrite
  <2>1. PICK l \in Line : pipe' = [pipe EXCEPT !.pieces =
                                     @ \o <<[of |-> l, end |-> FALSE], [of |-> l, end |-> TRUE]>>]
    BY <1>10, LineOf DEF ForeignWrite
  <2>2. <<[of |-> l, end |-> FALSE], [of |-> l, end |-> TRUE]>> \in Seq(Piece)
    BY DEF Piece
  <2>3. pipe' \in [pieces : Seq(Piece), partial : LogLines]
    <3> DEFINE x == <<[of |-> l, end |-> FALSE], [of |-> l, end |-> TRUE]>>
    <3>1. x \in Seq(Piece) /\ pipe' = [pipe EXCEPT !.pieces = @ \o x]
      BY <2>1, <2>2
    <3> HIDE DEF x
    <3>2. pipe.pieces \o x \in Seq(Piece)
      BY <3>1, LogFields
    <3> QED
      BY <3>1, <3>2, LogFields
  <2>4. spent' \in [lines : 0..MaxLines, faults : Nat, kills : Nat]
    BY <1>10, LineOf, LogFields DEF ForeignWrite
  <2> QED
    BY <1>10, <2>3, <2>4, LogFields, LogTypesFrom DEF ForeignWrite
<1>11. CASE CaptureRead
  <2> DEFINE p == Head(pipe.pieces)
  <2>1. p \in Piece /\ Tail(pipe.pieces) \in Seq(Piece)
    BY <1>11, LogFields, FirstOf DEF CaptureRead
  <2>2. p.of \in Line /\ p.end \in BOOLEAN
    BY <2>1 DEF Piece
  <2>3. /\ pipe' = [pieces |-> Tail(pipe.pieces),
                    partial |-> IF p.end THEN <<>> ELSE Append(pipe.partial, p.of)]
        /\ channels' = IF p.end /\ logAt \in {"both", "console"} THEN Emitted(p.of) ELSE channels
        /\ seenLines' = [seenLines EXCEPT !.fed = @ \/ (p.end /\ p.of.from = "app")]
        /\ UNCHANGED <<logAt, disk, file, rotating, stderrTo, spent>>
    BY <1>11 DEF CaptureRead
  <2> HIDE DEF p
  <2>4. Append(pipe.partial, p.of) \in LogLines
    BY <2>2, LogFields DEF LogLines
  <2>5. pipe' \in [pieces : Seq(Piece), partial : LogLines]
    BY <1>n, <2>1, <2>3, <2>4
  <2>6. channels' \in [console : LogLines, file : LogLines]
    BY <2>2, <2>3, LogFields, EmittedTypes
  <2>7. seenLines' \in [written : LogLines, fed : BOOLEAN]
    BY <2>2, <2>3, LogFields
  <2> QED
    BY <2>3, <2>5, <2>6, <2>7, LogFields, LogTypesFrom
<1>12. CASE ConsoleWrite
  <2>1. Head(channels.console) \in Line /\ Tail(channels.console) \in LogLines
    BY <1>12, LogFields, FirstOf DEF ConsoleWrite, LogLines
  <2>2. channels' \in [console : LogLines, file : LogLines]
    BY <1>12, <2>1, LogFields DEF ConsoleWrite
  <2>3. Append(pipe.pieces, [of |-> Head(channels.console), end |-> TRUE]) \in Seq(Piece)
    BY <2>1, LogFields DEF Piece
  <2>4. pipe' \in [pieces : Seq(Piece), partial : LogLines]
    BY <1>12, <2>3, LogFields DEF ConsoleWrite
  <2> QED
    BY <1>12, <2>2, <2>4, LogFields, LogTypesFrom DEF ConsoleWrite
<1>13. CASE FileBegin
  BY <1>0, <1>13, LogFields, LogTypesFrom DEF FileBegin
<1>14. CASE FileWrite
  <2>1. Head(channels.file) \in Line /\ Tail(channels.file) \in LogLines
    BY <1>14, LogFields, FirstOf DEF FileWrite, LogLines
  <2>2. file.slot = 0 /\ disk[0] # NoFile /\ 0 \in Slots /\ file.bytes + 1 \in 0..FileLimit
    <3>1. AtFirst /\ (file.bytes = 0 \/ ~Due) /\ file.bytes \in Nat
      <4>1. logAt = "both" /\ (rotating.at = "opened" \/ (rotating.at = "no" /\ ~Due))
        BY <1>14 DEF FileWrite
      <4>2. file.bytes \in Nat
        BY LogFields
      <4> HIDE DEF AtFirst, Due
      <4> QED
        BY <4>1, <4>2 DEF OpenInv
    <3> QED
      BY <3>1 DEF AtFirst, Due, Slots
  <2>3. Append(disk[0], Head(channels.file)) \in LogLines
    BY <2>1, <2>2, LogFields DEF LogLines
  <2>4. disk' \in [Slots -> LogLines \cup {NoFile}]
    BY <1>14, <2>2, <2>3, LogFields DEF FileWrite
  <2>5. Append(seenLines.written, Head(channels.file)) \in LogLines
    BY <2>1, LogFields DEF LogLines
  <2>6. seenLines' \in [written : LogLines, fed : BOOLEAN]
    BY <1>14, <2>5, LogFields DEF FileWrite
  <2>7. channels' \in [console : LogLines, file : LogLines]
    BY <1>14, <2>1, LogFields DEF FileWrite
  <2>8. file' \in [slot : Slots \cup {-1}, bytes : 0..FileLimit]
    BY <1>14, <2>2, LogFields DEF FileWrite
  <2> QED
    BY <1>0, <1>14, <2>4, <2>6, <2>7, <2>8, LogFields, LogTypesFrom DEF FileWrite
<1>15. CASE FileDrop
  <2>1. Tail(channels.file) \in LogLines
    BY <1>15, LogFields, FirstOf DEF FileDrop, LogLines
  <2>2. channels' \in [console : LogLines, file : LogLines]
    BY <1>15, <2>1, LogFields DEF FileDrop
  <2> QED
    BY <1>0, <1>15, <2>2, LogFields, LogTypesFrom DEF FileDrop
<1> QED
  BY <1>1, <1>2, <1>3, <1>4, <1>5, <1>6, <1>7, <1>8, <1>9, <1>10, <1>11, <1>12, <1>13, <1>14, <1>15
     DEF LogNext

LEMMA LinesFound ==
  ASSUME LogTypes, NEW s \in LogLines
  PROVE  s # NoFile
BY LogAssumption DEF LogLines

LEMMA OpenInvStep ==
  ASSUME LogTypes, OpenInv, [LogNext]_logVars
  PROVE  OpenInv'
<1>1. CASE UNCHANGED <<logAt, disk, file, rotating>>
  BY <1>1 DEF OpenInv, AtFirst, Due, Content
<1>2. CASE Killed
  BY <1>2 DEF Killed, NewProcess, OpenInv, Done
<1>3. CASE RemoveOldest
  <2>1. rotating.at = "remove" /\ rotating'.at = "move" /\ logAt' = logAt /\ file'.bytes = file.bytes
    BY <1>3, LogFields DEF RemoveOldest
  <2> QED
    BY <2>1 DEF OpenInv, Due
<1>4. CASE Rename
  <2>1. rotating.at = "move" /\ logAt' = logAt
    BY <1>4 DEF Rename
  <2>2. rotating'.at \in {"move", "open", "failed"}
    BY <1>4 DEF Rename, NextMove, Done
  <2>3. file'.bytes = file.bytes
    BY <1>4, LogFields DEF Rename, Moved
  <2> QED
    BY <2>1, <2>2, <2>3 DEF OpenInv, Due
<1>5. CASE OpenFresh
  <2>1. CASE rotating' = Done("failed")
    BY <1>5, <2>1 DEF OpenFresh, OpenInv, Due, Done
  <2>2. CASE rotating' = Done("opened")
    <3>1. /\ disk' = [disk EXCEPT ![0] = <<>>] /\ file' = [slot |-> 0, bytes |-> 0]
          /\ rotating'.at = "opened" /\ logAt' = logAt /\ rotating.at = "open"
      BY <1>5, <2>2 DEF OpenFresh, Done
    <3>2. disk'[0] = <<>> /\ <<>> # NoFile
      <4>1. 0 \in Slots /\ <<>> \in LogLines
        BY LogAssumption DEF Slots, LogLines
      <4> QED
        BY <3>1, <4>1, LogFields, LinesFound
    <3>3. AtFirst' /\ file'.bytes = 0
      BY <3>1, <3>2 DEF AtFirst, Content
    <3> HIDE DEF AtFirst
    <3> QED
      BY <3>1, <3>3 DEF OpenInv
  <2> QED
    BY <1>5, <2>1, <2>2 DEF OpenFresh
<1>6. CASE DupStderr
  BY <1>6 DEF DupStderr, OpenInv, Done
<1>7. CASE FileOpened
  <2>1. /\ rotating'.at = "no" /\ UNCHANGED <<disk, file>>
        /\ logAt' = "both" => rotating.at = "opened"
    BY <1>7 DEF FileOpened, Done
  <2>2. AtFirst' = AtFirst
    BY <2>1 DEF AtFirst, Content
  <2> QED
    BY <2>1, <2>2 DEF OpenInv
<1>8. CASE StartCapture \/ Log \/ ForeignWrite \/ CaptureRead \/ ConsoleWrite
  BY <1>1, <1>8 DEF StartCapture, Log, ForeignWrite, CaptureRead, ConsoleWrite
<1>9. CASE FileBegin
  BY <1>9 DEF FileBegin, OpenInv, Due, Done
<1>10. CASE FileWrite
  <2>1. /\ rotating'.at = "no" /\ AtFirst /\ logAt' = logAt
        /\ disk' = [disk EXCEPT ![file.slot] = Append(@, Head(channels.file))]
        /\ file' = [file EXCEPT !.bytes = @ + 1] /\ channels.file # <<>>
    BY <1>10 DEF FileWrite, OpenInv, Done
  <2>2. /\ file.slot = 0 /\ 0 \in Slots /\ disk[0] \in LogLines /\ Len(disk[0]) = file.bytes
        /\ Head(channels.file) \in Line
    <3>1. 0 \in Slots
      BY LogAssumption DEF Slots
    <3>2. Head(channels.file) \in Line
      BY <2>1, LogFields, FirstOf DEF LogLines
    <3> QED
      BY <2>1, <3>1, <3>2, LogFields DEF AtFirst, Content
  <2> DEFINE d == Append(disk[0], Head(channels.file))
  <2>3. disk'[0] = d /\ d \in LogLines /\ Len(d) = file.bytes + 1
    BY <2>1, <2>2, LogFields DEF LogLines
  <2>4. file'.slot = 0 /\ file'.bytes = file.bytes + 1
    BY <2>1, <2>2, LogFields
  <2> HIDE DEF d
  <2>5. AtFirst'
    BY <2>3, <2>4, LinesFound DEF AtFirst, Content
  <2> HIDE DEF AtFirst
  <2> QED
    BY <2>1, <2>5 DEF OpenInv
<1>11. CASE FileDrop
  BY <1>11 DEF FileDrop, OpenInv, Due, Done
<1> QED
  BY <1>1, <1>2, <1>3, <1>4, <1>5, <1>6, <1>7, <1>8, <1>9, <1>10, <1>11 DEF LogNext, logVars

LEMMA FedInvStep ==
  ASSUME LogTypes, FedInv, [LogNext]_logVars
  PROVE  FedInv'
<1>1. CASE UNCHANGED <<logAt, stderrTo, pipe, seenLines>>
  BY <1>1 DEF FedInv
<1>2. CASE Killed
  BY <1>2 DEF Killed, NewProcess, FedInv
<1>3. CASE RemoveOldest \/ Rename \/ OpenFresh \/ Log \/ FileBegin \/ FileDrop
  BY <1>1, <1>3 DEF RemoveOldest, Rename, OpenFresh, Log, FileBegin, FileDrop
<1>4. CASE DupStderr
  BY <1>4, LogFields DEF DupStderr, FedInv
<1>5. CASE FileOpened
  BY <1>5 DEF FileOpened, FedInv
<1>6. CASE StartCapture
  BY <1>6, LogFields DEF StartCapture, InitOrder, FedInv
<1>7. CASE ForeignWrite
  <2> DEFINE l == [from |-> "stderr", n |-> spent.lines]
             x == <<[of |-> l, end |-> FALSE], [of |-> l, end |-> TRUE]>>
  <2>1. pipe' = [pipe EXCEPT !.pieces = @ \o x] /\ UNCHANGED <<logAt, stderrTo, seenLines>>
    BY <1>7 DEF ForeignWrite
  <2>2. x \in Seq(Piece) /\ \A i \in 1..Len(x) : x[i].of.from = "stderr"
    <3>1. l \in Line
      BY <1>7, LineOf DEF ForeignWrite
    <3> QED
      BY <3>1 DEF Piece
  <2> HIDE DEF x
  <2> DEFINE h == pipe.pieces \o x
  <2>3. pipe'.pieces = h /\ pipe.pieces \in Seq(Piece)
    BY <2>1, LogFields
  <2>4. /\ Len(h) = Len(pipe.pieces) + Len(x)
        /\ \A k \in 1..Len(h) :
             h[k] = IF k <= Len(pipe.pieces) THEN pipe.pieces[k] ELSE x[k - Len(pipe.pieces)]
    BY <2>2, <2>3, ConcatIs
  <2> HIDE DEF h
  <2>5. Len(pipe.pieces) \in Nat /\ Len(x) \in Nat
    BY <2>2, <2>3
  <2>6. ASSUME NEW k \in 1..Len(h) PROVE h[k].of.from = "stderr"
    <3>1. CASE k <= Len(pipe.pieces)
      BY <2>4, <2>5, <3>1 DEF FedInv
    <3>2. CASE ~(k <= Len(pipe.pieces))
      <4>1. k - Len(pipe.pieces) \in 1..Len(x)
        BY <2>4, <2>5, <3>2
      <4> QED
        BY <2>2, <2>4, <3>2, <4>1
    <3> QED
      BY <3>1, <3>2
  <2> QED
    BY <2>1, <2>3, <2>6 DEF FedInv
<1>8. CASE CaptureRead
  <2>1. /\ pipe.pieces # <<>> /\ pipe'.pieces = Tail(pipe.pieces)
        /\ seenLines' = [seenLines EXCEPT !.fed =
                           @ \/ (Head(pipe.pieces).end /\ Head(pipe.pieces).of.from = "app")]
        /\ UNCHANGED <<logAt, stderrTo>>
    BY <1>8 DEF CaptureRead
  <2>2. pipe.pieces \in Seq(Piece)
    BY LogFields
  <2>3. Head(pipe.pieces).of.from = "stderr"
    BY <2>1, <2>2 DEF FedInv
  <2>4. \A i \in 1..Len(pipe'.pieces) : pipe'.pieces[i].of.from = "stderr"
    BY <2>1, <2>2 DEF FedInv
  <2>5. ~seenLines'.fed
    BY <2>1, <2>3, LogFields DEF FedInv
  <2> QED
    BY <2>1, <2>4, <2>5 DEF FedInv
<1>9. CASE ConsoleWrite
  BY <1>9 DEF ConsoleWrite, FedInv
<1>10. CASE FileWrite
  <2>1. UNCHANGED <<logAt, stderrTo, pipe>> /\ seenLines'.fed = seenLines.fed
    BY <1>10, LogFields DEF FileWrite
  <2> QED
    BY <2>1 DEF FedInv
<1> QED
  BY <1>1, <1>2, <1>3, <1>4, <1>5, <1>6, <1>7, <1>8, <1>9, <1>10 DEF LogNext, logVars

LEMMA EmptiedStep ==
  ASSUME LogTypes, Emptied, [LogNext]_logVars
  PROVE  Emptied'
<1>1. CASE UNCHANGED <<disk, rotating>>
  BY <1>1 DEF Emptied, Hole
<1>2. CASE rotating'.at \notin {"move", "open"}
  BY <1>2 DEF Emptied
<1>3. CASE RemoveOldest
  <2>1. /\ rotating'.at = "move" /\ rotating'.i + 1 = MaxBackups /\ MaxBackups \in Slots
        /\ disk' = [disk EXCEPT ![MaxBackups] = NoFile]
    BY <1>3, LogAssumption DEF RemoveOldest, Slots
  <2>2. disk'[MaxBackups] = NoFile
    BY <2>1, LogFields
  <2> QED
    BY <2>1, <2>2 DEF Emptied, Hole
<1>4. CASE Rename
  <2> DEFINE i == rotating.i
  <2>1. i \in Slots /\ i + 1 \in Slots /\ i + 1 # i /\ i \in Nat
    BY LogFields, LogAssumption DEF Slots
  <2>2. disk'[i] = NoFile \/ rotating' = Done("failed")
    BY <1>4, <2>1, LogFields DEF Rename, Moved
  <2>3. rotating' = NextMove(i) \/ rotating' = Done("failed")
    BY <1>4 DEF Rename
  <2> HIDE DEF i
  <2>4. CASE rotating' = NextMove(i) /\ disk'[i] = NoFile
    <3>1. CASE i = 0
      BY <2>4, <3>1 DEF NextMove, Done, Emptied, Hole
    <3>2. CASE i # 0
      <4>1. rotating'.at = "move" /\ rotating'.i + 1 = i
        BY <2>1, <2>4, <3>2 DEF NextMove
      <4> QED
        BY <2>4, <4>1 DEF Emptied, Hole
    <3> QED
      BY <3>1, <3>2
  <2>5. CASE rotating' = Done("failed")
    BY <2>5 DEF Done, Emptied
  <2> QED
    BY <2>2, <2>3, <2>4, <2>5
<1>5. CASE Killed \/ OpenFresh \/ DupStderr \/ FileOpened \/ FileBegin \/ FileWrite \/ FileDrop
  <2>1. rotating'.at \notin {"move", "open"}
    BY <1>5 DEF Killed, NewProcess, OpenFresh, DupStderr, FileOpened, FileBegin, FileWrite, FileDrop, Done
  <2> QED
    BY <1>2, <2>1
<1>6. CASE StartCapture \/ Log \/ ForeignWrite \/ CaptureRead \/ ConsoleWrite
  BY <1>1, <1>6 DEF StartCapture, Log, ForeignWrite, CaptureRead, ConsoleWrite
<1> QED
  BY <1>1, <1>3, <1>4, <1>5, <1>6 DEF LogNext, logVars

-----------------------------------------------------------------------------
(* Where the files lie in what was written, step by step.                   *)

LEMMA NewPlaces ==
  ASSUME NEW at, at \in [Ends -> 0..Len(seenLines'.written)], Placed(at)',
         spent'.faults = 0 /\ spent'.kills = 0 => Unharmed(at)'
  PROVE  FilesInv'
BY DEF FilesInv, Ends

LEMMA StillPlaced ==
  ASSUME NEW at, Placed(at), \A i \in Slots : Content(i)' = Content(i),
         seenLines'.written = seenLines.written
  PROVE  Placed(at)'
<1>1. Slots' = Slots
  BY DEF Slots
<1> HIDE DEF Content
<1> QED
  BY <1>1 DEF Placed

(* The places of two neighbours, and the lines between.                     *)
LEMMA PlaceOf ==
  ASSUME LogTypes, NEW at, at \in [Ends -> 0..Len(seenLines.written)], Placed(at), NEW i \in Slots
  PROVE  /\ i \in Ends /\ i + 1 \in Ends /\ i \in Nat /\ MaxBackups + 1 \in Ends
         /\ at[i] \in Nat /\ at[i + 1] \in Nat /\ at[i] = at[i + 1] + Len(Content(i))
         /\ at[i] <= Len(seenLines.written) /\ Len(Content(i)) \in Nat
<1>1. i \in Ends /\ i + 1 \in Ends /\ i \in Nat /\ MaxBackups + 1 \in Ends
  BY LogAssumption DEF Slots, Ends
<1>2. Len(seenLines.written) \in Nat /\ Len(Content(i)) \in Nat
  BY Contents, LogFields DEF LogLines
<1>3. at[i] \in 0..Len(seenLines.written) /\ at[i + 1] \in 0..Len(seenLines.written)
  BY <1>1
<1>4. at[i] = at[i + 1] + Len(Content(i))
  BY DEF Placed
<1> QED
  BY <1>1, <1>2, <1>3, <1>4

LEMMA LinesAre ==
  ASSUME NEW at, NEW k \in 1..(MaxBackups + 1)
  PROVE  \/ k = MaxBackups + 1 /\ Lines(at, k) = at[k] /\ Lines(at, k)' = at[k]
         \/ /\ k # MaxBackups + 1 /\ k \in Slots
            /\ Lines(at, k) = Len(Content(k)) /\ Lines(at, k)' = Len(Content(k)')
BY LogAssumption DEF Lines, Slots

LEMMA SlotsBefore ==
  ASSUME NEW k \in 1..(MaxBackups + 1), NEW j \in 0..(k - 1)
  PROVE  j \in Slots /\ j \in Nat /\ k \in Nat
BY LogAssumption DEF Slots

(* Nothing moves: the files stay, and the slot they leave empty.            *)
LEMMA StillFull ==
  ASSUME NEW at, FullBefore(at), \A i \in Slots : Content(i)' = Content(i),
         \A j \in Slots : j = Hole => j = Hole' \/ Len(Content(j)) = FileLimit
  PROVE  FullBefore(at)'
<1> SUFFICES ASSUME NEW k \in 1..(MaxBackups + 1), Lines(at, k)' > 0, NEW j \in 0..(k - 1), j # Hole'
             PROVE  Len(Content(j)') = FileLimit
  BY DEF FullBefore
<1>1. Lines(at, k) > 0
  BY LinesAre
<1>2. j \in Slots
  BY SlotsBefore
<1>3. CASE j # Hole
  BY <1>1, <1>2, <1>3 DEF FullBefore
<1>4. CASE j = Hole
  BY <1>2, <1>4
<1> QED
  BY <1>3, <1>4

LEMMA FilesKept ==
  ASSUME FilesInv, UNCHANGED <<disk, file, rotating, logAt>>,
         seenLines'.written = seenLines.written,
         spent'.faults = spent.faults, spent'.kills = spent.kills
  PROVE  FilesInv'
<1>1. PICK at \in [Ends -> 0..Len(seenLines.written)] :
        Placed(at) /\ (spent.faults = 0 /\ spent.kills = 0 => Unharmed(at))
  BY DEF FilesInv
<1>2. \A i : Content(i)' = Content(i)
  BY DEF Content
<1>3. Hole' = Hole /\ AtFirst' = AtFirst
  BY DEF Hole, AtFirst, Content
<1>4. \A k : Lines(at, k)' = Lines(at, k)
  BY <1>2 DEF Lines
<1>5. Placed(at)'
  BY <1>1, <1>2, StillPlaced
<1>6. ASSUME Unharmed(at) PROVE Unharmed(at)'
  <2>1. FullBefore(at)'
    BY <1>2, <1>3, <1>6, StillFull DEF Unharmed
  <2> HIDE DEF Lines, AtFirst, FullBefore
  <2> QED
    BY <1>3, <1>4, <1>6, <2>1 DEF Unharmed, Ends
<1> QED
  BY <1>1, <1>5, <1>6, NewPlaces

LEMMA FilesKilled ==
  ASSUME LogTypes, FilesInv, Killed
  PROVE  FilesInv'
<1>1. PICK at \in [Ends -> 0..Len(seenLines.written)] : Placed(at)
  BY DEF FilesInv
<1>2. disk' = disk /\ seenLines' = seenLines /\ spent'.kills # 0
  BY LogFields DEF Killed
<1>3. Placed(at)'
  BY <1>1, <1>2, StillPlaced DEF Content
<1> QED
  BY <1>1, <1>2, <1>3, NewPlaces

(* A fault: nothing is promised of what was lost, and nothing moves.        *)
LEMMA FilesFailed ==
  ASSUME LogTypes, FilesInv, Fails, UNCHANGED <<disk, seenLines>>
  PROVE  FilesInv'
<1>1. PICK at \in [Ends -> 0..Len(seenLines.written)] : Placed(at)
  BY DEF FilesInv
<1>2. spent'.faults # 0
  BY LogFields DEF Fails
<1>3. Placed(at)'
  BY <1>1, StillPlaced DEF Content
<1> QED
  BY <1>1, <1>2, <1>3, NewPlaces

(* The steps that neither move nor write: of these a failed rotation has    *)
(* seen a fault.                                                            *)
LEMMA FilesStay ==
  ASSUME LogTypes, OpenInv, FilesInv,
         DupStderr \/ FileOpened \/ FileBegin \/ FileDrop
  PROVE  FilesInv'
<1>1. PICK at \in [Ends -> 0..Len(seenLines.written)] :
        Placed(at) /\ (spent.faults = 0 /\ spent.kills = 0 => Unharmed(at))
  BY DEF FilesInv
<1>2. UNCHANGED <<disk, file, seenLines, spent>>
  BY DEF DupStderr, FileOpened, FileBegin, FileDrop
<1>3. \A i : Content(i)' = Content(i)
  BY <1>2 DEF Content
<1>4. AtFirst' = AtFirst /\ \A k : Lines(at, k)' = Lines(at, k)
  BY <1>2, <1>3 DEF AtFirst, Lines
<1>5. Placed(at)'
  BY <1>1, <1>2, <1>3, StillPlaced
<1>6. ASSUME Unharmed(at) PROVE Unharmed(at)'
  <2>1. CASE DupStderr
    <3>1. logAt = "start" /\ rotating'.at = "remove"
      BY <2>1 DEF DupStderr, Done
    <3>2. \A k \in Ends : Lines(at, k) = 0
      BY <1>6, <3>1 DEF Unharmed
    <3>3. FullBefore(at)'
      <4>1. \A k \in 1..(MaxBackups + 1) : k \in Ends
        BY DEF Ends
      <4> HIDE DEF Lines
      <4> QED
        BY <1>4, <3>2, <4>1 DEF FullBefore
    <3> HIDE DEF Lines, AtFirst, FullBefore
    <3> QED
      BY <1>4, <3>1, <3>2, <3>3 DEF Unharmed, Ends
  <2>2. CASE FileOpened
    <3>1. /\ rotating.at = "opened" /\ rotating'.at = "no" /\ logAt' = "both" /\ AtFirst
      <4>1. rotating.at = "opened"
        BY <1>6, <2>2 DEF FileOpened, Unharmed
      <4> QED
        BY <2>2, <4>1 DEF FileOpened, Done, OpenInv
    <3>2. Hole' = Hole
      BY <3>1 DEF Hole
    <3>3. FullBefore(at)'
      BY <1>3, <1>6, <3>2, StillFull DEF Unharmed
    <3> HIDE DEF Lines, AtFirst, FullBefore
    <3> QED
      BY <1>4, <3>1, <3>3 DEF Unharmed
  <2>3. CASE FileBegin
    <3>1. /\ logAt = "both" /\ logAt' = "both" /\ rotating.at = "no" /\ rotating'.at = "remove" /\ Due
      BY <2>3 DEF FileBegin, Done
    <3>2. AtFirst
      BY <1>6, <3>1 DEF Unharmed
    <3>3. Len(Content(0)) = FileLimit
      BY <3>1, <3>2, LogAssumption, LogFields DEF Due, AtFirst
    <3>4. Hole = 0
      BY <3>1 DEF Hole
    <3>5. FullBefore(at)'
      BY <1>3, <1>6, <3>3, <3>4, StillFull DEF Unharmed
    <3> HIDE DEF Lines, AtFirst, FullBefore
    <3> QED
      BY <3>1, <3>5 DEF Unharmed
  <2>4. CASE FileDrop
    BY <1>6, <2>4 DEF FileDrop, Unharmed
  <2> QED
    BY <2>1, <2>2, <2>3, <2>4
<1> QED
  BY <1>1, <1>2, <1>5, <1>6, NewPlaces

LEMMA FilesOpened ==
  ASSUME LogTypes, Emptied, FilesInv, OpenFresh
  PROVE  FilesInv'
<1>1. CASE Fails /\ disk' = disk
  <2>1. seenLines' = seenLines
    BY DEF OpenFresh
  <2> QED
    BY <1>1, <2>1, FilesFailed
<1>2. CASE disk' = [disk EXCEPT ![0] = <<>>] /\ rotating' = Done("opened") /\ spent' = spent
  <2>1. PICK at \in [Ends -> 0..Len(seenLines.written)] :
          Placed(at) /\ (spent.faults = 0 /\ spent.kills = 0 => Unharmed(at))
    BY DEF FilesInv
  <2>2. /\ rotating.at = "open" /\ rotating'.at = "opened" /\ logAt' = logAt /\ seenLines' = seenLines
        /\ disk[0] = NoFile
    BY <1>2 DEF OpenFresh, Done, Emptied, Hole
  <2>3. \A i \in Slots : Content(i)' = Content(i)
    <3>1. <<>> # NoFile
      <4>1. <<>> \in LogLines
        BY DEF LogLines
      <4> QED
        BY <4>1, LinesFound
    <3> QED
      BY <1>2, <2>2, <3>1, LogFields DEF Content
  <2>4. Hole' = Hole
    BY <2>2 DEF Hole
  <2>5. Placed(at)'
    BY <2>1, <2>2, <2>3, StillPlaced
  <2>6. ASSUME Unharmed(at) PROVE Unharmed(at)'
    <3>1. FullBefore(at)'
      BY <2>3, <2>4, <2>6, StillFull DEF Unharmed
    <3>2. ASSUME NEW k \in Ends PROVE Lines(at, k)' = Lines(at, k)
      <4>1. k = MaxBackups + 1 \/ k \in Slots
        BY LogAssumption DEF Ends, Slots
      <4> QED
        BY <2>3, <4>1 DEF Lines
    <3> HIDE DEF Lines, FullBefore
    <3> QED
      BY <2>2, <2>6, <3>1, <3>2 DEF Unharmed, Ends
  <2> QED
    BY <1>2, <2>1, <2>2, <2>5, <2>6, NewPlaces
<1> QED
  BY <1>1, <1>2 DEF OpenFresh

(* The oldest file goes: what was written ends one file later.              *)
LEMMA FilesRemoved ==
  ASSUME LogTypes, FilesInv, RemoveOldest
  PROVE  FilesInv'
<1> DEFINE M == MaxBackups
<1>1. PICK at \in [Ends -> 0..Len(seenLines.written)] :
        Placed(at) /\ (spent.faults = 0 /\ spent.kills = 0 => Unharmed(at))
  BY DEF FilesInv
<1> DEFINE to == [at EXCEPT ![M + 1] = at[M]]
<1>2. /\ rotating.at = "remove" /\ rotating'.at = "move" /\ rotating'.i + 1 = M /\ M \in Slots
      /\ M \in Nat /\ M > 0
      /\ disk' = [disk EXCEPT ![M] = NoFile] /\ UNCHANGED <<logAt, seenLines, spent>>
  <2>1. M \in Slots /\ M \in Nat /\ M > 0 /\ (M - 1) + 1 = M
    BY LogAssumption DEF Slots
  <2> QED
    BY <2>1 DEF RemoveOldest
<1>3. Content(M)' = <<>> /\ \A i \in Slots : i # M => Content(i)' = Content(i)
  BY <1>2, LogFields DEF Content
<1>4. /\ M \in Ends /\ M + 1 \in Ends /\ at[M] \in 0..Len(seenLines.written)
      /\ at[M] \in Nat /\ at[M + 1] \in Nat /\ at[M] = at[M + 1] + Len(Content(M))
      /\ Len(Content(M)) \in Nat
  BY <1>1, <1>2, PlaceOf DEF Ends
<1>5. /\ to \in [Ends -> 0..Len(seenLines'.written)]
      /\ to[M + 1] = at[M] /\ \A i \in Ends : i # M + 1 => to[i] = at[i]
  BY <1>2, <1>4
<1> HIDE DEF to, M
<1>6. Placed(to)'
  <2>1. to[0] = Len(seenLines'.written)
    <3>1. 0 \in Ends /\ 0 # M + 1
      BY <1>2 DEF Ends, M
    <3> QED
      BY <1>1, <1>2, <1>5, <3>1 DEF Placed
  <2>2. ASSUME NEW i \in Slots
        PROVE  /\ to[i] = to[i + 1] + Len(Content(i)')
               /\ \A k \in 1..Len(Content(i)') : Content(i)'[k] = seenLines'.written[to[i + 1] + k]
    <3>1. i \in Ends /\ i + 1 \in Ends /\ i # M + 1 /\ (i # M => i + 1 # M + 1) /\ at[i] \in Nat
      <4>1. i \in Nat /\ i <= M
        BY DEF Slots, M
      <4> QED
        BY <1>1, <1>2, <4>1, PlaceOf
    <3>2. CASE i = M
      <4>1. to[i] = at[M] /\ to[i + 1] = at[M] /\ Len(Content(i)') = 0
        BY <1>3, <1>5, <3>1, <3>2
      <4> QED
        BY <1>4, <4>1
    <3>3. CASE i # M
      <4>1. to[i] = at[i] /\ to[i + 1] = at[i + 1] /\ Content(i)' = Content(i)
        BY <1>3, <1>5, <3>1, <3>3
      <4> HIDE DEF Content
      <4> QED
        BY <1>1, <1>2, <4>1 DEF Placed
    <3> QED
      BY <3>2, <3>3
  <2>3. Slots' = Slots
    BY DEF Slots
  <2> HIDE DEF Content
  <2> QED
    BY <2>1, <2>2, <2>3 DEF Placed
<1>7. ASSUME Unharmed(at) PROVE Unharmed(to)'
  <2>1. Hole = -1 /\ Hole' = M
    BY <1>2 DEF Hole
  <2>2. FullBefore(to)'
    <3> SUFFICES ASSUME NEW k \in 1..(MaxBackups + 1), Lines(to, k)' > 0, NEW j \in 0..(k - 1), j # M
                 PROVE  Len(Content(j)') = FileLimit
      BY <2>1 DEF FullBefore
    <3>1. j \in Slots /\ j # -1 /\ k \in Nat /\ j \in Nat /\ M + 1 \in 1..(MaxBackups + 1)
          /\ M \in 1..(MaxBackups + 1) /\ j <= k - 1
      BY <1>2, SlotsBefore DEF M
    <3>2. Content(j)' = Content(j)
      BY <1>3, <3>1
    <3>3. CASE k = M + 1
      <4>1. at[M] > 0
        BY <1>5, <3>3, LinesAre DEF M
      <4>2. Lines(at, M + 1) = at[M + 1] /\ Lines(at, M) = Len(Content(M))
        BY <1>2 DEF Lines, M
      <4>3. Lines(at, M + 1) > 0 \/ Lines(at, M) > 0
        BY <1>4, <4>1, <4>2
      <4>4. j \in 0..(M + 1 - 1) /\ j \in 0..(M - 1)
        BY <1>2, <3>1, <3>3
      <4> QED
        BY <1>7, <2>1, <3>1, <3>2, <4>3, <4>4 DEF Unharmed, FullBefore
    <3>4. CASE k # M + 1
      <4>1. k \in Slots /\ Lines(to, k)' = Len(Content(k)') /\ Lines(at, k) = Len(Content(k))
        BY <3>4, LinesAre DEF M
      <4>2. k # M
        BY <1>3, <4>1
      <4>3. Lines(at, k) > 0
        BY <1>3, <4>1, <4>2
      <4> QED
        BY <1>7, <2>1, <3>1, <3>2, <4>3 DEF Unharmed, FullBefore
    <3> QED
      BY <3>3, <3>4
  <2>3. ASSUME logAt' \in {"start", "file"}, NEW k \in Ends PROVE Lines(to, k)' = 0
    <3>1. \A e \in Ends : Lines(at, e) = 0
      BY <1>2, <1>7, <2>3 DEF Unharmed
    <3>2. Lines(at, M + 1) = at[M + 1] /\ Lines(at, M) = Len(Content(M))
      BY <1>2 DEF Lines, M
    <3>3. at[M] = 0
      BY <1>4, <3>1, <3>2
    <3>4. CASE k = M + 1
      BY <1>5, <3>3, <3>4 DEF Lines, M
    <3>5. CASE k # M + 1
      <4>1. k \in Slots /\ Lines(to, k)' = Len(Content(k)') /\ Lines(at, k) = Len(Content(k))
        BY <1>2, <3>5 DEF Lines, M, Ends, Slots
      <4> QED
        BY <1>3, <3>1, <4>1
    <3> QED
      BY <3>4, <3>5
  <2>4. Ends' = Ends
    BY DEF Ends
  <2> HIDE DEF Lines, FullBefore, AtFirst
  <2> QED
    BY <1>2, <2>2, <2>3, <2>4 DEF Unharmed
<1> QED
  BY <1>1, <1>2, <1>5, <1>6, <1>7, NewPlaces

(* A rename over a missing file: the slot above is empty, as it was, so the *)
(* files above it are, too.                                                 *)
LEMMA FilesSkipped ==
  ASSUME LogTypes, Emptied, FilesInv, rotating.at = "move", disk[rotating.i] = NoFile,
         UNCHANGED <<disk, file, logAt, seenLines, spent>>, rotating' = NextMove(rotating.i)
  PROVE  FilesInv'
<1> DEFINE i == rotating.i
<1>1. PICK at \in [Ends -> 0..Len(seenLines.written)] :
        Placed(at) /\ (spent.faults = 0 /\ spent.kills = 0 => Unharmed(at))
  BY DEF FilesInv
<1>2. i \in Nat /\ i \in Slots /\ i + 1 \in Slots
  BY LogFields, LogAssumption DEF Slots
<1>3. Hole = i + 1 /\ Hole' = i /\ rotating'.at \in {"move", "open"}
  <2>1. rotating' = NextMove(i) /\ rotating.at = "move"
    OBVIOUS
  <2>2. Hole = i + 1
    BY DEF Hole
  <2> HIDE DEF i
  <2> QED
    BY <1>2, <2>1, <2>2 DEF Hole, NextMove, Done
<1>4. \A j : Content(j)' = Content(j)
  BY DEF Content
<1>5. Len(Content(i)) = 0 /\ Len(Content(i + 1)) = 0
  BY <1>3 DEF Content, Emptied
<1> HIDE DEF i
<1>6. Placed(at)'
  BY <1>1, <1>4, StillPlaced
<1>7. ASSUME Unharmed(at) PROVE Unharmed(at)'
  <2>1. FullBefore(at)'
    <3> SUFFICES ASSUME NEW k \in 1..(MaxBackups + 1), Lines(at, k)' > 0, NEW j \in 0..(k - 1), j # i
                 PROVE  Len(Content(j)') = FileLimit
      BY <1>3 DEF FullBefore
    <3>1. Lines(at, k) > 0 /\ k \in Nat /\ j \in Nat /\ j <= k - 1
      BY <1>4, LinesAre, SlotsBefore
    <3>2. j # i + 1
      <4>1. SUFFICES ASSUME j = i + 1 PROVE FALSE
        OBVIOUS
      <4>2. i \in 0..(k - 1) /\ i # i + 1
        BY <1>2, <3>1, <4>1
      <4>3. Len(Content(i)) = FileLimit
        BY <1>3, <1>7, <3>1, <4>2 DEF Unharmed, FullBefore
      <4> QED
        BY <1>5, <4>3, LogAssumption
    <3> QED
      BY <1>3, <1>4, <1>7, <3>1, <3>2 DEF Unharmed, FullBefore
  <2>2. \A k : Lines(at, k)' = Lines(at, k)
    BY <1>4 DEF Lines
  <2>3. Ends' = Ends
    BY DEF Ends
  <2> HIDE DEF Lines, FullBefore, AtFirst
  <2> QED
    BY <1>3, <1>7, <2>1, <2>2, <2>3 DEF Unharmed
<1> QED
  BY <1>1, <1>6, <1>7, NewPlaces

(* A file moves into the empty slot above it.                               *)
LEMMA FilesMoved ==
  ASSUME LogTypes, Emptied, FilesInv, rotating.at = "move", Moved(rotating.i),
         UNCHANGED <<logAt, seenLines, spent>>, rotating' = NextMove(rotating.i)
  PROVE  FilesInv'
<1> DEFINE M == MaxBackups
<1>0. PICK i \in Nat : i = rotating.i
  BY LogFields
<1>1. PICK at \in [Ends -> 0..Len(seenLines.written)] :
        Placed(at) /\ (spent.faults = 0 /\ spent.kills = 0 => Unharmed(at))
  BY DEF FilesInv
<1> DEFINE to == [at EXCEPT ![i + 1] = at[i]]
<1>2. i \in Nat /\ i \in Slots /\ i + 1 \in Slots /\ i + 1 # i /\ M \in Nat /\ i <= M - 1
  BY <1>0, LogFields, LogAssumption DEF Slots
<1>3. Hole = i + 1 /\ Hole' = i /\ rotating'.at \in {"move", "open"}
  <2>1. rotating' = NextMove(i) /\ rotating.at = "move"
    BY <1>0
  <2>2. Hole = i + 1
    BY <1>0 DEF Hole
  <2> QED
    BY <1>2, <2>1, <2>2 DEF Hole, NextMove, Done
<1>4. Len(Content(i + 1)) = 0
  BY <1>3 DEF Content, Emptied
<1>5. disk' = [disk EXCEPT ![i + 1] = disk[i], ![i] = NoFile]
  BY <1>0 DEF Moved
<1>6. /\ Content(i + 1)' = Content(i) /\ Content(i)' = <<>>
      /\ \A j \in Slots : j # i /\ j # i + 1 => Content(j)' = Content(j)
  BY <1>2, <1>5, LogFields DEF Content
<1>7. /\ i \in Ends /\ i + 1 \in Ends /\ (i + 1) + 1 \in Ends /\ at[i] \in 0..Len(seenLines.written)
      /\ at[i] \in Nat /\ at[i + 1] \in Nat /\ at[(i + 1) + 1] \in Nat
      /\ at[i] = at[i + 1] + Len(Content(i)) /\ at[i + 1] = at[(i + 1) + 1]
      /\ Len(Content(i)) \in Nat
  <2>1. /\ i \in Ends /\ at[i] \in Nat /\ at[i + 1] \in Nat /\ at[i] = at[i + 1] + Len(Content(i))
        /\ Len(Content(i)) \in Nat
    BY <1>1, <1>2, PlaceOf
  <2>2. /\ i + 1 \in Ends /\ (i + 1) + 1 \in Ends /\ at[(i + 1) + 1] \in Nat
        /\ at[i + 1] = at[(i + 1) + 1] + Len(Content(i + 1))
    BY <1>1, <1>2, PlaceOf
  <2>3. at[i] \in 0..Len(seenLines.written)
    BY <2>1
  <2> HIDE DEF Content
  <2> QED
    BY <1>4, <2>1, <2>2, <2>3
<1>8. /\ to \in [Ends -> 0..Len(seenLines'.written)]
      /\ to[i + 1] = at[i] /\ \A j \in Ends : j # i + 1 => to[j] = at[j]
  BY <1>7
<1> HIDE DEF to, M
<1>9. Placed(to)'
  <2>1. to[0] = Len(seenLines'.written)
    <3>1. 0 \in Ends /\ 0 # i + 1
      BY <1>2 DEF Ends, M
    <3> QED
      BY <1>1, <1>8, <3>1 DEF Placed
  <2>2. ASSUME NEW j \in Slots
        PROVE  /\ to[j] = to[j + 1] + Len(Content(j)')
               /\ \A k \in 1..Len(Content(j)') : Content(j)'[k] = seenLines'.written[to[j + 1] + k]
    <3>1. j \in Ends /\ j + 1 \in Ends /\ j \in Nat /\ at[j] \in Nat /\ (j # i => j + 1 # i + 1)
      BY <1>1, <1>2, PlaceOf
    <3>2. CASE j = i + 1
      <4>1. /\ to[j] = at[i] /\ to[j + 1] = at[i + 1] /\ Content(j)' = Content(i)
        BY <1>2, <1>6, <1>7, <1>8, <3>1, <3>2
      <4>2. \A k \in 1..Len(Content(i)) : Content(i)[k] = seenLines.written[at[i + 1] + k]
        BY <1>1, <1>2 DEF Placed
      <4> HIDE DEF Content
      <4> QED
        BY <1>7, <4>1, <4>2
    <3>3. CASE j = i
      <4>1. to[j] = at[i] /\ to[j + 1] = at[i] /\ Len(Content(j)') = 0
        BY <1>2, <1>6, <1>7, <1>8, <3>3
      <4> QED
        BY <1>7, <4>1
    <3>4. CASE j # i /\ j # i + 1
      <4>1. to[j] = at[j] /\ to[j + 1] = at[j + 1] /\ Content(j)' = Content(j)
        BY <1>6, <1>8, <3>1, <3>4
      <4> HIDE DEF Content
      <4> QED
        BY <1>1, <4>1 DEF Placed
    <3> QED
      BY <3>2, <3>3, <3>4
  <2>3. Slots' = Slots
    BY DEF Slots
  <2> HIDE DEF Content
  <2> QED
    BY <2>1, <2>2, <2>3 DEF Placed
<1>10. ASSUME Unharmed(at) PROVE Unharmed(to)'
  <2>0. to[M + 1] = at[M + 1] /\ M + 1 # i + 1
    <3>1. M + 1 \in Ends /\ M + 1 # i + 1
      BY <1>2 DEF Ends, M
    <3> QED
      BY <1>8, <3>1
  <2>1. ASSUME NEW k \in 1..(MaxBackups + 1), k # i, k # i + 1
        PROVE  Lines(to, k)' = Lines(at, k)
    <3>1. CASE k = M + 1
      BY <2>0, <3>1 DEF Lines, M
    <3>2. CASE k # M + 1
      BY <1>6, <2>1, <3>2, LinesAre DEF M
    <3> QED
      BY <3>1, <3>2
  <2>2. FullBefore(to)'
    <3> SUFFICES ASSUME NEW k \in 1..(MaxBackups + 1), Lines(to, k)' > 0, NEW j \in 0..(k - 1), j # i
                 PROVE  Len(Content(j)') = FileLimit
      BY <1>3 DEF FullBefore
    <3>1. j \in Slots /\ k \in Nat /\ j \in Nat /\ j <= k - 1
      BY SlotsBefore
    <3>2. \A e \in 1..(MaxBackups + 1) : Lines(at, e) > 0 =>
            \A d \in 0..(e - 1) : d # i + 1 => Len(Content(d)) = FileLimit
      BY <1>3, <1>10 DEF Unharmed, FullBefore
    <3>3. k # i
      <4>1. SUFFICES ASSUME k = i PROVE FALSE
        OBVIOUS
      <4>2. Lines(to, k)' = Len(Content(i)')
        BY <1>2, <4>1 DEF Lines, M
      <4> QED
        BY <1>6, <4>2
    <3>4. CASE k = i + 1
      <4>1. Lines(to, k)' = Len(Content(i))
        BY <1>2, <1>6, <3>4 DEF Lines, M
      <4>2. j < i /\ Content(j)' = Content(j)
        BY <1>2, <1>6, <3>1, <3>4
      <4>3. i \in 1..(MaxBackups + 1) /\ Lines(at, i) = Len(Content(i)) /\ j \in 0..(i - 1) /\ j # i + 1
        BY <1>2, <3>1, <4>2 DEF Lines, M
      <4> QED
        BY <3>2, <4>1, <4>2, <4>3
    <3>5. CASE k # i + 1
      <4>1. Lines(at, k) > 0
        BY <2>1, <3>3, <3>5
      <4>2. CASE j = i + 1
        <5>1. i \in 0..(k - 1)
          BY <1>2, <3>1, <4>2
        <5> QED
          BY <1>2, <1>6, <3>2, <4>1, <4>2, <5>1
      <4>3. CASE j # i + 1
        BY <1>6, <3>1, <3>2, <4>1, <4>3
      <4> QED
        BY <4>2, <4>3
    <3> QED
      BY <3>4, <3>5
  <2>3. ASSUME logAt' \in {"start", "file"}, NEW k \in Ends PROVE Lines(to, k)' = 0
    <3>1. \A e \in Ends : Lines(at, e) = 0
      BY <1>10, <2>3 DEF Unharmed
    <3>2. Lines(at, i) = Len(Content(i))
      BY <1>2 DEF Lines, M
    <3>3. Len(Content(i)) = 0
      BY <1>7, <3>1, <3>2
    <3>4. CASE k = M + 1
      BY <2>0, <3>1, <3>4, <1>7 DEF Lines, M
    <3>5. CASE k # M + 1
      <4>1. k \in Slots /\ Lines(to, k)' = Len(Content(k)') /\ Lines(at, k) = Len(Content(k))
        BY <1>2, <3>5 DEF Lines, M, Ends, Slots
      <4> QED
        BY <1>6, <3>1, <3>3, <4>1
    <3> QED
      BY <3>4, <3>5
  <2>4. Ends' = Ends
    BY DEF Ends
  <2> HIDE DEF Lines, FullBefore, AtFirst
  <2> QED
    BY <1>3, <2>2, <2>3, <2>4 DEF Unharmed
<1> QED
  BY <1>1, <1>8, <1>9, <1>10, NewPlaces

(* A write makes the first file and what was written longer by a line.      *)
LEMMA FilesWritten ==
  ASSUME LogTypes, OpenInv, FilesInv, FileWrite
  PROVE  FilesInv'
<1>1. PICK at \in [Ends -> 0..Len(seenLines.written)] :
        Placed(at) /\ (spent.faults = 0 /\ spent.kills = 0 => Unharmed(at))
  BY DEF FilesInv
<1> DEFINE to == [at EXCEPT ![0] = @ + 1]
<1>2. PICK l \in Line : l = Head(channels.file)
  BY LogFields, FirstOf DEF FileWrite, LogLines
<1> DEFINE w == seenLines.written
           v == Append(w, l)
           c == Content(0)
           d == Append(c, l)
<1>3. /\ logAt = "both" /\ logAt' = "both" /\ rotating.at \in {"no", "opened"} /\ rotating'.at = "no"
      /\ AtFirst /\ spent' = spent /\ file.slot = 0
  <2>1. /\ logAt = "both" /\ logAt' = logAt /\ rotating'.at = "no" /\ spent' = spent
        /\ rotating.at = "opened" \/ (rotating.at = "no" /\ ~Due)
    BY DEF FileWrite, Done
  <2>2. AtFirst
    BY <2>1 DEF OpenInv
  <2> QED
    BY <2>1, <2>2 DEF AtFirst
<1>4. seenLines'.written = v /\ v \in LogLines /\ w \in LogLines
  <2>1. seenLines' = [seenLines EXCEPT !.written = Append(@, l)]
    BY <1>2 DEF FileWrite
  <2> QED
    BY <2>1, LogFields DEF LogLines
<1>5. 0 \in Slots /\ 0 \in Ends /\ 0 + 1 \in Ends /\ c \in LogLines /\ Len(c) \in Nat
  BY LogAssumption, Contents DEF Slots, Ends
<1>6. /\ Content(0)' = d /\ d \in LogLines /\ d # NoFile
      /\ \A i \in Slots : i # 0 => Content(i)' = Content(i)
  <2>1. disk' = [disk EXCEPT ![0] = Append(@, l)]
    BY <1>2, <1>3 DEF FileWrite
  <2>2. c = disk[0]
    BY <1>3 DEF AtFirst, Content
  <2>3. d \in LogLines
    BY <1>5 DEF LogLines
  <2>4. d # NoFile
    <3> HIDE DEF d
    <3> QED
      BY <2>3, LinesFound
  <2>5. disk'[0] = d /\ \A i \in Slots : i # 0 => disk'[i] = disk[i]
    BY <1>5, <2>1, <2>2, LogFields
  <2> HIDE DEF c, d
  <2> QED
    BY <2>3, <2>4, <2>5 DEF Content
<1>7. /\ Len(w) \in Nat /\ Len(v) = Len(w) + 1 /\ v[Len(w) + 1] = l
      /\ \A k \in 1..Len(w) : v[k] = w[k]
  BY <1>4 DEF LogLines
<1>8. Len(d) = Len(c) + 1 /\ d[Len(c) + 1] = l /\ \A k \in 1..Len(c) : d[k] = c[k]
  BY <1>5 DEF LogLines
<1>9. at[0] = Len(w) /\ at[0] \in Nat
  BY <1>1, <1>7 DEF Placed
<1>10. /\ to \in [Ends -> 0..Len(v)] /\ to[0] = Len(v) /\ \A i \in Ends : i # 0 => to[i] = at[i]
  <2>1. at \in [Ends -> 0..Len(w)]
    OBVIOUS
  <2> HIDE DEF w, v
  <2> QED
    BY <1>5, <1>7, <1>9, <2>1
<1>11. AtFirst'
  <2>1. file' = [file EXCEPT !.bytes = @ + 1] /\ disk'[0] = d
    <3>1. disk' = [disk EXCEPT ![0] = Append(@, l)]
      BY <1>2, <1>3 DEF FileWrite
    <3>2. c = disk[0]
      BY <1>3 DEF AtFirst, Content
    <3> QED
      BY <1>5, <3>1, <3>2, LogFields DEF FileWrite
  <2>2. file'.slot = 0 /\ file'.bytes = Len(c) + 1
    BY <1>3, <2>1, LogFields DEF AtFirst
  <2> HIDE DEF c, d
  <2> QED
    BY <1>6, <1>8, <2>1, <2>2 DEF AtFirst
<1> HIDE DEF to, v, w, c, d
<1>12. Placed(to)'
  <2>1. ASSUME NEW i \in Slots
        PROVE  /\ to[i] = to[i + 1] + Len(Content(i)')
               /\ \A k \in 1..Len(Content(i)') : Content(i)'[k] = v[to[i + 1] + k]
    <3>1. /\ i \in Ends /\ i + 1 \in Ends /\ i \in Nat /\ i + 1 # 0 /\ at[i] \in Nat /\ at[i + 1] \in Nat
          /\ at[i] = at[i + 1] + Len(Content(i)) /\ at[i] <= Len(w) /\ Len(Content(i)) \in Nat
          /\ to[i + 1] = at[i + 1]
      <4>1. /\ i \in Ends /\ i + 1 \in Ends /\ i \in Nat /\ at[i] \in Nat /\ at[i + 1] \in Nat
            /\ at[i] = at[i + 1] + Len(Content(i)) /\ at[i] <= Len(w) /\ Len(Content(i)) \in Nat
        BY <1>1, PlaceOf DEF w
      <4>2. i + 1 # 0
        BY <4>1
      <4> QED
        BY <1>10, <4>1, <4>2
    <3>2. \A k \in 1..Len(Content(i)) : Content(i)[k] = w[at[i + 1] + k]
      BY <1>1 DEF Placed, w
    <3>3. \A k \in 1..Len(Content(i)) : at[i + 1] + k \in 1..Len(w)
      BY <3>1
    <3>4. \A k \in 1..Len(Content(i)) : Content(i)[k] = v[at[i + 1] + k]
      <4> HIDE DEF Content
      <4> QED
        BY <1>7, <3>2, <3>3
    <3>5. CASE i = 0
      <4>1. Content(i) = c /\ Content(i)' = d
        BY <1>6, <3>5 DEF c
      <4>2. to[i] = to[i + 1] + Len(d)
        <5>1. to[i] = at[i] + 1
          BY <1>7, <1>9, <1>10, <3>5
        <5> QED
          BY <1>5, <1>8, <3>1, <4>1, <5>1
      <4>3. ASSUME NEW k \in 1..Len(d) PROVE d[k] = v[to[i + 1] + k]
        <5>1. CASE k = Len(c) + 1
          <6>1. to[i + 1] + k = Len(w) + 1
            BY <1>5, <1>9, <3>1, <3>5, <4>1, <5>1
          <6> QED
            BY <1>7, <1>8, <5>1, <6>1
        <5>2. CASE k # Len(c) + 1
          <6>1. k \in 1..Len(c)
            BY <1>5, <1>8, <5>2
          <6> QED
            BY <1>8, <3>1, <3>4, <4>1, <6>1
        <5> QED
          BY <5>1, <5>2
      <4> QED
        BY <4>1, <4>2, <4>3
    <3>6. CASE i # 0
      <4>1. to[i] = at[i] /\ Content(i)' = Content(i)
        BY <1>6, <1>10, <3>1, <3>6
      <4> HIDE DEF Content
      <4> QED
        BY <3>1, <3>4, <4>1
    <3> QED
      BY <3>5, <3>6
  <2>2. Slots' = Slots
    BY DEF Slots
  <2> HIDE DEF Content
  <2> QED
    BY <1>4, <1>10, <2>1, <2>2 DEF Placed
<1>13. ASSUME Unharmed(at) PROVE Unharmed(to)'
  <2>1. Hole = 0 /\ Hole' = 0
    BY <1>3 DEF Hole
  <2>2. FullBefore(to)'
    <3> SUFFICES ASSUME NEW k \in 1..(MaxBackups + 1), Lines(to, k)' > 0, NEW j \in 0..(k - 1), j # 0
                 PROVE  Len(Content(j)') = FileLimit
      BY <2>1 DEF FullBefore
    <3>1. j \in Slots /\ k # 0 /\ k \in Ends
      BY SlotsBefore DEF Ends
    <3>2. Lines(at, k) > 0
      <4>1. to[k] = at[k] /\ (k \in Slots => Content(k)' = Content(k))
        BY <1>6, <1>10, <3>1
      <4> QED
        BY <4>1, LinesAre
    <3> QED
      BY <1>6, <1>13, <2>1, <3>1, <3>2 DEF Unharmed, FullBefore
  <2> HIDE DEF Lines, FullBefore, AtFirst
  <2> QED
    BY <1>3, <1>11, <2>2 DEF Unharmed
<1> QED
  BY <1>1, <1>3, <1>4, <1>10, <1>12, <1>13, NewPlaces

LEMMA FilesInvStep ==
  ASSUME LogTypes, OpenInv, Emptied, FilesInv, [LogNext]_logVars
  PROVE  FilesInv'
<1>1. CASE UNCHANGED logVars
  BY <1>1, FilesKept DEF logVars
<1>2. CASE Killed
  BY <1>2, FilesKilled
<1>3. CASE RemoveOldest
  BY <1>3, FilesRemoved
<1>4. CASE Rename
  <2>1. /\ rotating.at = "move" /\ UNCHANGED <<logAt, seenLines>>
        /\ \/ /\ disk[rotating.i] = NoFile /\ UNCHANGED <<disk, file, spent>>
              /\ rotating' = NextMove(rotating.i)
           \/ /\ Moved(rotating.i) /\ UNCHANGED spent /\ rotating' = NextMove(rotating.i)
           \/ Fails /\ UNCHANGED <<disk, file>>
    BY <1>4 DEF Rename
  <2> QED
    BY <2>1, FilesSkipped, FilesMoved, FilesFailed
<1>5. CASE OpenFresh
  BY <1>5, FilesOpened
<1>6. CASE DupStderr \/ FileOpened \/ FileBegin \/ FileDrop
  BY <1>6, FilesStay
<1>7. CASE StartCapture \/ Log \/ ForeignWrite \/ CaptureRead \/ ConsoleWrite
  <2>1. UNCHANGED <<disk, file, rotating, logAt>>
    BY <1>7 DEF StartCapture, Log, ForeignWrite, CaptureRead, ConsoleWrite
  <2>2. seenLines'.written = seenLines.written
    BY <1>7, LogFields DEF StartCapture, Log, ForeignWrite, CaptureRead, ConsoleWrite
  <2>3. spent'.faults = spent.faults /\ spent'.kills = spent.kills
    BY <1>7, LogFields DEF StartCapture, Log, ForeignWrite, CaptureRead, ConsoleWrite
  <2> QED
    BY <2>1, <2>2, <2>3, FilesKept
<1>8. CASE FileWrite
  BY <1>8, FilesWritten
<1> QED
  BY <1>1, <1>2, <1>3, <1>4, <1>5, <1>6, <1>7, <1>8 DEF LogNext

(* What the places say of the files is what is promised of them.            *)
LEMMA PlacesKeep ==
  ASSUME LogTypes, FilesInv
  PROVE  FilesInOrder /\ OnlyOldestLost
<1>1. PICK at \in [Ends -> 0..Len(seenLines.written)] :
        Placed(at) /\ (spent.faults = 0 /\ spent.kills = 0 => Unharmed(at))
  BY DEF FilesInv
<1>2. /\ IsSuffix(InFiles, seenLines.written)
      /\ Len(InFiles) = Len(seenLines.written) - at[MaxBackups + 1]
  BY <1>1, InFilesAre
<1>3. PICK n \in Nat : n = MaxBackups + 1 /\ n > 0 /\ MaxBackups \in Nat /\ FileLimit \in Nat
  BY LogAssumption
<1>4. at[0] = Len(seenLines.written) /\ at[0] \in Nat /\ at[n] \in Nat
  <2>1. 0 \in Ends /\ n \in Ends /\ Len(seenLines.written) \in Nat
    BY <1>3, LogFields DEF Ends, LogLines
  <2> QED
    BY <1>1, <1>3, <2>1 DEF Placed
<1>5. ASSUME Unharmed(at), at[n] # 0
      PROVE  at[0] >= at[n] + MaxBackups * FileLimit
  <2>1. \A j \in 0..(n - 1) : j # Hole => Len(Content(j)) = FileLimit
    <3>1. n \in 1..(MaxBackups + 1) /\ Lines(at, n) > 0
      BY <1>3, <1>4, <1>5 DEF Lines
    <3> QED
      BY <1>5, <3>1 DEF Unharmed, FullBefore
  <2>2. ASSUME NEW i \in 0..(n - 1)
        PROVE  at[i] >= at[i + 1] /\ (i # Hole => at[i] >= at[i + 1] + FileLimit)
    <3>1. i \in Slots
      BY <1>3 DEF Slots
    <3>2. /\ at[i] \in Nat /\ at[i + 1] \in Nat /\ at[i] = at[i + 1] + Len(Content(i))
          /\ Len(Content(i)) \in Nat
      BY <1>1, <3>1, PlaceOf
    <3> HIDE DEF Content
    <3> QED
      BY <2>1, <3>2
  <2>3. Hole \in Int
    <3>1. rotating.i \in Int
      BY LogFields
    <3> QED
      BY <3>1 DEF Hole
  <2>4. at \in [0..n -> Nat]
    <3>1. Ends = 0..n
      BY <1>3 DEF Ends
    <3>2. Len(seenLines.written) \in Nat
      BY LogFields DEF LogLines
    <3>3. \A j \in 0..n : at[j] \in Nat
      BY <1>1, <3>1, <3>2
    <3> QED
      BY <1>1, <3>1, <3>3
  <2>5. PICK h \in Int : h = Hole
    BY <2>3
  <2>6. at[0] >= at[n] + (n - 1) * FileLimit
    BY <1>3, <2>2, <2>4, <2>5, FullFiles
  <2> QED
    BY <1>3, <2>6
<1>6. OnlyOldestLost
  <2>1. SUFFICES ASSUME spent.faults = 0, spent.kills = 0, at[n] # 0
                 PROVE  Len(InFiles) >= MaxBackups * FileLimit
    BY <1>2, <1>3, <1>4 DEF OnlyOldestLost
  <2>2. PICK p \in Nat : p = MaxBackups * FileLimit
    BY <1>3
  <2>3. at[0] >= at[n] + p
    BY <1>1, <1>5, <2>1, <2>2
  <2>4. Len(InFiles) = at[0] - at[n]
    BY <1>2, <1>3, <1>4
  <2>5. Len(InFiles) >= p
    BY <1>4, <2>3, <2>4
  <2> QED
    BY <2>2, <2>5
<1> QED
  BY <1>2, <1>6 DEF FilesInOrder

LEMMA LogInvInit ==
  ASSUME LogInit
  PROVE  LogInv
<1>1. \A i \in Slots : Content(i) = <<>>
  BY DEF LogInit, Content
<1>2. LogTypes
  BY LogAssumption DEF LogInit, LogTypes, LogTypeOK, LogLines, Piece, Done, Line
<1>3. OpenInv /\ FedInv /\ Emptied
  BY DEF LogInit, OpenInv, FedInv, Emptied, Done
<1>4. FilesInv
  <2> DEFINE at == [i \in Ends |-> 0]
  <2>1. at \in [Ends -> 0..Len(seenLines.written)]
    BY DEF LogInit
  <2>2. Placed(at)
    <3>1. \A i \in Slots : i \in Ends /\ i + 1 \in Ends /\ 0 \in Ends
      BY LogAssumption DEF Slots, Ends
    <3>2. 0 \in Ends
      BY LogAssumption DEF Ends
    <3> HIDE DEF Content
    <3> QED
      BY <1>1, <3>1, <3>2 DEF Placed, LogInit
  <2>3. \A k \in Ends : Lines(at, k) = 0
    <3>1. \A k \in Ends : k = MaxBackups + 1 \/ k \in Slots
      BY LogAssumption DEF Ends, Slots
    <3> QED
      BY <1>1, <3>1 DEF Lines
  <2>4. Unharmed(at)
    <3>1. \A k \in 1..(MaxBackups + 1) : k \in Ends
      BY DEF Ends
    <3> HIDE DEF at, Lines
    <3> QED
      BY <2>3, <3>1 DEF Unharmed, FullBefore, LogInit, Done
  <2> HIDE DEF at
  <2> QED
    BY <2>1, <2>2, <2>4 DEF FilesInv
<1> QED
  BY <1>2, <1>3, <1>4 DEF LogInv

LEMMA LogInvStep ==
  ASSUME LogInv, [LogNext]_logVars
  PROVE  LogInv'
BY LogTypesStep, OpenInvStep, FedInvStep, EmptiedStep, FilesInvStep DEF LogInv

LEMMA LogInvHolds == LogSpec => []LogInv
<1>1. LogInit => LogInv
  BY LogInvInit
<1>2. LogInv /\ [LogNext]_logVars => LogInv'
  BY LogInvStep
<1> QED
  BY <1>1, <1>2, PTL DEF LogSpec

(* The variables hold the values of their types (lib.rs, capture.rs).       *)
THEOREM LogTypeCorrect == LogSpec => []LogTypeOK
<1>1. LogInv => LogTypeOK
  BY DEF LogInv, LogTypes
<1> QED
  BY <1>1, LogInvHolds, PTL

(* However long the log gets, whichever removal, rename or open fails and   *)
(* wherever the process is killed, the files hold the newest lines in order *)
(* and without a gap; with no fault and no kill a line that was written is  *)
(* lost only once the backups are full; and what the console worker writes  *)
(* never comes back as a record (rotate_backups, maybe_rotate,              *)
(* make_console_writer).                                                    *)
THEOREM LogCorrect == LogSpec => []LogKept
<1>1. LogInv => LogKept
  <2>1. LogInv => FilesInOrder /\ OnlyOldestLost
    BY PlacesKeep DEF LogInv
  <2>2. LogInv => NeverFedBack
    BY DEF LogInv, FedInv, NeverFedBack
  <2> QED
    BY <2>1, <2>2 DEF LogKept
<1> QED
  BY <1>1, LogInvHolds, PTL

-----------------------------------------------------------------------------
(* The six machines together. *)

(* One machine moves, by a step of its own, and the others rest.            *)
LEMMA OthersRest ==
  ASSUME Next
  PROVE  /\ machine = "window" => WinNext
         /\ machine = "menus" => MenusNext
         /\ machine = "media" => MediaNext
         /\ machine = "overlays" => OverlaysNext
         /\ machine = "shell" => ShellNext
         /\ machine = "log" => LogNext
         /\ machine # "window" => UNCHANGED winVars
         /\ machine # "menus" => UNCHANGED menuVars
         /\ machine # "media" => UNCHANGED mediaVars
         /\ machine # "overlays" => UNCHANGED overlayVars
         /\ machine # "shell" => UNCHANGED shellVars
         /\ machine # "log" => UNCHANGED logVars
BY Zenon DEF Next, Rest

(* What TLC explores in one run is what the modules specify: a behaviour of *)
(* the six machines is one of each of them, so that what is proved of a     *)
(* machine alone holds of it there.                                         *)
THEOREM PlatformMachines ==
  Spec => /\ WinSpec /\ MenusSpec /\ MediaSpec
          /\ OverlaysSpec /\ ShellSpec /\ LogSpec
<1>1. Init => WinInit /\ MenusInit /\ MediaInit /\ OverlaysInit /\ ShellInit /\ LogInit
  BY DEF Init
<1>2. [Next]_allVars => [WinNext]_winVars
  BY OthersRest DEF allVars
<1>3. [Next]_allVars => [MenusNext]_menuVars
  BY OthersRest DEF allVars
<1>4. [Next]_allVars => [MediaNext]_mediaVars
  BY OthersRest DEF allVars
<1>5. [Next]_allVars => [OverlaysNext]_overlayVars
  BY OthersRest DEF allVars
<1>6. [Next]_allVars => [ShellNext]_shellVars
  BY OthersRest DEF allVars
<1>7. [Next]_allVars => [LogNext]_logVars
  BY OthersRest DEF allVars
<1> QED
  BY <1>1, <1>2, <1>3, <1>4, <1>5, <1>6, <1>7, PTL
  DEF Spec, WinSpec, MenusSpec, MediaSpec, OverlaysSpec, ShellSpec, LogSpec

(* The variables of the machine that runs hold the values of their types.   *)
THEOREM PlatformTypesCorrect == Spec => []TypesOK
<1> DEFINE Chosen == machine \in {"window", "menus", "media", "overlays", "shell", "log"}
<1>1. Init => Chosen
  BY DEF Init
<1>2. Chosen /\ [Next]_allVars => Chosen'
  BY DEF Next, allVars
<1>3. Spec => []Chosen
  BY <1>1, <1>2, PTL DEF Spec
<1>4. /\ Chosen /\ WinTypeOK /\ MenusTypeOK /\ MediaTypeOK
      /\ OverlaysTypeOK /\ ShellTypeOK /\ LogTypeOK
      => TypesOK
  BY Zenon DEF TypesOK
<1> QED
  BY <1>3, <1>4, PlatformMachines, WinTypeCorrect, MenusTypeCorrect, MediaTypeCorrect,
     OverlaysTypeCorrect, ShellTypeCorrect, LogTypeCorrect, PTL
=============================================================================
