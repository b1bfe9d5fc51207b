-------------------------- MODULE AppLifecycleProofs --------------------------
(***************************************************************************)
(* Proofs about AppLifecycle, for any bounds on what the user and the      *)
(* platform ask: its types, that no freed layer is named, that a running   *)
(* app is shown, and that CEF is shut down with every browser closed.      *)
(***************************************************************************)
EXTENDS AppLifecycle, FiniteSetTheorems, TLAPS

(* The steps of the boot in which a layer is still to be created.           *)
BootSteps == {"init", "started", "create_web", "create_overlay"}

(* The registry, the handles and the focus history name the same layers.    *)
Registered ==
  /\ IsInjective(active_stack)
  /\ main = "init" => layers = {} /\ active_stack = <<>> /\ \A l \in Layer : ~inner[l].layer_ptr
  /\ up => /\ ToSet(active_stack) \subseteq layers
           /\ \A l \in Layer : inner[l].layer_ptr <=> l \in layers

(* The registry lives as long as the manager, and a little longer.          *)
HandleOrderInv ==
  /\ up <=> main \notin {"init", "cef", "down"}
  /\ main = "init" => manager = "off" /\ tasks = <<>> /\ \A l \in Layer : browser[l] = "none"
  /\ main # "init" => manager # "off"
  /\ main \in {"free", "cef", "down"} => manager = "done"
  /\ manager = "done" => lifecycle = "ShuttingDown"

(* One close task follows an asked shutdown; the wait set is what it sent.  *)
ShutdownInv ==
  /\ shutting_down /\ ~EarlySignal => main \notin BootSteps
  /\ \A i \in 1..Len(mqueue) : mqueue[i].op # "Shutdown"
  /\ \A i \in 1..Len(work) : work[i].op = "Shutdown" => shutting_down
  /\ manager \in {"recv", "closing", "done"} => shutting_down
  /\ \A i \in 1..Len(tasks) : tasks[i].op = "CloseAndCollect" =>
       /\ manager = "recv" /\ collected = NotSent
       /\ \A j \in 1..Len(tasks) : tasks[j].op = "CloseAndCollect" => j = i
  /\ collected # NotSent => manager \in {"recv", "closing", "done"}
  /\ manager \in {"closing", "done"} => collected # NotSent

(* Without a reset every browser is a registered one, and a layer that was  *)
(* closed has none.                                                         *)
UnresetInv ==
  asked.resets = 0 =>
    /\ \A l \in Layer : inner[l].state = "normal" /\ ~inner[l].pending_internal_reset
    /\ \A i \in 1..Len(tasks) : tasks[i].op # "ResetCreate"
    /\ up => \A l \in Layer : l \in layers <=> browser[l] # "none"
    /\ \A l \in Layer : browser[l] # "none" => ~inner[l].closed

(* From the close task on nothing lives, and the manager waits for all that *)
(* is not closed; when it is done there is none.                            *)
ClosedInv ==
  asked.resets = 0 /\ ~EarlySignal =>
    /\ collected # NotSent =>
         \A l \in Layer : ~Live(l) /\ (browser[l] # "none" => l \in collected)
    /\ manager = "done" => \A l \in Layer : browser[l] = "none"

(* The last broadcast still to come shows a running app, and if there is    *)
(* none the browsers are shown.  One the registry does not know was never   *)
(* hidden.                                                                  *)
ShownInv ==
  /\ up => \A l \in Layer : Live(l) /\ l \notin layers => ~hidden[l]
  /\ lifecycle = "Running" =>
       /\ \A i \in 1..Len(tasks) : tasks[i].op = "SetHiddenAll" /\ tasks[i].hidden =>
            \E j \in 1..Len(tasks) : j > i /\ tasks[j].op = "SetHiddenAll" /\ ~tasks[j].hidden
       /\ (\A i \in 1..Len(tasks) : tasks[i].op # "SetHiddenAll") =>
            \A l \in Layer : Live(l) => ~hidden[l]

Stacks == Seq(Layer)
Inners == [Layer -> Inner]
Browsers == [Layer -> {"none", "creating", "live", "closing"}]
Marks == [Layer -> BOOLEAN]
Tasks == Seq(Task)
Asks == [resets: 0..MaxResets, abouts: 0..MaxAbouts, urls: 0..MaxUrls]
Messages == Seq(ManagerMsg)

(* The types, by name.                                                      *)
LayersTyped ==
  /\ shutting_down \in BOOLEAN /\ up \in BOOLEAN /\ layers \subseteq Layer
  /\ active_stack \in Stacks /\ inner \in Inners /\ browser \in Browsers
  /\ hidden \in Marks /\ tasks \in Tasks /\ asked \in Asks
  /\ collected = NotSent \/ collected \subseteq Layer
ThreadsTyped ==
  /\ main \in MainStep /\ parked \in BOOLEAN /\ handler \in BOOLEAN /\ sender \in BOOLEAN
  /\ initiator \in {"idle", "flagged", "done"} /\ sent \in 0..MaxMessages
  /\ mqueue \in Messages /\ work \in Messages
  /\ mwake \in BOOLEAN /\ manager \in ManagerStep /\ lifecycle \in LifecycleState

AppInv ==
  /\ LayersTyped /\ ThreadsTyped
  /\ Registered /\ HandleOrderInv /\ ShutdownInv /\ UnresetInv /\ ClosedInv /\ ShownInv

-----------------------------------------------------------------------------
(* Sequences and the operators of the registry.                             *)

(* What is in a queue after something was appended.                         *)
LEMMA AppendItems ==
  ASSUME NEW S, NEW s \in Seq(S), NEW e \in S
  PROVE  /\ Append(s, e) \in Seq(S) /\ Len(Append(s, e)) = Len(s) + 1
         /\ Append(s, e)[Len(s) + 1] = e
         /\ \A i \in 1..Len(s) : Append(s, e)[i] = s[i]
         /\ Len(s) \in Nat
OBVIOUS

(* What is in a queue after its head was taken.                             *)
LEMMA TailItems ==
  ASSUME NEW S, NEW s \in Seq(S), s # <<>>
  PROVE  /\ Head(s) = s[1] /\ Head(s) \in S
         /\ Tail(s) \in Seq(S) /\ Len(Tail(s)) = Len(s) - 1
         /\ \A i \in 1..Len(Tail(s)) : Tail(s)[i] = s[i + 1] /\ i + 1 \in 1..Len(s)
         /\ Len(s) \in Nat /\ Len(s) > 0 /\ 1 \in 1..Len(s)
OBVIOUS

(* What is in a queue that follows another.                                 *)
LEMMA ConcatItems ==
  ASSUME NEW S, NEW s \in Seq(S), NEW t \in Seq(S)
  PROVE  /\ s \o t \in Seq(S) /\ Len(s \o t) = Len(s) + Len(t)
         /\ \A i \in 1..Len(s \o t) : (s \o t)[i] = IF i <= Len(s) THEN s[i] ELSE t[i - Len(s)]
OBVIOUS

(* A stack without one of its layers, which it names once.                  *)
LEMMA WithoutIts ==
  ASSUME NEW S, NEW s \in Seq(S), NEW i \in 1..Len(s), IsInjective(s)
  PROVE  Without(s, s[i]) = SubSeq(s, 1, i - 1) \o SubSeq(s, i + 1, Len(s))
<1> DEFINE at == {j \in 1..Len(s) : s[j] = s[i]}
<1>1. at = {i}
  BY DEF IsInjective
<1>2. SelectInSeq(s, LAMBDA v : v = s[i]) = i
  <2>1. (CHOOSE x \in at : \A y \in at : x <= y) = i
    BY <1>1
  <2> QED
    BY <1>1, <2>1 DEF SelectInSeq, Min
<1> QED
  BY <1>1, <1>2 DEF Without, RemoveFirst, RemoveAt

(* Without takes a layer out of the history, and leaves the others.         *)
LEMMA WithoutOne ==
  ASSUME NEW s \in Stacks, NEW l \in Layer, IsInjective(s)
  PROVE  /\ Without(s, l) \in Stacks /\ IsInjective(Without(s, l))
         /\ ToSet(Without(s, l)) = ToSet(s) \ {l}
<1>1. CASE \E i \in 1..Len(s) : s[i] = l
  <2>1. PICK i \in 1..Len(s) : s[i] = l
    BY <1>1
  <2> DEFINE r == Without(s, l)
  <2>2. r = SubSeq(s, 1, i - 1) \o SubSeq(s, i + 1, Len(s))
    BY <2>1, WithoutIts DEF Stacks
  <2>3. /\ r \in Seq(Layer) /\ Len(r) = Len(s) - 1
        /\ \A j \in 1..Len(r) : r[j] = IF j < i THEN s[j] ELSE s[j + 1]
    <3> DEFINE a == SubSeq(s, 1, i - 1)
               b == SubSeq(s, i + 1, Len(s))
    <3>1. /\ a \in Seq(Layer) /\ Len(a) = i - 1 /\ \A j \in 1..(i - 1) : a[j] = s[j]
      BY DEF Stacks
    <3>2. /\ b \in Seq(Layer) /\ Len(b) = Len(s) - i
          /\ \A j \in 1..(Len(s) - i) : b[j] = s[i + j]
      BY DEF Stacks
    <3>3. r = a \o b
      BY <2>2
    <3> HIDE DEF a, b, r
    <3>4. /\ r \in Seq(Layer) /\ Len(r) = Len(a) + Len(b)
          /\ \A j \in 1..Len(r) : r[j] = IF j <= Len(a) THEN a[j] ELSE b[j - Len(a)]
      BY <3>1, <3>2, <3>3, ConcatItems
    <3>5. Len(s) \in Nat /\ Len(r) = Len(s) - 1
      BY <3>1, <3>2, <3>4 DEF Stacks
    <3>6. ASSUME NEW j \in 1..Len(r) PROVE r[j] = IF j < i THEN s[j] ELSE s[j + 1]
      <4>1. CASE j < i
        BY <3>1, <3>4, <3>5, <4>1
      <4>2. CASE ~(j < i)
        <5>1. /\ j - (i - 1) \in 1..(Len(s) - i) /\ i + (j - (i - 1)) = j + 1
              /\ ~(j <= i - 1)
          BY <3>5, <4>2
        <5> QED
          BY <3>1, <3>2, <3>4, <4>2, <5>1
      <4> QED
        BY <4>1, <4>2
    <3> QED
      BY <3>4, <3>5, <3>6
  <2> HIDE DEF r
  <2>4. DOMAIN r = 1..Len(r) /\ DOMAIN s = 1..Len(s)
    BY <2>3 DEF Stacks
  <2>5. IsInjective(r)
    <3>1. SUFFICES ASSUME NEW j \in 1..Len(r), NEW k \in 1..Len(r), r[j] = r[k] PROVE j = k
      BY <2>4 DEF IsInjective
    <3> DEFINE at(n) == IF n < i THEN n ELSE n + 1
    <3>2. Len(s) \in Nat
      BY DEF Stacks
    <3>3. at(j) \in 1..Len(s) /\ at(k) \in 1..Len(s)
      BY <2>3, <3>2
    <3>4. s[at(j)] = s[at(k)]
      BY <2>3, <3>1
    <3>5. at(j) = at(k)
      BY <2>4, <3>3, <3>4 DEF IsInjective
    <3> QED
      BY <3>5
  <2>6. ASSUME NEW m \in ToSet(r) PROVE m \in ToSet(s) \ {l}
    <3>1. PICK j \in 1..Len(r) : r[j] = m
      BY <2>4 DEF ToSet
    <3>2. PICK k \in 1..Len(s) : s[k] = m /\ k # i
      BY <2>3, <3>1 DEF Stacks
    <3>3. m # l
      BY <2>1, <2>4, <3>2 DEF IsInjective
    <3> QED
      BY <2>4, <3>2, <3>3 DEF ToSet
  <2>7. ASSUME NEW m \in ToSet(s) \ {l} PROVE m \in ToSet(r)
    <3>1. PICK k \in 1..Len(s) : s[k] = m
      BY <2>4, <2>7 DEF ToSet
    <3>2. k # i
      BY <2>1, <2>7, <3>1
    <3>3. PICK j \in 1..Len(r) : r[j] = m
      <4>1. CASE k < i
        BY <2>3, <3>1, <4>1 DEF Stacks
      <4>2. CASE k > i
        <5>1. k - 1 \in 1..Len(r) /\ ~(k - 1 < i) /\ (k - 1) + 1 = k
          BY <2>3, <4>2 DEF Stacks
        <5>2. r[k - 1] = m
          BY <2>3, <3>1, <5>1
        <5> QED
          BY <5>1, <5>2
      <4> QED
        BY <3>2, <4>1, <4>2
    <3> QED
      BY <2>4, <3>3 DEF ToSet
  <2> QED
    BY <2>3, <2>5, <2>6, <2>7 DEF Stacks, r
<1>2. CASE ~ \E i \in 1..Len(s) : s[i] = l
  <2>1. Without(s, l) = s
    BY <1>2 DEF Without, RemoveFirst
  <2>2. l \notin ToSet(s)
    BY <1>2 DEF ToSet, Stacks
  <2> QED
    BY <2>1, <2>2
<1> QED
  BY <1>1, <1>2

(* A promoted layer comes into the history, once.                           *)
LEMMA PromotedOne ==
  ASSUME NEW s \in Stacks, NEW l \in Layer, IsInjective(s)
  PROVE  /\ Promoted(s, l) \in Stacks /\ IsInjective(Promoted(s, l))
         /\ ToSet(Promoted(s, l)) = ToSet(s) \cup {l}
<1> DEFINE w == Without(s, l)
<1>1. w \in Seq(Layer) /\ IsInjective(w) /\ ToSet(w) = ToSet(s) \ {l}
  BY WithoutOne DEF Stacks
<1>2. Promoted(s, l) = Append(w, l)
  BY DEF Promoted
<1> HIDE DEF w
<1>3. /\ Append(w, l) \in Seq(Layer) /\ Len(Append(w, l)) = Len(w) + 1 /\ Len(w) \in Nat
      /\ Append(w, l)[Len(w) + 1] = l /\ \A i \in 1..Len(w) : Append(w, l)[i] = w[i]
      /\ DOMAIN Append(w, l) = 1..(Len(w) + 1) /\ DOMAIN w = 1..Len(w)
  BY <1>1
<1>4. \A i \in 1..Len(w) : w[i] \in ToSet(w)
  BY <1>3 DEF ToSet
<1>5. \A i \in 1..Len(w) : w[i] # l
  BY <1>1, <1>4
<1>6. IsInjective(Append(w, l))
  BY <1>1, <1>3, <1>5 DEF IsInjective
<1>7. ASSUME NEW m \in ToSet(Append(w, l)) PROVE m \in ToSet(s) \cup {l}
  <2>1. PICK j \in 1..(Len(w) + 1) : Append(w, l)[j] = m
    BY <1>3 DEF ToSet
  <2>2. j \in 1..Len(w) \/ j = Len(w) + 1
    BY <1>3
  <2> QED
    BY <1>1, <1>3, <1>4, <2>1, <2>2
<1>8. ASSUME NEW m \in ToSet(s) \cup {l} PROVE m \in ToSet(Append(w, l))
  <2>1. CASE m = l
    <3>1. Len(w) + 1 \in 1..(Len(w) + 1)
      BY <1>3
    <3> QED
      BY <1>3, <2>1, <3>1 DEF ToSet
  <2>2. CASE m # l
    <3>1. PICK j \in 1..Len(w) : w[j] = m
      BY <1>1, <1>3, <1>8, <2>2, ZenonT(60) DEF ToSet
    <3>2. j \in 1..(Len(w) + 1) /\ Append(w, l)[j] = m
      BY <1>3, <3>1
    <3> QED
      BY <1>3, <3>2 DEF ToSet
  <2> QED
    BY <2>1, <2>2
<1> QED
  BY <1>2, <1>3, <1>6, <1>7, <1>8 DEF Stacks

(* The broadcasts of a transition, at most one, as a sequence.              *)
LEMMA OneToSeq ==
  ASSUME NEW x
  PROVE  SetToSeq({}) = <<>> /\ SetToSeq({x}) = <<x>>
<1>1. Cardinality({}) = 0 /\ Cardinality({x}) = 1
  BY FS_EmptySet, FS_Singleton
<1>2. SetToSeq({}) = <<>>
  <2>1. <<>> \in [1..0 -> {}] /\ IsInjective(<<>>) /\ \A f \in [1..0 -> {}] : f = <<>>
    BY DEF IsInjective
  <2> QED
    BY <1>1, <2>1 DEF SetToSeq
<1>3. SetToSeq({x}) = <<x>>
  <2>1. <<x>> \in [1..1 -> {x}] /\ IsInjective(<<x>>)
    BY DEF IsInjective
  <2>2. \A f \in [1..1 -> {x}] : f = <<x>>
    OBVIOUS
  <2> QED
    BY <1>1, <2>1, <2>2 DEF SetToSeq
<1> QED
  BY <1>2, <1>3

(* Its types, taken together, are AppTypeOK.                                *)
LEMMA TypesNamed == AppInv => AppTypeOK
BY DEF AppInv, LayersTyped, ThreadsTyped, AppTypeOK, LayersTypeOK, Stacks, Inners, Browsers,
       Marks, Tasks, Asks, Messages

(* Nothing runs at first.                                                   *)
LEMMA AppInvInit == AppInit => AppInv
<1> SUFFICES ASSUME AppInit PROVE AppInv
  OBVIOUS
<1> USE LayerBoundsAssumption, MessagesAssumption DEF AppInit, LayersInit
<1>1. inner \in Inners /\ \A l \in Layer : inner[l] = [NewInner EXCEPT !.layer_ptr = FALSE]
  BY DEF Inners, Inner, NewInner
<1>2. \A l \in Layer : /\ ~inner[l].layer_ptr /\ inner[l].state = "normal"
                       /\ ~inner[l].pending_internal_reset
  BY <1>1 DEF NewInner
<1>3. asked \in Asks /\ browser \in Browsers /\ hidden \in Marks /\ tasks \in Tasks
      /\ active_stack \in Stacks /\ mqueue \in Messages /\ work \in Messages
  BY DEF Asks, Browsers, Marks, Tasks, Stacks, Messages
<1>4. LayersTyped /\ ThreadsTyped
  <2>1. 0 \in 0..MaxMessages
    OBVIOUS
  <2>2. LayersTyped
    BY <1>1, <1>3 DEF LayersTyped
  <2>3. ThreadsTyped
    BY <1>3, <2>1 DEF ThreadsTyped, MainStep, ManagerStep, LifecycleState
  <2> QED
    BY <2>2, <2>3
<1>5. Registered /\ HandleOrderInv
  BY <1>2 DEF Registered, HandleOrderInv, IsInjective
<1>6. Len(tasks) = 0 /\ Len(mqueue) = 0 /\ Len(work) = 0
  OBVIOUS
<1>7. ShutdownInv
  BY <1>6 DEF ShutdownInv
<1>8. UnresetInv /\ ClosedInv
  <2>1. (\A l \in Layer : browser[l] = "none") /\ ~up /\ collected = NotSent /\ manager = "off"
    OBVIOUS
  <2>2. \A i \in 1..Len(tasks) : tasks[i].op # "ResetCreate"
    BY <1>6
  <2> QED
    BY <1>2, <2>1, <2>2 DEF UnresetInv, ClosedInv
<1>9. ShownInv
  BY <1>6 DEF ShownInv, Live
<1> QED
  BY <1>4, <1>5, <1>7, <1>8, <1>9 DEF AppInv

-----------------------------------------------------------------------------
(* The main thread, the signals and the senders.                            *)

(* A step that moves the main thread on, and changes nothing of the layers  *)
(* or of the manager.                                                       *)
LEMMA MainMoves ==
  ASSUME AppInv, ThreadsTyped',
         UNCHANGED <<up, layers, active_stack, inner, browser, hidden, tasks, collected, asked,
                     shutting_down, manager, lifecycle, work, mqueue>>,
         main = "init" <=> main' = "init",
         main \in {"cef", "down"} <=> main' \in {"cef", "down"},
         main' \in {"free", "cef", "down"} => manager = "done",
         main' \in BootSteps => main \in BootSteps
  PROVE  AppInv'
<1>0. LayersTyped /\ Registered /\ HandleOrderInv /\ ShutdownInv /\ UnresetInv /\ ClosedInv /\ ShownInv
  BY DEF AppInv
<1>1. LayersTyped'
  BY <1>0 DEF LayersTyped
<1>2. Registered'
  BY <1>0 DEF Registered
<1>3. HandleOrderInv'
  BY <1>0 DEF HandleOrderInv
<1>4. ShutdownInv'
  BY <1>0 DEF ShutdownInv
<1>5. UnresetInv' /\ ClosedInv' /\ ShownInv'
  BY <1>0 DEF UnresetInv, ClosedInv, ShownInv, Live
<1> QED
  BY <1>1, <1>2, <1>3, <1>4, <1>5 DEF AppInv

(* What the creation of a layer does to the invariant.                      *)
LEMMA CreationInv ==
  ASSUME AppInv, ThreadsTyped', NEW l \in Layer, CreateLayer(l),
         asked' \in Asks, asked'.resets = asked.resets,
         UNCHANGED <<shutting_down, manager, lifecycle, work, mqueue>>,
         main # "init" /\ main' # "init",
         main \in {"cef", "down"} <=> main' \in {"cef", "down"},
         main' \in {"free", "cef", "down"} => manager = "done",
         main' \in BootSteps => main \in BootSteps,
         asked.resets = 0 /\ ~EarlySignal => collected = NotSent /\ manager # "done"
  PROVE  AppInv'
<1>0. LayersTyped /\ Registered /\ HandleOrderInv /\ ShutdownInv /\ UnresetInv /\ ClosedInv /\ ShownInv
  BY DEF AppInv
<1>1. /\ up /\ layers' = layers \cup {l} /\ inner' = [inner EXCEPT ![l] = NewInner]
      /\ browser' = [browser EXCEPT ![l] = "creating"]
      /\ UNCHANGED <<up, active_stack, hidden, tasks, collected>>
  BY DEF CreateLayer
<1>2. NewInner \in Inner
  BY DEF NewInner, Inner
<1>3. /\ inner' \in Inners /\ inner'[l] = NewInner
      /\ \A m \in Layer : m # l => inner'[m] = inner[m]
  BY <1>0, <1>1, <1>2 DEF LayersTyped, Inners
<1>4. /\ browser' \in Browsers /\ browser'[l] = "creating"
      /\ \A m \in Layer : m # l => browser'[m] = browser[m]
  BY <1>0, <1>1 DEF LayersTyped, Browsers
<1>5. /\ inner'[l].layer_ptr /\ inner'[l].state = "normal" /\ ~inner'[l].pending_internal_reset
      /\ ~inner'[l].closed
  BY <1>3 DEF NewInner
<1>6. LayersTyped'
  BY <1>0, <1>1, <1>3, <1>4 DEF LayersTyped
<1>7. Registered'
  <2>1. \A m \in Layer : inner'[m].layer_ptr <=> m \in layers'
    BY <1>0, <1>1, <1>3, <1>5 DEF Registered
  <2>2. ToSet(active_stack') \subseteq layers' /\ IsInjective(active_stack')
    BY <1>0, <1>1 DEF Registered
  <2> QED
    BY <2>1, <2>2 DEF Registered
<1>8. HandleOrderInv'
  BY <1>0, <1>1 DEF HandleOrderInv
<1>9. ShutdownInv'
  BY <1>0, <1>1 DEF ShutdownInv
<1>10. UnresetInv'
  <2> SUFFICES ASSUME asked.resets = 0 PROVE UnresetInv'
    BY DEF UnresetInv
  <2>1. \A m \in Layer : inner'[m].state = "normal" /\ ~inner'[m].pending_internal_reset
    BY <1>0, <1>3, <1>5 DEF UnresetInv
  <2>2. \A m \in Layer : m \in layers' <=> browser'[m] # "none"
    BY <1>0, <1>1, <1>4 DEF UnresetInv
  <2>3. \A m \in Layer : browser'[m] # "none" => ~inner'[m].closed
    BY <1>0, <1>3, <1>4, <1>5 DEF UnresetInv
  <2>4. \A i \in 1..Len(tasks') : tasks'[i].op # "ResetCreate"
    BY <1>0, <1>1 DEF UnresetInv
  <2> QED
    BY <2>1, <2>2, <2>3, <2>4 DEF UnresetInv
<1>11. ClosedInv'
  BY <1>1 DEF ClosedInv
<1>12. ShownInv'
  <2>1. \A m \in Layer : Live(m)' => Live(m)
    BY <1>4 DEF Live
  <2>2. up => \A m \in Layer : Live(m)' /\ m \notin layers' => ~hidden[m]
    BY <1>0, <1>1, <2>1 DEF ShownInv
  <2>3. lifecycle = "Running" =>
       /\ \A i \in 1..Len(tasks) : tasks[i].op = "SetHiddenAll" /\ tasks[i].hidden =>
            \E j \in 1..Len(tasks) : j > i /\ tasks[j].op = "SetHiddenAll" /\ ~tasks[j].hidden
       /\ (\A i \in 1..Len(tasks) : tasks[i].op # "SetHiddenAll") =>
            \A m \in Layer : Live(m)' => ~hidden[m]
    BY <1>0, <2>1 DEF ShownInv
  <2> QED
    BY <1>1, <2>2, <2>3 DEF ShownInv
<1> QED
  BY <1>6, <1>7, <1>8, <1>9, <1>10, <1>11, <1>12 DEF AppInv

(* The main thread.                                                         *)
LEMMA MainThreadInv == AppInv /\ MainThread => AppInv'
<1> SUFFICES ASSUME AppInv, MainThread PROVE AppInv'
  OBVIOUS
<1>0. /\ LayersTyped /\ ThreadsTyped /\ Registered /\ HandleOrderInv /\ ShutdownInv
      /\ UnresetInv /\ ClosedInv /\ ShownInv
  BY DEF AppInv
<1> USE DEF MainFrom
<1>1. CASE StartManager
  <2>1. /\ main = "init" /\ main' = "started" /\ up' = TRUE /\ manager' = "wait"
        /\ UNCHANGED <<layers, active_stack, inner, browser, hidden, tasks, collected, asked,
                       parked, handler, shutting_down, initiator, sender, sent, mqueue, mwake,
                       lifecycle, work>>
    BY <1>1 DEF StartManager, signalVars, sendVars
  <2>2. /\ manager = "off" /\ tasks = <<>> /\ layers = {} /\ active_stack = <<>>
        /\ \A l \in Layer : browser[l] = "none" /\ ~inner[l].layer_ptr
    BY <1>0, <2>1 DEF HandleOrderInv, Registered
  <2>3. Len(tasks) = 0
    BY <2>2
  <2>4. LayersTyped' /\ ThreadsTyped'
    BY <1>0, <2>1 DEF LayersTyped, ThreadsTyped, MainStep, ManagerStep
  <2>5. Registered'
    <3>1. ToSet(active_stack) = {}
      BY <2>2 DEF ToSet
    <3> QED
      BY <1>0, <2>1, <2>2, <3>1 DEF Registered
  <2>6. HandleOrderInv'
    BY <2>1 DEF HandleOrderInv
  <2>7. ShutdownInv'
    BY <1>0, <2>1, <2>2, <2>3 DEF ShutdownInv, BootSteps
  <2>8. UnresetInv' /\ ClosedInv' /\ ShownInv'
    BY <1>0, <2>1, <2>2, <2>3 DEF UnresetInv, ClosedInv, ShownInv, ShutdownInv, Live
  <2> QED
    BY <2>4, <2>5, <2>6, <2>7, <2>8 DEF AppInv
<1>2. CASE SetHandler
  <2>1. ThreadsTyped'
    BY <1>0, <1>2 DEF SetHandler, ThreadsTyped, signalVars, sendVars, managerVars, MainStep
  <2>2. /\ main = "started" /\ main' = "create_web"
        /\ UNCHANGED <<up, layers, active_stack, inner, browser, hidden, tasks, collected, asked,
                       shutting_down, manager, lifecycle, work, mqueue>>
    BY <1>2 DEF SetHandler, layerVars, signalVars, managerVars
  <2> QED
    BY <1>0, <2>1, <2>2, MainMoves DEF BootSteps
<1>3. CASE CreateBootLayers
  <2>1. /\ \/ main = "create_web" /\ main' = "create_overlay" /\ CreateLayer("web")
           \/ main = "create_overlay" /\ main' = "load" /\ CreateLayer("overlay")
        /\ UNCHANGED <<asked, parked, handler, shutting_down, initiator, sender, sent, mqueue,
                       mwake, manager, lifecycle, work>>
    BY <1>3 DEF CreateBootLayers, signalVars, sendVars, managerVars
  <2>2. ThreadsTyped'
    BY <1>0, <2>1 DEF ThreadsTyped, MainStep
  <2>3. asked.resets = 0 /\ ~EarlySignal => collected = NotSent /\ manager # "done"
    BY <1>0, <2>1 DEF ShutdownInv, BootSteps
  <2>4. PICK l \in Layer : CreateLayer(l) /\ l \in {"web", "overlay"}
    BY <2>1 DEF Layer
  <2>5. asked' \in Asks /\ asked'.resets = asked.resets
    BY <1>0, <2>1 DEF LayersTyped
  <2> QED
    BY <2>1, <2>2, <2>3, <2>4, <2>5, CreationInv DEF BootSteps
<1>4. CASE WaitForLoad \/ RunMainLoop \/ JoinManager \/ CefShutdown
  <2>1. /\ UNCHANGED <<up, layers, active_stack, inner, browser, hidden, tasks, collected, asked,
                       shutting_down, manager, lifecycle, work, mqueue>>
        /\ UNCHANGED <<parked, handler, sender, initiator, sent, mwake>>
        /\ \/ main = "load" /\ main' = "park"
           \/ main = "park" /\ main' = "join"
           \/ main = "join" /\ main' = "free" /\ manager = "done"
           \/ main = "cef" /\ main' = "down"
    BY <1>4 DEF WaitForLoad, RunMainLoop, JoinManager, CefShutdown, layerVars, signalVars,
                sendVars, managerVars
  <2>2. ThreadsTyped'
    BY <1>0, <2>1 DEF ThreadsTyped, MainStep
  <2>3. main' \in {"free", "cef", "down"} => manager = "done"
    BY <1>0, <2>1 DEF HandleOrderInv
  <2> QED
    BY <2>1, <2>2, <2>3, MainMoves DEF BootSteps
<1>5. CASE BrowsersShutdown
  <2>1. /\ main = "free" /\ main' = "cef" /\ up' = FALSE /\ layers' = {} /\ active_stack' = <<>>
        /\ UNCHANGED <<inner, browser, hidden, tasks, collected, asked, parked, handler,
                       shutting_down, initiator, sender, sent, mqueue, mwake, manager, lifecycle,
                       work>>
    BY <1>5 DEF BrowsersShutdown, signalVars, sendVars, managerVars
  <2>2. manager = "done" /\ lifecycle = "ShuttingDown"
    BY <1>0, <2>1 DEF HandleOrderInv
  <2>3. <<>> \in Stacks /\ IsInjective(<<>>)
    BY DEF Stacks, IsInjective
  <2>4. LayersTyped' /\ ThreadsTyped'
    BY <1>0, <2>1, <2>3 DEF LayersTyped, ThreadsTyped, MainStep
  <2>5. Registered'
    BY <2>1, <2>3 DEF Registered
  <2>6. HandleOrderInv'
    BY <2>1, <2>2 DEF HandleOrderInv
  <2>7. ShutdownInv'
    BY <1>0, <2>1 DEF ShutdownInv, BootSteps
  <2>8. UnresetInv' /\ ClosedInv' /\ ShownInv'
    BY <1>0, <2>1, <2>2 DEF UnresetInv, ClosedInv, ShownInv, Live
  <2> QED
    BY <2>4, <2>5, <2>6, <2>7, <2>8 DEF AppInv
<1> QED
  BY <1>1, <1>2, <1>3, <1>4, <1>5 DEF MainThread

(* A shutdown is asked for, and the handler called; messages are sent.      *)
LEMMA SignalsInv ==
  ASSUME AppInv,
         \/ Initiate \/ CallHandler \/ SendSignal
         \/ \E msg \in ManagerMsg : msg.op # "Shutdown" /\ Send(msg)
  PROVE  AppInv'
<1>0. /\ LayersTyped /\ ThreadsTyped /\ Registered /\ HandleOrderInv /\ ShutdownInv
      /\ UnresetInv /\ ClosedInv /\ ShownInv
  BY DEF AppInv
<1>1. CASE Initiate
  <2>1. /\ ~shutting_down /\ shutting_down' = TRUE /\ initiator' = "flagged"
        /\ EarlySignal \/ main \notin BootSteps
        /\ UNCHANGED <<up, layers, active_stack, inner, browser, hidden, tasks, collected, asked,
                       main, parked, handler, sender, sent, mqueue, mwake, manager, lifecycle,
                       work>>
    BY <1>1 DEF Initiate, layerVars, mainVars, sendVars, managerVars, BootSteps
  <2>2. LayersTyped' /\ ThreadsTyped'
    BY <1>0, <2>1 DEF LayersTyped, ThreadsTyped
  <2>3. Registered' /\ HandleOrderInv'
    BY <1>0, <2>1 DEF Registered, HandleOrderInv
  <2>4. ShutdownInv'
    BY <1>0, <2>1 DEF ShutdownInv
  <2>5. UnresetInv' /\ ClosedInv' /\ ShownInv'
    BY <1>0, <2>1 DEF UnresetInv, ClosedInv, ShownInv, Live
  <2> QED
    BY <2>2, <2>3, <2>4, <2>5 DEF AppInv
<1>2. CASE CallHandler \/ SendSignal
  <2>1. /\ UNCHANGED <<up, layers, active_stack, inner, browser, hidden, tasks, collected, asked,
                       main, parked, handler, shutting_down, sent, mqueue, manager, lifecycle,
                       work>>
        /\ \/ UNCHANGED sender /\ initiator' = "done" /\ mwake' = (mwake \/ handler)
           \/ sender' = FALSE /\ mwake' = TRUE /\ UNCHANGED initiator
    BY <1>2 DEF CallHandler, SendSignal, layerVars, mainVars, signalVars, sendVars, managerVars
  <2>2. ThreadsTyped'
    BY <1>0, <2>1 DEF ThreadsTyped
  <2>3. main \in {"free", "cef", "down"} => manager = "done"
    BY <1>0 DEF HandleOrderInv
  <2> QED
    BY <2>1, <2>2, <2>3, MainMoves
<1>3. ASSUME NEW msg \in ManagerMsg, msg.op # "Shutdown", Send(msg) PROVE AppInv'
  <2>1. /\ sent < MaxMessages /\ sender' = TRUE /\ sent' = sent + 1
        /\ mqueue' = Append(mqueue, msg)
        /\ UNCHANGED <<up, layers, active_stack, inner, browser, hidden, tasks, collected, asked,
                       main, parked, handler, shutting_down, initiator, mwake, manager,
                       lifecycle, work>>
    BY <1>3 DEF Send, layerVars, mainVars, signalVars, managerVars
  <2>2. /\ mqueue' \in Messages /\ Len(mqueue') = Len(mqueue) + 1 /\ Len(mqueue) \in Nat
        /\ mqueue'[Len(mqueue) + 1] = msg /\ \A i \in 1..Len(mqueue) : mqueue'[i] = mqueue[i]
    BY <1>0, <2>1, AppendItems DEF ThreadsTyped, Messages
  <2>3. sent' \in 0..MaxMessages
    BY <1>0, <2>1, MessagesAssumption DEF ThreadsTyped
  <2>4. LayersTyped' /\ ThreadsTyped'
    BY <1>0, <2>1, <2>2, <2>3 DEF LayersTyped, ThreadsTyped
  <2>5. Registered' /\ HandleOrderInv'
    BY <1>0, <2>1 DEF Registered, HandleOrderInv
  <2>6. \A i \in 1..Len(mqueue') : mqueue'[i].op # "Shutdown"
    <3> SUFFICES ASSUME NEW i \in 1..Len(mqueue') PROVE mqueue'[i].op # "Shutdown"
      OBVIOUS
    <3>1. i \in 1..Len(mqueue) \/ i = Len(mqueue) + 1
      BY <2>2
    <3> QED
      BY <1>0, <1>3, <2>2, <3>1 DEF ShutdownInv
  <2>7. ShutdownInv'
    BY <1>0, <2>1, <2>6 DEF ShutdownInv
  <2>8. UnresetInv' /\ ClosedInv' /\ ShownInv'
    BY <1>0, <2>1 DEF UnresetInv, ClosedInv, ShownInv, Live
  <2> QED
    BY <2>4, <2>5, <2>7, <2>8 DEF AppInv
<1> QED
  BY <1>1, <1>2, <1>3

-----------------------------------------------------------------------------
(* The manager.                                                             *)

(* A transition broadcasts at most one visibility, and shows what it brings *)
(* back to running.                                                         *)
LEMMA TransitionIts ==
  ASSUME lifecycle \in LifecycleState, NEW msg \in ManagerMsg
  PROVE  /\ Transition(msg).to \in LifecycleState
         /\ \/ /\ Transition(msg).broadcast = {}
               /\ Transition(msg).to = "Running" => lifecycle = "Running"
            \/ Transition(msg).broadcast = {TRUE} /\ Transition(msg).to # "Running"
            \/ Transition(msg).broadcast = {FALSE}
<1> USE DEF LifecycleState, Go, Stay
<1>1. CASE lifecycle = "Running" /\ msg.op = "SetVisible" /\ ~msg.visible
  <2>1. Transition(msg) = [to |-> "Hidden", broadcast |-> {TRUE}]
    BY <1>1 DEF Transition
  <2> QED
    BY <2>1
<1>2. CASE lifecycle = "Hidden" /\ msg.op = "SetVisible" /\ msg.visible
  <2>1. Transition(msg) = [to |-> "Running", broadcast |-> {FALSE}]
    BY <1>2 DEF Transition
  <2> QED
    BY <2>1
<1>3. CASE lifecycle \in {"Running", "Hidden"} /\ msg.op = "Suspend"
  <2>1. CASE lifecycle = "Running"
    <3>1. Transition(msg) = [to |-> "Suspended", broadcast |-> {TRUE}]
      BY <1>3, <2>1 DEF Transition
    <3> QED
      BY <3>1
  <2>2. CASE lifecycle = "Hidden"
    <3>1. Transition(msg) = [to |-> "Suspended", broadcast |-> {}]
      BY <1>3, <2>2 DEF Transition
    <3> QED
      BY <3>1
  <2> QED
    BY <1>3, <2>1, <2>2
<1>4. CASE lifecycle = "Suspended" /\ msg.op = "Resume"
  <2>1. Transition(msg) = [to |-> "Running", broadcast |-> {FALSE}]
    BY <1>4 DEF Transition, Resumed
  <2> QED
    BY <2>1
<1>5. CASE /\ ~(lifecycle = "Running" /\ msg.op = "SetVisible" /\ ~msg.visible)
           /\ ~(lifecycle = "Hidden" /\ msg.op = "SetVisible" /\ msg.visible)
           /\ ~(lifecycle \in {"Running", "Hidden"} /\ msg.op = "Suspend")
           /\ ~(lifecycle = "Suspended" /\ msg.op = "Resume")
  <2>1. Transition(msg) = [to |-> lifecycle, broadcast |-> {}]
    BY <1>5 DEF Transition
  <2>2. Transition(msg).to = lifecycle /\ Transition(msg).broadcast = {}
    BY <2>1
  <2> QED
    BY <2>2
<1> QED
  BY <1>1, <1>2, <1>3, <1>4, <1>5

(* The steps of the manager that only move it on.                           *)
LEMMA ManagerMoves ==
  ASSUME AppInv, ThreadsTyped',
         UNCHANGED <<up, layers, active_stack, inner, browser, hidden, tasks, collected, asked,
                     shutting_down, main>>,
         main # "init", manager' # "off",
         \A i \in 1..Len(mqueue') : mqueue'[i].op # "Shutdown",
         \A i \in 1..Len(work') : work'[i].op = "Shutdown" => shutting_down,
         manager' \in {"recv", "closing", "done"} => shutting_down,
         manager = "recv" => manager' = "closing",
         manager \in {"closing", "done"} => manager' \in {"closing", "done"},
         manager' \in {"closing", "done"} => collected # NotSent,
         manager = "done" => manager' = "done",
         lifecycle' = (IF manager' = "done" THEN "ShuttingDown" ELSE lifecycle),
         asked.resets = 0 /\ ~EarlySignal /\ manager' = "done" =>
           \A l \in Layer : browser[l] = "none"
  PROVE  AppInv'
<1>0. LayersTyped /\ Registered /\ HandleOrderInv /\ ShutdownInv /\ UnresetInv /\ ClosedInv /\ ShownInv
  BY DEF AppInv
<1>1. LayersTyped' /\ Registered'
  BY <1>0 DEF LayersTyped, Registered
<1>2. HandleOrderInv'
  BY <1>0 DEF HandleOrderInv
<1>3. ShutdownInv'
  <2>1. \A i \in 1..Len(tasks) : tasks[i].op # "CloseAndCollect"
    BY <1>0 DEF ShutdownInv
  <2>2. collected # NotSent => manager' \in {"recv", "closing", "done"}
    BY <1>0 DEF ShutdownInv
  <2>3. shutting_down /\ ~EarlySignal => main \notin BootSteps
    BY <1>0 DEF ShutdownInv
  <2> QED
    BY <2>1, <2>2, <2>3 DEF ShutdownInv
<1>4. UnresetInv' /\ ClosedInv'
  BY <1>0 DEF UnresetInv, ClosedInv, Live
<1>5. ShownInv'
  <2>1. lifecycle' = "Running" => lifecycle = "Running"
    OBVIOUS
  <2> QED
    BY <1>0, <2>1 DEF ShownInv, Live
<1> QED
  BY <1>1, <1>2, <1>3, <1>4, <1>5 DEF AppInv

(* The manager folds one message.                                           *)
LEMMA FoldInv == AppInv /\ ManagerFold => AppInv'
<1> SUFFICES ASSUME AppInv, ManagerFold PROVE AppInv'
  OBVIOUS
<1>0. /\ LayersTyped /\ ThreadsTyped /\ Registered /\ HandleOrderInv /\ ShutdownInv
      /\ UnresetInv /\ ClosedInv /\ ShownInv
  BY DEF AppInv
<1>1. /\ manager = "fold"
      /\ UNCHANGED <<up, layers, active_stack, inner, browser, hidden, collected, asked,
                     main, parked, handler, shutting_down, initiator, sender, sent, mqueue, mwake>>
  BY DEF ManagerFold, mainVars, signalVars, sendVars
<1>2. collected = NotSent /\ main # "init" /\ up
      /\ \A i \in 1..Len(tasks) : tasks[i].op # "CloseAndCollect"
  BY <1>0, <1>1 DEF ShutdownInv, HandleOrderInv
<1>3. tasks \in Seq(Task) /\ work \in Seq(ManagerMsg)
  BY <1>0 DEF LayersTyped, ThreadsTyped, Tasks, Messages
<1>4. CASE work = <<>>
  <2>1. manager' = "wait" /\ UNCHANGED <<tasks, lifecycle, work>>
    BY <1>4 DEF ManagerFold
  <2>2. ThreadsTyped'
    BY <1>0, <1>1, <2>1 DEF ThreadsTyped, ManagerStep
  <2>3. /\ \A i \in 1..Len(mqueue) : mqueue[i].op # "Shutdown"
        /\ \A i \in 1..Len(work) : work[i].op = "Shutdown" => shutting_down
    BY <1>0 DEF ShutdownInv
  <2> QED
    BY <1>1, <1>2, <2>1, <2>2, <2>3, ManagerMoves
<1>5. ASSUME work # <<>> PROVE AppInv'
  <2> DEFINE msg == Head(work)
  <2>1. /\ msg \in ManagerMsg /\ msg = work[1] /\ 1 \in 1..Len(work)
        /\ Tail(work) \in Seq(ManagerMsg)
        /\ \A i \in 1..Len(Tail(work)) : Tail(work)[i] = work[i + 1] /\ i + 1 \in 1..Len(work)
    BY <1>3, <1>5, TailItems
  <2>2. work' = Tail(work)
    BY <1>5 DEF ManagerFold
  <2>3. work' \in Messages
    BY <2>1, <2>2 DEF Messages
  <2>4. \A i \in 1..Len(work') : work'[i].op = "Shutdown" => shutting_down
    BY <1>0, <2>1, <2>2 DEF ShutdownInv
  <2>5. CASE msg.op = "Shutdown"
    <3> DEFINE task == [op |-> "CloseAndCollect"]
    <3>1. manager' = "recv" /\ tasks' = Append(tasks, task) /\ lifecycle' = lifecycle
      BY <1>5, <2>5 DEF ManagerFold
    <3>2. task \in Task
      BY DEF Task
    <3>3. /\ tasks' \in Tasks /\ Len(tasks') = Len(tasks) + 1 /\ Len(tasks) \in Nat
          /\ tasks'[Len(tasks) + 1] = task /\ \A i \in 1..Len(tasks) : tasks'[i] = tasks[i]
      BY <1>3, <3>1, <3>2, AppendItems DEF Tasks
    <3>4. \A i \in 1..Len(tasks') : i \in 1..Len(tasks) \/ i = Len(tasks) + 1
      BY <3>3
    <3>5. tasks'[Len(tasks) + 1].op = "CloseAndCollect"
      BY <3>3
    <3>6. shutting_down
      BY <1>0, <2>1, <2>5 DEF ShutdownInv
    <3>7. LayersTyped' /\ ThreadsTyped'
      BY <1>0, <1>1, <2>3, <3>1, <3>3 DEF LayersTyped, ThreadsTyped, ManagerStep
    <3>8. Registered' /\ HandleOrderInv'
      BY <1>0, <1>1, <1>2, <3>1 DEF Registered, HandleOrderInv
    <3>9. ShutdownInv'
      <4>1. \A i \in 1..Len(tasks') : tasks'[i].op = "CloseAndCollect" => i = Len(tasks) + 1
        BY <1>2, <3>3, <3>4
      <4>2. shutting_down /\ ~EarlySignal => main \notin BootSteps
        BY <1>0 DEF ShutdownInv
      <4>3. \A i \in 1..Len(mqueue) : mqueue[i].op # "Shutdown"
        BY <1>0 DEF ShutdownInv
      <4> QED
        BY <1>1, <1>2, <2>4, <3>1, <3>6, <4>1, <4>2, <4>3 DEF ShutdownInv
    <3>10. UnresetInv'
      <4>1. asked.resets = 0 => \A i \in 1..Len(tasks') : tasks'[i].op # "ResetCreate"
        BY <1>0, <3>3, <3>4, <3>5 DEF UnresetInv
      <4> QED
        BY <1>0, <1>1, <4>1 DEF UnresetInv
    <3>11. ClosedInv'
      BY <1>1, <1>2, <3>1 DEF ClosedInv
    <3>12. ShownInv'
      <4>1. lifecycle = "Running" =>
              \A i \in 1..Len(tasks') : tasks'[i].op = "SetHiddenAll" /\ tasks'[i].hidden =>
                \E j \in 1..Len(tasks') : j > i /\ tasks'[j].op = "SetHiddenAll" /\ ~tasks'[j].hidden
        <5> SUFFICES ASSUME lifecycle = "Running", NEW i \in 1..Len(tasks'),
                            tasks'[i].op = "SetHiddenAll", tasks'[i].hidden
                     PROVE  \E j \in 1..Len(tasks') : j > i /\ tasks'[j].op = "SetHiddenAll"
                                                      /\ ~tasks'[j].hidden
          OBVIOUS
        <5>1. i \in 1..Len(tasks)
          BY <3>4, <3>5
        <5>2. PICK j \in 1..Len(tasks) : j > i /\ tasks[j].op = "SetHiddenAll" /\ ~tasks[j].hidden
          BY <1>0, <3>3, <5>1 DEF ShownInv
        <5> QED
          BY <3>3, <5>2
      <4>2. (\A i \in 1..Len(tasks') : tasks'[i].op # "SetHiddenAll")
            => \A i \in 1..Len(tasks) : tasks[i].op # "SetHiddenAll"
        BY <3>3
      <4> QED
        BY <1>0, <1>1, <3>1, <4>1, <4>2 DEF ShownInv, Live
    <3> QED
      BY <3>7, <3>8, <3>9, <3>10, <3>11, <3>12 DEF AppInv
  <2>6. CASE msg.op # "Shutdown"
    <3> DEFINE said(h) == [op |-> "SetHiddenAll", hidden |-> h]
               its == {said(h) : h \in Transition(msg).broadcast}
    <3>1. /\ manager' = "fold" /\ lifecycle' = Transition(msg).to
          /\ tasks' = tasks \o SetToSeq(its)
      BY <1>5, <2>6 DEF ManagerFold
    <3>2. lifecycle \in LifecycleState
      BY <1>0 DEF ThreadsTyped
    <3>3. /\ lifecycle' \in LifecycleState
          /\ \/ /\ Transition(msg).broadcast = {}
                /\ lifecycle' = "Running" => lifecycle = "Running"
             \/ Transition(msg).broadcast = {TRUE} /\ lifecycle' # "Running"
             \/ Transition(msg).broadcast = {FALSE}
      BY <2>1, <3>1, <3>2, TransitionIts
    <3>4. ThreadsTyped'
      BY <1>0, <1>1, <2>3, <3>1, <3>3 DEF ThreadsTyped, ManagerStep
    <3>5. HandleOrderInv' /\ Registered'
      BY <1>0, <1>1, <1>2, <3>1 DEF Registered, HandleOrderInv
    <3>6. /\ \A i \in 1..Len(mqueue) : mqueue[i].op # "Shutdown"
          /\ shutting_down /\ ~EarlySignal => main \notin BootSteps
      BY <1>0 DEF ShutdownInv
    <3>7. CASE Transition(msg).broadcast = {} /\ (lifecycle' = "Running" => lifecycle = "Running")
      <4>1. its = {}
        BY <3>7
      <4>2. tasks' = tasks
        <5>1. tasks' = tasks \o <<>>
          BY <3>1, <4>1, OneToSeq
        <5> QED
          BY <1>3, <5>1
      <4>3. LayersTyped'
        BY <1>0, <1>1, <4>2 DEF LayersTyped
      <4>4. ShutdownInv'
        BY <1>1, <1>2, <2>4, <3>1, <3>6, <4>2 DEF ShutdownInv
      <4>5. UnresetInv' /\ ClosedInv'
        BY <1>0, <1>1, <1>2, <3>1, <4>2 DEF UnresetInv, ClosedInv
      <4>6. ShownInv'
        BY <1>0, <1>1, <3>7, <4>2 DEF ShownInv, Live
      <4> QED
        BY <1>0, <3>4, <3>5, <4>3, <4>4, <4>5, <4>6 DEF AppInv
    <3>8. ASSUME NEW h \in BOOLEAN, Transition(msg).broadcast = {h}, lifecycle' = "Running" => ~h
          PROVE  AppInv'
      <4> DEFINE task == said(h)
      <4>1. its = {task}
        BY <3>8
      <4>2. tasks' = tasks \o <<task>>
        BY <3>1, <4>1, OneToSeq
      <4>3. task \in Task
        BY DEF Task
      <4>4. tasks' = Append(tasks, task)
        BY <1>3, <4>2, <4>3
      <4>5. /\ tasks' \in Tasks /\ Len(tasks') = Len(tasks) + 1 /\ Len(tasks) \in Nat
            /\ tasks'[Len(tasks) + 1] = task /\ \A i \in 1..Len(tasks) : tasks'[i] = tasks[i]
        BY <1>3, <4>3, <4>4, AppendItems DEF Tasks
      <4>6. tasks'[Len(tasks) + 1].op = "SetHiddenAll" /\ tasks'[Len(tasks) + 1].hidden = h
        BY <4>5
      <4>7. \A i \in 1..Len(tasks') : i \in 1..Len(tasks) \/ i = Len(tasks) + 1
        BY <4>5
      <4>8. LayersTyped'
        BY <1>0, <1>1, <4>5 DEF LayersTyped
      <4>9. ShutdownInv'
        <5>1. \A i \in 1..Len(tasks') : tasks'[i].op # "CloseAndCollect"
          BY <1>2, <4>5, <4>6, <4>7
        <5> QED
          BY <1>1, <1>2, <2>4, <3>1, <3>6, <5>1 DEF ShutdownInv
      <4>10. UnresetInv'
        <5>1. asked.resets = 0 => \A i \in 1..Len(tasks') : tasks'[i].op # "ResetCreate"
          BY <1>0, <4>5, <4>6, <4>7 DEF UnresetInv
        <5> QED
          BY <1>0, <1>1, <5>1 DEF UnresetInv
      <4>11. ClosedInv'
        BY <1>1, <1>2, <3>1 DEF ClosedInv
      <4>12. ShownInv'
        <5>1. Len(tasks) + 1 \in 1..Len(tasks')
          BY <4>5
        <5>2. lifecycle' = "Running" => ~tasks'[Len(tasks) + 1].hidden
          BY <3>8, <4>6
        <5>3. \A i \in 1..Len(tasks) : Len(tasks) + 1 > i
          BY <4>5
        <5>4. lifecycle' = "Running" =>
               /\ \A i \in 1..Len(tasks') : tasks'[i].op = "SetHiddenAll" /\ tasks'[i].hidden =>
                    \E j \in 1..Len(tasks') : j > i /\ tasks'[j].op = "SetHiddenAll"
                                              /\ ~tasks'[j].hidden
               /\ ~ \A i \in 1..Len(tasks') : tasks'[i].op # "SetHiddenAll"
          BY <4>6, <4>7, <5>1, <5>2, <5>3
        <5>5. up' => \A l \in Layer : Live(l)' /\ l \notin layers' => ~hidden'[l]
          BY <1>0, <1>1 DEF ShownInv, Live
        <5> QED
          BY <5>4, <5>5 DEF ShownInv
      <4> QED
        BY <1>0, <3>4, <3>5, <4>8, <4>9, <4>10, <4>11, <4>12 DEF AppInv
    <3> QED
      BY <3>3, <3>7, <3>8
  <2> QED
    BY <2>5, <2>6
<1> QED
  BY <1>4, <1>5

(* The manager.                                                             *)
LEMMA ManagerInv == AppInv /\ Manager => AppInv'
<1> SUFFICES ASSUME AppInv, Manager PROVE AppInv'
  OBVIOUS
<1>0. /\ LayersTyped /\ ThreadsTyped /\ Registered /\ HandleOrderInv /\ ShutdownInv
      /\ UnresetInv /\ ClosedInv /\ ShownInv
  BY DEF AppInv
<1>a. /\ \A i \in 1..Len(mqueue) : mqueue[i].op # "Shutdown"
      /\ \A i \in 1..Len(work) : work[i].op = "Shutdown" => shutting_down
  BY <1>0 DEF ShutdownInv
<1> USE DEF ManagerFrom
<1>1. CASE ManagerWait \/ ManagerDrain \/ ManagerRecv
  <2>1. /\ UNCHANGED <<up, layers, active_stack, inner, browser, hidden, tasks, collected, asked,
                       main, parked, handler, shutting_down, initiator, sender, sent, mqueue,
                       lifecycle, work>>
        /\ mwake' \in {mwake, FALSE}
        /\ \/ manager = "wait" /\ manager' = "drain"
           \/ manager = "drain" /\ manager' = "take"
           \/ manager = "recv" /\ manager' = "closing" /\ collected # NotSent
    BY <1>1 DEF ManagerWait, ManagerDrain, ManagerRecv, layerVars, mainVars, signalVars, sendVars
  <2>2. ThreadsTyped'
    BY <1>0, <2>1 DEF ThreadsTyped, ManagerStep
  <2>3. main # "init"
    BY <1>0, <2>1 DEF HandleOrderInv
  <2>4. manager' \in {"recv", "closing", "done"} => shutting_down
    BY <1>0, <2>1 DEF ShutdownInv
  <2> QED
    BY <1>a, <2>1, <2>2, <2>3, <2>4, ManagerMoves
<1>2. CASE ManagerTake
  <2> DEFINE last == IF shutting_down THEN <<[op |-> "Shutdown"]>> ELSE <<>>
  <2>1. /\ manager = "take" /\ manager' = "fold" /\ work' = mqueue \o last /\ mqueue' = <<>>
        /\ UNCHANGED <<up, layers, active_stack, inner, browser, hidden, tasks, collected, asked,
                       main, parked, handler, shutting_down, initiator, sender, sent, mwake,
                       lifecycle>>
    BY <1>2 DEF ManagerTake, layerVars, mainVars, signalVars, sendVars
  <2>2. mqueue \in Seq(ManagerMsg)
    BY <1>0 DEF ThreadsTyped, Messages
  <2>3. last \in Seq(ManagerMsg) /\ Len(last) <= 1 /\ (~shutting_down => Len(last) = 0)
    <3>1. [op |-> "Shutdown"] \in ManagerMsg
      BY DEF ManagerMsg
    <3> QED
      BY <3>1
  <2> HIDE DEF last
  <2>4. /\ mqueue \o last \in Seq(ManagerMsg) /\ Len(mqueue \o last) = Len(mqueue) + Len(last)
        /\ \A i \in 1..Len(mqueue \o last) :
             (mqueue \o last)[i] = IF i <= Len(mqueue) THEN mqueue[i] ELSE last[i - Len(mqueue)]
    BY <2>2, <2>3, ConcatItems
  <2>5. \A i \in 1..Len(work') : work'[i].op = "Shutdown" => shutting_down
    <3> SUFFICES ASSUME NEW i \in 1..Len(work'), work'[i].op = "Shutdown", ~shutting_down
                 PROVE  FALSE
      OBVIOUS
    <3>1. i \in 1..Len(mqueue) /\ work'[i] = mqueue[i]
      BY <2>1, <2>2, <2>3, <2>4
    <3> QED
      BY <1>a, <3>1
  <2>6. <<>> \in Seq(ManagerMsg) /\ Len(<<>>) = 0
    OBVIOUS
  <2>7. ThreadsTyped'
    BY <1>0, <2>1, <2>4, <2>6 DEF ThreadsTyped, ManagerStep, Messages
  <2>8. main # "init"
    BY <1>0, <2>1 DEF HandleOrderInv
  <2>9. \A i \in 1..Len(mqueue') : mqueue'[i].op # "Shutdown"
    BY <2>1, <2>6
  <2> QED
    BY <2>1, <2>5, <2>7, <2>8, <2>9, ManagerMoves
<1>3. CASE ManagerFold
  BY <1>3, FoldInv
<1>4. CASE ManagerReleaseMain
  <2>1. /\ manager = "closing" /\ manager' = "done" /\ \A l \in collected : inner[l].closed
        /\ parked' = FALSE /\ lifecycle' = "ShuttingDown"
        /\ UNCHANGED <<up, layers, active_stack, inner, browser, hidden, tasks, collected, asked,
                       main, handler, shutting_down, initiator, sender, sent, mqueue, mwake, work>>
    BY <1>4 DEF ManagerReleaseMain, layerVars, signalVars, sendVars
  <2>2. ThreadsTyped'
    BY <1>0, <2>1 DEF ThreadsTyped, ManagerStep, LifecycleState
  <2>3. main # "init" /\ shutting_down /\ collected # NotSent
    BY <1>0, <2>1 DEF HandleOrderInv, ShutdownInv
  <2>4. asked.resets = 0 /\ ~EarlySignal => \A l \in Layer : browser[l] = "none"
    BY <1>0, <2>1, <2>3 DEF ClosedInv, UnresetInv
  <2> QED
    BY <1>a, <2>1, <2>2, <2>3, <2>4, ManagerMoves
<1> QED
  BY <1>1, <1>2, <1>3, <1>4 DEF Manager

-----------------------------------------------------------------------------
(* The UI thread of CEF.                                                    *)

(* What CEF's UI thread leaves alone.                                       *)
RestKept == UNCHANGED <<main, parked, handler, shutting_down, initiator, sender, sent, mqueue,
                        mwake, manager, lifecycle, work>>

(* A step that creates no browser, destroys none and posts nothing.         *)
LEMMA UiQuiet ==
  ASSUME AppInv, RestKept, UNCHANGED <<up, layers, hidden, tasks, collected>>, main # "init",
         inner' \in Inners, \A m \in Layer : inner'[m].layer_ptr = inner[m].layer_ptr,
         browser' \in Browsers,
         \A m \in Layer : \/ browser'[m] = browser[m]
                          \/ browser[m] = "live" /\ browser'[m] = "closing",
         asked' \in Asks,
         asked'.resets = 0 =>
           /\ asked.resets = 0
           /\ \A m \in Layer : /\ inner'[m].state = inner[m].state
                               /\ inner'[m].pending_internal_reset = inner[m].pending_internal_reset
                               /\ inner'[m].closed = inner[m].closed,
         active_stack' \in Stacks, IsInjective(active_stack'),
         up => ToSet(active_stack') \subseteq layers
  PROVE  AppInv'
<1>0. /\ LayersTyped /\ ThreadsTyped /\ Registered /\ HandleOrderInv /\ ShutdownInv
      /\ UnresetInv /\ ClosedInv /\ ShownInv
  BY DEF AppInv
<1>1. LayersTyped'
  BY <1>0 DEF LayersTyped, RestKept
<1>2. ThreadsTyped'
  BY <1>0 DEF ThreadsTyped, RestKept
<1>3. Registered'
  BY <1>0 DEF Registered, RestKept
<1>4. HandleOrderInv'
  BY <1>0 DEF HandleOrderInv, RestKept
<1>5. ShutdownInv'
  BY <1>0 DEF ShutdownInv, RestKept
<1>6. UnresetInv'
  <2> SUFFICES ASSUME asked'.resets = 0 PROVE UnresetInv'
    BY DEF UnresetInv
  <2>1. \A m \in Layer : browser'[m] = "none" <=> browser[m] = "none"
    OBVIOUS
  <2> QED
    BY <1>0, <2>1 DEF UnresetInv
<1>7. ClosedInv'
  BY <1>0 DEF ClosedInv, Live, RestKept
<1>8. ShownInv'
  <2>1. \A m \in Layer : Live(m)' => Live(m)
    BY DEF Live
  <2>2. up => \A m \in Layer : Live(m)' /\ m \notin layers => ~hidden[m]
    BY <1>0, <2>1 DEF ShownInv
  <2>3. lifecycle = "Running" /\ (\A i \in 1..Len(tasks) : tasks[i].op # "SetHiddenAll") =>
          \A m \in Layer : Live(m)' => ~hidden[m]
    BY <1>0, <2>1 DEF ShownInv
  <2>4. lifecycle = "Running" =>
         \A i \in 1..Len(tasks) : tasks[i].op = "SetHiddenAll" /\ tasks[i].hidden =>
            \E j \in 1..Len(tasks) : j > i /\ tasks[j].op = "SetHiddenAll" /\ ~tasks[j].hidden
    BY <1>0 DEF ShownInv
  <2> QED
    BY <2>2, <2>3, <2>4 DEF ShownInv, RestKept
<1> QED
  BY <1>1, <1>2, <1>3, <1>4, <1>5, <1>6, <1>7, <1>8 DEF AppInv

(* A browser comes to life, or is closed at birth.                          *)
LEMMA BirthInv ==
  ASSUME AppInv, RestKept, NEW l \in Layer, OnAfterCreated(l)
  PROVE  AppInv'
<1>0. /\ LayersTyped /\ ThreadsTyped /\ Registered /\ HandleOrderInv /\ ShutdownInv
      /\ UnresetInv /\ ClosedInv /\ ShownInv
  BY DEF AppInv
<1> DEFINE born == [inner[l] EXCEPT !.closed = FALSE, !.loaded = FALSE]
<1>1. /\ browser[l] = "creating" /\ hidden' = [hidden EXCEPT ![l] = FALSE]
      /\ UNCHANGED <<up, layers, tasks, collected, asked>>
  BY DEF OnAfterCreated
<1>2. inner \in Inners /\ inner[l] \in Inner /\ browser \in Browsers /\ active_stack \in Stacks
      /\ IsInjective(active_stack)
  BY <1>0 DEF LayersTyped, Inners, Registered
<1>3. \E i \in Inner, b \in {"closing", "live"} :
        /\ inner' = [inner EXCEPT ![l] = i] /\ browser' = [browser EXCEPT ![l] = b]
        /\ i.layer_ptr = inner[l].layer_ptr /\ ~i.closed
        /\ i.pending_internal_reset = inner[l].pending_internal_reset
        /\ inner[l].state = "normal" => i.state = "normal"
        /\ shutting_down => b = "closing"
        /\ \/ active_stack' = active_stack
           \/ up /\ inner[l].layer_ptr /\ active_stack' = Promoted(active_stack, l)
  <2>1. CASE ClosedAtBirth
    <3>1. /\ browser' = [browser EXCEPT ![l] = "closing"] /\ inner' = [inner EXCEPT ![l] = born]
          /\ active_stack' = active_stack
      BY <2>1 DEF OnAfterCreated
    <3>2. /\ born \in Inner /\ born.layer_ptr = inner[l].layer_ptr /\ ~born.closed
          /\ born.pending_internal_reset = inner[l].pending_internal_reset
          /\ born.state = inner[l].state
      BY <1>2 DEF Inner
    <3> QED
      BY <3>1, <3>2
  <2>2. CASE ~ClosedAtBirth /\ inner[l].state = "pending_reset"
    <3> DEFINE i == [born EXCEPT !.has_browser = TRUE, !.state = "recreating"]
    <3>1. /\ browser' = [browser EXCEPT ![l] = "closing"] /\ inner' = [inner EXCEPT ![l] = i]
          /\ active_stack' = active_stack
      BY <2>2 DEF OnAfterCreated
    <3>2. /\ i \in Inner /\ i.layer_ptr = inner[l].layer_ptr /\ ~i.closed
          /\ i.pending_internal_reset = inner[l].pending_internal_reset
      BY <1>2 DEF Inner
    <3> QED
      BY <2>2, <3>1, <3>2
  <2>3. CASE ~ClosedAtBirth /\ inner[l].state # "pending_reset"
    <3> DEFINE i == [born EXCEPT !.has_browser = TRUE, !.state = "normal", !.pending_url = FALSE]
    <3>1. /\ browser' = [browser EXCEPT ![l] = "live"] /\ inner' = [inner EXCEPT ![l] = i]
          /\ active_stack' = FocusAtBirth(l)
      BY <2>3 DEF OnAfterCreated
    <3>2. /\ i \in Inner /\ i.layer_ptr = inner[l].layer_ptr /\ ~i.closed
          /\ i.pending_internal_reset = inner[l].pending_internal_reset /\ i.state = "normal"
      BY <1>2 DEF Inner
    <3>3. \/ active_stack' = active_stack
          \/ up /\ inner[l].layer_ptr /\ active_stack' = Promoted(active_stack, l)
      BY <3>1 DEF FocusAtBirth
    <3>4. ~shutting_down
      BY <2>3 DEF ClosedAtBirth
    <3> HIDE DEF i
    <3> QED
      BY <3>1, <3>2, <3>3, <3>4
  <2> QED
    BY <2>1, <2>2, <2>3
<1>4. PICK i \in Inner, b \in {"closing", "live"} :
        /\ inner' = [inner EXCEPT ![l] = i] /\ browser' = [browser EXCEPT ![l] = b]
        /\ i.layer_ptr = inner[l].layer_ptr /\ ~i.closed
        /\ i.pending_internal_reset = inner[l].pending_internal_reset
        /\ inner[l].state = "normal" => i.state = "normal"
        /\ shutting_down => b = "closing"
        /\ \/ active_stack' = active_stack
           \/ up /\ inner[l].layer_ptr /\ active_stack' = Promoted(active_stack, l)
  BY <1>3
<1> HIDE DEF born
<1>5. inner' \in Inners /\ inner'[l] = i /\ \A m \in Layer : m # l => inner'[m] = inner[m]
  BY <1>2, <1>4 DEF Inners
<1>6. browser' \in Browsers /\ browser'[l] = b /\ \A m \in Layer : m # l => browser'[m] = browser[m]
  BY <1>2, <1>4 DEF Browsers
<1>7. hidden' \in Marks /\ ~hidden'[l] /\ \A m \in Layer : m # l => hidden'[m] = hidden[m]
  BY <1>0, <1>1 DEF LayersTyped, Marks
<1>8. main # "init"
  BY <1>0, <1>1 DEF HandleOrderInv
<1>9. /\ active_stack' \in Stacks /\ IsInjective(active_stack')
      /\ ToSet(active_stack') \subseteq ToSet(active_stack) \cup {l}
      /\ up /\ ~inner[l].layer_ptr => ToSet(active_stack') = ToSet(active_stack)
  BY <1>2, <1>4, PromotedOne
<1>10. LayersTyped'
  BY <1>0, <1>1, <1>5, <1>6, <1>7, <1>9 DEF LayersTyped, RestKept
<1>11. ThreadsTyped'
  BY <1>0 DEF ThreadsTyped, RestKept
<1>12. Registered'
  <2>1. up => \A m \in Layer : inner'[m].layer_ptr <=> m \in layers
    BY <1>0, <1>4, <1>5 DEF Registered
  <2>2. up => ToSet(active_stack') \subseteq layers
    BY <1>0, <1>9 DEF Registered
  <2> QED
    BY <1>1, <1>8, <1>9, <2>1, <2>2 DEF Registered, RestKept
<1>13. HandleOrderInv' /\ ShutdownInv'
  BY <1>0, <1>1, <1>8 DEF HandleOrderInv, ShutdownInv, RestKept
<1>14. UnresetInv'
  <2> SUFFICES ASSUME asked.resets = 0 PROVE UnresetInv'
    BY <1>1 DEF UnresetInv
  <2>1. \A m \in Layer : inner'[m].state = "normal" /\ ~inner'[m].pending_internal_reset
    BY <1>0, <1>4, <1>5 DEF UnresetInv
  <2>2. \A m \in Layer : browser'[m] = "none" <=> browser[m] = "none"
    BY <1>1, <1>6
  <2>3. \A m \in Layer : browser'[m] # "none" => ~inner'[m].closed
    BY <1>0, <1>4, <1>5, <2>2 DEF UnresetInv
  <2> QED
    BY <1>0, <1>1, <2>1, <2>2, <2>3 DEF UnresetInv
<1>15. ClosedInv'
  <2> SUFFICES ASSUME asked.resets = 0, ~EarlySignal PROVE ClosedInv'
    BY <1>1 DEF ClosedInv
  <2>1. collected # NotSent =>
          \A m \in Layer : ~Live(m)' /\ (browser'[m] # "none" => m \in collected)
    <3> SUFFICES ASSUME collected # NotSent, NEW m \in Layer
                 PROVE  browser'[m] # "live" /\ (browser'[m] # "none" => m \in collected)
      BY DEF Live
    <3>1. shutting_down
      BY <1>0 DEF ShutdownInv
    <3> QED
      BY <1>0, <1>1, <1>4, <1>6, <3>1 DEF ClosedInv, Live
  <2>2. manager # "done"
    BY <1>0, <1>1 DEF ClosedInv
  <2> QED
    BY <1>1, <2>1, <2>2 DEF ClosedInv, RestKept
<1>16. ShownInv'
  <2>1. \A m \in Layer : Live(m)' => ~hidden'[m] \/ (Live(m) /\ hidden'[m] = hidden[m])
    BY <1>6, <1>7 DEF Live
  <2>2. up => \A m \in Layer : Live(m)' /\ m \notin layers => ~hidden'[m]
    BY <1>0, <2>1 DEF ShownInv
  <2>3. lifecycle = "Running" /\ (\A k \in 1..Len(tasks) : tasks[k].op # "SetHiddenAll") =>
          \A m \in Layer : Live(m)' => ~hidden'[m]
    BY <1>0, <2>1 DEF ShownInv
  <2>4. lifecycle = "Running" =>
         \A k \in 1..Len(tasks) : tasks[k].op = "SetHiddenAll" /\ tasks[k].hidden =>
            \E j \in 1..Len(tasks) : j > k /\ tasks[j].op = "SetHiddenAll" /\ ~tasks[j].hidden
    BY <1>0 DEF ShownInv
  <2> QED
    BY <1>1, <2>2, <2>3, <2>4 DEF ShownInv, RestKept
<1> QED
  BY <1>10, <1>11, <1>12, <1>13, <1>14, <1>15, <1>16 DEF AppInv

(* A browser is gone, and its layer leaves the registry.                    *)
LEMMA CloseInv ==
  ASSUME AppInv, RestKept, NEW l \in Layer, OnBeforeClose(l)
  PROVE  AppInv'
<1>0. /\ LayersTyped /\ ThreadsTyped /\ Registered /\ HandleOrderInv /\ ShutdownInv
      /\ UnresetInv /\ ClosedInv /\ ShownInv
  BY DEF AppInv
<1> DEFINE gone == [inner[l] EXCEPT !.closed = TRUE, !.loaded = TRUE, !.has_browser = FALSE,
                                    !.pending_internal_reset = FALSE, !.layer_ptr = FALSE]
           task == [op |-> "ResetCreate", layer |-> l]
           reset == inner[l].pending_internal_reset
<1>1. /\ browser[l] = "closing" /\ browser' = [browser EXCEPT ![l] = "none"]
      /\ inner' = [inner EXCEPT ![l] = gone]
      /\ tasks' = IF reset THEN Append(tasks, task) ELSE tasks
      /\ IF up /\ inner[l].layer_ptr
         THEN layers' = layers \ {l} /\ active_stack' = Without(active_stack, l)
         ELSE UNCHANGED <<layers, active_stack>>
      /\ UNCHANGED <<up, hidden, collected, asked>>
  BY DEF OnBeforeClose
<1>2. inner \in Inners /\ inner[l] \in Inner /\ browser \in Browsers /\ active_stack \in Stacks
      /\ IsInjective(active_stack) /\ tasks \in Seq(Task)
  BY <1>0 DEF LayersTyped, Inners, Registered, Tasks
<1>3. /\ gone \in Inner /\ ~gone.layer_ptr /\ ~gone.pending_internal_reset
      /\ gone.state = inner[l].state
  BY <1>2 DEF Inner
<1> HIDE DEF gone
<1>4. inner' \in Inners /\ inner'[l] = gone /\ \A m \in Layer : m # l => inner'[m] = inner[m]
  BY <1>1, <1>2, <1>3 DEF Inners
<1>5. /\ browser' \in Browsers /\ browser'[l] = "none"
      /\ \A m \in Layer : m # l => browser'[m] = browser[m]
  BY <1>1, <1>2 DEF Browsers
<1>6. main # "init"
  BY <1>0, <1>1 DEF HandleOrderInv
<1>7. task \in Task /\ task.op = "ResetCreate"
  BY DEF Task
<1>8. /\ tasks' \in Tasks /\ Len(tasks) \in Nat
      /\ Len(tasks') = Len(tasks) \/ Len(tasks') = Len(tasks) + 1
      /\ \A i \in 1..Len(tasks) : tasks'[i] = tasks[i]
      /\ \A i \in 1..Len(tasks') : i \in 1..Len(tasks) \/ (reset /\ tasks'[i].op = "ResetCreate")
  <2> HIDE DEF task
  <2>1. CASE reset
    <3>1. /\ tasks' \in Seq(Task) /\ Len(tasks') = Len(tasks) + 1 /\ Len(tasks) \in Nat
          /\ tasks'[Len(tasks) + 1] = task /\ \A i \in 1..Len(tasks) : tasks'[i] = tasks[i]
      BY <1>1, <1>2, <1>7, <2>1, AppendItems
    <3>2. \A i \in 1..Len(tasks') : i \in 1..Len(tasks) \/ i = Len(tasks) + 1
      BY <3>1
    <3> QED
      BY <1>7, <2>1, <3>1, <3>2 DEF Tasks
  <2>2. CASE ~reset
    BY <1>1, <1>2, <2>2 DEF Tasks
  <2> QED
    BY <2>1, <2>2
<1>9. /\ layers' \subseteq layers /\ active_stack' \in Stacks /\ IsInjective(active_stack')
      /\ up /\ inner[l].layer_ptr => /\ layers' = layers \ {l}
                                     /\ ToSet(active_stack') = ToSet(active_stack) \ {l}
      /\ ~(up /\ inner[l].layer_ptr) => layers' = layers /\ active_stack' = active_stack
  BY <1>1, <1>2, WithoutOne
<1> HIDE DEF task
<1>10. LayersTyped'
  BY <1>0, <1>1, <1>4, <1>5, <1>8, <1>9 DEF LayersTyped, RestKept
<1>11. ThreadsTyped'
  BY <1>0 DEF ThreadsTyped, RestKept
<1>a. up => layers' = layers \ {l}
  BY <1>0, <1>9 DEF Registered
<1>12. Registered'
  <2>1. up => \A m \in Layer : inner'[m].layer_ptr <=> m \in layers'
    BY <1>0, <1>3, <1>4, <1>a DEF Registered
  <2>2. up => ToSet(active_stack') \subseteq layers'
    BY <1>0, <1>9, <1>a DEF Registered
  <2> QED
    BY <1>1, <1>6, <1>9, <2>1, <2>2 DEF Registered, RestKept
<1>13. HandleOrderInv'
  BY <1>0, <1>1, <1>6 DEF HandleOrderInv, RestKept
<1>14. ShutdownInv'
  <2>1. \A i \in 1..Len(tasks') : tasks'[i].op = "CloseAndCollect" =>
          i \in 1..Len(tasks) /\ tasks[i].op = "CloseAndCollect"
    BY <1>8
  <2>2. \A i \in 1..Len(tasks') : tasks'[i].op = "CloseAndCollect" =>
          /\ manager = "recv" /\ collected = NotSent
          /\ \A j \in 1..Len(tasks') : tasks'[j].op = "CloseAndCollect" => j = i
    BY <1>0, <2>1 DEF ShutdownInv
  <2> QED
    BY <1>0, <1>1, <2>2 DEF ShutdownInv, RestKept
<1>15. UnresetInv'
  <2> SUFFICES ASSUME asked.resets = 0 PROVE UnresetInv'
    BY <1>1 DEF UnresetInv
  <2>1. \A m \in Layer : inner'[m].state = "normal" /\ ~inner'[m].pending_internal_reset
    BY <1>0, <1>3, <1>4 DEF UnresetInv
  <2>2. ~reset /\ \A i \in 1..Len(tasks') : tasks'[i].op # "ResetCreate"
    BY <1>0, <1>8 DEF UnresetInv
  <2>3. up => \A m \in Layer : m \in layers' <=> browser'[m] # "none"
    BY <1>0, <1>5, <1>a DEF UnresetInv
  <2>4. \A m \in Layer : browser'[m] # "none" => ~inner'[m].closed
    BY <1>0, <1>4, <1>5 DEF UnresetInv
  <2> QED
    BY <1>1, <2>1, <2>2, <2>3, <2>4 DEF UnresetInv
<1>16. ClosedInv'
  BY <1>0, <1>1, <1>5 DEF ClosedInv, Live, RestKept
<1>17. ShownInv'
  <2>1. \A m \in Layer : Live(m)' => Live(m) /\ (up /\ m \notin layers' => m \notin layers)
    BY <1>5, <1>a DEF Live
  <2>2. up => \A m \in Layer : Live(m)' /\ m \notin layers' => ~hidden[m]
    BY <1>0, <2>1 DEF ShownInv
  <2>3. lifecycle = "Running" /\ (\A k \in 1..Len(tasks') : tasks'[k].op # "SetHiddenAll") =>
          \A m \in Layer : Live(m)' => ~hidden[m]
    <3>1. (\A k \in 1..Len(tasks') : tasks'[k].op # "SetHiddenAll")
          => \A k \in 1..Len(tasks) : tasks[k].op # "SetHiddenAll"
      BY <1>8
    <3> QED
      BY <1>0, <2>1, <3>1 DEF ShownInv
  <2>4. ASSUME lifecycle = "Running", NEW k \in 1..Len(tasks'),
               tasks'[k].op = "SetHiddenAll" /\ tasks'[k].hidden
        PROVE  \E j \in 1..Len(tasks') : j > k /\ tasks'[j].op = "SetHiddenAll" /\ ~tasks'[j].hidden
    <3>1. k \in 1..Len(tasks)
      BY <1>8, <2>4
    <3>2. PICK j \in 1..Len(tasks) : j > k /\ tasks[j].op = "SetHiddenAll" /\ ~tasks[j].hidden
      BY <1>0, <1>8, <2>4, <3>1 DEF ShownInv
    <3>3. j \in 1..Len(tasks') /\ tasks'[j] = tasks[j]
      BY <1>8
    <3> QED
      BY <3>2, <3>3
  <2> QED
    BY <1>1, <2>2, <2>3, <2>4 DEF ShownInv, RestKept
<1> QED
  BY <1>10, <1>11, <1>12, <1>13, <1>14, <1>15, <1>16, <1>17 DEF AppInv

(* A task that was posted runs.                                             *)
LEMMA LayerTaskInv ==
  ASSUME AppInv, RestKept, RunTask
  PROVE  AppInv'
<1>0. /\ LayersTyped /\ ThreadsTyped /\ Registered /\ HandleOrderInv /\ ShutdownInv
      /\ UnresetInv /\ ClosedInv /\ ShownInv
  BY DEF AppInv
<1> DEFINE task == Head(tasks)
<1>1. /\ tasks # <<>> /\ tasks' = Tail(tasks)
      /\ \/ task.op = "CloseAndCollect" /\ CloseAndCollect
         \/ task.op = "SetHiddenAll" /\ SetHiddenAll(task.hidden)
         \/ task.op = "ResetCreate" /\ ResetCreate(task.layer)
      /\ UNCHANGED <<up, layers, active_stack, asked>>
  BY DEF RunTask
<1>2. tasks \in Seq(Task)
  BY <1>0 DEF LayersTyped, Tasks
<1>3. /\ task = tasks[1] /\ task \in Task /\ Len(tasks) \in Nat /\ 1 \in 1..Len(tasks)
      /\ tasks' \in Seq(Task) /\ Len(tasks') = Len(tasks) - 1
      /\ \A i \in 1..Len(tasks') : tasks'[i] = tasks[i + 1] /\ i + 1 \in 1..Len(tasks)
  BY <1>1, <1>2, TailItems
<1> HIDE DEF task
<1>4. \A i \in 1..Len(tasks) : i = 1 \/ (i - 1 \in 1..Len(tasks') /\ tasks'[i - 1] = tasks[i])
  <2> SUFFICES ASSUME NEW i \in 1..Len(tasks), i # 1
               PROVE  i - 1 \in 1..Len(tasks') /\ tasks'[i - 1] = tasks[i]
    OBVIOUS
  <2>1. i - 1 \in 1..Len(tasks') /\ (i - 1) + 1 = i
    BY <1>3
  <2> QED
    BY <1>3, <2>1
<1>5. main # "init"
  BY <1>0, <1>1 DEF HandleOrderInv
<1>6. inner' = inner
  BY <1>1 DEF CloseAndCollect, SetHiddenAll, ResetCreate
<1>7. ThreadsTyped'
  BY <1>0 DEF ThreadsTyped, RestKept
<1>8. Registered' /\ HandleOrderInv'
  BY <1>0, <1>1, <1>5, <1>6 DEF Registered, HandleOrderInv, RestKept
<1>9. asked.resets = 0 => \A i \in 1..Len(tasks') : tasks'[i].op # "ResetCreate"
  BY <1>0, <1>3 DEF UnresetInv
<1>10. ASSUME lifecycle = "Running", NEW k \in 1..Len(tasks'),
              tasks'[k].op = "SetHiddenAll" /\ tasks'[k].hidden
       PROVE  \E j \in 1..Len(tasks') : j > k /\ tasks'[j].op = "SetHiddenAll" /\ ~tasks'[j].hidden
  <2>1. PICK j \in 1..Len(tasks) : j > k + 1 /\ tasks[j].op = "SetHiddenAll" /\ ~tasks[j].hidden
    BY <1>0, <1>3, <1>10 DEF ShownInv
  <2>2. j - 1 \in 1..Len(tasks') /\ tasks'[j - 1] = tasks[j] /\ j - 1 > k
    BY <1>3, <1>4, <2>1
  <2> QED
    BY <2>1, <2>2
<1>11. CASE task.op = "CloseAndCollect" /\ CloseAndCollect
  <2>1. /\ manager = "recv" /\ collected = NotSent /\ shutting_down /\ up
        /\ \A i \in 1..Len(tasks') : tasks'[i].op # "CloseAndCollect"
    <3>1. /\ manager = "recv" /\ collected = NotSent /\ shutting_down
          /\ \A j \in 1..Len(tasks) : tasks[j].op = "CloseAndCollect" => j = 1
      BY <1>0, <1>3, <1>11 DEF ShutdownInv
    <3>2. up
      BY <1>0, <3>1 DEF HandleOrderInv
    <3> QED
      BY <1>3, <3>1, <3>2
  <2>2. /\ collected' = layers /\ hidden' = hidden
        /\ browser' = [m \in Layer |-> IF m \in layers /\ Live(m) THEN "closing" ELSE browser[m]]
    BY <1>11, <2>1 DEF CloseAndCollect, CloseSet
  <2>3. /\ browser' \in Browsers
        /\ \A m \in Layer : browser'[m] = IF m \in layers /\ Live(m) THEN "closing" ELSE browser[m]
    BY <1>0, <2>2 DEF LayersTyped, Browsers
  <2>4. collected' \subseteq Layer /\ collected' # NotSent
    BY <1>0, <2>2 DEF LayersTyped, Layer, NotSent
  <2>5. LayersTyped'
    BY <1>0, <1>1, <1>3, <1>6, <2>2, <2>3, <2>4 DEF LayersTyped, RestKept, Tasks
  <2>6. ShutdownInv'
    BY <1>0, <2>1 DEF ShutdownInv, RestKept
  <2>7. UnresetInv'
    <3>1. \A m \in Layer : browser'[m] = "none" <=> browser[m] = "none"
      BY <2>3 DEF Live
    <3> QED
      BY <1>0, <1>1, <1>6, <1>9, <3>1 DEF UnresetInv
  <2>8. ClosedInv'
    <3> SUFFICES ASSUME asked.resets = 0, ~EarlySignal PROVE ClosedInv'
      BY <1>1 DEF ClosedInv
    <3>1. \A m \in Layer : ~Live(m)' /\ (browser'[m] # "none" => m \in collected')
      BY <1>0, <2>1, <2>2, <2>3 DEF UnresetInv, Live
    <3> QED
      BY <2>1, <3>1 DEF ClosedInv, RestKept
  <2>9. ShownInv'
    <3>1. \A m \in Layer : Live(m)' => Live(m)
      BY <2>3 DEF Live
    <3>2. up => \A m \in Layer : Live(m)' /\ m \notin layers => ~hidden[m]
      BY <1>0, <3>1 DEF ShownInv
    <3>3. (\A k \in 1..Len(tasks') : tasks'[k].op # "SetHiddenAll")
          => \A k \in 1..Len(tasks) : tasks[k].op # "SetHiddenAll"
      BY <1>3, <1>4, <1>11
    <3>4. lifecycle = "Running" /\ (\A k \in 1..Len(tasks') : tasks'[k].op # "SetHiddenAll") =>
            \A m \in Layer : Live(m)' => ~hidden[m]
      BY <1>0, <3>1, <3>3 DEF ShownInv
    <3> QED
      BY <1>1, <1>10, <2>2, <3>2, <3>4 DEF ShownInv, RestKept
  <2> QED
    BY <1>7, <1>8, <2>5, <2>6, <2>7, <2>8, <2>9 DEF AppInv
<1>12. CASE task.op = "SetHiddenAll" /\ SetHiddenAll(task.hidden)
  <2>1. /\ browser' = browser /\ collected' = collected
        /\ hidden' = [m \in Layer |->
             IF up /\ m \in layers /\ Live(m) THEN task.hidden ELSE hidden[m]]
    BY <1>12 DEF SetHiddenAll
  <2>2. task.hidden \in BOOLEAN
    BY <1>3, <1>12 DEF Task
  <2>3. /\ hidden' \in Marks
        /\ \A m \in Layer : hidden'[m] = IF up /\ m \in layers /\ Live(m) THEN task.hidden
                                         ELSE hidden[m]
    BY <1>0, <2>1, <2>2 DEF LayersTyped, Marks
  <2>4. LayersTyped'
    BY <1>0, <1>1, <1>3, <1>6, <2>1, <2>3 DEF LayersTyped, RestKept, Tasks
  <2>5. ShutdownInv'
    <3>1. \A i \in 1..Len(tasks') : tasks'[i].op = "CloseAndCollect" =>
            /\ manager = "recv" /\ collected = NotSent
            /\ \A j \in 1..Len(tasks') : tasks'[j].op = "CloseAndCollect" => j = i
      <4> SUFFICES ASSUME NEW i \in 1..Len(tasks'), tasks'[i].op = "CloseAndCollect"
                   PROVE  /\ manager = "recv" /\ collected = NotSent
                          /\ \A j \in 1..Len(tasks') : tasks'[j].op = "CloseAndCollect" => j = i
        OBVIOUS
      <4>1. /\ manager = "recv" /\ collected = NotSent
            /\ \A j \in 1..Len(tasks) : tasks[j].op = "CloseAndCollect" => j = i + 1
        BY <1>0, <1>3 DEF ShutdownInv
      <4>2. ASSUME NEW j \in 1..Len(tasks'), tasks'[j].op = "CloseAndCollect" PROVE j = i
        <5>1. j + 1 = i + 1
          BY <1>3, <4>1, <4>2
        <5> QED
          BY <5>1
      <4> QED
        BY <4>1, <4>2
    <3> QED
      BY <1>0, <2>1, <3>1 DEF ShutdownInv, RestKept
  <2>6. UnresetInv' /\ ClosedInv'
    BY <1>0, <1>1, <1>6, <1>9, <2>1 DEF UnresetInv, ClosedInv, Live, RestKept
  <2>7. ShownInv'
    <3>1. up => \A m \in Layer : Live(m) /\ m \notin layers => ~hidden'[m]
      BY <1>0, <2>3 DEF ShownInv
    <3>2. ASSUME lifecycle = "Running", \A k \in 1..Len(tasks') : tasks'[k].op # "SetHiddenAll",
                 NEW m \in Layer, Live(m)
          PROVE  ~hidden'[m]
      <4>1. ~task.hidden
        <5> SUFFICES ASSUME task.hidden PROVE FALSE
          OBVIOUS
        <5>1. PICK j \in 1..Len(tasks) : j > 1 /\ tasks[j].op = "SetHiddenAll"
          BY <1>0, <1>3, <1>12, <3>2 DEF ShownInv
        <5>2. j - 1 \in 1..Len(tasks') /\ tasks'[j - 1] = tasks[j]
          BY <1>4, <5>1
        <5> QED
          BY <3>2, <5>1, <5>2
      <4>2. up
        BY <1>0, <1>5, <3>2 DEF HandleOrderInv
      <4> QED
        BY <2>3, <3>1, <3>2, <4>1, <4>2
    <3> QED
      BY <1>1, <1>10, <2>1, <3>1, <3>2 DEF ShownInv, Live, RestKept
  <2> QED
    BY <1>7, <1>8, <2>4, <2>5, <2>6, <2>7 DEF AppInv
<1>13. CASE task.op = "ResetCreate" /\ ResetCreate(task.layer)
  <2>1. task.layer \in Layer
    BY <1>3, <1>13 DEF Task
  <2>2. /\ hidden' = hidden /\ collected' = collected
        /\ browser' = IF shutting_down THEN browser
                      ELSE [browser EXCEPT ![task.layer] = "creating"]
    BY <1>13 DEF ResetCreate
  <2>3. /\ browser' \in Browsers
        /\ \A m \in Layer : browser'[m] = browser[m] \/ browser'[m] = "creating"
    BY <1>0, <2>1, <2>2 DEF LayersTyped, Browsers
  <2>4. asked.resets # 0
    BY <1>0, <1>3, <1>13 DEF UnresetInv
  <2>5. LayersTyped'
    BY <1>0, <1>1, <1>3, <1>6, <2>2, <2>3 DEF LayersTyped, RestKept, Tasks
  <2>6. ShutdownInv'
    <3>1. \A i \in 1..Len(tasks') : tasks'[i].op = "CloseAndCollect" =>
            /\ manager = "recv" /\ collected = NotSent
            /\ \A j \in 1..Len(tasks') : tasks'[j].op = "CloseAndCollect" => j = i
      <4> SUFFICES ASSUME NEW i \in 1..Len(tasks'), tasks'[i].op = "CloseAndCollect"
                   PROVE  /\ manager = "recv" /\ collected = NotSent
                          /\ \A j \in 1..Len(tasks') : tasks'[j].op = "CloseAndCollect" => j = i
        OBVIOUS
      <4>1. /\ manager = "recv" /\ collected = NotSent
            /\ \A j \in 1..Len(tasks) : tasks[j].op = "CloseAndCollect" => j = i + 1
        BY <1>0, <1>3 DEF ShutdownInv
      <4>2. ASSUME NEW j \in 1..Len(tasks'), tasks'[j].op = "CloseAndCollect" PROVE j = i
        <5>1. j + 1 = i + 1
          BY <1>3, <4>1, <4>2
        <5> QED
          BY <5>1
      <4> QED
        BY <4>1, <4>2
    <3> QED
      BY <1>0, <2>2, <3>1 DEF ShutdownInv, RestKept
  <2>7. UnresetInv' /\ ClosedInv'
    BY <1>1, <2>4 DEF UnresetInv, ClosedInv
  <2>8. ShownInv'
    <3>1. \A m \in Layer : Live(m)' => Live(m)
      BY <2>3 DEF Live
    <3>2. (\A k \in 1..Len(tasks') : tasks'[k].op # "SetHiddenAll")
          => \A k \in 1..Len(tasks) : tasks[k].op # "SetHiddenAll"
      BY <1>3, <1>4, <1>13
    <3>3. up => \A m \in Layer : Live(m)' /\ m \notin layers => ~hidden[m]
      BY <1>0, <3>1 DEF ShownInv
    <3>4. lifecycle = "Running" /\ (\A k \in 1..Len(tasks') : tasks'[k].op # "SetHiddenAll") =>
            \A m \in Layer : Live(m)' => ~hidden[m]
      BY <1>0, <3>1, <3>2 DEF ShownInv
    <3> QED
      BY <1>1, <1>10, <2>2, <3>3, <3>4 DEF ShownInv, RestKept
  <2> QED
    BY <1>7, <1>8, <2>5, <2>6, <2>7, <2>8 DEF AppInv
<1> QED
  BY <1>1, <1>11, <1>12, <1>13

(* What the pages ask for, and a load that ends.                            *)
LEMMA PagesInv ==
  ASSUME AppInv, RestKept,
         OnLoadEnd \/ Reset \/ LoadUrl \/ DismissOverlay \/ OpenAbout \/ DismissAbout
  PROVE  AppInv'
<1>0. /\ LayersTyped /\ ThreadsTyped /\ Registered /\ HandleOrderInv /\ ShutdownInv
      /\ UnresetInv /\ ClosedInv /\ ShownInv
  BY DEF AppInv
<1>1. /\ inner \in Inners /\ browser \in Browsers /\ active_stack \in Stacks /\ asked \in Asks
      /\ IsInjective(active_stack) /\ (up => ToSet(active_stack) \subseteq layers)
      /\ \A m \in Layer : inner[m] \in Inner
  BY <1>0 DEF LayersTyped, Registered, Inners
<1>2. {"web", "overlay", "about"} = Layer
  BY DEF Layer
<1>3. \A m \in Layer : browser[m] = "live" => main # "init"
  BY <1>0 DEF HandleOrderInv
<1>4. \A l \in Layer : /\ Closing(l) \in Browsers
                       /\ \A m \in Layer : \/ Closing(l)[m] = browser[m]
                                           \/ browser[m] = "live" /\ Closing(l)[m] = "closing"
  BY <1>1 DEF Closing, Browsers
<1>5. asked.resets \in Nat
  BY <1>1, LayerBoundsAssumption DEF Asks
<1>6. CASE OnLoadEnd
  <2>1. /\ browser["web"] = "live" /\ inner' = [inner EXCEPT !["web"].loaded = TRUE]
        /\ UNCHANGED <<up, layers, active_stack, browser, hidden, tasks, collected, asked>>
    BY <1>6 DEF OnLoadEnd, Live
  <2>2. /\ inner' \in Inners
        /\ \A m \in Layer : /\ inner'[m].layer_ptr = inner[m].layer_ptr
                            /\ inner'[m].state = inner[m].state
                            /\ inner'[m].pending_internal_reset = inner[m].pending_internal_reset
                            /\ inner'[m].closed = inner[m].closed
    BY <1>1, <1>2, <2>1 DEF Inners, Inner
  <2> QED
    BY <1>1, <1>2, <1>3, <2>1, <2>2, UiQuiet
<1>7. CASE Reset
  <2> DEFINE i == inner["web"]
  <2>1. /\ browser["overlay"] = "live" /\ Ask("resets", MaxResets)
        /\ UNCHANGED <<up, layers, active_stack, hidden, tasks, collected>>
    BY <1>7 DEF Reset, Live
  <2>2. asked' \in Asks /\ asked'.resets # 0
    BY <1>1, <1>5, <2>1, LayerBoundsAssumption DEF Ask, Asks
  <2>3. /\ inner' \in Inners /\ \A m \in Layer : inner'[m].layer_ptr = inner[m].layer_ptr
        /\ browser' = browser \/ browser' = Closing("web")
    <3>1. CASE i.state # "normal"
      BY <1>1, <1>7, <3>1 DEF Reset
    <3>2. CASE i.state = "normal"
      <4>1. PICK st \in {"recreating", "pending_reset"} :
              inner' = [inner EXCEPT !["web"] =
                          [i EXCEPT !.pending_internal_reset = TRUE, !.state = st]]
        BY <1>7, <3>2 DEF Reset, ResetPending
      <4>2. browser' = browser \/ browser' = Closing("web")
        BY <1>7, <3>2 DEF Reset
      <4>3. /\ [i EXCEPT !.pending_internal_reset = TRUE, !.state = st] \in Inner
            /\ [i EXCEPT !.pending_internal_reset = TRUE, !.state = st].layer_ptr = i.layer_ptr
        BY <1>1, <1>2 DEF Inner
      <4> QED
        BY <1>1, <1>2, <4>1, <4>2, <4>3 DEF Inners
    <3> QED
      BY <3>1, <3>2
  <2>4. /\ browser' \in Browsers
        /\ \A m \in Layer : \/ browser'[m] = browser[m]
                            \/ browser[m] = "live" /\ browser'[m] = "closing"
    BY <1>1, <1>2, <1>4, <2>3
  <2> QED
    BY <1>1, <1>2, <1>3, <2>1, <2>2, <2>3, <2>4, UiQuiet
<1>8. CASE LoadUrl
  <2>1. /\ browser["overlay"] = "live" /\ Ask("urls", MaxUrls)
        /\ UNCHANGED <<up, layers, active_stack, browser, hidden, tasks, collected>>
    BY <1>8 DEF LoadUrl, Live
  <2>2. asked' \in Asks /\ asked'.resets = asked.resets
    BY <1>1, <2>1, LayerBoundsAssumption DEF Ask, Asks
  <2>3. PICK b \in BOOLEAN : inner' = [inner EXCEPT !["web"].pending_url = b]
    <3> DEFINE b == \/ inner["web"].pending_url \/ inner["web"].state # "normal"
                    \/ ~inner["web"].has_browser
    <3>1. b \in BOOLEAN
      BY <1>1, <1>2 DEF Inner
    <3>2. inner' = [inner EXCEPT !["web"].pending_url = b]
      BY <1>1, <1>2, <1>8 DEF LoadUrl, Inners, Inner
    <3> HIDE DEF b
    <3> QED
      BY <3>1, <3>2
  <2>4. /\ inner' \in Inners
        /\ \A m \in Layer : /\ inner'[m].layer_ptr = inner[m].layer_ptr
                            /\ inner'[m].state = inner[m].state
                            /\ inner'[m].pending_internal_reset = inner[m].pending_internal_reset
                            /\ inner'[m].closed = inner[m].closed
    BY <1>1, <1>2, <2>3 DEF Inners, Inner
  <2> QED
    BY <1>1, <1>2, <1>3, <2>1, <2>2, <2>4, UiQuiet
<1>9. CASE DismissOverlay
  <2>1. /\ browser["overlay"] = "live" /\ up /\ inner["web"].layer_ptr
        /\ active_stack' = Promoted(active_stack, "web")
        /\ UNCHANGED <<up, layers, inner, browser, hidden, tasks, collected, asked>>
    BY <1>9 DEF DismissOverlay, Live
  <2>2. /\ active_stack' \in Stacks /\ IsInjective(active_stack')
        /\ ToSet(active_stack') = ToSet(active_stack) \cup {"web"}
    BY <1>1, <1>2, <2>1, PromotedOne
  <2>3. "web" \in layers
    BY <1>0, <1>2, <2>1 DEF Registered
  <2> QED
    BY <1>1, <1>2, <1>3, <2>1, <2>2, <2>3, UiQuiet
<1>10. CASE OpenAbout
  <2>1. /\ \E l \in Layer : Live(l)
        /\ Ask("abouts", MaxAbouts) /\ CreateLayer("about")
    BY <1>10 DEF OpenAbout
  <2>2. asked' \in Asks /\ asked'.resets = asked.resets
    BY <1>1, <2>1, LayerBoundsAssumption DEF Ask, Asks
  <2>3. main # "init"
    BY <1>3, <2>1 DEF Live
  <2>4. asked.resets = 0 /\ ~EarlySignal => collected = NotSent /\ manager # "done"
    BY <1>0, <2>1 DEF ClosedInv, Live
  <2>5. main \in {"free", "cef", "down"} => manager = "done"
    BY <1>0 DEF HandleOrderInv
  <2>6. ThreadsTyped'
    BY <1>0 DEF ThreadsTyped, RestKept
  <2> QED
    BY <1>2, <2>1, <2>2, <2>3, <2>4, <2>5, <2>6, CreationInv DEF RestKept
<1>11. CASE DismissAbout
  <2>1. /\ browser["about"] = "live" /\ browser' = Closing("about")
        /\ UNCHANGED <<up, layers, active_stack, inner, hidden, tasks, collected, asked>>
    BY <1>11 DEF DismissAbout, Live
  <2> QED
    BY <1>1, <1>2, <1>3, <1>4, <2>1, UiQuiet
<1> QED
  BY <1>6, <1>7, <1>8, <1>9, <1>10, <1>11

(* Every step keeps the invariant.                                          *)
LEMMA AppStep == AppInv /\ [AppNext]_appVars => AppInv'
<1> SUFFICES ASSUME AppInv, [AppNext]_appVars PROVE AppInv'
  OBVIOUS
<1>1. CASE MainThread
  BY <1>1, MainThreadInv
<1>2. CASE Manager
  BY <1>2, ManagerInv
<1>3. CASE CefUiThread
  <2>1. UiThread /\ RestKept
    BY <1>3 DEF CefUiThread, RestKept, mainVars, signalVars, sendVars, managerVars
  <2> QED
    BY <2>1, BirthInv, CloseInv, PagesInv, LayerTaskInv DEF UiThread
<1>4. CASE \/ Initiate \/ CallHandler \/ SendSignal
           \/ \E msg \in ManagerMsg : msg.op # "Shutdown" /\ Send(msg)
  BY <1>4, SignalsInv
<1>5. CASE Down \/ UNCHANGED appVars
  <2>1. /\ UNCHANGED <<up, layers, active_stack, inner, browser, hidden, tasks, collected, asked,
                       shutting_down, manager, lifecycle, work, mqueue>>
        /\ UNCHANGED <<main, parked, handler, initiator, sender, sent, mwake>>
    BY <1>5 DEF Down, appVars, layerVars, mainVars, signalVars, sendVars, managerVars
  <2>2. ThreadsTyped /\ (main \in {"free", "cef", "down"} => manager = "done")
    BY DEF AppInv, HandleOrderInv
  <2>3. ThreadsTyped'
    BY <2>1, <2>2 DEF ThreadsTyped
  <2> QED
    BY <2>1, <2>2, <2>3, MainMoves
<1> QED
  BY <1>1, <1>2, <1>3, <1>4, <1>5 DEF AppNext

(* AppInv holds in every reachable state.                                   *)
LEMMA AppInvariant == AppSpec => []AppInv
<1>1. AppSpec => AppInit /\ [][AppNext]_appVars
  BY DEF AppSpec
<1> QED
  BY <1>1, AppInvInit, AppStep, PTL

(* The process, its manager and its browsers are well typed, for any bounds *)
(* on what the user and the platform ask (AppTypeOK).                       *)
THEOREM AppTypeCorrect == AppSpec => []AppTypeOK
BY AppInvariant, TypesNamed, PTL

(* No freed layer is ever named (jfn_browsers_remove, jfn_browsers_set_     *)
(* active): the focus history names registered layers, each once, and a     *)
(* layer has its own handle exactly while it is registered.                 *)
THEOREM HandlesCorrect == AppSpec => []HandlesRegistered
<1>1. AppInv => HandlesRegistered
  BY DEF AppInv, Registered, HandlesRegistered
<1> QED
  BY <1>1, AppInvariant, PTL

(* No black window: whatever hides, suspends and resumes the application,   *)
(* and whichever browsers come and go meanwhile, a running application has  *)
(* no hidden browser once what it posted has run (manager.rs transition).   *)
THEOREM ShownCorrect == AppSpec => []ShownWhenRunning
<1>1. AppInv => ShownWhenRunning
  <2> SUFFICES ASSUME AppInv, lifecycle = "Running", tasks = <<>>
               PROVE  \A l \in Layer : Live(l) => ~hidden[l]
    BY DEF ShownWhenRunning
  <2>1. Len(tasks) = 0
    OBVIOUS
  <2> QED
    BY <2>1 DEF AppInv, ShownInv
<1> QED
  BY <1>1, AppInvariant, PTL

(* CEF is shut down with every browser closed (browsers.rs:375), unless the *)
(* web layer was reset; a shutdown asked for while the boot layers are      *)
(* still being created is excluded, as the run excludes it.                 *)
THEOREM ClosedCorrect == ~EarlySignal => (AppSpec => []AllClosedUnlessReset)
<1> SUFFICES ASSUME ~EarlySignal PROVE AppSpec => []AllClosedUnlessReset
  OBVIOUS
<1>1. AppInv => AllClosedUnlessReset
  BY DEF AppInv, HandleOrderInv, ClosedInv, AllClosedUnlessReset
<1> QED
  BY <1>1, AppInvariant, PTL
=============================================================================
