-------------------------- MODULE WebRuntime_proofs --------------------------
(***************************************************************************)
(* Proofs about WebRuntime, for any set of modules, any number of views    *)
(* and calls nested to any depth.                                          *)
(*                                                                         *)
(* The argument is about who may touch a view.  A call in progress that    *)
(* still has something to do with its view has it for itself: no other     *)
(* such call has it and it is not on record (FrameOK, Apart).  So what one *)
(* call destroys or puts on record no other will destroy or put on record. *)
(***************************************************************************)
EXTENDS WebRuntime, TLAPS

\* A call that will still look at its view.
Active(f) == f.at \in {"creating", "adopting", "destroying", "failed"} /\ f.view # NoView

Apart(s) ==
  \A i, j \in 1..Len(s) : i # j /\ Active(s[i]) /\ Active(s[j]) => s[i].view # s[j].view

FrameOK(f) ==
  /\ f.view # NoView => f.view < nextView /\ moduleOf[f.view] = f.module
  /\ Active(f) => \A m \in Modules : views[m] # f.view
  /\ f.at \in {"creating", "adopting"} =>
       f.op = "install" /\ f.view # NoView /\ f.view \in live /\ f.view \in contexts
  /\ f.at = "failed" => f.view \notin live
  /\ f.at = "adopting" /\ views[f.module] # NoView => f.module \in usurped

FramesSound == Apart(stack) /\ \A f \in Range(stack) : FrameOK(f)

\* What is on record was made for its module and lives.
RecordSound ==
  \A m \in Modules : views[m] # NoView =>
    views[m] \in live /\ views[m] \in contexts /\ moduleOf[views[m]] = m

\* Calls and replicas need both parts, and only a whole runtime has views.
PartsSound ==
  /\ "bridge" \in parts => parts = {"bridge", "node"}
  /\ stack # <<>> => parts = {"bridge", "node"}
  /\ \A m \in Modules : replica[m] # "none" => parts = {"bridge", "node"}
  /\ \A m \in Modules : views[m] # NoView => parts = {"bridge", "node"}

\* NothingStray, view by view and module by module.
InRecord(v)  == \E m \in Modules : views[m] = v
InHand(v)    == \E f \in Range(stack) : f.at \in {"creating", "adopting", "destroying"} /\ f.view = v
InFailure(v) == \E f \in Range(stack) : f.at = "failed" /\ f.view = v
StraySound ==
  \A v \in live \cup contexts :
    InRecord(v) \/ InHand(v) \/ (v \notin live /\ InFailure(v)) \/ moduleOf[v] \in usurped
ListSound ==
  \A m \in Modules :
    /\ listed[m] > 0 <=> views[m] # NoView
    /\ listed[m] > 1 => m \in usurped

RuntimeInv ==
  /\ TypeOK /\ FramesSound /\ RecordSound /\ PartsSound
  /\ StraySound /\ ListSound /\ BackendReachesView

-----------------------------------------------------------------------------
(***************************************************************************)
(* Stacks.                                                                 *)
(***************************************************************************)

LEMMA Pushed ==
  ASSUME NEW s \in Seq(Frame), NEW f \in Frame
  PROVE  /\ <<f>> \o s \in Seq(Frame) /\ <<f>> \o s # <<>>
         /\ Range(<<f>> \o s) = {f} \cup Range(s)
<1> DEFINE t == <<f>> \o s
<1>1. /\ t \in Seq(Frame) /\ Len(t) = Len(s) + 1 /\ t[1] = f
      /\ \A i \in 1..Len(s) : t[i + 1] = s[i]
      /\ DOMAIN t = 1..Len(t) /\ DOMAIN s = 1..Len(s) /\ Len(s) \in Nat
  OBVIOUS
<1>2. \A i \in 2..Len(t) : i - 1 \in 1..Len(s) /\ t[i] = s[i - 1]
  BY <1>1
<1>3. Range(t) \subseteq {f} \cup Range(s)
  BY <1>1, <1>2 DEF Range
<1>4. f \in Range(t)
  BY <1>1 DEF Range
<1>5. ASSUME NEW i \in 1..Len(s) PROVE s[i] \in Range(t)
  BY <1>1, i + 1 \in 1..Len(t) DEF Range
<1> QED BY <1>1, <1>3, <1>4, <1>5 DEF Range

LEMMA PushedApart ==
  ASSUME NEW s \in Seq(Frame), NEW f \in Frame, Apart(s),
         Active(f) => \A g \in Range(s) : Active(g) => g.view # f.view
  PROVE  Apart(<<f>> \o s)
<1> DEFINE t == <<f>> \o s
<1>1. /\ Len(t) = Len(s) + 1 /\ t[1] = f /\ Len(s) \in Nat /\ DOMAIN s = 1..Len(s)
      /\ \A i \in 2..Len(t) : i - 1 \in 1..Len(s) /\ t[i] = s[i - 1]
  OBVIOUS
<1> SUFFICES ASSUME NEW i \in 1..Len(t), NEW j \in 1..Len(t), i # j, Active(t[i]), Active(t[j])
             PROVE  t[i].view # t[j].view
  BY DEF Apart
<1>2. CASE i # 1 /\ j # 1
  <2>1. i \in 2..Len(t) /\ j \in 2..Len(t) /\ i - 1 # j - 1
    BY <1>1, <1>2
  <2> QED BY <1>1, <2>1 DEF Apart
<1>3. CASE i = 1
  <2>1. j \in 2..Len(t)
    BY <1>1, <1>3
  <2>2. t[j] \in Range(s)
    BY <1>1, <2>1 DEF Range
  <2> QED BY <1>1, <1>3, <2>2
<1>4. CASE j = 1
  <2>1. i \in 2..Len(t)
    BY <1>1, <1>4
  <2>2. t[i] \in Range(s)
    BY <1>1, <2>1 DEF Range
  <2> QED BY <1>1, <1>4, <2>2
<1> QED BY <1>2, <1>3, <1>4

LEMMA Popped ==
  ASSUME NEW s \in Seq(Frame), s # <<>>
  PROVE  /\ Head(s) \in Frame /\ Tail(s) \in Seq(Frame)
         /\ Range(s) = {Head(s)} \cup Range(Tail(s))
         /\ \A g \in Range(Tail(s)) : g \in Frame /\ \E i \in 2..Len(s) : s[i] = g
<1> DEFINE t == Tail(s)
<1>1. /\ t \in Seq(Frame) /\ Len(s) = Len(t) + 1 /\ s[1] = Head(s) /\ Head(s) \in Frame
      /\ \A i \in 1..Len(t) : t[i] = s[i + 1]
      /\ DOMAIN t = 1..Len(t) /\ DOMAIN s = 1..Len(s) /\ Len(t) \in Nat
  OBVIOUS
<1>2. \A i \in 2..Len(s) : i - 1 \in 1..Len(t) /\ s[i] = t[i - 1]
  BY <1>1
<1>3. ASSUME NEW i \in 1..Len(s) PROVE s[i] \in {Head(s)} \cup Range(t)
  <2>1. CASE i = 1
    BY <1>1, <2>1
  <2>2. CASE i # 1
    <3>1. i - 1 \in DOMAIN t /\ s[i] = t[i - 1]
      BY <1>1, <1>2, <2>2
    <3> QED BY <3>1 DEF Range
  <2> QED BY <2>1, <2>2
<1>4. Head(s) \in Range(s)
  <2>1. 1 \in 1..Len(s) /\ DOMAIN s = 1..Len(s) /\ Head(s) = s[1]
    BY <1>1
  <2> QED BY <2>1 DEF Range
<1>5. ASSUME NEW i \in 1..Len(t)
      PROVE  t[i] \in Frame /\ t[i] \in Range(s) /\ \E k \in 2..Len(s) : s[k] = t[i]
  <2>1. PICK k \in 2..Len(s) : k = i + 1
    BY <1>1
  <2>2. k \in DOMAIN s /\ s[k] = t[i] /\ t[i] \in Frame
    BY <1>1, <2>1
  <2> QED BY <2>2 DEF Range
<1> QED BY <1>1, <1>3, <1>4, <1>5 DEF Range

LEMMA PoppedApart ==
  ASSUME NEW s \in Seq(Frame), s # <<>>, Apart(s)
  PROVE  /\ Apart(Tail(s))
         /\ Active(Head(s)) => \A g \in Range(Tail(s)) : Active(g) => g.view # Head(s).view
<1> DEFINE t == Tail(s)
<1>1. /\ Len(s) = Len(t) + 1 /\ s[1] = Head(s) /\ Len(t) \in Nat
      /\ \A i \in 1..Len(t) : i + 1 \in 1..Len(s) /\ i + 1 # 1 /\ t[i] = s[i + 1]
  OBVIOUS
<1>2. Apart(t)
  <2> SUFFICES ASSUME NEW i \in 1..Len(t), NEW j \in 1..Len(t), i # j, Active(t[i]), Active(t[j])
               PROVE  t[i].view # t[j].view
    BY DEF Apart
  <2>1. i + 1 # j + 1
    BY <1>1
  <2> QED BY <1>1, <2>1 DEF Apart
<1>3. ASSUME Active(Head(s)), NEW g \in Range(t), Active(g) PROVE g.view # Head(s).view
  <2>1. PICK i \in 1..Len(s) : i # 1 /\ s[i] = g
    BY <1>1, Popped, 2..Len(s) \subseteq 1..Len(s)
  <2>2. 1 \in 1..Len(s)
    BY <1>1
  <2> QED BY <1>1, <1>3, <2>1, <2>2 DEF Apart
<1> QED BY <1>2, <1>3

-----------------------------------------------------------------------------
(***************************************************************************)
(* Steps.                                                                  *)
(***************************************************************************)

\* What is known of a call in progress, of the call at the top, and of those
\* below it.
LEMMA TopFacts ==
  ASSUME RuntimeInv, stack # <<>>
  PROVE  /\ Top \in Frame /\ Tail(stack) \in Seq(Frame)
         /\ Range(stack) = {Top} \cup Range(Tail(stack))
         /\ FrameOK(Top)
         /\ \A g \in Range(Tail(stack)) :
              /\ FrameOK(g) /\ g \in Frame
              /\ Active(Top) /\ Active(g) => g.view # Top.view
              /\ \E i \in 2..Len(stack) : stack[i] = g
         /\ Apart(Tail(stack))
         /\ parts = {"bridge", "node"}
<1>1. stack \in Seq(Frame) /\ Apart(stack) /\ \A f \in Range(stack) : FrameOK(f)
  BY DEF RuntimeInv, TypeOK, FramesSound
<1>2. /\ Top \in Frame /\ Tail(stack) \in Seq(Frame)
      /\ Range(stack) = {Top} \cup Range(Tail(stack))
      /\ \A g \in Range(Tail(stack)) : g \in Frame /\ \E i \in 2..Len(stack) : stack[i] = g
  BY <1>1, Popped DEF Top
<1>3. /\ Apart(Tail(stack))
      /\ Active(Top) => \A g \in Range(Tail(stack)) : Active(g) => g.view # Top.view
  BY <1>1, PoppedApart DEF Top
<1> QED BY <1>1, <1>2, <1>3 DEF RuntimeInv, PartsSound

\* A stack with one call more, or with another at its top.
LEMMA NewTop ==
  ASSUME NEW s \in Seq(Frame), NEW f \in Frame, Apart(s), stack' = <<f>> \o s,
         Active(f) => \A g \in Range(s) : Active(g) => g.view # f.view,
         FrameOK(f)', \A g \in Range(s) : FrameOK(g)'
  PROVE  FramesSound' /\ stack' \in Seq(Frame) /\ Range(stack') = {f} \cup Range(s)
<1>1. stack' \in Seq(Frame) /\ Range(stack') = {f} \cup Range(s) /\ Apart(stack')
  BY Pushed, PushedApart
<1>2. \A g \in Range(stack') : FrameOK(g)'
  BY <1>1
<1> QED BY <1>1, <1>2 DEF FramesSound

\* installModuleView() that fails at once.
LEMMA InstallFailsInv ==
  ASSUME RuntimeInv, NEW m \in Modules, InstallFails(m)
  PROVE  RuntimeInv'
<1> DEFINE f == Call("install", m, NoView, "failed")
<1>0. /\ stack' = <<f>> \o stack /\ parts = {"bridge", "node"} /\ lastError' = TRUE
      /\ UNCHANGED <<parts, views, listed, nextView, moduleOf, live, contexts, usurped, replica,
                     asked, backend>>
  BY DEF InstallFails, MayCall, AtApplication, bridgeVars, RuntimeInv, PartsSound, TypeOK
<1> USE DEF RuntimeInv
<1>1. f \in Frame /\ stack \in Seq(Frame) /\ ~Active(f)
  BY DEF Frame, Call, Active, TypeOK
<1>2. FrameOK(f)' /\ \A g \in Range(stack) : FrameOK(g)'
  <2>1. NoView \notin live
    BY DEF TypeOK, NoView
  <2> QED BY <1>0, <2>1 DEF FramesSound, FrameOK, Active, Call
<1>3. FramesSound' /\ stack' \in Seq(Frame) /\ Range(stack') = {f} \cup Range(stack)
  BY <1>0, <1>1, <1>2, NewTop DEF FramesSound
<1>4. TypeOK'
  BY <1>0, <1>3 DEF TypeOK
<1>5. StraySound'
  BY <1>0, <1>3 DEF StraySound, InRecord, InHand, InFailure
<1>6. RecordSound' /\ PartsSound' /\ ListSound' /\ BackendReachesView'
  BY <1>0 DEF RecordSound, PartsSound, ListSound, BackendReachesView
<1> QED BY <1>3, <1>4, <1>5, <1>6

\* installModuleView() of a document that compiles: a view that nobody has.
LEMMA InstallInv ==
  ASSUME RuntimeInv, NEW m \in Modules, Install(m)
  PROVE  RuntimeInv'
<1> USE DEF RuntimeInv
<1>0. PICK v \in Views : v = nextView /\ v \in Nat /\ v # NoView
  BY RuntimeAssumptions DEF Install, TypeOK, Views, NoView
<1> DEFINE f == Call("install", m, v, "creating")
<1>1. /\ stack' = <<f>> \o stack /\ parts = {"bridge", "node"}
      /\ nextView' = v + 1 /\ moduleOf' = Append(moduleOf, m)
      /\ live' = live \cup {v} /\ contexts' = contexts \cup {v}
      /\ UNCHANGED <<parts, views, listed, lastError, usurped, replica, asked, backend>>
  BY <1>0 DEF Install, MayCall, AtApplication, bridgeVars, PartsSound
<1>2. /\ moduleOf' \in Seq(Modules) /\ Len(moduleOf') = v /\ moduleOf'[v] = m
      /\ \A w \in 1..(v - 1) : moduleOf'[w] = moduleOf[w]
  <2>1. moduleOf \in Seq(Modules) /\ Len(moduleOf) = v - 1
    BY <1>0 DEF TypeOK
  <2> QED BY <1>0, <1>1, <2>1
<1>3. live \subseteq 1..(v - 1) /\ contexts \subseteq 1..(v - 1)
  BY <1>0 DEF TypeOK
<1>4. f \in Frame /\ stack \in Seq(Frame)
  BY DEF Frame, Call, TypeOK
<1>5. \A k \in Modules : views[k] # v
  BY <1>0, <1>3 DEF RecordSound
<1>6. FrameOK(f)'
  BY <1>0, <1>1, <1>2, <1>5 DEF FrameOK, Active, Call
<1>7. \A g \in Range(stack) : g \in Frame
  BY <1>4 DEF Range
<1>8. \A g \in Range(stack) : FrameOK(g)' /\ g.view # v
  <2> TAKE g \in Range(stack)
  <2>1. FrameOK(g) /\ g.view \in Views \cup {NoView}
    BY <1>7 DEF FramesSound, Frame
  <2>2. g.view < v \/ g.view = NoView
    BY <1>0, <2>1 DEF FrameOK
  <2>3. g.view # v
    BY <1>0, <2>1, <2>2 DEF Views, NoView
  <2>4. g.view # NoView => g.view \in 1..(v - 1)
    BY <1>0, <2>1, <2>2 DEF Views, NoView
  <2>5. g.view # NoView => g.view < nextView' /\ moduleOf'[g.view] = g.module
    BY <1>0, <1>1, <1>2, <2>1, <2>4 DEF FrameOK
  <2>6. FrameOK(g)'
    BY <1>1, <2>1, <2>3, <2>5 DEF FrameOK, Active
  <2> QED BY <2>3, <2>6
<1>9. FramesSound' /\ stack' \in Seq(Frame) /\ Range(stack') = {f} \cup Range(stack)
  <2>1. f.view = v
    BY DEF Call
  <2> QED BY <1>1, <1>4, <1>6, <1>8, <2>1, NewTop DEF FramesSound
<1>10. TypeOK'
  <2>1. nextView' \in 1..(MaxViews + 1) /\ nextView' - 1 = v
    BY <1>0, <1>1, RuntimeAssumptions DEF Views
  <2>2. live' \subseteq 1..v /\ contexts' \subseteq 1..v /\ asked' \subseteq live' /\ backend' \subseteq live'
    BY <1>0, <1>1, <1>3 DEF TypeOK
  <2>3. moduleOf' \in Seq(Modules) /\ Len(moduleOf') = nextView' - 1
    BY <1>2, <2>1
  <2>4. live' \subseteq 1..(nextView' - 1) /\ contexts' \subseteq 1..(nextView' - 1)
    BY <2>1, <2>2
  <2> QED BY <1>1, <1>9, <2>1, <2>2, <2>3, <2>4 DEF TypeOK
<1>11. StraySound'
  <2> SUFFICES ASSUME NEW w \in live' \cup contexts'
               PROVE  (InRecord(w) \/ InHand(w) \/ (w \notin live /\ InFailure(w))
                         \/ moduleOf[w] \in usurped)'
    BY DEF StraySound
  <2>1. CASE w = v
    <3>1. f \in Range(stack') /\ f.at = "creating" /\ f.view = v
      BY <1>9 DEF Call
    <3> QED BY <2>1, <3>1 DEF InHand
  <2>2. CASE w # v
    <3>1. w \in live \cup contexts /\ w \in 1..(v - 1)
      BY <1>1, <1>3, <2>2
    <3>2. InRecord(w) \/ InHand(w) \/ (w \notin live /\ InFailure(w)) \/ moduleOf[w] \in usurped
      BY <3>1 DEF StraySound
    <3>3. moduleOf'[w] = moduleOf[w] /\ (w \in live' => w \in live)
      BY <1>1, <1>2, <2>2, <3>1
    <3> QED BY <1>1, <1>9, <3>2, <3>3 DEF InRecord, InHand, InFailure
  <2> QED BY <2>1, <2>2
<1>12. RecordSound'
  <2> SUFFICES ASSUME NEW k \in Modules, views[k] # NoView
               PROVE  views[k] \in live' /\ views[k] \in contexts' /\ moduleOf'[views[k]] = k
    BY <1>1 DEF RecordSound
  <2>1. views[k] \in live /\ views[k] \in contexts /\ moduleOf[views[k]] = k
    BY DEF RecordSound
  <2> QED BY <1>1, <1>2, <1>3, <2>1
<1>13. BackendReachesView'
  <2>1. \A w \in asked : moduleOf'[w] = moduleOf[w]
    BY <1>2, <1>3 DEF TypeOK
  <2> QED BY <1>1, <2>1 DEF BackendReachesView
<1>14. PartsSound' /\ ListSound'
  BY <1>1 DEF PartsSound, ListSound
<1> QED BY <1>9, <1>10, <1>11, <1>12, <1>13, <1>14

\* The call at the top goes on to another point of its code.
LEMMA TopMoves ==
  ASSUME TypeOK, stack # <<>>, NEW at \in {"creating", "adopting", "announcing", "destroying", "changed", "failed"}
  PROVE  /\ To(at) \in Frame /\ To(at).at = at /\ To(at).view = Top.view
         /\ To(at).module = Top.module /\ To(at).op = Top.op
<1>1. Top \in Frame
  BY Popped DEF TypeOK, Top
<1> QED BY <1>1 DEF To, Frame

\* component.create() made nothing.
LEMMA CreatedNothingInv ==
  ASSUME RuntimeInv, CreatedNothing
  PROVE  RuntimeInv'
<1> USE DEF RuntimeInv
<1> DEFINE s == Tail(stack)
<1>a. stack # <<>> /\ To("failed") \in Frame /\ Top \in Frame
  BY TopMoves, TopFacts DEF CreatedNothing, At
<1>b. PICK f \in Frame : f = To("failed")
  BY <1>a
<1>c. PICK v \in Views \cup {NoView} : v = Top.view
  BY <1>a DEF Frame
<1>0. /\ stack # <<>> /\ Top.at = "creating" /\ stack' = <<f>> \o s
      /\ live' = live \ {v} /\ asked' = asked \ {v} /\ backend' = backend \ {v}
      /\ lastError' = TRUE
      /\ UNCHANGED <<parts, views, listed, nextView, moduleOf, contexts, replica, usurped>>
  BY <1>b, <1>c DEF CreatedNothing, At
<1>1. f \in Frame /\ f.at = "failed" /\ f.view = v /\ f.module = Top.module /\ v = Top.view
  BY <1>0, <1>b, <1>c, TopMoves
<1>2. FrameOK(Top) /\ Active(Top) /\ v # NoView
  BY <1>0, <1>1, TopFacts DEF FrameOK, Active
<1>3. FrameOK(f)'
  BY <1>0, <1>1, <1>2 DEF FrameOK, Active
<1>4. \A g \in Range(s) : FrameOK(g)' /\ (Active(g) => g.view # v)
  <2> TAKE g \in Range(s)
  <2>1. FrameOK(g) /\ (Active(g) => g.view # v)
    BY <1>0, <1>1, <1>2, TopFacts
  <2>2. g.at \in {"creating", "adopting"} => Active(g)
    BY <2>1 DEF FrameOK, Active
  <2> QED BY <1>0, <2>1, <2>2 DEF FrameOK, Active
<1>5. FramesSound' /\ stack' \in Seq(Frame) /\ Range(stack') = {f} \cup Range(s)
  <2>1. s \in Seq(Frame) /\ Apart(s)
    BY <1>0, TopFacts
  <2>2. \A g \in Range(s) : Active(g) => g.view # f.view
    BY <1>1, <1>4
  <2>3. \A g \in Range(s) : FrameOK(g)'
    BY <1>4
  <2> QED BY <1>0, <1>1, <1>3, <2>1, <2>2, <2>3, NewTop
<1>6. TypeOK'
  BY <1>0, <1>5 DEF TypeOK
<1>7. \A m \in Modules : views[m] # v
  BY <1>1, <1>2 DEF FrameOK
<1>8. StraySound'
  <2> SUFFICES ASSUME NEW w \in live' \cup contexts'
               PROVE  (InRecord(w) \/ InHand(w) \/ (w \notin live /\ InFailure(w))
                         \/ moduleOf[w] \in usurped)'
    BY DEF StraySound
  <2>0. InRecord(w) \/ InHand(w) \/ (w \notin live /\ InFailure(w)) \/ moduleOf[w] \in usurped
    BY <1>0 DEF StraySound
  <2>1. CASE w = v
    <3>1. f \in Range(stack') /\ f.at = "failed" /\ f.view = w /\ w \notin live'
      BY <1>0, <1>1, <1>5, <2>1
    <3> QED BY <3>1 DEF InFailure
  <2>2. CASE w # v
    <3>1. \A g \in Range(stack) : g.view = w => g \in Range(stack')
      BY <1>0, <1>1, <1>5, <2>2, TopFacts
    <3>2. (InHand(w) => InHand(w)') /\ (InFailure(w) => InFailure(w)')
      BY <3>1 DEF InHand, InFailure
    <3> QED BY <1>0, <2>0, <3>2 DEF InRecord
  <2> QED BY <2>1, <2>2
<1>9. RecordSound'
  BY <1>0, <1>7 DEF RecordSound
<1>10. PartsSound' /\ ListSound' /\ BackendReachesView'
  BY <1>0, TopFacts DEF PartsSound, ListSound, BackendReachesView
<1> QED BY <1>5, <1>6, <1>8, <1>9, <1>10

\* destroyView() has run onDestruction, and deletes view and context.
LEMMA DestroyedInv ==
  ASSUME RuntimeInv, Destroyed
  PROVE  RuntimeInv'
<1> USE DEF RuntimeInv
<1> DEFINE s == Tail(stack)
<1>a. stack # <<>> /\ To("changed") \in Frame /\ Top \in Frame
  BY TopMoves, TopFacts DEF Destroyed, At
<1>b. PICK f \in Frame : f = To("changed")
  BY <1>a
<1>c. PICK v \in Views \cup {NoView} : v = Top.view
  BY <1>a DEF Frame
<1>0. /\ stack # <<>> /\ Top.at = "destroying" /\ stack' = <<f>> \o s
      /\ live' = live \ {v} /\ contexts' = contexts \ {v}
      /\ asked' = asked \ {v} /\ backend' = backend \ {v}
      /\ UNCHANGED <<parts, views, listed, lastError, nextView, moduleOf, replica, usurped>>
  BY <1>b, <1>c DEF Destroyed, At
<1>1. f \in Frame /\ f.at = "changed" /\ f.view = v /\ f.module = Top.module /\ ~Active(f) /\ v = Top.view
  BY <1>0, <1>b, <1>c, TopMoves DEF Active
<1>2. FrameOK(Top)
  BY <1>0, TopFacts
<1>3. FrameOK(f)'
  BY <1>0, <1>1, <1>2 DEF FrameOK, Active
<1>4. \A m \in Modules : views[m] # NoView => views[m] # v
  BY <1>0, <1>1, <1>2 DEF FrameOK, Active
<1>5. \A g \in Range(s) : FrameOK(g)'
  <2> TAKE g \in Range(s)
  <2>1. FrameOK(g) /\ (Active(Top) /\ Active(g) => g.view # v)
    BY <1>0, <1>1, TopFacts
  <2>2. v # NoView => Active(Top)
    BY <1>0, <1>1 DEF Active
  <2>3. g.at \in {"creating", "adopting"} => Active(g) /\ g.view # NoView
    BY <2>1 DEF FrameOK, Active
  <2>4. g.at \in {"creating", "adopting"} => g.view # v
    BY <2>1, <2>2, <2>3
  <2> QED BY <1>0, <2>1, <2>3, <2>4 DEF FrameOK, Active
<1>6. FramesSound' /\ stack' \in Seq(Frame) /\ Range(stack') = {f} \cup Range(s)
  BY <1>0, <1>1, <1>3, <1>5, TopFacts, NewTop
<1>7. TypeOK'
  BY <1>0, <1>6 DEF TypeOK
<1>8. StraySound'
  <2> SUFFICES ASSUME NEW w \in live' \cup contexts'
               PROVE  (InRecord(w) \/ InHand(w) \/ (w \notin live /\ InFailure(w))
                         \/ moduleOf[w] \in usurped)'
    BY DEF StraySound
  <2>0. InRecord(w) \/ InHand(w) \/ (w \notin live /\ InFailure(w)) \/ moduleOf[w] \in usurped
    BY <1>0 DEF StraySound
  <2>1. w # v
    BY <1>0
  <2>2. \A g \in Range(stack) : g.view = w => g \in Range(stack')
    BY <1>0, <1>1, <1>6, <2>1, TopFacts
  <2>3. (InHand(w) => InHand(w)') /\ (InFailure(w) => InFailure(w)')
    BY <2>2 DEF InHand, InFailure
  <2> QED BY <1>0, <2>0, <2>3 DEF InRecord
<1>9. RecordSound'
  BY <1>0, <1>4 DEF RecordSound
<1>10. PartsSound' /\ ListSound' /\ BackendReachesView'
  BY <1>0, TopFacts DEF PartsSound, ListSound, BackendReachesView
<1> QED BY <1>6, <1>7, <1>8, <1>9, <1>10

\* A module's view, if it has one, goes from the record into the hands of a
\* removal; `s` are the calls below that one.
LEMMA BeginRemoveInv ==
  ASSUME RuntimeInv, NEW m \in Modules, views[m] # NoView, NEW s \in Seq(Frame), Apart(s),
         parts = {"bridge", "node"},
         BeginRemove(m, s),
         \A g \in Range(s) : FrameOK(g)' /\ (Active(g) => g.view # views[m]),
         \A w \in live \cup contexts : InHand(w) =>
           \E g \in Range(s) : g.at \in {"creating", "adopting", "destroying"} /\ g.view = w,
         \A w \in contexts : InFailure(w) => \E g \in Range(s) : g.at = "failed" /\ g.view = w,
         UNCHANGED <<parts, lastError, nextView, moduleOf, live, contexts, usurped, bridgeVars>>
  PROVE  RuntimeInv'
<1> USE DEF RuntimeInv
<1>a. PICK v \in Views : v = views[m]
  BY DEF TypeOK
<1> DEFINE f == Call("remove", m, v, "destroying")
<1>0. /\ stack' = <<f>> \o s /\ views' = [views EXCEPT ![m] = NoView]
      /\ listed' = [listed EXCEPT ![m] = 0]
      /\ UNCHANGED <<parts, lastError, nextView, moduleOf, live, contexts, usurped, replica,
                     asked, backend>>
  BY <1>a DEF BeginRemove, Forget, bridgeVars
<1>1. v = views[m] /\ f \in Frame /\ v \in live /\ v \in contexts /\ moduleOf[v] = m /\ v \in Views
  BY <1>a DEF Frame, Call, RecordSound, TypeOK
<1>2. /\ views' \in [Modules -> Views \cup {NoView}] /\ views'[m] = NoView
      /\ \A k \in Modules : k # m => views'[k] = views[k] /\ views[k] # v
  <2>1. \A k \in Modules : k # m => views[k] # v
    BY <1>1 DEF RecordSound
  <2> QED BY <1>0, <2>1 DEF TypeOK
<1>3. FrameOK(f)'
  <2>1. v < nextView
    <3>1. nextView \in Nat /\ v \in 1..(nextView - 1)
      BY <1>1, RuntimeAssumptions DEF TypeOK
    <3> QED BY <3>1
  <2>2. \A k \in Modules : views'[k] # v
    BY <1>1, <1>2 DEF Views, NoView
  <2> QED BY <1>0, <1>1, <2>1, <2>2 DEF FrameOK, Active, Call
<1>4. FramesSound' /\ stack' \in Seq(Frame) /\ Range(stack') = {f} \cup Range(s)
  <2>1. f.view = v
    BY DEF Call
  <2> QED BY <1>0, <1>1, <1>3, <2>1, NewTop
<1>5. TypeOK'
  <2>1. listed' \in [Modules -> Nat]
    BY <1>0 DEF TypeOK
  <2> QED BY <1>0, <1>2, <1>4, <2>1 DEF TypeOK
<1>6. StraySound'
  <2> SUFFICES ASSUME NEW w \in live' \cup contexts'
               PROVE  (InRecord(w) \/ InHand(w) \/ (w \notin live /\ InFailure(w))
                         \/ moduleOf[w] \in usurped)'
    BY DEF StraySound
  <2>0. /\ w \in live \cup contexts
        /\ InRecord(w) \/ InHand(w) \/ (w \notin live /\ InFailure(w)) \/ moduleOf[w] \in usurped
    BY <1>0 DEF StraySound
  <2>1. CASE w = v
    <3>1. f \in Range(stack') /\ f.at = "destroying" /\ f.view = w
      BY <1>4, <2>1 DEF Call
    <3> QED BY <3>1 DEF InHand
  <2>2. CASE w # v
    <3>1. InRecord(w) => InRecord(w)'
      <4> SUFFICES ASSUME NEW k \in Modules, views[k] = w PROVE InRecord(w)'
        BY DEF InRecord
      <4>1. k # m
        BY <1>1, <2>2
      <4> QED BY <1>2, <4>1 DEF InRecord
    <3>2. InHand(w) => InHand(w)'
      BY <1>4, <2>0 DEF InHand
    <3>3. w \notin live /\ InFailure(w) => w \notin live' /\ InFailure(w)'
      BY <1>0, <1>4, <2>0 DEF InFailure
    <3> QED BY <1>0, <2>0, <3>1, <3>2, <3>3
  <2> QED BY <2>1, <2>2
<1>7. RecordSound' /\ ListSound'
  BY <1>0, <1>2 DEF RecordSound, ListSound, TypeOK
<1>8. PartsSound' /\ BackendReachesView'
  BY <1>0, <1>2 DEF PartsSound, BackendReachesView
<1> QED BY <1>4, <1>5, <1>6, <1>7, <1>8

\* removeModuleView(): the calls in progress stay below the removal.
LEMMA RemoveInv ==
  ASSUME RuntimeInv, NEW m \in Modules, Remove(m)
  PROVE  RuntimeInv'
<1> USE DEF RuntimeInv
<1>1. PICK s \in Seq(Frame) : s = stack
  BY DEF TypeOK
<1>2. /\ views[m] # NoView /\ BeginRemove(m, s) /\ parts = {"bridge", "node"} /\ Apart(s)
      /\ views' = [views EXCEPT ![m] = NoView]
      /\ UNCHANGED <<parts, lastError, nextView, moduleOf, live, contexts, usurped, bridgeVars>>
  BY <1>1 DEF Remove, MayCall, AtApplication, PartsSound, FramesSound, BeginRemove, Forget
<1>3. \A g \in Range(s) : FrameOK(g) /\ g \in Frame
  BY <1>1 DEF FramesSound, Range
<1>4. \A g \in Range(s) : FrameOK(g)' /\ (Active(g) => g.view # views[m])
  <2> TAKE g \in Range(s)
  <2>1. FrameOK(g) /\ g \in Frame
    BY <1>3
  <2>2. Active(g) => g.view # NoView /\ \A k \in Modules : views'[k] # g.view
    BY <1>2, <2>1 DEF FrameOK, Active, TypeOK
  <2>3. views'[g.module] # NoView => views[g.module] # NoView
    BY <1>2, <2>1 DEF TypeOK, Frame
  <2>4. Active(g) => g.view # views[m]
    BY <2>1 DEF FrameOK
  <2> QED BY <1>2, <2>1, <2>2, <2>3, <2>4 DEF FrameOK
<1> QED BY <1>1, <1>2, <1>4, BeginRemoveInv DEF InHand, InFailure

\* The new view is there; what is on record under its name by now goes.
LEMMA CreatedInv ==
  ASSUME RuntimeInv, Created
  PROVE  RuntimeInv'
<1> USE DEF RuntimeInv
<1>a. stack # <<>> /\ Top.at = "creating" /\ To("adopting") \in Frame /\ Top \in Frame
  BY TopMoves, TopFacts DEF Created, At
<1>1. PICK f \in Frame : f = To("adopting")
  BY <1>a
<1>2. PICK t \in Seq(Frame) : t = Tail(stack)
  BY <1>a, TopFacts
<1>3. /\ f.at = "adopting" /\ f.view = Top.view /\ f.module = Top.module /\ f.op = Top.op
      /\ f.module \in Modules
  BY <1>a, <1>1, TopMoves DEF Frame
<1>4. PICK m \in Modules : m = f.module
  BY <1>3
<1>5. /\ FrameOK(Top) /\ Apart(t) /\ parts = {"bridge", "node"}
      /\ Range(stack) = {Top} \cup Range(t)
      /\ \A g \in Range(t) : FrameOK(g) /\ g \in Frame
  BY <1>a, <1>2, TopFacts
<1>6. /\ f.op = "install" /\ f.view # NoView /\ f.view \in live /\ f.view \in contexts
      /\ f.view < nextView /\ moduleOf[f.view] = m
      /\ \A k \in Modules : views[k] # f.view
  BY <1>a, <1>3, <1>4, <1>5 DEF FrameOK, Active
<1>7. \A g \in Range(t) : Active(g) => g.view # f.view
  <2>1. Active(Top)
    BY <1>a, <1>3, <1>6 DEF Active
  <2> QED BY <1>a, <1>2, <1>3, <2>1, TopFacts
<1>8. PICK s \in Seq(Frame) : s = <<f>> \o t /\ Apart(s) /\ Range(s) = {f} \cup Range(t)
  BY <1>5, <1>7, Pushed, PushedApart
<1>9. /\ Replace(m, s)
      /\ UNCHANGED <<parts, lastError, nextView, moduleOf, live, contexts, usurped, bridgeVars>>
  BY <1>1, <1>2, <1>3, <1>4, <1>8 DEF Created
<1>10. \A w : InHand(w) => \E g \in Range(s) : g.at \in {"creating", "adopting", "destroying"} /\ g.view = w
  <2> SUFFICES ASSUME NEW w, NEW g \in Range(stack), g.at \in {"creating", "adopting", "destroying"},
                      g.view = w
               PROVE  \E h \in Range(s) : h.at \in {"creating", "adopting", "destroying"} /\ h.view = w
    BY DEF InHand
  <2>1. CASE g = Top
    BY <1>3, <1>8, <2>1
  <2>2. CASE g # Top
    BY <1>5, <1>8, <2>2
  <2> QED BY <2>1, <2>2
<1>11. \A w : InFailure(w) => \E g \in Range(s) : g.at = "failed" /\ g.view = w
  <2> SUFFICES ASSUME NEW w, NEW g \in Range(stack), g.at = "failed", g.view = w
               PROVE  \E h \in Range(s) : h.at = "failed" /\ h.view = w
    BY DEF InFailure
  <2>1. g # Top
    BY <1>a
  <2> QED BY <1>5, <1>8, <2>1
<1>12. CASE views[m] = NoView
  <2>1. stack' = s /\ UNCHANGED <<parts, views, listed, lastError, nextView, moduleOf, live, contexts,
                                  usurped, replica, asked, backend>>
    BY <1>9, <1>12 DEF Replace, bridgeVars
  <2>2. FrameOK(f)'
    BY <1>3, <1>4, <1>6, <1>12, <2>1 DEF FrameOK, Active
  <2>3. \A g \in Range(t) : FrameOK(g)'
    BY <1>5, <2>1 DEF FrameOK, Active
  <2>4. FramesSound' /\ stack' \in Seq(Frame) /\ Range(stack') = Range(s)
    <3>1. \A g \in Range(t) : Active(g) => g.view # f.view
      BY <1>7
    <3> QED BY <1>5, <1>8, <2>1, <2>2, <2>3, <3>1, NewTop
  <2>5. TypeOK'
    BY <2>1, <2>4 DEF TypeOK
  <2>6. StraySound'
    <3>1. \A w : (InHand(w) => InHand(w)') /\ (InFailure(w) => InFailure(w)')
      BY <1>10, <1>11, <2>4 DEF InHand, InFailure
    <3> QED BY <2>1, <3>1 DEF StraySound, InRecord
  <2>7. RecordSound' /\ PartsSound' /\ ListSound' /\ BackendReachesView'
    BY <1>5, <2>1 DEF RecordSound, PartsSound, ListSound, BackendReachesView
  <2> QED BY <2>4, <2>5, <2>6, <2>7
<1>13. CASE views[m] # NoView
  <2>1. BeginRemove(m, s) /\ views' = [views EXCEPT ![m] = NoView]
    BY <1>9, <1>13 DEF Replace, BeginRemove, Forget
  <2>2. views'[m] = NoView /\ \A k \in Modules : views'[k] # NoView => views'[k] = views[k]
    BY <2>1 DEF TypeOK
  <2>3. FrameOK(f)' /\ f.view # views[m]
    <3>1. \A k \in Modules : views'[k] # f.view
      BY <1>6, <2>2
    <3> QED BY <1>3, <1>4, <1>6, <1>9, <2>2, <3>1 DEF FrameOK, Active
  <2>4. \A g \in Range(t) : FrameOK(g)' /\ (Active(g) => g.view # views[m])
    <3> TAKE g \in Range(t)
    <3>1. FrameOK(g) /\ g \in Frame /\ g.module \in Modules
      BY <1>5 DEF Frame
    <3>2. Active(g) => g.view # views[m] /\ \A k \in Modules : views'[k] # g.view
      <4>1. Active(g) => g.view # NoView /\ \A k \in Modules : views[k] # g.view
        BY <3>1 DEF FrameOK, Active
      <4> QED BY <2>2, <4>1
    <3> QED BY <1>9, <2>2, <3>1, <3>2 DEF FrameOK
  <2>5. \A g \in Range(s) : FrameOK(g)' /\ (Active(g) => g.view # views[m])
    BY <1>8, <2>3, <2>4
  <2>6. Apart(s) /\ parts = {"bridge", "node"} /\ BeginRemove(m, s)
    BY <1>5, <1>8, <2>1
  <2>7. \A w \in live \cup contexts : InHand(w) =>
          \E g \in Range(s) : g.at \in {"creating", "adopting", "destroying"} /\ g.view = w
    BY <1>10
  <2>8. \A w \in contexts : InFailure(w) => \E g \in Range(s) : g.at = "failed" /\ g.view = w
    BY <1>11
  <2>9. UNCHANGED <<parts, lastError, nextView, moduleOf, live, contexts, usurped, bridgeVars>>
    BY <1>9
  <2> HIDE DEF RuntimeInv
  <2> QED BY <1>13, <2>5, <2>6, <2>7, <2>8, <2>9, BeginRemoveInv
<1> QED BY <1>12, <1>13

\* The new view goes on record.  If a handler has put another there since the
\* record was cleared, or an outer install has yet to put its own there, the
\* module is one of those the exception is for.
LEMMA AdoptInv ==
  ASSUME RuntimeInv, Adopt
  PROVE  RuntimeInv'
<1> USE DEF RuntimeInv
<1>a. stack # <<>> /\ Top.at = "adopting" /\ To("announcing") \in Frame /\ Top \in Frame
  BY TopMoves, TopFacts DEF Adopt, At
<1>1. PICK f \in Frame : f = To("announcing")
  BY <1>a
<1>2. PICK t \in Seq(Frame) : t = Tail(stack)
  BY <1>a, TopFacts
<1>3. PICK m \in Modules : m = Top.module
  BY <1>a DEF Frame
<1>4. PICK v \in Views \cup {NoView} : v = Top.view
  BY <1>a DEF Frame
<1>5. /\ f.at = "announcing" /\ f.view = v /\ f.module = m /\ f.op = Top.op /\ ~Active(f)
  BY <1>a, <1>1, <1>3, <1>4, TopMoves DEF Active
<1>6. /\ FrameOK(Top) /\ Apart(t) /\ parts = {"bridge", "node"}
      /\ Range(stack) = {Top} \cup Range(t)
      /\ \A g \in Range(t) : FrameOK(g) /\ g \in Frame /\ \E i \in 2..Len(stack) : stack[i] = g
  BY <1>a, <1>2, TopFacts
<1>7. /\ v # NoView /\ v \in live /\ v \in contexts /\ v < nextView /\ moduleOf[v] = m
      /\ views[m] # NoView => m \in usurped
  BY <1>a, <1>3, <1>4, <1>6 DEF FrameOK
<1>8. \A g \in Range(t) : Active(g) => g.view # v
  <2>1. Active(Top)
    BY <1>a, <1>4, <1>7 DEF Active
  <2> QED BY <1>a, <1>2, <1>4, <2>1, TopFacts
<1>9. /\ stack' = <<f>> \o t
      /\ views' = [views EXCEPT ![m] = v]
      /\ listed' = [listed EXCEPT ![m] = @ + 1]
      /\ lastError' = FALSE
      /\ usurped' = IF PastRemoval(m) THEN usurped \cup {m} ELSE usurped
      /\ UNCHANGED <<parts, nextView, moduleOf, live, contexts, replica, asked, backend>>
  BY <1>1, <1>2, <1>3, <1>4 DEF Adopt, bridgeVars
<1>10. /\ views'[m] = v /\ \A k \in Modules : k # m => views'[k] = views[k]
       /\ views' \in [Modules -> Views \cup {NoView}]
  BY <1>9 DEF TypeOK
<1>11. usurped \subseteq usurped' /\ usurped' \subseteq Modules
  BY <1>9 DEF TypeOK
<1>12. FrameOK(f)'
  BY <1>5, <1>7, <1>9 DEF FrameOK
<1>13. \A g \in Range(t) : FrameOK(g)'
  <2> TAKE g \in Range(t)
  <2>1. FrameOK(g) /\ g \in Frame /\ g.module \in Modules
    BY <1>6 DEF Frame
  <2>2. Active(g) => \A k \in Modules : views'[k] # g.view
    <3>1. Active(g) => g.view # v /\ \A k \in Modules : views[k] # g.view
      BY <1>8, <2>1 DEF FrameOK
    <3> QED BY <1>10, <3>1
  <2>3. ASSUME g.at = "adopting", views'[g.module] # NoView PROVE g.module \in usurped'
    <3>1. CASE g.module = m
      <4>1. PICK i \in 2..Len(stack) : stack[i] = g
        BY <1>6
      <4>2. PastRemoval(m)
        BY <2>1, <2>3, <3>1, <4>1 DEF PastRemoval, FrameOK
      <4> QED BY <1>9, <3>1, <4>2
    <3>2. CASE g.module # m
      BY <1>10, <1>11, <2>1, <2>3, <3>2 DEF FrameOK
    <3> QED BY <3>1, <3>2
  <2> QED BY <1>9, <2>1, <2>2, <2>3 DEF FrameOK
<1>14. FramesSound' /\ stack' \in Seq(Frame) /\ Range(stack') = {f} \cup Range(t)
  BY <1>5, <1>6, <1>9, <1>12, <1>13, NewTop
<1>15. TypeOK'
  <2>1. listed' \in [Modules -> Nat]
    BY <1>9 DEF TypeOK
  <2> QED BY <1>9, <1>10, <1>11, <1>14, <2>1 DEF TypeOK
<1>16. StraySound'
  <2> SUFFICES ASSUME NEW w \in live' \cup contexts'
               PROVE  (InRecord(w) \/ InHand(w) \/ (w \notin live /\ InFailure(w))
                         \/ moduleOf[w] \in usurped)'
    BY DEF StraySound
  <2>1. /\ w \in live \cup contexts
        /\ InRecord(w) \/ InHand(w) \/ (w \notin live /\ InFailure(w)) \/ moduleOf[w] \in usurped
    BY <1>9 DEF StraySound
  <2>2. CASE w = v
    BY <1>10, <2>2 DEF InRecord
  <2>3. CASE w # v /\ InRecord(w)
    <3>1. PICK k \in Modules : views[k] = w
      BY <2>3 DEF InRecord
    <3>2. CASE k = m
      <4>1. w # NoView
        BY <2>1, RuntimeAssumptions DEF TypeOK, NoView
      <4>2. moduleOf[w] = m /\ m \in usurped
        BY <1>7, <3>1, <3>2, <4>1 DEF RecordSound
      <4> QED BY <1>9, <1>11, <4>2
    <3>3. CASE k # m
      BY <1>10, <3>1, <3>3 DEF InRecord
    <3> QED BY <3>2, <3>3
  <2>4. CASE w # v /\ InHand(w)
    <3>1. PICK g \in Range(stack) : g.at \in {"creating", "adopting", "destroying"} /\ g.view = w
      BY <2>4 DEF InHand
    <3>2. g \in Range(stack')
      BY <1>4, <1>6, <1>14, <2>4, <3>1
    <3> QED BY <3>1, <3>2 DEF InHand
  <2>5. CASE w \notin live /\ InFailure(w)
    <3>1. PICK g \in Range(stack) : g.at = "failed" /\ g.view = w
      BY <2>5 DEF InFailure
    <3>2. g \in Range(stack')
      BY <1>a, <1>6, <1>14, <3>1
    <3> QED BY <1>9, <2>5, <3>1, <3>2 DEF InFailure
  <2>6. CASE moduleOf[w] \in usurped
    BY <1>9, <1>11, <2>6
  <2> QED BY <2>1, <2>2, <2>3, <2>4, <2>5, <2>6
<1>17. RecordSound'
  BY <1>7, <1>9, <1>10 DEF RecordSound
<1>18. ListSound'
  <2>1. /\ listed[m] \in Nat /\ listed'[m] = listed[m] + 1
        /\ \A k \in Modules : k # m => listed'[k] = listed[k]
    BY <1>9 DEF TypeOK
  <2>2. listed[m] > 0 <=> views[m] # NoView
    BY DEF ListSound
  <2>3. listed'[m] > 0 /\ (listed'[m] > 1 => m \in usurped')
    BY <1>7, <1>11, <2>1, <2>2
  <2>4. ASSUME NEW k \in Modules, k # m
        PROVE  (listed'[k] > 0 <=> views'[k] # NoView) /\ (listed'[k] > 1 => k \in usurped')
    BY <1>10, <1>11, <2>1, <2>4 DEF ListSound
  <2> QED BY <1>7, <1>10, <2>3, <2>4 DEF ListSound
<1>19. PartsSound' /\ BackendReachesView'
  BY <1>6, <1>9 DEF PartsSound, BackendReachesView
<1> QED BY <1>14, <1>15, <1>16, <1>17, <1>18, <1>19

\* moduleViewInstalled() has been heard.
LEMMA AnnouncedInv ==
  ASSUME RuntimeInv, Announced
  PROVE  RuntimeInv'
<1> USE DEF RuntimeInv
<1>a. stack # <<>> /\ Top.at = "announcing" /\ To("changed") \in Frame /\ Top \in Frame
  BY TopMoves, TopFacts DEF Announced, At
<1>1. PICK f \in Frame : f = To("changed")
  BY <1>a
<1>2. PICK t \in Seq(Frame) : t = Tail(stack)
  BY <1>a, TopFacts
<1>3. /\ f.at = "changed" /\ f.view = Top.view /\ f.module = Top.module /\ ~Active(f)
  BY <1>a, <1>1, TopMoves DEF Active
<1>4. /\ FrameOK(Top) /\ Apart(t) /\ parts = {"bridge", "node"}
      /\ Range(stack) = {Top} \cup Range(t) /\ \A g \in Range(t) : FrameOK(g)
  BY <1>a, <1>2, TopFacts
<1>5. /\ stack' = <<f>> \o t
      /\ UNCHANGED <<parts, views, listed, lastError, nextView, moduleOf, live, contexts, usurped,
                     replica, asked, backend>>
  BY <1>1, <1>2 DEF Announced, viewVars, bridgeVars
<1>6. FrameOK(f)' /\ \A g \in Range(t) : FrameOK(g)'
  BY <1>3, <1>4, <1>5 DEF FrameOK, Active
<1>7. FramesSound' /\ stack' \in Seq(Frame) /\ Range(stack') = {f} \cup Range(t)
  BY <1>3, <1>4, <1>5, <1>6, NewTop
<1>8. TypeOK'
  BY <1>5, <1>7 DEF TypeOK
<1>9. StraySound'
  <2>1. \A g \in Range(stack) : g.at \in {"creating", "adopting", "destroying", "failed"} => g \in Range(stack')
    BY <1>a, <1>4, <1>7
  <2>2. \A w : (InHand(w) => InHand(w)') /\ (InFailure(w) => InFailure(w)')
    BY <2>1 DEF InHand, InFailure
  <2> QED BY <1>5, <2>2 DEF StraySound, InRecord
<1>10. RecordSound' /\ PartsSound' /\ ListSound' /\ BackendReachesView'
  BY <1>4, <1>5 DEF RecordSound, PartsSound, ListSound, BackendReachesView
<1> QED BY <1>7, <1>8, <1>9, <1>10

\* A call returns; if it failed, its context goes.
LEMMA ReturnInv ==
  ASSUME RuntimeInv, Return
  PROVE  RuntimeInv'
<1> USE DEF RuntimeInv
<1>a. stack # <<>> /\ Top.at \in {"changed", "failed"} /\ Top \in Frame
  BY TopFacts DEF Return, At
<1>1. PICK t \in Seq(Frame) : t = Tail(stack)
  BY <1>a, TopFacts
<1>2. PICK v \in Views \cup {NoView} : v = Top.view
  BY <1>a DEF Frame
<1>3. /\ FrameOK(Top) /\ Apart(t) /\ parts = {"bridge", "node"}
      /\ Range(stack) = {Top} \cup Range(t) /\ \A g \in Range(t) : FrameOK(g)
      /\ \A g \in Range(t) : Active(Top) /\ Active(g) => g.view # v
  BY <1>a, <1>1, <1>2, TopFacts
<1>4. /\ stack' = t
      /\ contexts' = IF Top.at = "failed" THEN contexts \ {v} ELSE contexts
      /\ UNCHANGED <<parts, views, listed, lastError, nextView, moduleOf, live, usurped, replica,
                     asked, backend>>
  BY <1>1, <1>2 DEF Return, DropContext, bridgeVars
<1>5. Top.at = "failed" /\ v # NoView => Active(Top) /\ \A m \in Modules : views[m] # v
  BY <1>2, <1>3 DEF Active, FrameOK
<1>6. FramesSound'
  <2>1. ASSUME NEW g \in Range(t) PROVE FrameOK(g)'
    <3>1. FrameOK(g)
      BY <1>3
    <3>2. g.at \in {"creating", "adopting"} => Active(g) /\ g.view # NoView /\ g.view \in contexts
      BY <3>1 DEF FrameOK, Active
    <3>3. g.at \in {"creating", "adopting"} => g.view \in contexts'
      BY <1>3, <1>4, <1>5, <3>2
    <3> QED BY <1>4, <3>1, <3>3 DEF FrameOK, Active
  <2> QED BY <1>3, <1>4, <2>1 DEF FramesSound
<1>7. TypeOK'
  BY <1>4 DEF TypeOK
<1>8. StraySound'
  <2> SUFFICES ASSUME NEW w \in live' \cup contexts'
               PROVE  (InRecord(w) \/ InHand(w) \/ (w \notin live /\ InFailure(w))
                         \/ moduleOf[w] \in usurped)'
    BY DEF StraySound
  <2>1. /\ w \in live \cup contexts
        /\ InRecord(w) \/ InHand(w) \/ (w \notin live /\ InFailure(w)) \/ moduleOf[w] \in usurped
    BY <1>4 DEF StraySound
  <2>2. CASE InHand(w)
    <3>1. PICK g \in Range(stack) : g.at \in {"creating", "adopting", "destroying"} /\ g.view = w
      BY <2>2 DEF InHand
    <3>2. g \in Range(stack')
      BY <1>a, <1>3, <1>4, <3>1
    <3> QED BY <3>1, <3>2 DEF InHand
  <2>3. CASE w \notin live /\ InFailure(w)
    <3>1. PICK g \in Range(stack) : g.at = "failed" /\ g.view = w
      BY <2>3 DEF InFailure
    <3>2. g # Top
      BY <1>2, <1>4, <2>3, <3>1
    <3>3. g \in Range(stack')
      BY <1>3, <1>4, <3>1, <3>2
    <3> QED BY <1>4, <2>3, <3>1, <3>3 DEF InFailure
  <2>4. CASE InRecord(w) \/ moduleOf[w] \in usurped
    BY <1>4, <2>4 DEF InRecord
  <2> QED BY <2>1, <2>2, <2>3, <2>4
<1>9. RecordSound'
  BY <1>4, <1>5 DEF RecordSound
<1>10. PartsSound' /\ ListSound' /\ BackendReachesView'
  BY <1>3, <1>4 DEF PartsSound, ListSound, BackendReachesView
<1> QED BY <1>4, <1>6, <1>7, <1>8, <1>9, <1>10

\* What leaves the calls, the views and the record alone.
LEMMA Untouched ==
  ASSUME RuntimeInv,
         UNCHANGED <<stack, views, listed, nextView, moduleOf, live, contexts, usurped>>
  PROVE  FramesSound' /\ RecordSound' /\ StraySound' /\ ListSound'
<1> USE DEF RuntimeInv
<1>1. FramesSound'
  BY DEF FramesSound, FrameOK
<1>2. StraySound'
  BY DEF StraySound, InRecord, InHand, InFailure
<1> QED BY <1>1, <1>2 DEF RecordSound, ListSound

\* A view asks for its backend.
LEMMA AskInv ==
  ASSUME RuntimeInv, NEW v \in live, Ask(v)
  PROVE  RuntimeInv'
<1> USE DEF RuntimeInv
<1>1. PICK m \in Modules : m = moduleOf[v]
  <2>1. moduleOf \in Seq(Modules) /\ v \in 1..Len(moduleOf)
    BY DEF TypeOK
  <2> QED BY <2>1
<1>2. /\ parts = {"bridge", "node"}
      /\ replica' = [replica EXCEPT ![m] = IF @ = "none" THEN "waiting" ELSE @]
      /\ asked' = asked \cup {v}
      /\ backend' = IF replica[m] = "valid" THEN backend \cup {v} ELSE backend
      /\ UNCHANGED <<parts, stack, views, listed, lastError, nextView, moduleOf, live, contexts, usurped>>
  BY <1>1 DEF Ask, AtApplication, PartsSound, ReplicaFor, Answered, viewVars
<1>3. TypeOK'
  <2>1. replica' \in [Modules -> {"none", "waiting", "valid"}]
    BY <1>2 DEF TypeOK
  <2> QED BY <1>2, <2>1 DEF TypeOK
<1>4. PartsSound'
  BY <1>2 DEF PartsSound
<1>5. BackendReachesView'
  <2>1. \A k \in Modules : replica'[k] = "valid" <=> replica[k] = "valid"
    BY <1>2 DEF TypeOK
  <2>2. ASSUME NEW w \in asked', replica'[moduleOf[w]] = "valid" PROVE w \in backend'
    <3>1. moduleOf[w] \in Modules
      <4>1. moduleOf \in Seq(Modules) /\ w \in 1..Len(moduleOf)
        BY <1>2, <2>2 DEF TypeOK
      <4> QED BY <4>1
    <3>2. replica[moduleOf[w]] = "valid"
      BY <2>1, <2>2, <3>1
    <3>3. CASE w = v
      BY <1>1, <1>2, <3>2, <3>3
    <3>4. CASE w # v
      BY <1>2, <2>2, <3>2, <3>4 DEF BackendReachesView
    <3> QED BY <3>3, <3>4
  <2> QED BY <1>2, <2>2 DEF BackendReachesView
<1> QED BY <1>2, <1>3, <1>4, <1>5, Untouched

\* A replica becomes valid, and every view of the module that listens is told;
\* or it is lost.
LEMMA ReplicaBecomesInv ==
  ASSUME RuntimeInv, NEW m \in Modules, NEW s \in {"waiting", "valid"}, ReplicaBecomes(m, s)
  PROVE  RuntimeInv'
<1> USE DEF RuntimeInv
<1>1. /\ parts = {"bridge", "node"} /\ stack = <<>>
      /\ replica' = [replica EXCEPT ![m] = s]
      /\ backend' = IF s = "valid" THEN backend \cup Hearing(m) ELSE backend
      /\ UNCHANGED <<parts, stack, views, listed, lastError, nextView, moduleOf, live, contexts,
                     usurped, asked>>
  BY DEF ReplicaBecomes, PartsSound, viewVars
<1>2. TypeOK'
  <2>1. replica' \in [Modules -> {"none", "waiting", "valid"}]
    BY <1>1 DEF TypeOK
  <2>2. backend' \subseteq live
    BY <1>1 DEF TypeOK, Hearing
  <2> QED BY <1>1, <2>1, <2>2 DEF TypeOK
<1>3. PartsSound'
  BY <1>1 DEF PartsSound
<1>4. BackendReachesView'
  <2>1. ASSUME NEW w \in asked, replica'[moduleOf[w]] = "valid" PROVE w \in backend'
    <3>1. moduleOf[w] \in Modules
      <4>1. moduleOf \in Seq(Modules) /\ w \in 1..Len(moduleOf)
        BY DEF TypeOK
      <4> QED BY <4>1
    <3>2. CASE moduleOf[w] = m
      <4>1. s = "valid"
        BY <1>1, <2>1, <3>2 DEF TypeOK
      <4> QED BY <1>1, <3>2, <4>1 DEF Hearing
    <3>3. CASE moduleOf[w] # m
      <4>1. replica[moduleOf[w]] = "valid"
        BY <1>1, <2>1, <3>1, <3>3 DEF TypeOK
      <4> QED BY <1>1, <4>1 DEF BackendReachesView
    <3> QED BY <3>2, <3>3
  <2> QED BY <1>1, <2>1 DEF BackendReachesView
<1> QED BY <1>1, <1>2, <1>3, <1>4, Untouched

\* Nothing is in progress when the runtime is destroyed.
LEMMA Idle ==
  ASSUME stack = <<>>
  PROVE  Range(stack) = {} /\ \A w : ~InHand(w) /\ ~InFailure(w)
<1>1. Range(stack) = {}
  BY DEF Range
<1> QED BY <1>1 DEF InHand, InFailure

\* ~LogosWebRuntime destroys the views on record.
LEMMA DestroyViewsInv ==
  ASSUME RuntimeInv, DestroyViews
  PROVE  RuntimeInv'
<1> USE DEF RuntimeInv
<1> DEFINE installed == {views[m] : m \in Modules}
<1>1. /\ parts = {"bridge", "node"} /\ stack = <<>>
      /\ live' = live \ installed /\ contexts' = contexts \ installed
      /\ asked' = asked \ installed /\ backend' = backend \ installed
      /\ views' = [m \in Modules |-> NoView] /\ listed' = [m \in Modules |-> 0]
      /\ UNCHANGED <<parts, stack, lastError, nextView, moduleOf, replica, usurped>>
  BY DEF DestroyViews
<1>2. /\ \A m \in Modules : views'[m] = NoView /\ listed'[m] = 0
      /\ views' \in [Modules -> Views \cup {NoView}] /\ listed' \in [Modules -> Nat]
  BY <1>1
<1>3. Range(stack') = {}
  BY <1>1, Idle
<1>4. FramesSound'
  <2>1. Apart(stack')
    BY <1>1 DEF FramesSound
  <2> QED BY <1>3, <2>1 DEF FramesSound
<1>5. TypeOK'
  BY <1>1, <1>2 DEF TypeOK
<1>6. StraySound'
  <2>1. ASSUME NEW w \in live' \cup contexts' PROVE moduleOf'[w] \in usurped'
    <3>1. w \in live \cup contexts /\ ~InRecord(w)
      BY <1>1 DEF InRecord
    <3> QED BY <1>1, <3>1, Idle DEF StraySound
  <2> QED BY <2>1 DEF StraySound
<1>7. RecordSound' /\ PartsSound' /\ ListSound' /\ BackendReachesView'
  BY <1>1, <1>2 DEF RecordSound, PartsSound, ListSound, BackendReachesView
<1> QED BY <1>4, <1>5, <1>6, <1>7

\* ... then the bridge, with the replicas it holds, and then the node.
LEMMA DeletePartInv ==
  ASSUME RuntimeInv, DeletePart
  PROVE  RuntimeInv'
<1> USE DEF RuntimeInv
<1>1. /\ stack = <<>> /\ \A m \in Modules : views[m] = NoView
      /\ UNCHANGED <<stack, views, listed, lastError, nextView, moduleOf, live, contexts, usurped,
                     asked, backend>>
  BY DEF DeletePart, viewVars
<1>2. "bridge" \notin parts' /\ parts' \subseteq {"bridge", "node"}
  BY DEF DeletePart, NextPart, TypeOK
<1>3. /\ \A m \in Modules : replica'[m] = "none"
      /\ replica' \in [Modules -> {"none", "waiting", "valid"}]
  <2>1. CASE "bridge" \in parts
    <3>1. replica' = [m \in Modules |-> "none"]
      BY <2>1 DEF DeletePart, NextPart
    <3> QED BY <3>1
  <2>2. CASE "bridge" \notin parts
    <3>1. replica' = replica /\ \A m \in Modules : replica[m] = "none"
      BY <2>2 DEF DeletePart, NextPart, PartsSound
    <3> QED BY <3>1 DEF TypeOK
  <2> QED BY <2>1, <2>2
<1>4. TypeOK'
  BY <1>1, <1>2, <1>3 DEF TypeOK
<1>5. PartsSound'
  BY <1>1, <1>2, <1>3 DEF PartsSound
<1>6. BackendReachesView'
  <2>1. ASSUME NEW w \in asked' PROVE replica'[moduleOf'[w]] # "valid"
    <3>1. moduleOf' \in Seq(Modules) /\ w \in 1..Len(moduleOf')
      BY <1>4 DEF TypeOK
    <3> QED BY <1>3, <3>1
  <2> QED BY <2>1 DEF BackendReachesView
<1> QED BY <1>1, <1>4, <1>5, <1>6, Untouched

\* ... and what is left is destroyed with the runtime itself.
LEMMA DeleteChildrenInv ==
  ASSUME RuntimeInv, DeleteChildren
  PROVE  RuntimeInv'
<1> USE DEF RuntimeInv
<1>1. /\ parts = {} /\ live' = {} /\ contexts' = {} /\ asked' = {} /\ backend' = {}
      /\ UNCHANGED <<parts, stack, views, listed, lastError, nextView, moduleOf, replica, usurped>>
  BY DEF DeleteChildren
<1>2. stack = <<>> /\ \A m \in Modules : views[m] = NoView
  BY <1>1 DEF PartsSound
<1>3. FramesSound'
  <2>1. Range(stack') = {} /\ Apart(stack')
    BY <1>1, <1>2, Idle DEF FramesSound
  <2> QED BY <2>1 DEF FramesSound
<1>4. TypeOK'
  BY <1>1 DEF TypeOK
<1> QED BY <1>1, <1>2, <1>3, <1>4
     DEF StraySound, RecordSound, PartsSound, ListSound, BackendReachesView

-----------------------------------------------------------------------------
(***************************************************************************)
(* The theorems.                                                           *)
(***************************************************************************)

\* In every reachable state each call in progress has its view to itself, what
\* is on record lives, and nothing is astray that the exception does not cover.
THEOREM RuntimeSound == Spec => []RuntimeInv
<1>1. Init => RuntimeInv
  <2> SUFFICES ASSUME Init PROVE RuntimeInv
    OBVIOUS
  <2>1. TypeOK
    <3>1. /\ views \in [Modules -> Views \cup {NoView}] /\ listed \in [Modules -> Nat]
          /\ replica \in [Modules -> {"none", "waiting", "valid"}]
      BY DEF Init
    <3>2. stack \in Seq(Frame) /\ moduleOf \in Seq(Modules) /\ Len(moduleOf) = nextView - 1
      BY DEF Init
    <3>3. nextView \in 1..(MaxViews + 1)
      BY RuntimeAssumptions DEF Init
    <3>4. parts \subseteq {"bridge", "node"} /\ lastError \in BOOLEAN /\ usurped \subseteq Modules
      BY DEF Init
    <3> QED BY <3>1, <3>2, <3>3, <3>4 DEF Init, TypeOK
  <2>2. FramesSound
    <3>1. stack = <<>>
      BY DEF Init
    <3>2. Apart(stack)
      BY <3>1 DEF Apart
    <3> QED BY <3>1, <3>2, Idle DEF FramesSound
  <2>3. RecordSound /\ PartsSound /\ StraySound /\ ListSound /\ BackendReachesView
    BY DEF Init, RecordSound, PartsSound, StraySound, ListSound, BackendReachesView
  <2> QED BY <2>1, <2>2, <2>3 DEF RuntimeInv
<1>2. RuntimeInv /\ [Next]_vars => RuntimeInv'
  <2> SUFFICES ASSUME RuntimeInv, [Next]_vars PROVE RuntimeInv'
    OBVIOUS
  <2>1. ASSUME NEW m \in Modules, InstallFails(m) \/ Install(m) \/ Remove(m) PROVE RuntimeInv'
    BY <2>1, InstallFailsInv, InstallInv, RemoveInv
  <2>2. CASE CreatedNothing \/ Created \/ Destroyed
    BY <2>2, CreatedNothingInv, CreatedInv, DestroyedInv
  <2>3. CASE Adopt \/ Announced \/ Return
    BY <2>3, AdoptInv, AnnouncedInv, ReturnInv
  <2>4. ASSUME NEW v \in live, Ask(v) PROVE RuntimeInv'
    BY <2>4, AskInv
  <2>5. ASSUME NEW m \in Modules, NEW s \in {"waiting", "valid"}, ReplicaBecomes(m, s) PROVE RuntimeInv'
    BY <2>5, ReplicaBecomesInv
  <2>6. CASE DestroyViews \/ DeletePart \/ DeleteChildren
    BY <2>6, DestroyViewsInv, DeletePartInv, DeleteChildrenInv
  <2>7. CASE UNCHANGED vars
    <3>1. UNCHANGED <<stack, views, listed, nextView, moduleOf, live, contexts, usurped>>
      BY <2>7 DEF vars, viewVars
    <3>2. TypeOK' /\ PartsSound' /\ BackendReachesView'
      BY <2>7 DEF vars, viewVars, bridgeVars, RuntimeInv, TypeOK, PartsSound, BackendReachesView
    <3> QED BY <3>1, <3>2, Untouched DEF RuntimeInv
  <2> QED BY <2>1, <2>2, <2>3, <2>4, <2>5, <2>6, <2>7 DEF Next
<1> QED BY <1>1, <1>2, PTL DEF Spec

\* Every variable keeps its type; a view asks and listens only while it lives.
THEOREM RuntimeTypes == Spec => []TypeOK
<1>1. RuntimeInv => TypeOK
  BY DEF RuntimeInv
<1> QED BY <1>1, RuntimeSound, PTL

\* A view on record is alive and in its context.
THEOREM Alive == Spec => []InstalledIsAlive
<1>1. RuntimeInv => InstalledIsAlive
  <2> SUFFICES ASSUME RuntimeInv, NEW v \in Installed PROVE v \in live /\ v \in contexts
    BY DEF InstalledIsAlive
  <2>1. PICK m \in Modules : views[m] = v /\ v # NoView
    BY DEF Installed, Range, RuntimeInv, TypeOK
  <2> QED BY <2>1 DEF RuntimeInv, RecordSound
<1> QED BY <1>1, RuntimeSound, PTL

\* No view and no context is lost track of, and the list agrees with the record,
\* unless a handler usurped the name of an install past its removal.
THEOREM NoStray == Spec => []NothingStray
<1>1. RuntimeInv => NothingStray
  <2> SUFFICES ASSUME RuntimeInv PROVE NothingStray
    OBVIOUS
  <2>1. ASSUME NEW v \in live \cup contexts
        PROVE  \/ v \in Installed \cup InProgress
               \/ v \in Failing /\ v \notin live
               \/ moduleOf[v] \in usurped
    <3>1. v # NoView
      BY RuntimeAssumptions DEF RuntimeInv, TypeOK, NoView
    <3>2. InRecord(v) => v \in Installed
      BY <3>1 DEF InRecord, Installed, Range, RuntimeInv, TypeOK
    <3>3. InHand(v) => v \in InProgress
      BY DEF InHand, InProgress
    <3>4. InFailure(v) => v \in Failing
      BY DEF InFailure, Failing
    <3> QED BY <3>2, <3>3, <3>4 DEF RuntimeInv, StraySound
  <2> QED BY <2>1 DEF NothingStray, RuntimeInv, ListSound
<1> QED BY <1>1, RuntimeSound, PTL

\* A view that asked for its backend holds it while the backend is there.
THEOREM Reached == Spec => []BackendReachesView
<1>1. RuntimeInv => BackendReachesView
  BY DEF RuntimeInv
<1> QED BY <1>1, RuntimeSound, PTL

\* Views go before the bridge that owns their backends, replicas before the node.
THEOREM Teardown == Spec => []UsersGoFirst
<1>1. RuntimeInv => UsersGoFirst
  <2> SUFFICES ASSUME RuntimeInv PROVE UsersGoFirst
    OBVIOUS
  <2>1. ASSUME NEW v \in backend \cap Installed PROVE "bridge" \in parts
    <3>1. PICK m \in Modules : views[m] = v /\ v # NoView
      BY DEF Installed, Range, RuntimeInv, TypeOK
    <3> QED BY <3>1 DEF RuntimeInv, PartsSound
  <2> QED BY <2>1 DEF UsersGoFirst, RuntimeInv, PartsSound
<1> QED BY <1>1, RuntimeSound, PTL
=============================================================================
