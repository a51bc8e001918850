--------------------------- MODULE ObserverProofs ---------------------------
(***************************************************************************)
(* Theorems about Observer, for any threads, objects and depth of calls.   *)
(***************************************************************************)
EXTENDS Observer, SequenceTheorems, TLAPS

\* The frames of a thread that attach or detach, and what is still to call
\* in the others.
Changes(t) == {f \in Frames(t) : f.call # "notify"}
Todos(t) == {f.todo : f \in {g \in Frames(t) : g.call = "notify"}}

\* A callback that runs, or has run, is that of the first observer to call.
Frame == {f \in Notification : f.at # "next" => f.todo # <<>>} \cup Change
StackType == stack \in [Thread -> Seq(Frame)]

\* Only the innermost call changes anything: no callback runs inside of it.
Stacks == \A t \in Thread : stack[t] # <<>> =>
              \A f \in ToSet(Tail(stack[t])) : f.call = "notify"

ListsOK == \A x \in Observables :
    /\ IsInjective(observers[x])
    /\ \A o \in ToSet(observers[x]) : x \in alive /\ o \in alive /\ obsv[o] = x

BackPointersOK == \A o \in Observers : obsv[o] # NULL =>
    /\ o \in alive /\ obsv[o] \in alive
    /\ \/ o \in ToSet(observers[obsv[o]])
       \/ \E t \in Thread : \E f \in Changes(t) : f.who = o

\* An observer that is being attached or detached exists, and so does its
\* observable, which lists it until it is unlinked and from when it is added.
ChangesOK == \A t \in Thread : \A f \in Changes(t) :
    /\ f.who \in alive /\ f.on \in alive /\ obsv[f.who] = f.on
    /\ f.call = "attach" => ~f.destroys
    /\ f.call # "unlink" => f.who \notin ToSet(observers[f.on])

\* Nobody is attached or detached twice at a time.
OneChange == \A s, t \in Thread : \A f \in Changes(s), g \in Changes(t) :
    f.who = g.who => s = t

\* Whoever is still to be called exists, and is not being destroyed.
TodosOK == \A t \in Thread : \A d \in Todos(t) : \A o \in ToSet(d) :
    /\ o \in alive
    /\ \A s \in Thread : \A f \in Changes(s) : f.who = o => ~f.destroys

Inv == /\ TypeOK /\ StackType /\ Stacks
       /\ ListsOK /\ BackPointersOK /\ ChangesOK /\ OneChange /\ TodosOK

-----------------------------------------------------------------------------
(* Sequences, and the elements of sequences.                               *)

LEMMA ElementsAre ==
  ASSUME NEW S, NEW s \in Seq(S)
  PROVE  /\ \A e : e \in ToSet(s) <=> \E i \in 1..Len(s) : s[i] = e
         /\ ToSet(s) \subseteq S
<1>1. DOMAIN s = 1..Len(s) /\ \A i \in 1..Len(s) : s[i] \in S
  OBVIOUS
<1> QED  BY <1>1 DEF ToSet

LEMMA ConsElements ==
  ASSUME NEW S, NEW s \in Seq(S), NEW e \in S
  PROVE  <<e>> \o s \in Seq(S) /\ <<e>> \o s # <<>> /\ ToSet(<<e>> \o s) = {e} \cup ToSet(s)
         /\ Head(<<e>> \o s) = e /\ Tail(<<e>> \o s) = s
<1> DEFINE c == <<e>> \o s
<1>1. /\ c \in Seq(S) /\ Len(c) = Len(s) + 1 /\ Len(s) \in Nat
      /\ c[1] = e /\ \A i \in 1..Len(s) : c[i + 1] = s[i]
      /\ c # <<>> /\ Head(c) = e
  OBVIOUS
<1>2. Tail(c) = s
  <2>1. Tail(c) \in Seq(S) /\ Len(Tail(c)) = Len(s) /\ \A i \in 1..Len(s) : Tail(c)[i] = s[i]
    BY <1>1
  <2> QED  BY <2>1
<1>3. ToSet(c) = {e} \cup ToSet(s)
  <2>1. ASSUME NEW x \in ToSet(c) PROVE x \in {e} \cup ToSet(s)
    <3>1. PICK i \in 1..Len(c) : c[i] = x
      BY <1>1, ElementsAre
    <3>2. CASE i = 1
      BY <1>1, <3>1, <3>2
    <3>3. CASE i # 1
      <4>1. i - 1 \in 1..Len(s) /\ s[i - 1] = x
        BY <1>1, <3>1, <3>3
      <4> QED  BY <4>1, ElementsAre
    <3> QED  BY <3>2, <3>3
  <2>2. e \in ToSet(c)
    <3>1. 1 \in 1..Len(c) /\ c[1] = e
      BY <1>1
    <3> QED  BY <1>1, <3>1, ElementsAre
  <2>3. ASSUME NEW x \in ToSet(s) PROVE x \in ToSet(c)
    <3>1. PICK i \in 1..Len(s) : s[i] = x
      BY ElementsAre
    <3>2. i + 1 \in 1..Len(c) /\ c[i + 1] = x
      BY <1>1, <3>1
    <3> QED  BY <1>1, <3>2, ElementsAre
  <2> QED  BY <2>1, <2>2, <2>3
<1> QED  BY <1>1, <1>2, <1>3

LEMMA TailElements ==
  ASSUME NEW S, NEW s \in Seq(S), s # <<>>
  PROVE  /\ Tail(s) \in Seq(S) /\ Head(s) \in S
         /\ ToSet(s) = {Head(s)} \cup ToSet(Tail(s))
         /\ s = <<Head(s)>> \o Tail(s)
<1>1. Tail(s) \in Seq(S) /\ Head(s) \in S
  OBVIOUS
<1>2. s = <<Head(s)>> \o Tail(s)
  <2> DEFINE c == <<Head(s)>> \o Tail(s)
  <2>1. c \in Seq(S) /\ Len(c) = Len(s) /\ \A i \in 1..Len(s) : c[i] = s[i]
    OBVIOUS
  <2> QED  BY <2>1
<1> QED  BY <1>1, <1>2, ConsElements

LEMMA EmptyElements == ToSet(<<>>) = {}
  BY DEF ToSet

LEMMA AppendElements ==
  ASSUME NEW S, NEW s \in Seq(S), NEW e \in S
  PROVE  /\ Append(s, e) \in Seq(S) /\ ToSet(Append(s, e)) = ToSet(s) \cup {e}
         /\ IsInjective(s) /\ e \notin ToSet(s) => IsInjective(Append(s, e))
<1> DEFINE a == Append(s, e)
<1>1. /\ a \in Seq(S) /\ Len(a) = Len(s) + 1 /\ Len(s) \in Nat
      /\ DOMAIN a = 1..(Len(s) + 1) /\ DOMAIN s = 1..Len(s)
      /\ a[Len(s) + 1] = e /\ \A i \in 1..Len(s) : a[i] = s[i]
  OBVIOUS
<1> HIDE DEF a
<1>2. \A x : x \in ToSet(a) <=> x \in ToSet(s) \/ x = e
  <2>1. \A x : x \in ToSet(a) <=> \E i \in 1..(Len(s) + 1) : a[i] = x
    BY <1>1, ElementsAre
  <2>2. \A x : x \in ToSet(s) <=> \E i \in 1..Len(s) : s[i] = x
    BY ElementsAre
  <2>3. Len(s) + 1 \in 1..(Len(s) + 1) /\ \A i \in 1..Len(s) : i \in 1..(Len(s) + 1)
    BY <1>1
  <2>4. \A i \in 1..(Len(s) + 1) : i \in 1..Len(s) \/ i = Len(s) + 1
    BY <1>1
  <2> QED  BY <1>1, <2>1, <2>2, <2>3, <2>4
<1>3. ASSUME IsInjective(s), e \notin ToSet(s) PROVE IsInjective(a)
  <2>1. \A i \in 1..Len(s) : s[i] # e
    BY <1>3, ElementsAre
  <2>2. \A i, j \in 1..Len(s) : s[i] = s[j] => i = j
    BY <1>1, <1>3 DEF IsInjective
  <2>3. ASSUME NEW i \in 1..(Len(s) + 1), NEW j \in 1..(Len(s) + 1), a[i] = a[j] PROVE i = j
    <3>1. CASE i \in 1..Len(s) /\ j \in 1..Len(s)
      BY <1>1, <2>2, <2>3, <3>1
    <3>2. CASE i = Len(s) + 1 \/ j = Len(s) + 1
      BY <1>1, <2>1, <2>3, <3>2
    <3> QED  BY <1>1, <3>1, <3>2
  <2> QED  BY <1>1, <2>3 DEF IsInjective
<1> QED  BY <1>1, <1>2, <1>3 DEF a

\* erase(find()) of an element that is listed once, or not at all.
LEMMA RemoveElements ==
  ASSUME NEW S, NEW s \in Seq(S), NEW e, IsInjective(s)
  PROVE  /\ RemoveFirst(s, e) \in Seq(S) /\ IsInjective(RemoveFirst(s, e))
         /\ ToSet(RemoveFirst(s, e)) = ToSet(s) \ {e}
<1>1. /\ Len(s) \in Nat /\ DOMAIN s = 1..Len(s)
      /\ \A i, j \in 1..Len(s) : s[i] = s[j] => i = j
  BY DEF IsInjective
<1>2. CASE \E i \in 1..Len(s) : s[i] = e
  <2>1. PICK k \in 1..Len(s) : s[k] = e
    BY <1>2
  <2>2. {i \in 1..Len(s) : s[i] = e} = {k}
    BY <1>1, <2>1
  <2>3. SelectInSeq(s, LAMBDA v : v = e) = k
    BY <2>2 DEF SelectInSeq, Min
  <2> DEFINE l == SubSeq(s, 1, k - 1)
             u == SubSeq(s, k + 1, Len(s))
             r == l \o u
  <2>4. RemoveFirst(s, e) = r
    BY <1>2, <2>3 DEF RemoveFirst, RemoveAt
  <2>5. /\ l \in Seq(S) /\ u \in Seq(S) /\ Len(l) = k - 1 /\ Len(u) = Len(s) - k
        /\ \A i \in 1..(k - 1) : l[i] = s[i]
        /\ \A i \in 1..(Len(s) - k) : u[i] = s[k + i]
    OBVIOUS
  <2> HIDE DEF l, u
  <2>6. /\ r \in Seq(S) /\ Len(r) = Len(s) - 1 /\ DOMAIN r = 1..(Len(s) - 1)
        /\ \A i \in 1..(Len(s) - 1) : r[i] = IF i < k THEN s[i] ELSE s[i + 1]
    <3>1. /\ r \in Seq(S) /\ Len(r) = Len(l) + Len(u)
          /\ \A i \in 1..(Len(l) + Len(u)) : r[i] = IF i <= Len(l) THEN l[i] ELSE u[i - Len(l)]
      BY <2>5, ConcatProperties
    <3> HIDE DEF r
    <3>2. Len(r) = Len(s) - 1
      BY <1>1, <2>5, <3>1
    <3>3. DOMAIN r = 1..(Len(s) - 1)
      BY <3>1, <3>2
    <3>4. ASSUME NEW i \in 1..(Len(s) - 1) PROVE r[i] = IF i < k THEN s[i] ELSE s[i + 1]
      <4>1. r[i] = IF i <= k - 1 THEN l[i] ELSE u[i - (k - 1)]
        BY <1>1, <2>5, <3>1
      <4>2. CASE i < k
        BY <2>5, <4>1, <4>2
      <4>3. CASE i >= k
        <5>1. i - (k - 1) \in 1..(Len(s) - k) /\ k + (i - (k - 1)) = i + 1
          BY <1>1, <4>3
        <5> QED  BY <2>5, <4>1, <4>3, <5>1
      <4> QED  BY <4>2, <4>3
    <3> QED  BY <3>1, <3>2, <3>3, <3>4
  <2> HIDE DEF r
  <2>7. IsInjective(r)
    BY <1>1, <2>6 DEF IsInjective
  <2>8. ASSUME NEW x \in ToSet(r) PROVE x \in ToSet(s) /\ x # e
    <3>1. PICK i \in 1..(Len(s) - 1) : r[i] = x
      BY <2>6, ElementsAre
    <3>2. PICK j \in 1..Len(s) : j # k /\ s[j] = x
      BY <1>1, <2>6, <3>1
    <3> QED  BY <1>1, <2>1, <3>2, ElementsAre
  <2>9. ASSUME NEW x \in ToSet(s), x # e PROVE x \in ToSet(r)
    <3>1. PICK j \in 1..Len(s) : s[j] = x
      BY ElementsAre
    <3>2. \E i \in 1..(Len(s) - 1) : r[i] = x
      <4>1. CASE j < k
        BY <1>1, <2>6, <3>1, <4>1
      <4>2. CASE j > k
        <5>1. j - 1 \in 1..(Len(s) - 1) /\ r[j - 1] = x
          BY <1>1, <2>6, <3>1, <4>2
        <5> QED  BY <5>1
      <4> QED  BY <1>1, <2>1, <2>9, <3>1, <4>1, <4>2
    <3> QED  BY <2>6, <3>2, ElementsAre
  <2> QED  BY <2>4, <2>6, <2>7, <2>8, <2>9
<1>3. CASE ~\E i \in 1..Len(s) : s[i] = e
  <2>1. RemoveFirst(s, e) = s
    BY <1>3 DEF RemoveFirst
  <2>2. e \notin ToSet(s)
    BY <1>3, ElementsAre
  <2> QED  BY <2>1, <2>2
<1> QED  BY <1>2, <1>3

-----------------------------------------------------------------------------
(* What the operations on a stack do to its frames.                        *)

LEMMA FrameKinds ==
  /\ \A f \in Frame :
       /\ f.on \in Observables
       /\ f.call = "notify" => f \in Notification /\ f.todo \in Seq(Observers)
       /\ f.call # "notify" => f \in Change /\ f.who \in Observers /\ f.destroys \in BOOLEAN
  /\ \A f \in Notification : f.call = "notify"
  /\ \A f \in Change : f.call # "notify"
  BY DEF Frame, Notification, Change

LEMMA CallingFrame ==
  ASSUME NEW f \in Frame, f.call = "notify", f.at # "next"
  PROVE  f.todo # <<>>
  BY FrameKinds DEF Frame

LEMMA FramesAre ==
  ASSUME StackType, NEW t \in Thread
  PROVE  /\ stack[t] \in Seq(Frame) /\ Frames(t) \subseteq Frame
         /\ stack[t] = <<>> => Frames(t) = {}
         /\ stack[t] # <<>> =>
              /\ Head(stack[t]) \in Frame /\ Tail(stack[t]) \in Seq(Frame)
              /\ Frames(t) = {Head(stack[t])} \cup ToSet(Tail(stack[t]))
<1>1. stack[t] \in Seq(Frame)
  BY DEF StackType
<1> QED  BY <1>1, ElementsAre, TailElements, EmptyElements DEF Frames

Same(t) == Changes(t)' = Changes(t) /\ Todos(t)' = Todos(t)

\* What is on the stack of t below the innermost call.
Outer(t) == Tail(stack[t])

\* Other threads' frames stay; so do a thread's own with the same stack.
LEMMA SameStack ==
  ASSUME NEW t \in Thread, stack'[t] = stack[t]
  PROVE  Same(t)
  BY DEF Same, Changes, Todos, Frames

\* The stack of a thread whose client makes a call.
LEMMA CallingIs ==
  ASSUME StackType, Stacks, NEW t \in Thread, Client(t)
  PROVE  /\ Calling(t) \in Seq(Frame)
         /\ Changes(t) = {} /\ \A f \in ToSet(Calling(t)) : f.call = "notify"
         /\ {f.todo : f \in ToSet(Calling(t))} = Todos(t)
         /\ Calling(t) = <<>> <=> stack[t] = <<>>
<1>1. CASE stack[t] = <<>>
  BY <1>1, FramesAre, EmptyElements DEF Calling, Changes, Todos
<1>2. CASE stack[t] # <<>>
  <2>h. PICK h \in Frame : h = Head(stack[t])
    BY <1>2, FramesAre
  <2>1. h.call = "notify" /\ Tail(stack[t]) \in Seq(Frame)
        /\ Frames(t) = {h} \cup ToSet(Tail(stack[t]))
    BY <1>2, <2>h, FramesAre DEF Client
  <2>2. h \in Notification /\ h.at = "callback" /\ h.todo # <<>>
    <3>1. h.at = "callback"
      BY <1>2, <2>h DEF Client
    <3>2. h \in Notification
      BY <2>1, FrameKinds
    <3>3. h.todo # <<>>
      BY <2>1, <3>1, CallingFrame
    <3> QED  BY <3>1, <3>2, <3>3
  <2>g. PICK g : g = [h EXCEPT !.at = "called"]
    OBVIOUS
  <2>3. g \in Notification /\ g.call = "notify" /\ g.todo = h.todo /\ g \in Frame
    BY <2>2, <2>g DEF Notification, Frame
  <2>4. \A f \in ToSet(Tail(stack[t])) : f.call = "notify"
    BY <1>2 DEF Stacks
  <2>5. Calling(t) = <<g>> \o Tail(stack[t])
    BY <1>2, <2>h, <2>g DEF Calling
  <2>6. /\ Calling(t) \in Seq(Frame) /\ Calling(t) # <<>>
        /\ ToSet(Calling(t)) = {g} \cup ToSet(Tail(stack[t]))
    <3>1. PICK r \in Seq(Frame) : r = Tail(stack[t])
      BY <2>1
    <3>2. <<g>> \o r \in Seq(Frame) /\ <<g>> \o r # <<>> /\ ToSet(<<g>> \o r) = {g} \cup ToSet(r)
      BY <2>3, ConsElements
    <3> QED  BY <2>5, <3>1, <3>2
  <2>7. Changes(t) = {} /\ Todos(t) = {f.todo : f \in Frames(t)}
    BY <2>1, <2>4 DEF Changes, Todos
  <2>8. {f.todo : f \in ToSet(Calling(t))} = {f.todo : f \in Frames(t)}
    BY <2>1, <2>3, <2>6
  <2> QED  BY <1>2, <2>3, <2>4, <2>6, <2>7, <2>8
<1> QED  BY <1>1, <1>2

Elsewhere(t) == \A s \in Thread \ {t} : Same(s)

LEMMA OthersSame ==
  ASSUME StackType, NEW t \in Thread, NEW new, stack' = [stack EXCEPT ![t] = new]
  PROVE  Elsewhere(t) /\ stack'[t] = new
  BY SameStack DEF StackType, Elsewhere

LEMMA StacksKept ==
  ASSUME StackType, Stacks, NEW t \in Thread, NEW new \in Seq(Frame),
         stack' = [stack EXCEPT ![t] = new],
         new # <<>> => \A f \in ToSet(Tail(new)) : f.call = "notify"
  PROVE  StackType' /\ Stacks'
<1>1. StackType /\ DOMAIN stack = Thread
  BY DEF StackType
<1>2. StackType'
  BY <1>1 DEF StackType
<1>3. \A s \in Thread : stack'[s] = IF s = t THEN new ELSE stack[s]
  BY <1>1
<1> QED  BY <1>2, <1>3 DEF Stacks

\* A call of the client that begins nothing, and returns at once.
LEMMA CalledIs ==
  ASSUME StackType, Stacks, NEW t \in Thread, Client(t), Called(t)
  PROVE  Elsewhere(t) /\ Same(t) /\ StackType' /\ Stacks'
<1>1. Elsewhere(t) /\ stack'[t] = Calling(t)
  BY OthersSame DEF Called
<1>2. Frames(t)' = ToSet(Calling(t))
  BY <1>1 DEF Frames
<1>3. Calling(t) # <<>> => \A f \in ToSet(Tail(Calling(t))) : f.call = "notify"
  <2>1. PICK c \in Seq(Frame) : c = Calling(t)
    BY CallingIs
  <2>2. c # <<>> => ToSet(Tail(c)) \subseteq ToSet(c)
    BY TailElements
  <2> QED  BY <2>1, <2>2, CallingIs
<1>4. StackType' /\ Stacks'
  BY <1>3, CallingIs, StacksKept DEF Called
<1> QED  BY <1>1, <1>2, <1>4, CallingIs DEF Same, Changes, Todos

LEMMA PushIs ==
  ASSUME StackType, Stacks, NEW t \in Thread, NEW f \in Frame, Client(t), Push(t, f)
  PROVE  /\ Elsewhere(t) /\ Changes(t) = {} /\ StackType' /\ Stacks'
         /\ f.call = "notify" => Changes(t)' = {} /\ Todos(t)' = Todos(t) \cup {f.todo}
         /\ f.call # "notify" => Changes(t)' = {f} /\ Todos(t)' = Todos(t)
<1>1. Elsewhere(t) /\ stack'[t] = <<f>> \o Calling(t)
  BY OthersSame DEF Push
<1>2. PICK c \in Seq(Frame) : c = Calling(t)
  BY CallingIs
<1>3. /\ <<f>> \o c # <<>> /\ Tail(<<f>> \o c) = c
      /\ ToSet(<<f>> \o c) = {f} \cup ToSet(c)
  BY ConsElements
<1>4. Frames(t)' = {f} \cup ToSet(c)
  BY <1>1, <1>2, <1>3 DEF Frames
<1>5. /\ Changes(t) = {} /\ \A g \in ToSet(c) : g.call = "notify"
      /\ {g.todo : g \in ToSet(c)} = Todos(t)
  BY <1>2, CallingIs
<1>6. Changes(t)' = {g \in {f} \cup ToSet(c) : g.call # "notify"}
  BY <1>4 DEF Changes
<1>7. Todos(t)' = {g.todo : g \in {h \in {f} \cup ToSet(c) : h.call = "notify"}}
  BY <1>4 DEF Todos
<1>8. StackType' /\ Stacks'
  <2>1. PICK new \in Seq(Frame) : new = <<f>> \o Calling(t)
    BY <1>2, ConsElements
  <2> QED  BY <1>2, <1>3, <1>5, <2>1, StacksKept DEF Push
<1> QED  BY <1>1, <1>2, <1>3, <1>5, <1>6, <1>7, <1>8

\* The innermost frame of a thread that is in a call.
LEMMA InnerIs ==
  ASSUME StackType, Stacks, NEW t \in Thread, NEW call, Inner(t, call)
  PROVE  /\ Head(stack[t]) \in Frame /\ Head(stack[t]) \in Frames(t)
         /\ Head(stack[t]).call = call
         /\ call # "notify" => Changes(t) = {Head(stack[t])}
         /\ call = "notify" => Changes(t) = {} /\ Head(stack[t]).todo \in Todos(t)
<1>1. /\ Head(stack[t]) \in Frame /\ Frames(t) = {Head(stack[t])} \cup ToSet(Outer(t))
      /\ Head(stack[t]).call = call /\ \A f \in ToSet(Outer(t)) : f.call = "notify"
  BY FramesAre DEF Inner, Stacks, Outer
<1> QED  BY <1>1 DEF Changes, Todos

LEMMA PopIs ==
  ASSUME StackType, Stacks, NEW t \in Thread, NEW call, Inner(t, call), Pop(t)
  PROVE  /\ Elsewhere(t) /\ Changes(t)' = {} /\ Todos(t)' \subseteq Todos(t)
         /\ StackType' /\ Stacks'
<1>1. Elsewhere(t) /\ stack'[t] = Outer(t)
  BY OthersSame DEF Pop, Outer
<1>2. /\ Outer(t) \in Seq(Frame) /\ Frames(t) = {Head(stack[t])} \cup ToSet(Outer(t))
      /\ \A f \in ToSet(Outer(t)) : f.call = "notify"
  BY FramesAre DEF Inner, Stacks, Outer
<1>3. Frames(t)' = ToSet(Outer(t))
  BY <1>1 DEF Frames
<1>4. stack'[t] # <<>> => ToSet(Tail(stack'[t])) \subseteq ToSet(Outer(t))
  <2> SUFFICES ASSUME stack'[t] # <<>> PROVE ToSet(Tail(stack'[t])) \subseteq ToSet(Outer(t))
    OBVIOUS
  <2>1. PICK o \in Seq(Frame) : o = Outer(t) /\ o # <<>>
    BY <1>1, <1>2
  <2> QED  BY <1>1, <2>1, TailElements
<1>5. StackType' /\ Stacks'
  BY <1>1, <1>2, <1>4, StacksKept DEF Pop, Outer
<1> QED  BY <1>1, <1>2, <1>3, <1>5 DEF Changes, Todos

LEMMA StepIs ==
  ASSUME StackType, Stacks, NEW t \in Thread, NEW call, NEW f \in Frame, Inner(t, call), Step(t, f)
  PROVE  /\ Elsewhere(t) /\ StackType' /\ Stacks'
         /\ f.call = "notify" => Changes(t)' = {} /\ Todos(t)' \subseteq Todos(t) \cup {f.todo}
         /\ f.call # "notify" => Changes(t)' = {f} /\ Todos(t)' \subseteq Todos(t)
<1>1. Elsewhere(t) /\ stack'[t] = <<f>> \o Outer(t)
  BY OthersSame DEF Step, Outer
<1>2. /\ Outer(t) \in Seq(Frame) /\ Frames(t) = {Head(stack[t])} \cup ToSet(Outer(t))
      /\ \A g \in ToSet(Outer(t)) : g.call = "notify"
  BY FramesAre DEF Inner, Stacks, Outer
<1>3. PICK o \in Seq(Frame) : o = Outer(t)
  BY <1>2
<1>4. /\ <<f>> \o o # <<>> /\ Tail(<<f>> \o o) = o
      /\ ToSet(<<f>> \o o) = {f} \cup ToSet(o)
  BY ConsElements
<1>5. Frames(t)' = {f} \cup ToSet(o)
  BY <1>1, <1>3, <1>4 DEF Frames
<1>6. Changes(t)' = {g \in {f} \cup ToSet(o) : g.call # "notify"}
  BY <1>5 DEF Changes
<1>7. Todos(t)' = {g.todo : g \in {h \in {f} \cup ToSet(o) : h.call = "notify"}}
  BY <1>5 DEF Todos
<1>8. {g.todo : g \in ToSet(o)} \subseteq Todos(t)
  BY <1>2, <1>3 DEF Todos
<1>9. StackType' /\ Stacks'
  <2>1. PICK new \in Seq(Frame) : new = <<f>> \o Outer(t)
    BY <1>3, ConsElements
  <2> QED  BY <1>2, <1>3, <1>4, <2>1, StacksKept DEF Step, Outer
<1> QED  BY <1>1, <1>2, <1>3, <1>4, <1>6, <1>7, <1>8, <1>9
-----------------------------------------------------------------------------
(* Every step keeps the invariant.                                         *)

LEMMA TypeKept ==
  ASSUME TypeOK, StackType', alive' \subseteq Observables \cup Observers,
         observers' \in [Observables -> Seq(Observers)],
         obsv' \in [Observers -> Observables \cup {NULL}]
  PROVE  TypeOK'
<1>1. Seq(Frame) \subseteq Seq(Notification \cup Change)
  <2>1. Frame \subseteq Notification \cup Change
    BY DEF Frame
  <2> QED  BY <2>1
<1> QED  BY <1>1 DEF TypeOK, StackType

LEMMA ElementTypes ==
  ASSUME TypeOK, StackType
  PROVE  /\ \A x \in Observables : observers[x] \in Seq(Observers)
                                   /\ ToSet(observers[x]) \subseteq Observers
         /\ \A o \in Observers : obsv[o] \in Observables \cup {NULL}
         /\ \A t \in Thread : \A f \in Changes(t) :
              f \in Frame /\ f.who \in Observers /\ f.on \in Observables /\ f.destroys \in BOOLEAN
         /\ \A t \in Thread : \A d \in Todos(t) : d \in Seq(Observers) /\ ToSet(d) \subseteq Observers
<1>1. \A x \in Observables : observers[x] \in Seq(Observers)
  BY DEF TypeOK
<1>2. \A x \in Observables : ToSet(observers[x]) \subseteq Observers
  BY <1>1, ElementsAre
<1>3. \A t \in Thread : Frames(t) \subseteq Frame
  BY FramesAre
<1>4. \A t \in Thread : \A f \in Changes(t) :
         f \in Frame /\ f.who \in Observers /\ f.on \in Observables /\ f.destroys \in BOOLEAN
  BY <1>3, FrameKinds DEF Changes
<1>5. \A t \in Thread : \A d \in Todos(t) : d \in Seq(Observers)
  <2> SUFFICES ASSUME NEW t \in Thread, NEW f \in Frames(t), f.call = "notify"
               PROVE  f.todo \in Seq(Observers)
    BY DEF Todos
  <2> QED  BY <1>3, FrameKinds
<1>6. \A t \in Thread : \A d \in Todos(t) : ToSet(d) \subseteq Observers
  BY <1>5, ElementsAre
<1> QED  BY <1>1, <1>2, <1>4, <1>5, <1>6 DEF TypeOK

LEMMA ConstructKeeps ==
  ASSUME Inv, NEW t \in Thread, NEW o \in Observers, NEW x \in Observables, Construct(t, o, x)
  PROVE  Inv'
<1> USE DEF Inv
<1>f. PICK f \in Frame :
         f = [call |-> "attach", on |-> x, who |-> o, destroys |-> FALSE]
  BY DEF Frame, Change
<1>1. /\ o \notin alive /\ x \in alive /\ alive' = alive \cup {o}
      /\ obsv' = [obsv EXCEPT ![o] = x] /\ observers' = observers
  BY DEF Construct
<1>2. /\ Elsewhere(t) /\ Changes(t) = {} /\ StackType' /\ Stacks'
      /\ Changes(t)' = {f} /\ Todos(t)' = Todos(t)
      /\ f.call = "attach" /\ f.who = o /\ f.on = x /\ f.destroys = FALSE
  BY <1>f, PushIs DEF Construct
<1>3. TypeOK'
  BY <1>1, <1>2, TypeKept DEF TypeOK
<1>4. \A p \in Observers : p # o => obsv'[p] = obsv[p]
  BY <1>1 DEF TypeOK
<1>5. obsv'[o] = x
  BY <1>1 DEF TypeOK
<1>6. /\ \A s \in Thread : s # t => Changes(s)' = Changes(s)
      /\ \A s \in Thread : Todos(s)' = Todos(s)
  BY <1>2 DEF Elsewhere, Same
<1>7. ListsOK'
  BY <1>1, <1>4, ElementTypes DEF ListsOK
<1>8. BackPointersOK'
  <2> SUFFICES ASSUME NEW p \in Observers, obsv'[p] # NULL
               PROVE  /\ p \in alive' /\ obsv'[p] \in alive'
                      /\ \/ p \in ToSet(observers'[obsv'[p]])
                         \/ \E s \in Thread : \E g \in Changes(s)' : g.who = p
    BY DEF BackPointersOK
  <2>1. CASE p = o
    BY <1>1, <1>2, <1>5, <2>1
  <2>2. CASE p # o
    BY <1>1, <1>2, <1>4, <1>6, <2>2 DEF BackPointersOK
  <2> QED  BY <2>1, <2>2
<1>9. ChangesOK'
  <2> SUFFICES ASSUME NEW s \in Thread, NEW g \in Changes(s)'
               PROVE  /\ g.who \in alive' /\ g.on \in alive' /\ obsv'[g.who] = g.on
                      /\ g.call = "attach" => ~g.destroys
                      /\ g.call # "unlink" => g.who \notin ToSet(observers'[g.on])
    BY DEF ChangesOK
  <2>1. CASE s = t
    BY <1>1, <1>2, <1>5, <2>1 DEF ListsOK
  <2>2. CASE s # t
    BY <1>1, <1>4, <1>6, <2>2, ElementTypes DEF ChangesOK
  <2> QED  BY <2>1, <2>2
<1>10. OneChange'
  <2>1. \A s \in Thread : \A g \in Changes(s) : g.who # o
    BY <1>1 DEF ChangesOK
  <2> QED  BY <1>2, <1>6, <2>1 DEF OneChange
<1>11. TodosOK'
  <2>1. \A s \in Thread : \A g \in Changes(s)' : g \in Changes(s) \/ ~g.destroys
    BY <1>2, <1>6
  <2> QED  BY <1>1, <1>6, <2>1 DEF TodosOK
<1> QED  BY <1>2, <1>3, <1>7, <1>8, <1>9, <1>10, <1>11
LEMMA AddObserverKeeps ==
  ASSUME Inv, NEW t \in Thread, AddObserver(t)
  PROVE  Inv'
<1> USE DEF Inv
<1>f. PICK f \in Frame : f = Head(stack[t])
  BY InnerIs DEF AddObserver
<1>1. /\ Changes(t) = {f} /\ f.call = "attach" /\ f.who \in Observers /\ f.on \in Observables
      /\ Elsewhere(t) /\ Changes(t)' = {} /\ Todos(t)' \subseteq Todos(t) /\ StackType' /\ Stacks'
  BY <1>f, InnerIs, PopIs, FrameKinds DEF AddObserver
<1>2. /\ observers' = [observers EXCEPT ![f.on] = Append(observers[f.on], f.who)]
      /\ alive' = alive /\ obsv' = obsv
  BY <1>f DEF AddObserver
<1>3. \A s \in Thread : Changes(s)' \subseteq Changes(s) /\ Todos(s)' \subseteq Todos(s)
  BY <1>1 DEF Elsewhere, Same
<1>4. /\ f.who \in alive /\ f.on \in alive /\ obsv[f.who] = f.on
      /\ f.who \notin ToSet(observers[f.on])
  BY <1>1 DEF ChangesOK
<1>5. PICK l \in Seq(Observers) : l = observers[f.on]
  BY <1>1, ElementTypes
<1>6. /\ Append(l, f.who) \in Seq(Observers) /\ ToSet(Append(l, f.who)) = ToSet(l) \cup {f.who}
      /\ IsInjective(Append(l, f.who))
  BY <1>1, <1>4, <1>5, AppendElements DEF ListsOK
<1>7. /\ observers'[f.on] = Append(l, f.who)
      /\ \A x \in Observables : x # f.on => observers'[x] = observers[x]
      /\ observers' \in [Observables -> Seq(Observers)]
  BY <1>1, <1>2, <1>5, <1>6 DEF TypeOK
<1>8. /\ ToSet(observers'[f.on]) = ToSet(observers[f.on]) \cup {f.who}
      /\ \A x \in Observables : x # f.on => ToSet(observers'[x]) = ToSet(observers[x])
  BY <1>5, <1>6, <1>7
<1>9. TypeOK'
  BY <1>1, <1>2, <1>7, TypeKept DEF TypeOK
<1>10. ListsOK'
  <2> SUFFICES ASSUME NEW x \in Observables
               PROVE  /\ IsInjective(observers'[x])
                      /\ \A o \in ToSet(observers'[x]) : x \in alive' /\ o \in alive' /\ obsv'[o] = x
    BY DEF ListsOK
  <2>1. CASE x = f.on
    BY <1>2, <1>4, <1>6, <1>7, <1>8, <2>1 DEF ListsOK
  <2>2. CASE x # f.on
    BY <1>2, <1>7, <1>8, <2>2 DEF ListsOK
  <2> QED  BY <2>1, <2>2
<1>11. BackPointersOK'
  <2> SUFFICES ASSUME NEW o \in Observers, obsv[o] # NULL
               PROVE  /\ o \in alive /\ obsv[o] \in alive
                      /\ \/ o \in ToSet(observers'[obsv[o]])
                         \/ \E s \in Thread : \E g \in Changes(s)' : g.who = o
    BY <1>2 DEF BackPointersOK
  <2>1. o \in alive /\ obsv[o] \in alive /\ obsv[o] \in Observables
    BY ElementTypes DEF BackPointersOK
  <2>2. CASE o = f.who
    BY <1>4, <1>8, <2>1, <2>2
  <2>3. CASE o # f.who
    <3>1. CASE o \in ToSet(observers[obsv[o]])
      BY <1>8, <2>1, <3>1
    <3>2. CASE \E s \in Thread : \E g \in Changes(s) : g.who = o
      <4>1. PICK s \in Thread : \E g \in Changes(s) : g.who = o
        BY <3>2
      <4>2. s # t
        BY <1>1, <2>3, <4>1
      <4>3. Changes(s)' = Changes(s)
        BY <1>1, <4>2 DEF Elsewhere, Same
      <4> QED  BY <2>1, <4>1, <4>3
    <3> QED  BY <3>1, <3>2 DEF BackPointersOK
  <2> QED  BY <2>2, <2>3
<1>12. ChangesOK'
  <2> SUFFICES ASSUME NEW s \in Thread, NEW g \in Changes(s)'
               PROVE  /\ g.who \in alive /\ g.on \in alive /\ obsv[g.who] = g.on
                      /\ g.call = "attach" => ~g.destroys
                      /\ g.call # "unlink" => g.who \notin ToSet(observers'[g.on])
    BY <1>2 DEF ChangesOK
  <2>1. s # t /\ g \in Changes(s)
    BY <1>1, <1>3
  <2>2. g.who # f.who
    BY <1>1, <2>1 DEF OneChange
  <2>3. g.on \in Observables
    BY <2>1, ElementTypes
  <2> QED  BY <1>8, <2>1, <2>2, <2>3 DEF ChangesOK
<1>13. OneChange'
  BY <1>3 DEF OneChange
<1>14. TodosOK'
  BY <1>2, <1>3 DEF TodosOK
<1> QED  BY <1>1, <1>9, <1>10, <1>11, <1>12, <1>13, <1>14

LEMMA RemoveObserverKeeps ==
  ASSUME Inv, NEW t \in Thread, RemoveObserver(t)
  PROVE  Inv'
<1> USE DEF Inv
<1>f. PICK f \in Frame : f = Head(stack[t])
  BY InnerIs DEF RemoveObserver
<1>1. /\ Changes(t) = {f} /\ f.call = "unlink" /\ f.who \in Observers /\ f.on \in Observables
      /\ f \in Change /\ f.destroys \in BOOLEAN
  BY <1>f, InnerIs, FrameKinds DEF RemoveObserver
<1>g. PICK g \in Frame : g = [f EXCEPT !.call = "clear"]
  BY <1>1 DEF Frame, Change
<1>h. g.call = "clear" /\ g.who = f.who /\ g.on = f.on /\ g.destroys = f.destroys
  BY <1>1, <1>g DEF Change
<1>2. /\ observers' = [observers EXCEPT ![f.on] = RemoveFirst(observers[f.on], f.who)]
      /\ alive' = alive /\ obsv' = obsv
      /\ Inner(t, "unlink") /\ Step(t, g)
  BY <1>f, <1>g DEF RemoveObserver
<1>3. Elsewhere(t) /\ Changes(t)' = {g} /\ Todos(t)' \subseteq Todos(t) /\ StackType' /\ Stacks'
  BY <1>2, <1>h, StepIs
<1>4. /\ f.who \in alive /\ f.on \in alive /\ obsv[f.who] = f.on
  BY <1>1 DEF ChangesOK
<1>5. PICK l \in Seq(Observers) : l = observers[f.on]
  BY <1>1, ElementTypes
<1>6. PICK r \in Seq(Observers) : /\ r = RemoveFirst(l, f.who)
                                  /\ ToSet(r) = ToSet(l) \ {f.who} /\ IsInjective(r)
  BY <1>1, <1>5, RemoveElements DEF ListsOK
<1>7. /\ observers'[f.on] = r
      /\ \A x \in Observables : x # f.on => observers'[x] = observers[x]
      /\ observers' \in [Observables -> Seq(Observers)]
  BY <1>1, <1>2, <1>5, <1>6 DEF TypeOK
<1>8. /\ ToSet(observers'[f.on]) = ToSet(observers[f.on]) \ {f.who}
      /\ \A x \in Observables : x # f.on => ToSet(observers'[x]) = ToSet(observers[x])
  BY <1>5, <1>6, <1>7
<1>9. TypeOK'
  BY <1>2, <1>3, <1>7, TypeKept DEF TypeOK
<1>10. ListsOK'
  <2> SUFFICES ASSUME NEW x \in Observables
               PROVE  /\ IsInjective(observers'[x])
                      /\ \A o \in ToSet(observers'[x]) : x \in alive' /\ o \in alive' /\ obsv'[o] = x
    BY DEF ListsOK
  <2>1. CASE x = f.on
    BY <1>2, <1>6, <1>7, <1>8, <2>1 DEF ListsOK
  <2>2. CASE x # f.on
    BY <1>2, <1>7, <1>8, <2>2 DEF ListsOK
  <2> QED  BY <2>1, <2>2
<1>11. BackPointersOK'
  <2> SUFFICES ASSUME NEW o \in Observers, obsv[o] # NULL
               PROVE  /\ o \in alive /\ obsv[o] \in alive
                      /\ \/ o \in ToSet(observers'[obsv[o]])
                         \/ \E s \in Thread : \E c \in Changes(s)' : c.who = o
    BY <1>2 DEF BackPointersOK
  <2>1. o \in alive /\ obsv[o] \in alive /\ obsv[o] \in Observables
    BY ElementTypes DEF BackPointersOK
  <2>2. CASE o = f.who
    BY <1>3, <1>h, <2>1, <2>2
  <2>3. CASE o # f.who
    <3>1. CASE o \in ToSet(observers[obsv[o]])
      BY <1>8, <2>1, <2>3, <3>1
    <3>2. CASE \E s \in Thread : \E c \in Changes(s) : c.who = o
      <4>1. PICK s \in Thread : \E c \in Changes(s) : c.who = o
        BY <3>2
      <4>2. s # t
        BY <1>1, <2>3, <4>1
      <4>3. Changes(s)' = Changes(s)
        BY <1>3, <4>2 DEF Elsewhere, Same
      <4> QED  BY <2>1, <4>1, <4>3
    <3> QED  BY <3>1, <3>2 DEF BackPointersOK
  <2> QED  BY <2>2, <2>3
<1>12. \A s \in Thread : s # t => Changes(s)' = Changes(s) /\ Todos(s)' = Todos(s)
  BY <1>3 DEF Elsewhere, Same
<1>13. ChangesOK'
  <2> SUFFICES ASSUME NEW s \in Thread, NEW c \in Changes(s)'
               PROVE  /\ c.who \in alive /\ c.on \in alive /\ obsv[c.who] = c.on
                      /\ c.call = "attach" => ~c.destroys
                      /\ c.call # "unlink" => c.who \notin ToSet(observers'[c.on])
    BY <1>2 DEF ChangesOK
  <2>1. CASE s = t
    BY <1>3, <1>4, <1>8, <1>h, <2>1
  <2>2. CASE s # t
    <3>1. c \in Changes(s) /\ c.on \in Observables
      BY <1>12, <2>2, ElementTypes
    <3> QED  BY <1>8, <3>1 DEF ChangesOK
  <2> QED  BY <2>1, <2>2
<1>14. OneChange'
  BY <1>1, <1>3, <1>12, <1>h DEF OneChange
<1>15. TodosOK'
  <2> SUFFICES ASSUME NEW u \in Thread, NEW d \in Todos(u)', NEW o \in ToSet(d)
               PROVE  o \in alive /\ \A s \in Thread : \A c \in Changes(s)' : c.who = o => ~c.destroys
    BY <1>2 DEF TodosOK
  <2>1. d \in Todos(u)
    BY <1>3, <1>12
  <2>2. o \in alive /\ \A s \in Thread : \A c \in Changes(s) : c.who = o => ~c.destroys
    BY <2>1 DEF TodosOK
  <2> QED  BY <1>1, <1>3, <1>12, <1>h, <2>2
<1> QED  BY <1>3, <1>9, <1>10, <1>11, <1>13, <1>14, <1>15

LEMMA LeftKeeps ==
  ASSUME Inv, NEW t \in Thread, Left(t)
  PROVE  Inv'
<1> USE DEF Inv
<1>f. PICK f \in Frame : f = Head(stack[t])
  BY InnerIs DEF Left
<1>1. /\ Changes(t) = {f} /\ f.call = "clear" /\ f.who \in Observers /\ f.on \in Observables
      /\ Elsewhere(t) /\ Changes(t)' = {} /\ Todos(t)' \subseteq Todos(t) /\ StackType' /\ Stacks'
  BY <1>f, InnerIs, PopIs, FrameKinds DEF Left
<1>2. /\ obsv' = [obsv EXCEPT ![f.who] = NULL] /\ observers' = observers
      /\ alive' = IF f.destroys THEN alive \ {f.who} ELSE alive
  BY <1>f DEF Left
<1>3. /\ \A s \in Thread : s # t => Changes(s)' = Changes(s)
      /\ \A s \in Thread : Changes(s)' \subseteq Changes(s) /\ Todos(s)' \subseteq Todos(s)
  BY <1>1 DEF Elsewhere, Same
<1>4. /\ f.who \in alive /\ f.on \in alive /\ obsv[f.who] = f.on
      /\ f.who \notin ToSet(observers[f.on])
  BY <1>1 DEF ChangesOK
<1>5. /\ obsv'[f.who] = NULL /\ \A o \in Observers : o # f.who => obsv'[o] = obsv[o]
      /\ obsv' \in [Observers -> Observables \cup {NULL}]
  BY <1>1, <1>2 DEF TypeOK
<1>6. /\ alive' \subseteq alive /\ \A o \in alive : o # f.who => o \in alive'
      /\ \A x \in Observables : x \in alive => x \in alive'
  BY <1>1, <1>2, DisjointAssumption
<1>7. \A x \in Observables : f.who \notin ToSet(observers[x])
  BY <1>4 DEF ListsOK
<1>8. TypeOK'
  BY <1>1, <1>2, <1>5, <1>6, TypeKept DEF TypeOK
<1>9. ListsOK'
  BY <1>2, <1>5, <1>6, <1>7, ElementTypes DEF ListsOK
<1>10. BackPointersOK'
  <2> SUFFICES ASSUME NEW o \in Observers, obsv'[o] # NULL
               PROVE  /\ o \in alive' /\ obsv'[o] \in alive'
                      /\ \/ o \in ToSet(observers[obsv'[o]])
                         \/ \E s \in Thread : \E g \in Changes(s)' : g.who = o
    BY <1>2 DEF BackPointersOK
  <2>1. o # f.who /\ obsv'[o] = obsv[o] /\ obsv[o] \in Observables
    BY <1>5, ElementTypes
  <2>2. /\ o \in alive /\ obsv[o] \in alive
        /\ \/ o \in ToSet(observers[obsv[o]])
           \/ \E s \in Thread : \E g \in Changes(s) : g.who = o
    BY <2>1 DEF BackPointersOK
  <2> QED  BY <1>1, <1>3, <1>6, <2>1, <2>2
<1>11. ChangesOK'
  <2> SUFFICES ASSUME NEW s \in Thread, NEW g \in Changes(s)'
               PROVE  /\ g.who \in alive' /\ g.on \in alive' /\ obsv'[g.who] = g.on
                      /\ g.call = "attach" => ~g.destroys
                      /\ g.call # "unlink" => g.who \notin ToSet(observers[g.on])
    BY <1>2 DEF ChangesOK
  <2>1. s # t /\ g \in Changes(s)
    BY <1>1, <1>3
  <2>2. g.who # f.who /\ g.who \in Observers /\ g.on \in Observables
    BY <1>1, <2>1, ElementTypes DEF OneChange
  <2> QED  BY <1>5, <1>6, <2>1, <2>2 DEF ChangesOK
<1>12. OneChange'
  BY <1>3 DEF OneChange
<1>13. TodosOK'
  <2> SUFFICES ASSUME NEW u \in Thread, NEW d \in Todos(u)', NEW o \in ToSet(d)
               PROVE  o \in alive' /\ \A s \in Thread : \A c \in Changes(s)' : c.who = o => ~c.destroys
    BY DEF TodosOK
  <2>1. o \in alive /\ \A s \in Thread : \A c \in Changes(s) : c.who = o => ~c.destroys
    BY <1>3 DEF TodosOK
  <2>2. o \in alive'
    BY <1>1, <1>2, <2>1
  <2> QED  BY <1>3, <2>1, <2>2
<1> QED  BY <1>1, <1>8, <1>9, <1>10, <1>11, <1>12, <1>13
LEMMA LeaveAttachedKeeps ==
  ASSUME Inv, NEW t \in Thread, NEW o \in Observers, NEW d \in BOOLEAN, Leave(t, o, d), Attached(o)
  PROVE  Inv'
<1> USE DEF Inv
<1>x. PICK x \in Observables : x = obsv[o]
  BY ElementTypes DEF Attached
<1>f. PICK f \in Frame : f = [call |-> "unlink", on |-> x, who |-> o, destroys |-> d]
  BY DEF Frame, Change
<1>1. /\ Client(t) /\ o \in alive /\ (d => ~Awaited(o))
      /\ alive' = alive /\ observers' = observers /\ obsv' = obsv
      /\ Push(t, f)
  BY <1>f, <1>x DEF Leave
<1>2. /\ Elsewhere(t) /\ Changes(t) = {} /\ StackType' /\ Stacks'
      /\ Changes(t)' = {f} /\ Todos(t)' = Todos(t)
      /\ f.call = "unlink" /\ f.who = o /\ f.on = x /\ f.destroys = d
  BY <1>1, <1>f, PushIs
<1>3. /\ \A s \in Thread : s # t => Changes(s)' = Changes(s)
      /\ \A s \in Thread : Todos(s)' = Todos(s)
  BY <1>2 DEF Elsewhere, Same
<1>4. x \in alive /\ obsv[o] = x
  BY <1>x, NullAssumption DEF BackPointersOK
<1>5. \A s \in Thread : \A g \in Changes(s) : g.who # o
  <2>1. ~Changing(o)
    BY DEF Leave
  <2> QED  BY <2>1 DEF Changing, Changes
<1>6. TypeOK'
  BY <1>1, <1>2, TypeKept DEF TypeOK
<1>7. ListsOK'
  BY <1>1 DEF ListsOK
<1>8. BackPointersOK'
  BY <1>1, <1>2, <1>3 DEF BackPointersOK
<1>9. ChangesOK'
  BY <1>1, <1>2, <1>3, <1>4 DEF ChangesOK
<1>10. OneChange'
  BY <1>2, <1>3, <1>5 DEF OneChange
<1>11. TodosOK'
  <2> SUFFICES ASSUME NEW u \in Thread, NEW todo \in Todos(u)', NEW p \in ToSet(todo)
               PROVE  p \in alive /\ \A s \in Thread : \A c \in Changes(s)' : c.who = p => ~c.destroys
    BY <1>1 DEF TodosOK
  <2>1. todo \in Todos(u)
    BY <1>3
  <2>2. p \in alive /\ \A s \in Thread : \A c \in Changes(s) : c.who = p => ~c.destroys
    BY <2>1 DEF TodosOK
  <2>3. d => p # o
    BY <1>1, <2>1 DEF Awaited, Todos
  <2> QED  BY <1>2, <1>3, <2>2, <2>3
<1> QED  BY <1>2, <1>6, <1>7, <1>8, <1>9, <1>10, <1>11

LEMMA LeaveAloneKeeps ==
  ASSUME Inv, NEW t \in Thread, NEW o \in Observers, NEW d \in BOOLEAN, Leave(t, o, d), ~Attached(o)
  PROVE  Inv'
<1> USE DEF Inv
<1>1. /\ Client(t) /\ o \in alive /\ (d => ~Awaited(o)) /\ Called(t)
      /\ alive' = IF d THEN alive \ {o} ELSE alive
      /\ observers' = observers /\ obsv' = obsv /\ obsv[o] = NULL
  BY DEF Leave, Attached
<1>2. Elsewhere(t) /\ Same(t) /\ StackType' /\ Stacks'
  BY <1>1, CalledIs
<1>3. \A s \in Thread : Changes(s)' = Changes(s) /\ Todos(s)' = Todos(s)
  BY <1>2 DEF Elsewhere, Same
<1>4. /\ alive' \subseteq alive /\ \A p \in alive : p # o => p \in alive'
      /\ \A x \in Observables : x \in alive => x \in alive'
  BY <1>1, DisjointAssumption
<1>5. \A s \in Thread : \A g \in Changes(s) : g.who # o
  <2>1. ~Changing(o)
    BY DEF Leave
  <2> QED  BY <2>1 DEF Changing, Changes
<1>6. TypeOK'
  BY <1>1, <1>2, <1>4, TypeKept DEF TypeOK
<1>7. ListsOK'
  BY <1>1, <1>4, NullAssumption DEF ListsOK
<1>8. BackPointersOK'
  BY <1>1, <1>3, <1>4, ElementTypes DEF BackPointersOK
<1>9. ChangesOK'
  BY <1>1, <1>3, <1>4, <1>5, ElementTypes DEF ChangesOK
<1>10. OneChange'
  BY <1>3 DEF OneChange
<1>11. TodosOK'
  <2> SUFFICES ASSUME NEW u \in Thread, NEW todo \in Todos(u)', NEW p \in ToSet(todo)
               PROVE  p \in alive' /\ \A s \in Thread : \A c \in Changes(s)' : c.who = p => ~c.destroys
    BY DEF TodosOK
  <2>1. todo \in Todos(u)
    BY <1>3
  <2>2. p \in alive /\ \A s \in Thread : \A c \in Changes(s) : c.who = p => ~c.destroys
    BY <2>1 DEF TodosOK
  <2>3. d => p # o
    BY <1>1, <2>1 DEF Awaited, Todos
  <2> QED  BY <1>1, <1>3, <2>2, <2>3
<1> QED  BY <1>2, <1>6, <1>7, <1>8, <1>9, <1>10, <1>11

LEMMA NotifyKeeps ==
  ASSUME Inv, NEW t \in Thread, NEW x \in Observables, Notify(t, x)
  PROVE  Inv'
<1> USE DEF Inv
<1>f. PICK f \in Frame :
         f = [call |-> "notify", on |-> x, todo |-> observers[x], at |-> "next"]
  BY ElementTypes DEF Frame, Notification
<1>1. /\ Client(t) /\ x \in alive /\ Push(t, f)
      /\ alive' = alive /\ observers' = observers /\ obsv' = obsv
      /\ \A o \in ToSet(observers[x]) : ~Dying(o)
  BY <1>f DEF Notify
<1>2. /\ Elsewhere(t) /\ Changes(t) = {} /\ StackType' /\ Stacks'
      /\ Changes(t)' = {} /\ Todos(t)' = Todos(t) \cup {observers[x]}
  BY <1>1, <1>f, PushIs
<1>3. /\ \A s \in Thread : Changes(s)' = Changes(s)
      /\ \A s \in Thread : s # t => Todos(s)' = Todos(s)
  BY <1>2 DEF Elsewhere, Same
<1>4. TypeOK'
  BY <1>1, <1>2, TypeKept DEF TypeOK
<1>5. ListsOK' /\ BackPointersOK' /\ ChangesOK' /\ OneChange'
  BY <1>1, <1>3 DEF ListsOK, BackPointersOK, ChangesOK, OneChange
<1>6. TodosOK'
  <2> SUFFICES ASSUME NEW u \in Thread, NEW todo \in Todos(u)', NEW p \in ToSet(todo)
               PROVE  p \in alive /\ \A s \in Thread : \A c \in Changes(s)' : c.who = p => ~c.destroys
    BY <1>1 DEF TodosOK
  <2>1. CASE todo \in Todos(u)
    BY <1>3, <2>1 DEF TodosOK
  <2>2. CASE todo = observers[x]
    <3>1. p \in alive /\ ~Dying(p)
      BY <1>1, <2>2 DEF ListsOK
    <3> QED  BY <1>3, <3>1 DEF Dying, Changes
  <2> QED  BY <1>2, <1>3, <2>1, <2>2
<1> QED  BY <1>2, <1>4, <1>5, <1>6

\* A step of a notification that calls, from then on, nobody it did not.
LEMMA NotificationKeeps ==
  ASSUME Inv, NEW t \in Thread, Inner(t, "notify"), NEW f \in Notification, Step(t, f),
         f.at # "next" => f.todo # <<>>,
         ToSet(f.todo) \subseteq ToSet(Head(stack[t]).todo),
         UNCHANGED <<alive, observers, obsv>>
  PROVE  Inv'
<1> USE DEF Inv
<1>1. f \in Frame /\ f.call = "notify"
  BY DEF Frame, Notification
<1>2. /\ Elsewhere(t) /\ StackType' /\ Stacks' /\ Changes(t)' = {} /\ Changes(t) = {}
      /\ Todos(t)' \subseteq Todos(t) \cup {f.todo} /\ Head(stack[t]).todo \in Todos(t)
  BY <1>1, StepIs, InnerIs
<1>3. /\ \A s \in Thread : Changes(s)' = Changes(s)
      /\ \A s \in Thread : s # t => Todos(s)' = Todos(s)
  BY <1>2 DEF Elsewhere, Same
<1>4. TypeOK'
  BY <1>2, TypeKept DEF TypeOK
<1>5. ListsOK' /\ BackPointersOK' /\ ChangesOK' /\ OneChange'
  BY <1>3 DEF ListsOK, BackPointersOK, ChangesOK, OneChange
<1>6. TodosOK'
  <2> SUFFICES ASSUME NEW u \in Thread, NEW todo \in Todos(u)', NEW p \in ToSet(todo)
               PROVE  p \in alive /\ \A s \in Thread : \A c \in Changes(s)' : c.who = p => ~c.destroys
    BY DEF TodosOK
  <2>1. CASE todo \in Todos(u)
    BY <1>3, <2>1 DEF TodosOK
  <2>2. CASE todo = f.todo
    <3>1. p \in ToSet(Head(stack[t]).todo)
      BY <2>2
    <3> QED  BY <1>2, <1>3, <3>1 DEF TodosOK
  <2> QED  BY <1>2, <1>3, <2>1, <2>2
<1> QED  BY <1>2, <1>4, <1>5, <1>6

\* What CheckObserver() and CallbackReturns() make of the notification.
LEMMA CheckIs ==
  ASSUME Inv, NEW t \in Thread, CheckObserver(t)
  PROVE  \E f, g \in Notification :
           /\ f = Head(stack[t]) /\ f.at = "next" /\ f.todo # <<>> /\ Step(t, g)
           /\ \/ g = [f EXCEPT !.at = "callback"] /\ obsv[Head(f.todo)] = f.on
                 /\ g.todo = f.todo /\ g.at = "callback"
              \/ g = [f EXCEPT !.todo = Tail(@)] /\ g.todo = Tail(f.todo) /\ g.at = "next"
<1> USE DEF Inv
<1>1. PICK f \in Notification : f = Head(stack[t])
  <2>1. Head(stack[t]) \in Frame /\ Head(stack[t]).call = "notify"
    BY InnerIs DEF CheckObserver
  <2> QED  BY <2>1, FrameKinds
<1>2. f.at = "next" /\ f.todo # <<>> /\ f.todo \in Seq(Observers)
      /\ Step(t, IF Calls(f) THEN [f EXCEPT !.at = "callback"] ELSE [f EXCEPT !.todo = Tail(@)])
  BY <1>1 DEF CheckObserver, Notification
<1>3. Tail(f.todo) \in Seq(Observers)
  BY <1>2, TailElements
<1>4. CASE Calls(f)
  <2>1. PICK g : g = [f EXCEPT !.at = "callback"]
    OBVIOUS
  <2>2. g \in Notification /\ g.todo = f.todo /\ g.at = "callback"
    BY <2>1 DEF Notification
  <2> QED  BY <1>1, <1>2, <1>4, <2>1, <2>2 DEF Calls
<1>5. CASE ~Calls(f)
  <2>1. PICK r \in Seq(Observers) : r = Tail(f.todo)
    BY <1>3
  <2>2. PICK g : g = [f EXCEPT !.todo = r]
    OBVIOUS
  <2>3. g \in Notification /\ g.todo = r /\ g.at = "next"
    BY <1>2, <2>2 DEF Notification
  <2> QED  BY <1>1, <1>2, <1>5, <2>1, <2>2, <2>3
<1> QED  BY <1>4, <1>5

LEMMA ReturnIs ==
  ASSUME Inv, NEW t \in Thread, CallbackReturns(t)
  PROVE  \E f, g \in Notification :
           /\ f = Head(stack[t]) /\ f.at # "next" /\ f.todo # <<>> /\ Step(t, g)
           /\ g.todo = Tail(f.todo) /\ g.at = "next"
<1> USE DEF Inv
<1>1. PICK f \in Notification : f = Head(stack[t]) /\ f \in Frame
  <2>1. Head(stack[t]) \in Frame /\ Head(stack[t]).call = "notify"
    BY InnerIs DEF CallbackReturns
  <2> QED  BY <2>1, FrameKinds
<1>2. f.at # "next" /\ Step(t, [f EXCEPT !.at = "next", !.todo = Tail(f.todo)])
  BY <1>1 DEF CallbackReturns, Remaining
<1>3. f.todo # <<>> /\ f.todo \in Seq(Observers)
  BY <1>1, <1>2, CallingFrame, FrameKinds
<1>4. Tail(f.todo) \in Seq(Observers)
  BY <1>3, TailElements
<1>5. PICK r \in Seq(Observers) : r = Tail(f.todo)
  BY <1>4
<1>6. PICK g : g = [f EXCEPT !.at = "next", !.todo = r]
  OBVIOUS
<1>7. g \in Notification /\ g.todo = r /\ g.at = "next"
  BY <1>6 DEF Notification
<1> QED  BY <1>1, <1>2, <1>3, <1>5, <1>6, <1>7

LEMMA CheckObserverKeeps ==
  ASSUME Inv, NEW t \in Thread, CheckObserver(t)
  PROVE  Inv'
<1>1. PICK f, g \in Notification :
           /\ f = Head(stack[t]) /\ f.at = "next" /\ f.todo # <<>> /\ Step(t, g)
           /\ \/ g.todo = f.todo
              \/ g.todo = Tail(f.todo) /\ g.at = "next"
  BY CheckIs
<1>2. f.todo \in Seq(Observers)
  BY DEF Notification
<1>3. ToSet(Tail(f.todo)) \subseteq ToSet(f.todo)
  BY <1>1, <1>2, TailElements
<1> QED  BY <1>1, <1>3, NotificationKeeps DEF CheckObserver

LEMMA CallbackReturnsKeeps ==
  ASSUME Inv, NEW t \in Thread, CallbackReturns(t)
  PROVE  Inv'
<1>1. PICK f, g \in Notification :
           /\ f = Head(stack[t]) /\ f.todo # <<>> /\ Step(t, g)
           /\ g.todo = Tail(f.todo) /\ g.at = "next"
  BY ReturnIs
<1>2. f.todo \in Seq(Observers)
  BY DEF Notification
<1>3. ToSet(Tail(f.todo)) \subseteq ToSet(f.todo)
  BY <1>1, <1>2, TailElements
<1> QED  BY <1>1, <1>3, NotificationKeeps DEF CallbackReturns

LEMMA NotifyReturnsKeeps ==
  ASSUME Inv, NEW t \in Thread, NotifyReturns(t)
  PROVE  Inv'
<1> USE DEF Inv
<1>1. alive' = alive /\ observers' = observers /\ obsv' = obsv
  BY DEF NotifyReturns
<1>2. /\ Elsewhere(t) /\ StackType' /\ Stacks' /\ Changes(t) = {} /\ Changes(t)' = {}
      /\ Todos(t)' \subseteq Todos(t)
  BY PopIs, InnerIs DEF NotifyReturns
<1>3. \A s \in Thread : Changes(s)' = Changes(s) /\ Todos(s)' \subseteq Todos(s)
  BY <1>2 DEF Elsewhere, Same
<1>4. TypeOK'
  BY <1>1, <1>2, TypeKept DEF TypeOK
<1>5. ListsOK' /\ BackPointersOK' /\ ChangesOK' /\ OneChange'
  BY <1>1, <1>3 DEF ListsOK, BackPointersOK, ChangesOK, OneChange
<1>6. TodosOK'
  BY <1>1, <1>3 DEF TodosOK
<1> QED  BY <1>2, <1>4, <1>5, <1>6

LEMMA DestroyKeeps ==
  ASSUME Inv, NEW t \in Thread, NEW x \in Observables, Destroy(t, x)
  PROVE  Inv'
<1> USE DEF Inv
<1>1. /\ Client(t) /\ x \in alive /\ alive' = alive \ {x} /\ Called(t)
      /\ observers' = [observers EXCEPT ![x] = <<>>]
      /\ obsv' = [o \in Observers |-> IF o \in Forgotten(x) THEN NULL ELSE obsv[o]]
  BY DEF Destroy
<1>2. Elsewhere(t) /\ Same(t) /\ StackType' /\ Stacks'
  BY <1>1, CalledIs
<1>3. \A s \in Thread : Changes(s)' = Changes(s) /\ Todos(s)' = Todos(s)
  BY <1>2 DEF Elsewhere, Same
<1>4. \A s \in Thread : \A g \in Changes(s) : g.on # x
  BY DEF Destroy, Changes
<1>5. \A o \in Observers : o \in Forgotten(x) <=> obsv[o] = x
  <2> SUFFICES ASSUME NEW o \in Observers, obsv[o] = x PROVE o \in ToSet(observers[x])
    BY DEF Forgotten, ListsOK
  <2>1. ~\E s \in Thread : \E g \in Changes(s) : g.who = o
    BY <1>4 DEF ChangesOK
  <2> QED  BY <2>1, NullAssumption DEF BackPointersOK
<1>6. /\ \A o \in Observers : obsv[o] = x => obsv'[o] = NULL
      /\ \A o \in Observers : obsv[o] # x => obsv'[o] = obsv[o]
      /\ obsv' \in [Observers -> Observables \cup {NULL}]
  BY <1>1, <1>5, ElementTypes
<1>7. /\ observers'[x] = <<>> /\ \A y \in Observables : y # x => observers'[y] = observers[y]
      /\ observers' \in [Observables -> Seq(Observers)]
  BY <1>1 DEF TypeOK
<1>8. /\ alive' \subseteq alive /\ \A p \in alive : p # x => p \in alive'
      /\ \A o \in Observers : o \in alive => o \in alive'
  BY <1>1, DisjointAssumption
<1>9. TypeOK'
  BY <1>2, <1>6, <1>7, <1>8, TypeKept DEF TypeOK
<1>10. ListsOK'
  <2> SUFFICES ASSUME NEW y \in Observables
               PROVE  /\ IsInjective(observers'[y])
                      /\ \A o \in ToSet(observers'[y]) : y \in alive' /\ o \in alive' /\ obsv'[o] = y
    BY DEF ListsOK
  <2>1. CASE y = x
    BY <1>7, <2>1, EmptyElements DEF IsInjective
  <2>2. CASE y # x
    BY <1>6, <1>7, <1>8, <2>2, ElementTypes DEF ListsOK
  <2> QED  BY <2>1, <2>2
<1>11. BackPointersOK'
  <2> SUFFICES ASSUME NEW o \in Observers, obsv'[o] # NULL
               PROVE  /\ o \in alive' /\ obsv'[o] \in alive'
                      /\ \/ o \in ToSet(observers'[obsv'[o]])
                         \/ \E s \in Thread : \E g \in Changes(s)' : g.who = o
    BY DEF BackPointersOK
  <2>1. obsv[o] # x /\ obsv'[o] = obsv[o] /\ obsv[o] \in Observables
    BY <1>6, ElementTypes
  <2> QED  BY <1>3, <1>7, <1>8, <2>1 DEF BackPointersOK
<1>12. ChangesOK'
  <2> SUFFICES ASSUME NEW s \in Thread, NEW g \in Changes(s)
               PROVE  /\ g.who \in alive' /\ g.on \in alive' /\ obsv'[g.who] = g.on
                      /\ g.call = "attach" => ~g.destroys
                      /\ g.call # "unlink" => g.who \notin ToSet(observers'[g.on])
    BY <1>3 DEF ChangesOK
  <2>1. g.who \in Observers /\ g.on \in Observables /\ g.on # x
    BY <1>4, ElementTypes
  <2> QED  BY <1>6, <1>7, <1>8, <2>1 DEF ChangesOK
<1>13. OneChange'
  BY <1>3 DEF OneChange
<1>14. TodosOK'
  <2> SUFFICES ASSUME NEW u \in Thread, NEW todo \in Todos(u), NEW p \in ToSet(todo)
               PROVE  p \in alive' /\ \A s \in Thread : \A c \in Changes(s) : c.who = p => ~c.destroys
    BY <1>3 DEF TodosOK
  <2>1. p \in Observers
    BY ElementTypes
  <2> QED  BY <1>8, <2>1 DEF TodosOK
<1> QED  BY <1>2, <1>9, <1>10, <1>11, <1>12, <1>13, <1>14

LEMMA CreateKeeps ==
  ASSUME Inv, NEW t \in Thread, NEW x \in Observables, Create(t, x)
  PROVE  Inv'
<1> USE DEF Inv
<1>1. /\ Client(t) /\ alive' = alive \cup {x} /\ Called(t)
      /\ observers' = observers /\ obsv' = obsv
  BY DEF Create
<1>2. Elsewhere(t) /\ Same(t) /\ StackType' /\ Stacks'
  BY <1>1, CalledIs
<1>3. \A s \in Thread : Changes(s)' = Changes(s) /\ Todos(s)' = Todos(s)
  BY <1>2 DEF Elsewhere, Same
<1>4. TypeOK'
  BY <1>1, <1>2, TypeKept DEF TypeOK
<1>5. ListsOK' /\ BackPointersOK' /\ ChangesOK' /\ OneChange' /\ TodosOK'
  BY <1>1, <1>3 DEF ListsOK, BackPointersOK, ChangesOK, OneChange, TodosOK
<1> QED  BY <1>2, <1>4, <1>5

LEMMA StutterKeeps ==
  ASSUME Inv, UNCHANGED vars
  PROVE  Inv'
<1>1. \A s \in Thread : Changes(s)' = Changes(s) /\ Todos(s)' = Todos(s)
  BY DEF vars, Changes, Todos, Frames
<1> QED  BY <1>1 DEF Inv, vars, TypeOK, StackType, Stacks, ListsOK, BackPointersOK, ChangesOK,
                     OneChange, TodosOK
LEMMA InitInv ==
  ASSUME Init
  PROVE  Inv
<1>1. \A t \in Thread : stack[t] = <<>> /\ Frames(t) = {} /\ Changes(t) = {} /\ Todos(t) = {}
  BY EmptyElements DEF Init, Frames, Changes, Todos
<1>2. \A x \in Observables : observers[x] = <<>> /\ ToSet(observers[x]) = {}
  BY EmptyElements DEF Init
<1>3. TypeOK /\ StackType
  BY DEF Init, TypeOK, StackType
<1>4. ListsOK
  BY <1>2 DEF ListsOK, IsInjective
<1> QED  BY <1>1, <1>3, <1>4 DEF Inv, Init, Stacks, BackPointersOK, ChangesOK, OneChange, TodosOK

LEMMA StepInv == Inv /\ [Next]_vars => Inv'
<1> SUFFICES ASSUME Inv, [Next]_vars PROVE Inv'
  OBVIOUS
<1>1. CASE UNCHANGED vars
  BY <1>1, StutterKeeps
<1>2. CASE Next
  <2>1. PICK t \in Thread :
          \/ Continue(t)
          \/ \E o \in Observers, x \in Observables : Construct(t, o, x)
          \/ \E o \in Observers, d \in BOOLEAN : Leave(t, o, d)
          \/ \E x \in Observables : Notify(t, x) \/ Destroy(t, x) \/ Create(t, x)
    BY <1>2 DEF Next
  <2>2. CASE Continue(t)
    BY <2>2, AddObserverKeeps, RemoveObserverKeeps, LeftKeeps, CheckObserverKeeps,
       CallbackReturnsKeeps, NotifyReturnsKeeps DEF Continue
  <2>3. CASE \E o \in Observers, x \in Observables : Construct(t, o, x)
    BY <2>3, ConstructKeeps
  <2>4. CASE \E o \in Observers, d \in BOOLEAN : Leave(t, o, d)
    BY <2>4, LeaveAttachedKeeps, LeaveAloneKeeps
  <2>5. CASE \E x \in Observables : Notify(t, x) \/ Destroy(t, x) \/ Create(t, x)
    BY <2>5, NotifyKeeps, DestroyKeeps, CreateKeeps
  <2> QED  BY <2>1, <2>2, <2>3, <2>4, <2>5
<1> QED  BY <1>1, <1>2

(* However the threads' calls interleave and nest, both ends of every      *)
(* attachment agree, and what a notification has still to call is either   *)
(* alive or noted as removed.                                              *)
THEOREM Invariance == Spec => []Inv
  BY InitInv, StepInv, PTL DEF Spec

(* TypeOK, for any threads, objects and depth of calls.                    *)
THEOREM Typing == Spec => []TypeOK
<1>1. Inv => TypeOK
  BY DEF Inv
<1> QED  BY <1>1, Invariance, PTL

-----------------------------------------------------------------------------
(* What the invariant says of the observers.                               *)

(* PointersAgree, for any number of threads that attach, detach, notify    *)
(* and destroy, in callbacks or outside: the list of an observable and the *)
(* back pointers of its observers agree.                                   *)
THEOREM PointersAlwaysAgree == Spec => []PointersAgree
<1>1. Inv => PointersAgree
  <2> SUFFICES ASSUME Inv PROVE PointersAgree
    OBVIOUS
  <2>1. ASSUME NEW o \in Observers, obsv[o] # NULL
        PROVE  /\ o \in alive /\ obsv[o] \in alive
               /\ Contains(observers[obsv[o]], o) \/ Changing(o)
    <3>1. o \in alive /\ obsv[o] \in alive
      BY <2>1 DEF Inv, BackPointersOK
    <3>2. PICK x \in Observables : x = obsv[o]
      BY <2>1, ElementTypes DEF Inv
    <3>3. PICK l \in Seq(Observers) : l = observers[x]
      BY ElementTypes DEF Inv
    <3>4. CASE o \in ToSet(l)
      BY <3>1, <3>2, <3>3, <3>4, ElementsAre DEF Contains
    <3>5. CASE \E t \in Thread : \E f \in Changes(t) : f.who = o
      BY <3>5, <3>1 DEF Changes, Changing
    <3> QED  BY <2>1, <3>1, <3>2, <3>3, <3>4, <3>5 DEF Inv, BackPointersOK
  <2> QED  BY <2>1 DEF PointersAgree, Inv, ListsOK
<1> QED  BY <1>1, Invariance, PTL

(* NoDeadAccess, likewise: nothing that is gone is used by a call that is  *)
(* under way.                                                              *)
THEOREM NeverDead == Spec => []NoDeadAccess
<1>1. Inv => NoDeadAccess
  <2> SUFFICES ASSUME Inv, NEW t \in Thread, NEW f \in Frames(t)
               PROVE  /\ f.call \in {"attach", "unlink"} => f.on \in alive
                      /\ f.call = "clear" => f.who \in alive
                      /\ f.call = "notify" => ToSet(f.todo) \subseteq alive
    BY DEF NoDeadAccess
  <2>1. f.call # "notify" => f.on \in alive /\ f.who \in alive
    BY DEF Inv, ChangesOK, Changes
  <2>2. f.call = "notify" => ToSet(f.todo) \subseteq alive
    <3> SUFFICES ASSUME f.call = "notify" PROVE ToSet(f.todo) \subseteq alive
      OBVIOUS
    <3>1. f.todo \in Todos(t)
      BY DEF Todos
    <3> QED  BY <3>1 DEF Inv, TodosOK
  <2> QED  BY <2>1, <2>2
<1> QED  BY <1>1, Invariance, PTL

-----------------------------------------------------------------------------
(* Notifications call nobody twice, and nobody who is gone.                *)

LEMMA SuffixSame ==
  ASSUME NEW S, NEW s \in Seq(S)
  PROVE  IsSuffix(s, s)
<1>1. Len(Reverse(s)) = Len(s) /\ Len(s) \in Nat
  BY DEF Reverse
<1> QED  BY <1>1 DEF IsSuffix, IsPrefix

LEMMA SuffixTail ==
  ASSUME NEW S, NEW s \in Seq(S), s # <<>>
  PROVE  IsSuffix(Tail(s), s)
<1> DEFINE n == Len(s)
<1>1. n \in Nat \ {0} /\ Len(Tail(s)) = n - 1 /\ \A i \in 1..(n - 1) : Tail(s)[i] = s[i + 1]
  OBVIOUS
<1>r. PICK r : r = Reverse(s)
  OBVIOUS
<1>q. PICK q : q = Reverse(Tail(s))
  OBVIOUS
<1>2. r = [i \in 1..n |-> s[(n - i) + 1]] /\ Len(r) = n
  BY <1>1, <1>r DEF Reverse
<1>3. q = [i \in 1..(n - 1) |-> Tail(s)[((n - 1) - i) + 1]] /\ Len(q) = n - 1
  BY <1>1, <1>q DEF Reverse
<1>4. ASSUME NEW i \in 1..(n - 1) PROVE q[i] = r[i]
  <2>1. q[i] = Tail(s)[((n - 1) - i) + 1]
    BY <1>3
  <2>2. r[i] = s[(n - i) + 1]
    BY <1>1, <1>2
  <2>3. ((n - 1) - i) + 1 \in 1..(n - 1) /\ ((n - 1) - i) + 1 + 1 = (n - i) + 1
    BY <1>1
  <2> QED  BY <1>1, <2>1, <2>2, <2>3
<1>5. SubSeq(q, 1, n - 1) = SubSeq(r, 1, n - 1)
  <2>1. SubSeq(q, 1, n - 1) = [i \in 1..(n - 1) |-> q[i]]
    BY <1>1, <1>3
  <2>2. SubSeq(r, 1, n - 1) = [i \in 1..(n - 1) |-> r[i]]
    BY <1>1, <1>2
  <2> QED  BY <1>4, <2>1, <2>2
<1>6. IsPrefix(q, r)
  BY <1>1, <1>2, <1>3, <1>5 DEF IsPrefix
<1> QED  BY <1>6, <1>q, <1>r DEF IsSuffix

\* Taken from the front, an element that is listed once is listed no more.
LEMMA InjectiveTail ==
  ASSUME NEW S, NEW s \in Seq(S), s # <<>>, IsInjective(s)
  PROVE  IsInjective(Tail(s)) /\ Head(s) \notin ToSet(Tail(s))
<1>t. PICK r \in Seq(S) : r = Tail(s)
  BY TailElements
<1>1. /\ Len(s) \in Nat \ {0} /\ DOMAIN s = 1..Len(s) /\ DOMAIN r = 1..Len(r)
      /\ Len(r) = Len(s) - 1 /\ \A i \in 1..Len(r) : r[i] = s[i + 1]
      /\ Head(s) = s[1]
  BY <1>t
<1>2. \A i, j \in 1..Len(s) : s[i] = s[j] => i = j
  BY <1>1 DEF IsInjective
<1>3. \A i \in 1..Len(r) : i + 1 \in 1..Len(s) /\ 1 \in 1..Len(s) /\ i + 1 # 1
  BY <1>1
<1>4. ASSUME NEW i \in 1..Len(r), NEW j \in 1..Len(r), r[i] = r[j] PROVE i = j
  <2>1. i + 1 = j + 1
    BY <1>1, <1>2, <1>3, <1>4
  <2> QED  BY <2>1
<1>5. \A i \in 1..Len(r) : r[i] # Head(s)
  BY <1>1, <1>2, <1>3
<1>6. Head(s) \notin ToSet(r)
  BY <1>5, ElementsAre
<1> QED  BY <1>t, <1>1, <1>4, <1>6 DEF IsInjective

\* What a thread has still to call after a step: what it had, without the
\* first, or the observers of an observable.
TodosFrom(t) == \A d \in Todos(t)' :
    \/ d \in Todos(t)
    \/ \E x \in Observables : d = observers[x]
    \/ \E e \in Todos(t) : e \in Seq(Observers) /\ e # <<>> /\ d = Tail(e)

LEMMA TodosContinue ==
  ASSUME Inv, NEW t \in Thread, Continue(t)
  PROVE  Elsewhere(t) /\ TodosFrom(t)
<1>0. StackType /\ Stacks /\ TypeOK
  BY DEF Inv
<1>1. CASE AddObserver(t) \/ Left(t) \/ NotifyReturns(t)
  <2>1. Elsewhere(t) /\ Todos(t)' \subseteq Todos(t)
    BY <1>0, <1>1, PopIs DEF AddObserver, Left, NotifyReturns
  <2> QED  BY <2>1 DEF TodosFrom
<1>2. CASE RemoveObserver(t)
  <2>1. PICK f \in Frame : f = Head(stack[t])
    BY <1>0, <1>2, InnerIs DEF RemoveObserver
  <2>2. f \in Change
    BY <1>0, <1>2, <2>1, InnerIs, FrameKinds DEF RemoveObserver
  <2>3. PICK g \in Frame : g = [f EXCEPT !.call = "clear"]
    BY <2>2 DEF Frame, Change
  <2>4. g.call = "clear" /\ Inner(t, "unlink") /\ Step(t, g)
    BY <1>2, <2>1, <2>2, <2>3 DEF RemoveObserver, Change
  <2>5. Elsewhere(t) /\ Todos(t)' \subseteq Todos(t)
    BY <1>0, <2>4, StepIs
  <2> QED  BY <2>5 DEF TodosFrom
<1>3. CASE CheckObserver(t) \/ CallbackReturns(t)
  <2>1. PICK f, g \in Notification :
           /\ f = Head(stack[t]) /\ f.todo # <<>> /\ Step(t, g)
           /\ g.at # "next" => g.todo # <<>>
           /\ g.todo = f.todo \/ g.todo = Tail(f.todo)
    BY <1>3, CheckIs, ReturnIs
  <2>2. Inner(t, "notify") /\ g \in Frame /\ g.call = "notify" /\ f.todo \in Seq(Observers)
    BY <1>3, <2>1 DEF CheckObserver, CallbackReturns, Frame, Notification
  <2>3. /\ Elsewhere(t) /\ Todos(t)' \subseteq Todos(t) \cup {g.todo}
        /\ f.todo \in Todos(t)
    BY <1>0, <2>1, <2>2, StepIs, InnerIs
  <2> QED  BY <2>1, <2>2, <2>3 DEF TodosFrom
<1> QED  BY <1>1, <1>2, <1>3 DEF Continue

LEMMA TodosNext ==
  ASSUME Inv, NEW t \in Thread,
         \/ Continue(t)
         \/ \E o \in Observers, x \in Observables : Construct(t, o, x)
         \/ \E o \in Observers, d \in BOOLEAN : Leave(t, o, d)
         \/ \E x \in Observables : Notify(t, x) \/ Destroy(t, x) \/ Create(t, x)
  PROVE  Elsewhere(t) /\ TodosFrom(t)
<1>0. StackType /\ Stacks /\ TypeOK
  BY DEF Inv
<1>1. ASSUME Client(t), Called(t) PROVE Elsewhere(t) /\ TodosFrom(t)
  BY <1>0, <1>1, CalledIs DEF Same, TodosFrom
<1>2. ASSUME NEW f \in Frame, f.call # "notify", Client(t), Push(t, f)
      PROVE  Elsewhere(t) /\ TodosFrom(t)
  BY <1>0, <1>2, PushIs DEF TodosFrom
<1>3. ASSUME NEW o \in Observers, NEW x \in Observables, Construct(t, o, x)
      PROVE  Elsewhere(t) /\ TodosFrom(t)
  <2>1. PICK f \in Frame : f = [call |-> "attach", on |-> x, who |-> o, destroys |-> FALSE]
    BY DEF Frame, Change
  <2> QED  BY <1>2, <1>3, <2>1 DEF Construct
<1>4. ASSUME NEW o \in Observers, NEW d \in BOOLEAN, Leave(t, o, d)
      PROVE  Elsewhere(t) /\ TodosFrom(t)
  <2>1. CASE Attached(o)
    <3>1. obsv[o] \in Observables
      BY <1>0, <2>1, ElementTypes DEF Attached
    <3>2. PICK f \in Frame : f = [call |-> "unlink", on |-> obsv[o], who |-> o, destroys |-> d]
      BY <3>1 DEF Frame, Change
    <3> QED  BY <1>2, <1>4, <2>1, <3>2 DEF Leave
  <2>2. CASE ~Attached(o)
    BY <1>1, <1>4, <2>2 DEF Leave
  <2> QED  BY <2>1, <2>2
<1>5. ASSUME NEW x \in Observables, Notify(t, x) PROVE Elsewhere(t) /\ TodosFrom(t)
  <2>1. PICK f \in Frame :
          f = [call |-> "notify", on |-> x, todo |-> observers[x], at |-> "next"]
    BY <1>0, ElementTypes DEF Frame, Notification
  <2>2. Elsewhere(t) /\ Todos(t)' = Todos(t) \cup {observers[x]}
    BY <1>0, <1>5, <2>1, PushIs DEF Notify
  <2> QED  BY <2>2 DEF TodosFrom
<1>6. ASSUME NEW x \in Observables, Destroy(t, x) \/ Create(t, x)
      PROVE  Elsewhere(t) /\ TodosFrom(t)
  BY <1>1, <1>6 DEF Destroy, Create
<1> QED  BY <1>3, <1>4, <1>5, <1>6, TodosContinue

\* A notification has nobody to call twice.
TodosOnce == \A t \in Thread : \A d \in Todos(t) : IsInjective(d)

LEMMA OnceKept ==
  ASSUME Inv, TodosOnce, [Next]_vars
  PROVE  TodosOnce'
<1>1. CASE UNCHANGED vars
  BY <1>1 DEF vars, TodosOnce, Todos, Frames
<1>2. CASE Next
  <2>1. PICK t \in Thread : Elsewhere(t) /\ TodosFrom(t)
    BY <1>2, TodosNext DEF Next
  <2>2. ASSUME NEW s \in Thread, NEW d \in Todos(s)' PROVE IsInjective(d)
    <3>1. CASE d \in Todos(s)
      BY <3>1 DEF TodosOnce
    <3>2. CASE \E x \in Observables : d = observers[x]
      BY <3>2 DEF Inv, ListsOK
    <3>3. CASE \E e \in Todos(s) : e \in Seq(Observers) /\ e # <<>> /\ d = Tail(e)
      BY <3>3, InjectiveTail DEF TodosOnce
    <3> QED  BY <2>1, <2>2, <3>1, <3>2, <3>3 DEF Elsewhere, Same, TodosFrom
  <2> QED  BY <2>2 DEF TodosOnce
<1> QED  BY <1>1, <1>2

LEMMA OnceInvariance == Spec => []TodosOnce
<1>1. Init => TodosOnce
  <2>1. Init => \A t \in Thread : Todos(t) = {}
    BY EmptyElements DEF Init, Frames, Todos
  <2> QED  BY <2>1 DEF TodosOnce
<1>2. Inv /\ TodosOnce /\ [Next]_vars => TodosOnce'
  BY OnceKept
<1> QED  BY <1>1, <1>2, Invariance, PTL DEF Spec

\* A step that leaves a thread's stack alone.
LEMMA OnceSame ==
  ASSUME Inv, NEW t \in Thread, stack'[t] = stack[t]
  PROVE  CallsOnce(t)
<1> SUFFICES ASSUME NEW f, f = Head(stack[t]), stack[t] # <<>>, f.call = "notify"
             PROVE  IsSuffix(f.todo, f.todo)
  BY DEF CallsOnce
<1>1. f \in Frame
  BY FramesAre DEF Inv
<1>2. f.todo \in Seq(Observers)
  BY <1>1, FrameKinds
<1> QED  BY <1>2, SuffixSame

LEMMA OnceCalled ==
  ASSUME Inv, NEW t \in Thread, Client(t), Called(t)
  PROVE  CallsOnce(t)
<1> SUFFICES ASSUME stack[t] # <<>> PROVE CallsOnce(t)
  BY DEF CallsOnce
<1>1. PICK f \in Frame : f = Head(stack[t])
  BY FramesAre DEF Inv
<1>2. PICK r \in Seq(Frame) : r = Tail(stack[t])
  BY FramesAre DEF Inv
<1>3. f.call = "notify" /\ f.at = "callback"
  BY <1>1 DEF Client
<1>4. f \in Notification /\ f.todo \in Seq(Observers)
  BY <1>3, FrameKinds
<1>g. PICK g : g = [f EXCEPT !.at = "called"]
  OBVIOUS
<1>5. g \in Notification /\ g.todo = f.todo /\ g.at = "called"
  BY <1>4, <1>g DEF Notification
<1>6. g \in Frame
  BY <1>3, <1>4, <1>5, CallingFrame DEF Frame
<1>7. stack'[t] = <<g>> \o r
  BY <1>1, <1>2, <1>g, OthersSame DEF Called, Calling, Inv
<1>8. Head(stack'[t]) = g
  BY <1>6, <1>7, ConsElements
<1>9. IsSuffix(f.todo, f.todo)
  BY <1>4, SuffixSame
<1> QED  BY <1>1, <1>3, <1>5, <1>8, <1>9 DEF CallsOnce

LEMMA OncePush ==
  ASSUME Inv, NEW t \in Thread, Client(t), NEW f \in Frame, Push(t, f)
  PROVE  CallsOnce(t)
<1> SUFFICES ASSUME stack[t] # <<>> PROVE Len(stack'[t]) # Len(stack[t])
  BY DEF CallsOnce
<1>1. PICK s \in Seq(Frame) : s = stack[t]
  BY FramesAre DEF Inv
<1>2. PICK c \in Seq(Frame) : c = Calling(t)
  BY CallingIs DEF Inv
<1>3. PICK r \in Seq(Frame) : r = Tail(s)
  BY <1>1, FramesAre DEF Inv
<1>4. PICK h : c = <<h>> \o r
  BY <1>1, <1>2, <1>3 DEF Calling
<1>5. Len(r) \in Nat /\ Len(r) = Len(s) - 1 /\ Len(s) \in Nat
  BY <1>1, <1>3
<1>6. Len(<<h>> \o r) = 1 + Len(r)
  OBVIOUS
<1>7. Len(<<f>> \o c) = 1 + Len(c)
  OBVIOUS
<1>8. stack'[t] = <<f>> \o c
  BY <1>2, OthersSame DEF Push, Inv
<1> QED  BY <1>1, <1>4, <1>5, <1>6, <1>7, <1>8

LEMMA OncePop ==
  ASSUME Inv, NEW t \in Thread, stack[t] # <<>>, Pop(t)
  PROVE  CallsOnce(t)
<1>1. PICK s \in Seq(Frame) : s = stack[t]
  BY FramesAre DEF Inv
<1>2. stack'[t] = Tail(s)
  BY <1>1, OthersSame DEF Pop, Inv
<1>3. Len(Tail(s)) # Len(s)
  BY <1>1
<1> QED  BY <1>1, <1>2, <1>3 DEF CallsOnce

LEMMA OnceStep ==
  ASSUME Inv, NEW t \in Thread, NEW f \in Notification, NEW g \in Notification,
         stack[t] # <<>>, f = Head(stack[t]), Step(t, g), IsSuffix(g.todo, f.todo),
         f.at # "next" /\ g.at = "next" => Head(f.todo) \notin ToSet(g.todo),
         g.at = "callback" => f.at = "next" /\ g.todo = f.todo /\ Connected(f.on, Head(f.todo))
  PROVE  CallsOnce(t)
<1>1. PICK r \in Seq(Frame) : r = Tail(stack[t])
  BY FramesAre DEF Inv
<1>2. stack'[t] = <<g>> \o r
  BY <1>1, OthersSame DEF Step, Inv
<1>3. Head(<<g>> \o r) = g
  OBVIOUS
<1> QED  BY <1>2, <1>3 DEF CallsOnce

\* Who points back is connected.
LEMMA ConnectedIs ==
  ASSUME Inv, NEW o \in Observers, NEW x \in Observables, obsv[o] = x
  PROVE  Connected(x, o)
<1>1. x # NULL
  BY NullAssumption
<1>2. /\ o \in alive /\ x \in alive
      /\ \/ o \in ToSet(observers[x])
         \/ \E t \in Thread : \E f \in Changes(t) : f.who = o
  BY <1>1 DEF Inv, BackPointersOK
<1>3. PICK l \in Seq(Observers) : l = observers[x]
  BY ElementTypes DEF Inv
<1>4. o \in ToSet(l) => Contains(observers[x], o)
  BY <1>3, ElementsAre DEF Contains
<1>5. (\E t \in Thread : \E f \in Changes(t) : f.who = o) => Changing(o)
  BY DEF Changes, Changing
<1> QED  BY <1>2, <1>3, <1>4, <1>5 DEF Connected

LEMMA OnceCheck ==
  ASSUME Inv, NEW t \in Thread, CheckObserver(t)
  PROVE  CallsOnce(t)
<1>1. PICK f, g \in Notification :
           /\ f = Head(stack[t]) /\ f.at = "next" /\ f.todo # <<>> /\ Step(t, g)
           /\ \/ obsv[Head(f.todo)] = f.on /\ g.todo = f.todo
              \/ g.todo = Tail(f.todo) /\ g.at = "next"
  BY CheckIs
<1>2. f.todo \in Seq(Observers) /\ f.on \in Observables
  BY DEF Notification
<1>3. CASE obsv[Head(f.todo)] = f.on /\ g.todo = f.todo
  <2>1. Head(f.todo) \in Observers
    BY <1>1, <1>2, TailElements
  <2>2. Connected(f.on, Head(f.todo))
    BY <1>2, <1>3, <2>1, ConnectedIs
  <2>3. IsSuffix(g.todo, f.todo)
    BY <1>2, <1>3, SuffixSame
  <2> QED  BY <1>1, <2>2, <2>3, OnceStep DEF CheckObserver, Inner
<1>4. CASE g.todo = Tail(f.todo) /\ g.at = "next"
  <2>1. IsSuffix(g.todo, f.todo)
    BY <1>1, <1>2, <1>4, SuffixTail
  <2> QED  BY <1>1, <1>4, <2>1, OnceStep DEF CheckObserver, Inner
<1> QED  BY <1>1, <1>3, <1>4

LEMMA OnceReturn ==
  ASSUME Inv, TodosOnce, NEW t \in Thread, CallbackReturns(t)
  PROVE  CallsOnce(t)
<1>1. PICK f, g \in Notification :
           /\ f = Head(stack[t]) /\ f.todo # <<>> /\ Step(t, g)
           /\ g.todo = Tail(f.todo) /\ g.at = "next"
  BY ReturnIs
<1>2. f.todo \in Seq(Observers)
  BY DEF Notification
<1>3. IsSuffix(g.todo, f.todo)
  BY <1>1, <1>2, SuffixTail
<1>4. f.todo \in Todos(t)
  BY <1>1, InnerIs DEF CallbackReturns, Inv
<1>5. Head(f.todo) \notin ToSet(g.todo)
  BY <1>1, <1>2, <1>4, InjectiveTail DEF TodosOnce
<1> QED  BY <1>1, <1>3, <1>5, OnceStep DEF CallbackReturns, Inner

\* An attachment or a detachment that goes on is no notification.
LEMMA OnceChange ==
  ASSUME Inv, NEW t \in Thread, NEW call, call # "notify", Inner(t, call)
  PROVE  CallsOnce(t)
  BY DEF CallsOnce, Inner

LEMMA OnceNext ==
  ASSUME Inv, TodosOnce, NEW t \in Thread,
         \/ Continue(t)
         \/ \E o \in Observers, x \in Observables : Construct(t, o, x)
         \/ \E o \in Observers, d \in BOOLEAN : Leave(t, o, d)
         \/ \E x \in Observables : Notify(t, x) \/ Destroy(t, x) \/ Create(t, x)
  PROVE  \A s \in Thread : CallsOnce(s)
<1>0. StackType /\ Stacks /\ TypeOK
  BY DEF Inv
<1>1. \A s \in Thread : s # t => stack'[s] = stack[s]
  <2>1. \E new : stack' = [stack EXCEPT ![t] = new]
    <3>1. ASSUME Continue(t) PROVE \E new : stack' = [stack EXCEPT ![t] = new]
      BY <3>1 DEF Continue, AddObserver, RemoveObserver, Left, CheckObserver, CallbackReturns,
                  NotifyReturns, Step, Pop
    <3>2. ASSUME NEW o \in Observers, NEW x \in Observables, Construct(t, o, x)
          PROVE  \E new : stack' = [stack EXCEPT ![t] = new]
      BY <3>2 DEF Construct, Push
    <3>3. ASSUME NEW o \in Observers, NEW d \in BOOLEAN, Leave(t, o, d)
          PROVE  \E new : stack' = [stack EXCEPT ![t] = new]
      BY <3>3 DEF Leave, Push, Called
    <3>4. ASSUME NEW x \in Observables, Notify(t, x) \/ Destroy(t, x) \/ Create(t, x)
          PROVE  \E new : stack' = [stack EXCEPT ![t] = new]
      BY <3>4 DEF Notify, Destroy, Create, Push, Called
    <3> QED  BY <3>1, <3>2, <3>3, <3>4
  <2> QED  BY <1>0, <2>1 DEF StackType
<1>2. CallsOnce(t)
  <2>1. CASE Continue(t)
    <3>1. CASE AddObserver(t) \/ RemoveObserver(t) \/ Left(t)
      BY <3>1, OnceChange DEF AddObserver, RemoveObserver, Left
    <3>2. CASE NotifyReturns(t)
      BY <3>2, OncePop DEF NotifyReturns, Inner
    <3> QED  BY <2>1, <3>1, <3>2, OnceCheck, OnceReturn DEF Continue
  <2>2. ASSUME NEW o \in Observers, NEW x \in Observables, Construct(t, o, x) PROVE CallsOnce(t)
    <3>1. PICK f \in Frame : f = [call |-> "attach", on |-> x, who |-> o, destroys |-> FALSE]
      BY DEF Frame, Change
    <3> QED  BY <2>2, <3>1, OncePush DEF Construct
  <2>3. ASSUME NEW o \in Observers, NEW d \in BOOLEAN, Leave(t, o, d) PROVE CallsOnce(t)
    <3>1. CASE Attached(o)
      <4>1. obsv[o] \in Observables
        BY <1>0, <3>1, ElementTypes DEF Attached
      <4>2. PICK f \in Frame : f = [call |-> "unlink", on |-> obsv[o], who |-> o, destroys |-> d]
        BY <4>1 DEF Frame, Change
      <4> QED  BY <2>3, <3>1, <4>2, OncePush DEF Leave
    <3>2. CASE ~Attached(o)
      BY <2>3, <3>2, OnceCalled DEF Leave
    <3> QED  BY <3>1, <3>2
  <2>4. ASSUME NEW x \in Observables, Notify(t, x) PROVE CallsOnce(t)
    <3>1. PICK f \in Frame :
            f = [call |-> "notify", on |-> x, todo |-> observers[x], at |-> "next"]
      BY <1>0, ElementTypes DEF Frame, Notification
    <3> QED  BY <2>4, <3>1, OncePush DEF Notify
  <2>5. ASSUME NEW x \in Observables, Destroy(t, x) \/ Create(t, x) PROVE CallsOnce(t)
    BY <2>5, OnceCalled DEF Destroy, Create
  <2> QED  BY <2>1, <2>2, <2>3, <2>4, <2>5
<1> QED  BY <1>1, <1>2, OnceSame

(* CalledOnce, likewise: a notification goes on to the next of the         *)
(* observers it has copied, each of them listed once, never back, and      *)
(* calls one that is still connected only.                                 *)
THEOREM NobodyTwice == Spec => CalledOnce
<1>1. Inv /\ TodosOnce /\ [Next]_vars => [\A t \in Thread : CallsOnce(t)]_vars
  <2> SUFFICES ASSUME Inv, TodosOnce, Next PROVE \A t \in Thread : CallsOnce(t)
    OBVIOUS
  <2> QED  BY OnceNext DEF Next
<1> QED  BY <1>1, Invariance, OnceInvariance, PTL DEF Spec, CalledOnce
=============================================================================
