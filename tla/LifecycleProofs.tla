--------------------------- MODULE LifecycleProofs ---------------------------
(***************************************************************************)
(* Proofs about Lifecycle, for any number of client threads and signals.   *)
(* The state is looked at frame by frame: what each action does to the     *)
(* frames of all threads comes first, then the invariants follow from      *)
(* those effects.                                                          *)
(***************************************************************************)
EXTENDS Lifecycle, FiniteSetTheorems, SequenceTheorems, TLAPS

Names == {Signals[i] : i \in DOMAIN Signals} \cup {"none"}
Building == {"signal", "init", "new", "assign"}
Serving == {"run", "accept"}
Leaving == {"quit", "delete"}
Labels == Building \cup Serving \cup Leaving \cup {"call", "file"}
FrameType == [sig : Names, at : Labels, left : Seq(Nat)]

Stacks == stack \in [Actors -> Seq(FrameType)]

(* No thread has more frames than signals came, but for its own.           *)
Depth == \A a \in Actors : Len(stack[a]) <= sent + 1

Bounded == Stacks /\ Depth /\ sent \in 0 .. MaxSignals

LEMMA Tops ==
  ASSUME Bounded, NEW a \in Actors, stack[a] # <<>>
  PROVE  /\ Len(stack[a]) \in Nat /\ Len(stack[a]) > 0
         /\ stack[a] \in Seq(FrameType) /\ Top(a) \in FrameType
         /\ Id(a) \in Frames /\ Id(a)[1] = a /\ Id(a)[2] = Len(stack[a])
         /\ At(Id(a)) = Top(a).at /\ Left(Id(a)) = Top(a).left
<1>1. stack[a] \in Seq(FrameType)
  BY DEF Bounded, Stacks
<1>2. Len(stack[a]) \in Nat /\ Len(stack[a]) > 0 /\ Top(a) \in FrameType
  BY <1>1 DEF Top
<1>3. Len(stack[a]) <= MaxSignals + 1
  BY <1>2, LifecycleAssumption DEF Bounded, Depth
<1> QED
  BY <1>1, <1>2, <1>3, LifecycleAssumption DEF Id, At, Left, Top, Frames

LEMMA FrameFacts ==
  ASSUME Bounded, NEW f \in Frames
  PROVE  /\ f = <<f[1], f[2]>> /\ f[1] \in Actors /\ f[2] \in Nat /\ f[2] >= 1
         /\ f[2] \in 1 .. Len(stack[f[1]])
         /\ stack[f[1]] # <<>>
         /\ stack[f[1]][f[2]] \in FrameType
         /\ At(f) \in Labels /\ Left(f) \in Seq(Nat)
<1>1. f = <<f[1], f[2]>> /\ f[1] \in Actors /\ f[2] \in 1 .. MaxSignals + 1
      /\ f[2] <= Len(stack[f[1]])
  BY DEF Frames
<1>2. stack[f[1]] \in Seq(FrameType)
  BY <1>1 DEF Bounded, Stacks
<1>3. f[2] \in Nat /\ f[2] >= 1 /\ f[2] \in 1 .. Len(stack[f[1]])
  BY <1>1, <1>2, LifecycleAssumption
<1>4. stack[f[1]][f[2]] \in FrameType
  BY <1>2, <1>3
<1> QED
  BY <1>1, <1>2, <1>3, <1>4 DEF FrameType, At, Left

LEMMA FrameOf ==
  ASSUME Bounded, NEW a \in Actors, NEW i \in 1 .. Len(stack[a])
  PROVE  <<a, i>> \in Frames
<1>1. stack[a] \in Seq(FrameType) /\ Len(stack[a]) \in Nat
  BY DEF Bounded, Stacks
<1>2. i \in 1 .. MaxSignals + 1
  BY <1>1, LifecycleAssumption DEF Bounded, Depth
<1> QED
  BY <1>2 DEF Frames

-----------------------------------------------------------------------------
(* The effect of an action on the frames: those of F are left, and but for *)
(* those of M, they are where they were.                                   *)
Effect(F, M) ==
  /\ Frames' = F
  /\ \A f \in F \ M : f \in Frames /\ At(f)' = At(f) /\ Left(f)' = Left(f)

(* A thread's top frame is replaced.                                       *)
Replaces(a, g) == stack' = [stack EXCEPT ![a] = [@ EXCEPT ![Len(@)] = g]]

LEMMA ReplaceEffect ==
  ASSUME Bounded, NEW a \in Actors, stack[a] # <<>>, NEW g \in FrameType, Replaces(a, g),
         sent' = sent
  PROVE  /\ Bounded' /\ Effect(Frames, {Id(a)})
         /\ At(Id(a))' = g.at /\ Left(Id(a))' = g.left
         /\ \A b \in Actors : Len(stack'[b]) = Len(stack[b])
<1>1. /\ Len(stack[a]) \in Nat /\ Len(stack[a]) > 0 /\ stack[a] \in Seq(FrameType)
      /\ Id(a) \in Frames
  BY Tops
<1>2. PICK s \in Seq(FrameType) :
        /\ s = [stack[a] EXCEPT ![Len(stack[a])] = g]
        /\ Len(s) = Len(stack[a])
        /\ s[Len(stack[a])] = g
        /\ \A i \in 1 .. Len(stack[a]) : i # Len(stack[a]) => s[i] = stack[a][i]
  <2> DEFINE n == Len(stack[a])
             s == [stack[a] EXCEPT ![n] = g]
  <2>1. n \in 1 .. n
    BY <1>1
  <2>2. s \in Seq(FrameType) /\ Len(s) = n
        /\ \A j \in 1 .. n : s[j] = IF j = n THEN g ELSE stack[a][j]
    BY <1>1, <2>1, ExceptSeq
  <2>3. \A j \in 1 .. n : j # n => s[j] = stack[a][j]
    BY <2>2
  <2>4. s[n] = g
    BY <2>1, <2>2
  <2> QED
    BY <2>2, <2>3, <2>4
<1>3. stack' = [stack EXCEPT ![a] = s]
  BY <1>2 DEF Replaces
<1>4. stack'[a] = s /\ \A b \in Actors : b # a => stack'[b] = stack[b]
  BY <1>3 DEF Bounded, Stacks
<1>5. \A b \in Actors : Len(stack'[b]) = Len(stack[b])
  BY <1>2, <1>4
<1>6. Bounded'
  BY <1>2, <1>3, <1>5 DEF Bounded, Stacks, Depth
<1>7. Frames' = Frames
  BY <1>5 DEF Frames
<1>8. ASSUME NEW f \in Frames, f # Id(a)
      PROVE  stack'[f[1]][f[2]] = stack[f[1]][f[2]]
  <2>1. f = <<f[1], f[2]>> /\ f[1] \in Actors /\ f[2] \in 1 .. Len(stack[f[1]])
    BY FrameFacts
  <2>2. CASE f[1] # a
    BY <1>4, <2>1, <2>2
  <2>3. CASE f[1] = a
    <3>1. f[2] # Len(stack[a])
      BY <1>8, <2>1, <2>3 DEF Id
    <3> QED
      BY <1>2, <1>4, <2>1, <2>3, <3>1
  <2> QED
    BY <2>2, <2>3
<1>9. stack'[Id(a)[1]][Id(a)[2]] = g
  BY <1>2, <1>4 DEF Id
<1> QED
  BY <1>5, <1>6, <1>7, <1>8, <1>9 DEF Effect, At, Left, Id

LEMMA GotoEffect ==
  ASSUME Bounded, NEW a \in Actors, stack[a] # <<>>, NEW at \in Labels, Goto(a, at),
         sent' = sent
  PROVE  /\ Bounded' /\ Effect(Frames, {Id(a)})
         /\ At(Id(a))' = at /\ Left(Id(a))' = Left(Id(a))
         /\ \A b \in Actors : Len(stack'[b]) = Len(stack[b])
<1>1. Top(a) \in FrameType /\ Left(Id(a)) = Top(a).left
  BY Tops
<1>2. PICK g : g = [Top(a) EXCEPT !.at = at]
  OBVIOUS
<1>3. g \in FrameType /\ g.at = at /\ g.left = Left(Id(a))
  BY <1>1, <1>2 DEF FrameType
<1>4. Replaces(a, g)
  BY <1>2 DEF Goto, Replaces, Top
<1> QED
  BY <1>3, <1>4, ReplaceEffect

LEMMA QuitEffect ==
  ASSUME Bounded, NEW a \in Actors, stack[a] # <<>>, app \in 0 .. 3, Quit(a)
  PROVE  /\ Bounded' /\ Effect(Frames, {Id(a)})
         /\ At(Id(a)) = "quit" /\ At(Id(a))' = "delete" /\ Left(Id(a))' = Owned(app)
         /\ \A b \in Actors : Len(stack'[b]) = Len(stack[b])
<1>1. Top(a) \in FrameType /\ At(Id(a)) = "quit"
  BY Tops DEF Quit, Is
<1>2. PICK l : l = Owned(app)
  OBVIOUS
<1>3. l \in Seq(Nat)
  BY <1>2 DEF Owned
<1>4. PICK g : g = [[Top(a) EXCEPT !.at = "delete"] EXCEPT !.left = l]
  OBVIOUS
<1>5. g \in FrameType /\ g.at = "delete" /\ g.left = l
  BY <1>1, <1>3, <1>4 DEF FrameType, Labels, Leaving
<1>7. stack' = [stack EXCEPT ![a][Len(stack[a])].at = "delete",
                             ![a][Len(stack[a])].left = l]
  BY <1>2 DEF Quit, AfterQuit
<1>8. Replaces(a, g)
  BY <1>4, <1>7 DEF Replaces, Top, Bounded, Stacks
<1>9. sent' = sent
  BY DEF Quit
<1> QED
  BY <1>1, <1>2, <1>5, <1>8, <1>9, ReplaceEffect

LEMMA FreeEffect ==
  ASSUME Bounded, NEW a \in Actors, Free(a)
  PROVE  /\ stack[a] # <<>> /\ Left(Id(a)) # <<>> /\ Left(Id(a)) \in Seq(Nat)
         /\ Bounded' /\ Effect(Frames, {Id(a)})
         /\ At(Id(a)) = "delete" /\ At(Id(a))' = "delete" /\ Left(Id(a))' = Tail(Left(Id(a)))
         /\ \A b \in Actors : Len(stack'[b]) = Len(stack[b])
         /\ frees' = [frees EXCEPT ![Head(Left(Id(a)))] = @ + 1]
<1>1. /\ stack[a] # <<>> /\ Top(a) \in FrameType
      /\ At(Id(a)) = "delete" /\ Left(Id(a)) = Top(a).left /\ At(Id(a)) = Top(a).at
      /\ Left(Id(a)) # <<>>
  BY Tops DEF Free, Is, Running
<1>2. Top(a).left \in Seq(Nat)
  BY <1>1 DEF FrameType
<1>3. PICK g : g = [Top(a) EXCEPT !.left = Tail(@)]
  OBVIOUS
<1>4. PICK l : l = Top(a).left
  OBVIOUS
<1>5. Tail(l) \in Seq(Nat)
  BY <1>1, <1>2, <1>4
<1>6. g \in FrameType /\ g.at = "delete" /\ g.left = Tail(l)
  BY <1>1, <1>3, <1>4, <1>5 DEF FrameType
<1>7. Replaces(a, g)
  BY <1>3 DEF Free, Replaces, Top
<1>8. sent' = sent
  BY DEF Free
<1>9. frees' = [frees EXCEPT ![Head(Left(Id(a)))] = @ + 1]
  BY <1>1 DEF Free
<1> QED
  BY <1>1, <1>2, <1>4, <1>6, <1>7, <1>8, <1>9, ReplaceEffect

-----------------------------------------------------------------------------
(* A frame comes, on top of those of its thread.                           *)
LEMMA PushEffect ==
  ASSUME Bounded, NEW a \in Actors, NEW g \in FrameType,
         stack' = [stack EXCEPT ![a] = Append(@, g)],
         \/ sent' = sent + 1 /\ sent < MaxSignals
         \/ sent' = sent /\ stack[a] = <<>>,
         NEW f, f = <<a, Len(stack[a]) + 1>>
  PROVE  /\ Bounded' /\ f \notin Frames
         /\ Effect(Frames \cup {f}, {f})
         /\ At(f)' = g.at
         /\ \A b \in Actors : /\ Len(stack[b]) \in Nat /\ Len(stack'[b]) \in Nat
                              /\ Len(stack'[b]) >= Len(stack[b])
<1>1. /\ stack[a] \in Seq(FrameType) /\ Len(stack[a]) \in Nat
      /\ \A b \in Actors : Len(stack[b]) \in Nat
  BY DEF Bounded, Stacks
<1>2. PICK s \in Seq(FrameType) :
        /\ s = Append(stack[a], g)
        /\ Len(s) = Len(stack[a]) + 1
        /\ s[Len(stack[a]) + 1] = g
        /\ \A i \in 1 .. Len(stack[a]) : s[i] = stack[a][i]
  <2> DEFINE s == Append(stack[a], g)
  <2>1. s \in Seq(FrameType) /\ Len(s) = Len(stack[a]) + 1
    BY <1>1
  <2>2. s[Len(stack[a]) + 1] = g
    BY <1>1
  <2>3. \A i \in 1 .. Len(stack[a]) : s[i] = stack[a][i]
    BY <1>1
  <2> QED
    BY <2>1, <2>2, <2>3
<1>3. stack' = [stack EXCEPT ![a] = s]
  BY <1>2
<1>4. stack'[a] = s /\ \A b \in Actors : b # a => stack'[b] = stack[b]
  BY <1>3 DEF Bounded, Stacks
<1>5. Stacks'
  BY <1>2, <1>3 DEF Bounded, Stacks
<1>6. sent \in Nat /\ sent' \in Nat /\ sent' >= sent /\ sent' <= MaxSignals
      /\ MaxSignals \in Nat
  BY LifecycleAssumption DEF Bounded
<1>7. Len(stack[a]) + 1 <= sent' + 1
  <2>1. CASE sent' = sent + 1
    BY <1>1, <1>6, <2>1 DEF Bounded, Depth
  <2>2. CASE stack[a] = <<>>
    <3>1. Len(stack[a]) + 1 = 1
      BY <2>2
    <3>2. 1 <= sent' + 1
      <4>1. \A n \in Nat : 1 <= n + 1
        OBVIOUS
      <4> QED
        BY <1>6, <4>1
    <3> QED
      BY <3>1, <3>2
  <2> QED
    BY <2>1, <2>2
<1>8. ASSUME NEW b \in Actors PROVE Len(stack'[b]) <= sent' + 1
  <2>1. CASE b = a
    BY <1>2, <1>4, <1>7, <2>1
  <2>2. CASE b # a
    BY <1>1, <1>4, <1>6, <2>2 DEF Bounded, Depth
  <2> QED
    BY <2>1, <2>2
<1>9. Bounded'
  BY <1>5, <1>6, <1>8 DEF Bounded, Depth
<1>10. Frames' = Frames \cup {f}
  <2>1. ASSUME NEW e \in Frames' PROVE e \in Frames \cup {<<a, Len(stack[a]) + 1>>}
    <3>1. e = <<e[1], e[2]>> /\ e[1] \in Actors /\ e[2] \in 1 .. MaxSignals + 1
          /\ e[2] <= Len(stack'[e[1]])
      BY DEF Frames
    <3>2. CASE e[1] # a
      BY <1>4, <3>1, <3>2 DEF Frames
    <3>3. CASE e[1] = a /\ e[2] <= Len(stack[a])
      BY <3>1, <3>3 DEF Frames
    <3>4. CASE e[1] = a /\ ~(e[2] <= Len(stack[a]))
      <4>1. e[2] = Len(stack[a]) + 1
        BY <1>1, <1>2, <1>4, <1>6, <3>1, <3>4
      <4> QED
        BY <3>1, <3>4, <4>1
    <3> QED
      BY <3>2, <3>3, <3>4
  <2>2. ASSUME NEW e \in Frames PROVE e \in Frames'
    <3>1. e \in Actors \X (1 .. MaxSignals + 1) /\ e[1] \in Actors
          /\ e[2] \in 1 .. MaxSignals + 1 /\ e[2] <= Len(stack[e[1]])
      BY DEF Frames
    <3>2. Len(stack[e[1]]) <= Len(stack'[e[1]]) /\ Len(stack[e[1]]) \in Nat
          /\ Len(stack'[e[1]]) \in Nat
      BY <1>1, <1>2, <1>4, <3>1
    <3>3. e[2] <= Len(stack'[e[1]])
      BY <1>6, <3>1, <3>2
    <3> QED
      BY <3>1, <3>3 DEF Frames
  <2>3. <<a, Len(stack[a]) + 1>> \in Frames'
    BY <1>1, <1>2, <1>4, <1>6, <1>7 DEF Frames
  <2> QED
    BY <2>1, <2>2, <2>3
<1>11. f \notin Frames
  BY <1>1 DEF Frames
<1>12. ASSUME NEW e \in Frames PROVE stack'[e[1]][e[2]] = stack[e[1]][e[2]]
  <2>1. e[1] \in Actors /\ e[2] \in 1 .. Len(stack[e[1]])
    BY FrameFacts
  <2> QED
    BY <1>2, <1>4, <2>1
<1>13. stack'[a][Len(stack[a]) + 1] = g
  BY <1>2, <1>4
<1>14. \A b \in Actors : Len(stack[b]) \in Nat /\ Len(stack'[b]) \in Nat
                        /\ Len(stack'[b]) >= Len(stack[b])
  BY <1>1, <1>2, <1>4
<1>15. Effect(Frames \cup {f}, {f})
  BY <1>10, <1>12 DEF Effect, At, Left
<1>16. At(f)' = g.at
  BY <1>13 DEF At
<1> QED
  BY <1>9, <1>11, <1>14, <1>15, <1>16

(* A client thread's only frame goes.                                      *)
LEMMA ReturnEffect ==
  ASSUME Bounded, NEW c \in Clients, Return(c)
  PROVE  /\ Bounded' /\ <<c, 1>> \in Frames /\ At(<<c, 1>>) = "call"
         /\ Id(c) = <<c, 1>>
         /\ Effect(Frames \ {<<c, 1>>}, {})
<1>1. /\ Len(stack[c]) = 1 /\ stack[c] # <<>> /\ Top(c).at = "call"
      /\ stack' = [stack EXCEPT ![c] = <<>>] /\ sent' = sent /\ c \in Actors
  BY DEF Return, Is, Running, Actors
<1>2. Id(c) = <<c, 1>> /\ <<c, 1>> \in Frames /\ At(<<c, 1>>) = "call"
  BY <1>1, Tops DEF Id
<1>3. stack'[c] = <<>> /\ \A b \in Actors : b # c => stack'[b] = stack[b]
  BY <1>1 DEF Bounded, Stacks
<1>4. Stacks'
  BY <1>1 DEF Bounded, Stacks
<1>5. sent' \in 0 .. MaxSignals /\ 0 <= sent' + 1
  BY <1>1, LifecycleAssumption DEF Bounded
<1>6. \A b \in Actors : Len(stack'[b]) <= sent' + 1
  BY <1>1, <1>3, <1>5 DEF Bounded, Depth
<1>7. Bounded'
  BY <1>4, <1>5, <1>6 DEF Bounded, Depth
<1>8. \A f \in Frames : f[1] = c => f = <<c, 1>>
  <2> SUFFICES ASSUME NEW f \in Frames, f[1] = c PROVE f = <<c, 1>>
    OBVIOUS
  <2>1. f = <<f[1], f[2]>> /\ f[2] \in Nat /\ f[2] >= 1 /\ f[2] \in 1 .. Len(stack[f[1]])
    BY FrameFacts
  <2> QED
    BY <1>1, <2>1
<1>9. Frames' = Frames \ {<<c, 1>>}
  <2>1. ASSUME NEW f \in Actors \X (1 .. MaxSignals + 1), f[1] = c PROVE f \notin Frames'
    BY <1>3, <2>1, LifecycleAssumption DEF Frames
  <2>2. ASSUME NEW f \in Actors \X (1 .. MaxSignals + 1), f[1] # c
        PROVE  f \in Frames' <=> f \in Frames
    BY <1>3, <2>2 DEF Frames
  <2> QED
    BY <1>8, <2>1, <2>2 DEF Frames
<1>10. \A f \in Frames \ {<<c, 1>>} : stack'[f[1]] = stack[f[1]]
  BY <1>3, <1>8, FrameFacts
<1> QED
  BY <1>2, <1>7, <1>9, <1>10 DEF Effect, At, Left

-----------------------------------------------------------------------------
(* What the threads may be at: handlers clean up, client threads call, and *)
(* there are none before main() serves.                                    *)
M == <<Main, 1>>

Formed ==
  /\ Bounded
  /\ M \in Frames
  /\ At(M) \in Building \cup Serving \cup Leaving
  /\ \A f \in Frames : f[2] > 1 => At(f) \in Leaving
  /\ \A f \in Frames : f[1] \in Clients /\ f[2] = 1 => At(f) \in {"call", "file"}
  /\ At(M) \in Building => \A f \in Frames : f[1] = Main
  /\ heap \in Frames \cup {Nobody}

(* Frame f goes on to another place, which is what main() and the client   *)
(* threads do most of the time.                                            *)
Turn(f, to) ==
  /\ f \in Frames /\ Effect(Frames, {f})
  /\ At(f)' = to /\ Left(f)' = Left(f)
  /\ Bounded'

LEMMA Distinct == Main \in Actors /\ Clients \subseteq Actors /\ Main \notin Clients
                  /\ Nobody \notin Clients /\ Main # Nobody
  BY LifecycleAssumption DEF Actors

LEMMA MainAt ==
  ASSUME Formed, NEW from \in Building \cup Serving, Is(Main, from)
  PROVE  /\ stack[Main] # <<>> /\ Id(Main) = M /\ At(M) = from /\ Len(stack[Main]) = 1
         /\ status = "running"
<1>1. stack[Main] # <<>> /\ Top(Main).at = from /\ status = "running" /\ Bounded
  BY DEF Is, Running, Formed
<1>2. /\ Id(Main) \in Frames /\ At(Id(Main)) = from
      /\ Len(stack[Main]) \in Nat /\ Len(stack[Main]) > 0
      /\ Id(Main)[2] = Len(stack[Main])
  BY <1>1, Distinct, Tops
<1>3. ~(Len(stack[Main]) > 1)
  BY <1>2 DEF Formed, Building, Serving, Leaving
<1>4. Len(stack[Main]) = 1
  <2>1. \A n \in Nat : n > 0 /\ ~(n > 1) => n = 1
    OBVIOUS
  <2>2. Len(stack[Main]) \in Nat /\ Len(stack[Main]) > 0
    BY <1>2
  <2> QED
    BY <1>3, <2>1, <2>2
<1> QED
  BY <1>1, <1>2, <1>4 DEF Id, M

LEMMA MainTurns ==
  ASSUME Formed, NEW from \in Building \cup Serving, Is(Main, from),
         NEW to \in Labels, Goto(Main, to), sent' = sent
  PROVE  Turn(M, to)
<1>1. stack[Main] # <<>> /\ Id(Main) = M
  BY MainAt
<1>2. Bounded /\ M \in Frames
  BY DEF Formed
<1>3. /\ Bounded' /\ Effect(Frames, {Id(Main)}) /\ At(Id(Main))' = to
      /\ Left(Id(Main))' = Left(Id(Main))
      /\ \A b \in Actors : Len(stack'[b]) = Len(stack[b])
  BY <1>1, <1>2, Distinct, GotoEffect
<1>4. Id(Main)' = M
  BY <1>1, <1>3, Distinct DEF Id, M
<1>5. At(M)' = to
  BY <1>3, <1>4 DEF At
<1>6. Left(M)' = Left(M)
  BY <1>1, <1>3, <1>4 DEF Left
<1> QED
  BY <1>1, <1>2, <1>3, <1>5, <1>6 DEF Turn

LEMMA ClientAt ==
  ASSUME Formed, NEW c \in Clients, NEW from \in {"call", "file"}, Is(c, from)
  PROVE  /\ stack[c] # <<>> /\ Id(c) = <<c, 1>> /\ <<c, 1>> \in Frames
         /\ At(<<c, 1>>) = from
         /\ status = "running"
<1>1. stack[c] # <<>> /\ Top(c).at = from /\ status = "running" /\ Bounded /\ c \in Actors
  BY Distinct DEF Is, Running, Formed
<1>2. /\ Id(c) \in Frames /\ At(Id(c)) = from
      /\ Len(stack[c]) \in Nat /\ Len(stack[c]) > 0
      /\ Id(c)[2] = Len(stack[c])
  BY <1>1, Tops
<1>3. ~(Len(stack[c]) > 1)
  BY <1>2 DEF Formed, Leaving
<1>4. Len(stack[c]) = 1
  <2>1. \A n \in Nat : n > 0 /\ ~(n > 1) => n = 1
    OBVIOUS
  <2>2. Len(stack[c]) \in Nat /\ Len(stack[c]) > 0
    BY <1>2
  <2> QED
    BY <1>3, <2>1, <2>2
<1> QED
  BY <1>1, <1>2, <1>4 DEF Id

LEMMA ClientTurns ==
  ASSUME Formed, NEW c \in Clients, NEW from \in {"call", "file"}, Is(c, from),
         NEW to \in {"call", "file"}, Goto(c, to), sent' = sent
  PROVE  Turn(<<c, 1>>, to)
<1>1. stack[c] # <<>> /\ Id(c) = <<c, 1>> /\ <<c, 1>> \in Frames /\ c \in Actors
  BY ClientAt, Distinct
<1>2. Bounded /\ to \in Labels
  BY DEF Formed, Labels
<1>3. /\ Bounded' /\ Effect(Frames, {Id(c)}) /\ At(Id(c))' = to
      /\ Left(Id(c))' = Left(Id(c))
      /\ \A b \in Actors : Len(stack'[b]) = Len(stack[b])
  BY <1>1, <1>2, GotoEffect
<1>4. Id(c)' = <<c, 1>>
  BY <1>1, <1>3 DEF Id
<1>5. At(<<c, 1>>)' = to
  BY <1>3, <1>4 DEF At
<1>6. Left(<<c, 1>>)' = Left(<<c, 1>>)
  BY <1>1, <1>3, <1>4 DEF Left
<1> QED
  BY <1>1, <1>2, <1>3, <1>5, <1>6 DEF Turn

(* A connection is accepted: its thread comes, and main() goes round.      *)
LEMMA AcceptEffect ==
  ASSUME Formed, NEW c \in Clients, Accepted(c), NEW f, f = <<c, 1>>
  PROVE  /\ Bounded' /\ f \notin Frames /\ At(M) = "accept" /\ status = "running"
         /\ Effect(Frames \cup {f}, {f, M})
         /\ At(f)' = "call" /\ At(M)' = "run"
<1>1. /\ stack[c] = <<>> /\ sent' = sent /\ c \in Actors /\ c # Main /\ Main \in Actors
      /\ stack' = [stack EXCEPT ![c] = <<Frame("none", "call")>>,
                                ![Main][Len(stack[Main])].at = "run"]
  BY Distinct DEF Accepted
<1>2. Len(stack[Main]) = 1 /\ At(M) = "accept" /\ status = "running"
  BY MainAt DEF Accepted, Serving
<1>3. Bounded /\ stack[Main] \in Seq(FrameType) /\ stack \in [Actors -> Seq(FrameType)]
  BY Distinct DEF Formed, Bounded, Stacks
<1>4. PICK g : g = Frame("none", "call")
  OBVIOUS
<1>5. g \in FrameType /\ g.at = "call"
  BY <1>4 DEF Frame, FrameType, Names, Labels
<1>6. PICK h : h = [stack[Main][1] EXCEPT !.at = "run"]
  OBVIOUS
<1>7. stack[Main][1] \in FrameType
  BY <1>2, <1>3
<1>8. h \in FrameType /\ h.at = "run" /\ h.left = stack[Main][1].left
  BY <1>6, <1>7 DEF FrameType, Labels, Serving
<1>9. PICK s : s = [stack[Main] EXCEPT ![1] = h]
  OBVIOUS
<1>10. s \in Seq(FrameType) /\ Len(s) = 1 /\ s[1] = h
  <2>1. 1 \in 1 .. Len(stack[Main])
    BY <1>2
  <2> QED
    BY <1>2, <1>3, <1>8, <1>9, <2>1, ExceptSeq
<1>11. PICK u : u = <<g>>
  OBVIOUS
<1>12. u \in Seq(FrameType) /\ Len(u) = 1 /\ u[1] = g
  BY <1>5, <1>11
<1>13. stack' = [[stack EXCEPT ![c] = u] EXCEPT ![Main] = s]
  BY <1>1, <1>2, <1>3, <1>4, <1>6, <1>9, <1>11
<1>14. /\ stack'[c] = u /\ stack'[Main] = s
       /\ \A b \in Actors : b # c /\ b # Main => stack'[b] = stack[b]
  BY <1>1, <1>3, <1>13
<1>15. Stacks'
  BY <1>3, <1>10, <1>12, <1>13 DEF Stacks
<1>16. Depth'
  <2> SUFFICES ASSUME NEW b \in Actors PROVE Len(stack'[b]) <= sent' + 1
    BY DEF Depth
  <2>1. 1 <= sent' + 1
    <3>1. \A n \in Nat : 1 <= n + 1
      OBVIOUS
    <3>2. sent' \in Nat
      BY <1>1, <1>3 DEF Bounded
    <3> QED
      BY <3>1, <3>2
  <2>2. CASE b = c \/ b = Main
    BY <1>10, <1>12, <1>14, <2>1, <2>2
  <2>3. CASE b # c /\ b # Main
    BY <1>1, <1>3, <1>14, <2>3 DEF Bounded, Depth
  <2> QED
    BY <2>2, <2>3
<1>17. Bounded'
  BY <1>1, <1>3, <1>15, <1>16 DEF Bounded
<1>18. \A e \in Frames : e[1] # c
  <2> SUFFICES ASSUME NEW e \in Frames PROVE e[1] # c
    OBVIOUS
  <2> QED
    BY <1>1, <1>3, FrameFacts
<1>19. f \in Frames' /\ f \notin Frames /\ f \in Actors \X (1 .. MaxSignals + 1)
  <2>1. 1 \in 1 .. MaxSignals + 1
    BY LifecycleAssumption
  <2>2. f \in Actors \X (1 .. MaxSignals + 1) /\ f[1] = c /\ f[2] = 1
    BY <1>1, <2>1
  <2>3. f[2] <= Len(stack'[f[1]])
    <3>1. Len(stack'[f[1]]) = 1
      BY <1>12, <1>14, <2>2
    <3>2. f[2] = 1
      BY <2>2
    <3> QED
      BY <3>1, <3>2
  <2> QED
    BY <1>18, <2>2, <2>3 DEF Frames
<1>20. ASSUME NEW e \in Actors \X (1 .. MaxSignals + 1), e # f
       PROVE  e \in Frames' <=> e \in Frames
  <2>1. e = <<e[1], e[2]>> /\ e[1] \in Actors /\ e[2] \in 1 .. MaxSignals + 1
    OBVIOUS
  <2>2. CASE e[1] = c
    <3>1. e[2] # 1
      BY <1>20, <2>1, <2>2
    <3>2. ~(e[2] <= 1)
      BY <2>1, <3>1, LifecycleAssumption
    <3> QED
      BY <1>12, <1>14, <1>18, <2>2, <3>2 DEF Frames
  <2>3. CASE e[1] = Main
    BY <1>2, <1>10, <1>14, <2>3 DEF Frames
  <2>4. CASE e[1] # c /\ e[1] # Main
    BY <1>14, <2>1, <2>4 DEF Frames
  <2> QED
    BY <2>2, <2>3, <2>4
<1>21. Frames' = Frames \cup {f}
  BY <1>19, <1>20 DEF Frames
<1>22. ASSUME NEW e \in Frames, e # M PROVE stack'[e[1]][e[2]] = stack[e[1]][e[2]]
  <2>1. e = <<e[1], e[2]>> /\ e[1] \in Actors /\ e[2] \in 1 .. Len(stack[e[1]])
    BY <1>3, FrameFacts
  <2>2. e[1] # Main
    <3>1. \A i \in 1 .. 1 : i = 1
      OBVIOUS
    <3>2. e[1] = Main => e[2] = 1
      BY <1>2, <2>1, <3>1
    <3> QED
      BY <1>22, <2>1, <3>2 DEF M
  <2> QED
    BY <1>14, <1>18, <2>1, <2>2
<1>23. Effect(Frames \cup {f}, {f, M})
  BY <1>21, <1>22 DEF Effect, At, Left
<1>24. At(f)' = "call" /\ At(M)' = "run"
  BY <1>5, <1>8, <1>10, <1>12, <1>14 DEF At, M
<1> QED
  BY <1>2, <1>17, <1>19, <1>23, <1>24

-----------------------------------------------------------------------------
LEMMA StillEffect ==
  ASSUME Bounded, stack' = stack,
         sent' = sent \/ (sent' = sent + 1 /\ sent < MaxSignals)
  PROVE  Bounded' /\ Effect(Frames, {})
<1>1. sent \in Nat /\ sent' \in Nat /\ sent' >= sent /\ sent' <= MaxSignals
      /\ MaxSignals \in Nat
  BY LifecycleAssumption DEF Bounded
<1>2. \A a \in Actors : Len(stack[a]) \in Nat
  BY DEF Bounded, Stacks
<1>3. \A a \in Actors : Len(stack[a]) <= sent' + 1
  BY <1>1, <1>2 DEF Bounded, Depth
<1>4. Bounded'
  BY <1>1, <1>3 DEF Bounded, Depth, Stacks
<1> QED
  BY <1>4 DEF Effect, Frames, At, Left

LEMMA StillFormed ==
  ASSUME Formed, Effect(Frames, {}), Bounded', heap' \in Frames \cup {Nobody}
  PROVE  Formed'
  BY DEF Formed, Effect, M

LEMMA MainTurnFormed ==
  ASSUME Formed, NEW to \in Building \cup Serving \cup Leaving, Turn(M, to),
         to \in Building => At(M) \in Building, heap' \in Frames \cup {Nobody}
  PROVE  Formed'
<1>1. /\ Bounded' /\ Frames' = Frames /\ M \in Frames /\ At(M)' = to
      /\ \A f \in Frames : f # M => At(f)' = At(f)
  BY DEF Turn, Effect
<1>2. \A f \in Frames : f = M => ~(f[2] > 1) /\ f[1] \notin Clients
  BY Distinct DEF M
<1> QED
  BY <1>1, <1>2 DEF Formed, M

LEMMA ClientTurnFormed ==
  ASSUME Formed, NEW c \in Clients, NEW to \in {"call", "file"}, Turn(<<c, 1>>, to),
         heap' \in Frames \cup {Nobody}
  PROVE  Formed'
<1>1. /\ Bounded' /\ Frames' = Frames /\ M \in Frames /\ At(<<c, 1>>)' = to
      /\ \A f \in Frames : f # <<c, 1>> => At(f)' = At(f)
  BY DEF Turn, Effect, Formed
<1>2. M # <<c, 1>>
  BY Distinct DEF M
<1>3. \A f \in Frames : f = <<c, 1>> => ~(f[2] > 1) /\ f[1] = c
  OBVIOUS
<1> QED
  BY <1>1, <1>2, <1>3 DEF Formed, M

(* A signal pushes a frame at "quit", or kills the process.                *)
LEMMA SignalEffect ==
  ASSUME Formed, NEW a \in Actors, Signal(a)
  PROVE  \/ stack' = stack /\ Effect(Frames, {}) /\ Bounded' /\ status' = "killed"
         \/ /\ status' = status
            /\ \E f : /\ f \notin Frames /\ f = <<f[1], f[2]>> /\ f[1] = a /\ f[2] > 1
                      /\ <<a, 1>> \in Frames
                      /\ Bounded' /\ Effect(Frames \cup {f}, {f}) /\ At(f)' = "quit"
<1>1. stack[a] # <<>> /\ sent < MaxSignals /\ sent' = sent + 1 /\ Bounded
  BY DEF Signal, Running, Formed
<1>2. CASE stack' = stack /\ status' = "killed"
  BY <1>1, <1>2, StillEffect
<1>3. ASSUME NEW i \in DOMAIN Signals,
             stack' = [stack EXCEPT ![a] = Append(@, Frame(Signals[i], "quit"))],
             status' = status
      PROVE  \E f : /\ f \notin Frames /\ f = <<f[1], f[2]>> /\ f[1] = a /\ f[2] > 1
                    /\ <<a, 1>> \in Frames
                    /\ Bounded' /\ Effect(Frames \cup {f}, {f}) /\ At(f)' = "quit"
  <2>1. PICK g : g = Frame(Signals[i], "quit")
    OBVIOUS
  <2>2. g \in FrameType /\ g.at = "quit"
    BY <2>1 DEF Frame, FrameType, Names, Labels, Leaving
  <2>3. PICK f : f = <<a, Len(stack[a]) + 1>>
    OBVIOUS
  <2>4. Len(stack[a]) \in Nat /\ Len(stack[a]) > 0
    BY <1>1, Tops
  <2>5. f = <<f[1], f[2]>> /\ f[1] = a /\ f[2] > 1
    BY <2>3, <2>4
  <2>6. <<a, 1>> \in Frames
    BY <1>1, <2>4, FrameOf
  <2>7. stack' = [stack EXCEPT ![a] = Append(@, g)]
    BY <1>3, <2>1
  <2>8. Bounded' /\ f \notin Frames /\ Effect(Frames \cup {f}, {f}) /\ At(f)' = g.at
    BY <1>1, <2>2, <2>3, <2>7, PushEffect
  <2> QED
    BY <2>2, <2>5, <2>6, <2>8
<1> QED
  BY <1>2, <1>3 DEF Signal

LEMMA StepFormed == Formed /\ app \in 0 .. 3 /\ [Next]_vars => Formed'
<1> SUFFICES ASSUME Formed, app \in 0 .. 3, [Next]_vars PROVE Formed'
  OBVIOUS
<1>1. ASSUME stack' = stack, heap' \in Frames \cup {Nobody},
             sent' = sent \/ (sent' = sent + 1 /\ sent < MaxSignals)
      PROVE  Formed'
  BY <1>1, StillEffect, StillFormed DEF Formed
<1>2. Building \cup Serving \cup Leaving \subseteq Labels
  BY DEF Labels
<1>3. heap \in Frames \cup {Nobody}
  BY DEF Formed
<1>4. CASE UNCHANGED vars
  BY <1>1, <1>3, <1>4 DEF vars
<1>5. CASE Install
  <2>1. Is(Main, "signal") /\ heap' = heap /\ sent' = sent
        /\ (Goto(Main, "init") \/ Goto(Main, "signal"))
    BY <1>5 DEF Install
  <2> QED
    BY <1>2, <1>3, <2>1, MainAt, MainTurns, MainTurnFormed DEF Building
<1>6. CASE ServerInit
  <2>1. Is(Main, "init") /\ heap' = heap /\ sent' = sent
        /\ (Goto(Main, "new") \/ stack' = stack)
    BY <1>6 DEF ServerInit
  <2> QED
    BY <1>1, <1>2, <1>3, <2>1, MainAt, MainTurns, MainTurnFormed DEF Building
<1>7. CASE New
  <2>1. Is(Main, "new") /\ heap' = Nobody /\ sent' = sent
        /\ (Goto(Main, "assign") \/ Goto(Main, "new"))
    BY <1>7 DEF New
  <2> QED
    BY <1>2, <2>1, MainAt, MainTurns, MainTurnFormed DEF Building
<1>8. CASE Assign
  <2>1. Is(Main, "assign") /\ heap' = heap /\ sent' = sent
        /\ (Goto(Main, "run") \/ Goto(Main, "new"))
    BY <1>8 DEF Assign
  <2> QED
    BY <1>2, <1>3, <2>1, MainAt, MainTurns, MainTurnFormed DEF Building, Serving
<1>9. CASE Accept
  <2>1. Is(Main, "run") /\ heap' = heap /\ sent' = sent
        /\ (Goto(Main, "accept") \/ Goto(Main, "quit"))
    BY <1>9 DEF Accept
  <2> QED
    BY <1>2, <1>3, <2>1, MainTurns, MainTurnFormed DEF Building, Serving, Leaving
<1>10. CASE AcceptFails
  <2>1. Is(Main, "accept") /\ heap' = heap /\ sent' = sent /\ Goto(Main, "quit")
    BY <1>10 DEF AcceptFails
  <2> QED
    BY <1>2, <1>3, <2>1, MainTurns, MainTurnFormed DEF Building, Serving, Leaving
<1>11. ASSUME NEW c \in Clients, Accepted(c) PROVE Formed'
  <2>1. PICK f : f = <<c, 1>>
    OBVIOUS
  <2>2. /\ Bounded' /\ f \notin Frames /\ Frames' = Frames \cup {f}
        /\ At(f)' = "call" /\ At(M)' = "run"
        /\ \A e \in Frames : e # M => At(e)' = At(e)
    BY <1>11, <2>1, AcceptEffect DEF Effect
  <2>3. heap' = heap
    BY <1>11 DEF Accepted
  <2>4. f # M /\ f[1] = c /\ f[2] = 1 /\ M[1] = Main /\ M[2] = 1
    BY <2>1, Distinct DEF M
  <2>5. \A e \in Frames' : e[2] > 1 => At(e)' \in Leaving
    BY <2>2, <2>4 DEF Formed
  <2>6. \A e \in Frames' : e[1] \in Clients /\ e[2] = 1 => At(e)' \in {"call", "file"}
    BY <2>2, <2>4, Distinct DEF Formed
  <2> QED
    BY <1>3, <2>2, <2>3, <2>5, <2>6 DEF Formed, Building, Serving, M
<1>12. ASSUME NEW c \in Clients, OpenFile(c) PROVE Formed'
  BY <1>3, <1>12, ClientTurns, ClientTurnFormed DEF OpenFile
<1>13. ASSUME NEW c \in Clients, CloseFile(c) PROVE Formed'
  BY <1>3, <1>13, ClientTurns, ClientTurnFormed DEF CloseFile
<1>14. ASSUME NEW c \in Clients, Return(c) PROVE Formed'
  <2>1. /\ Bounded' /\ Id(c) = <<c, 1>> /\ Frames' = Frames \ {<<c, 1>>}
        /\ \A f \in Frames' : At(f)' = At(f)
    BY <1>14, ReturnEffect DEF Effect, Formed
  <2>2. heap' = heap /\ heap # <<c, 1>>
    BY <1>14, <2>1 DEF Return
  <2>3. M # <<c, 1>>
    BY Distinct DEF M
  <2> QED
    BY <2>1, <2>2, <2>3 DEF Formed, M
<1>15. ASSUME NEW c \in Clients, Allocate(c) PROVE Formed'
  BY <1>1, <1>15 DEF Allocate
<1>16. ASSUME NEW a \in Actors, Signal(a) PROVE Formed'
  <2>1. heap' = heap
    BY <1>16 DEF Signal
  <2>2. CASE Effect(Frames, {}) /\ Bounded'
    BY <1>3, <2>1, <2>2, StillFormed
  <2>3. ASSUME NEW f, f \notin Frames, f[1] = a, f[2] > 1, <<a, 1>> \in Frames, Bounded',
               Effect(Frames \cup {f}, {f}), At(f)' = "quit"
        PROVE  Formed'
    <3>1. Frames' = Frames \cup {f} /\ \A e \in Frames : At(e)' = At(e)
      BY <2>3 DEF Effect
    <3>2. \A e \in Frames' : e[2] > 1 => At(e)' \in Leaving
      BY <2>3, <3>1 DEF Formed, Leaving
    <3>3. \A e \in Frames' : e[1] \in Clients /\ e[2] = 1 => At(e)' \in {"call", "file"}
      BY <2>3, <3>1 DEF Formed
    <3>4. At(M) \in Building => a = Main
      BY <2>3 DEF Formed
    <3> QED
      BY <2>1, <2>3, <3>1, <3>2, <3>3, <3>4 DEF Formed, M
  <2>4. \/ Effect(Frames, {}) /\ Bounded'
        \/ \E f : /\ f \notin Frames /\ f[1] = a /\ f[2] > 1 /\ <<a, 1>> \in Frames
                  /\ Bounded' /\ Effect(Frames \cup {f}, {f}) /\ At(f)' = "quit"
    <3>1. CASE stack' = stack /\ Effect(Frames, {}) /\ Bounded'
      BY <3>1
    <3>2. ASSUME NEW f, f \notin Frames, f[1] = a, f[2] > 1, <<a, 1>> \in Frames, Bounded',
                 Effect(Frames \cup {f}, {f}), At(f)' = "quit"
          PROVE  \E e : /\ e \notin Frames /\ e[1] = a /\ e[2] > 1 /\ <<a, 1>> \in Frames
                        /\ Bounded' /\ Effect(Frames \cup {e}, {e}) /\ At(e)' = "quit"
      BY <3>2
    <3> QED
      BY <1>16, <3>1, <3>2, SignalEffect
  <2> QED
    BY <2>2, <2>3, <2>4
<1>17. ASSUME NEW a \in Actors, stack[a] # <<>>, At(Id(a)) \in Leaving, NEW to \in Leaving,
              Bounded', Effect(Frames, {Id(a)}), At(Id(a))' = to, Id(a)' = Id(a),
              heap' \in Frames \cup {Nobody}
       PROVE  Formed'
  <2>1. PICK f : f = Id(a)
    OBVIOUS
  <2>2. f \in Frames /\ At(f) \in Leaving
    BY <1>17, <2>1, Tops DEF Formed
  <2>3. At(f)' = to
    BY <1>17, <2>1 DEF At
  <2>4. Frames' = Frames /\ \A e \in Frames : e # f => At(e)' = At(e)
    BY <1>17, <2>1 DEF Effect
  <2>5. ~(f[1] \in Clients /\ f[2] = 1)
    BY <2>2 DEF Formed, Leaving
  <2>6. to \notin Building
    BY <1>17 DEF Building, Leaving
  <2>7. \A e \in Frames : e[2] > 1 => At(e)' \in Leaving
    BY <1>17, <2>3, <2>4 DEF Formed
  <2>8. \A e \in Frames : e[1] \in Clients /\ e[2] = 1 => At(e)' \in {"call", "file"}
    BY <2>4, <2>5 DEF Formed
  <2>9. At(M)' \in Building \cup Serving \cup Leaving
    BY <1>17, <2>3, <2>4 DEF Formed
  <2>10. At(M)' \in Building => \A e \in Frames : e[1] = Main
    BY <2>3, <2>4, <2>6 DEF Formed
  <2> QED
    BY <1>17, <2>4, <2>7, <2>8, <2>9, <2>10 DEF Formed, M
<1>18. ASSUME NEW a \in Actors, Quit(a) PROVE Formed'
  <2>1. stack[a] # <<>> /\ heap' = heap
    BY <1>18 DEF Quit, Is, Running
  <2>2. /\ Bounded' /\ Effect(Frames, {Id(a)}) /\ At(Id(a)) = "quit" /\ At(Id(a))' = "delete"
        /\ \A b \in Actors : Len(stack'[b]) = Len(stack[b])
    BY <1>18, <2>1, QuitEffect DEF Formed
  <2>3. Id(a)' = Id(a)
    BY <2>2 DEF Id
  <2> QED
    BY <1>3, <1>17, <2>1, <2>2, <2>3 DEF Leaving
<1>19. ASSUME NEW a \in Actors, Free(a) PROVE Formed'
  <2>1. heap' = Nobody
    BY <1>19 DEF Free
  <2>2. /\ stack[a] # <<>>
        /\ Bounded' /\ Effect(Frames, {Id(a)}) /\ At(Id(a)) = "delete" /\ At(Id(a))' = "delete"
        /\ \A b \in Actors : Len(stack'[b]) = Len(stack[b])
    BY <1>19, FreeEffect DEF Formed
  <2>3. Id(a)' = Id(a)
    BY <2>2 DEF Id
  <2> QED
    BY <1>17, <2>1, <2>2, <2>3 DEF Leaving
<1>20. ASSUME NEW a \in Actors, Exit(a) \/ Crash(a) PROVE Formed'
  BY <1>1, <1>3, <1>20 DEF Exit, Crash
<1>21. ASSUME NEW a \in Actors, Enter(a) PROVE Formed'
  <2>1. heap' = Id(a) /\ stack' = stack /\ sent' = sent /\ stack[a] # <<>>
    BY <1>21 DEF Enter, Running
  <2>2. Id(a) \in Frames
    BY <2>1, Tops DEF Formed
  <2> QED
    BY <1>1, <2>1, <2>2
<1> QED
  BY <1>4, <1>5, <1>6, <1>7, <1>8, <1>9, <1>10, <1>11, <1>12, <1>13, <1>14, <1>15, <1>16,
     <1>18, <1>19, <1>20, <1>21
     DEF Next, Step, MainStep, ClientStep, CleanUp

-----------------------------------------------------------------------------
(* What a step does to the clean-ups: nothing, begin one, or free one      *)
(* object in one.                                                          *)
SameLeft(F) == \A f \in F : Left(f)' = Left(f)

Keeps == CleaningUp' = CleaningUp /\ SameLeft(CleaningUp)

Begins(f) ==
  /\ f \notin CleaningUp /\ CleaningUp' = CleaningUp \cup {f} /\ SameLeft(CleaningUp)
  /\ Left(f)' = Owned(app)

Frees(f) ==
  /\ f \in CleaningUp /\ CleaningUp' = CleaningUp /\ SameLeft(CleaningUp \ {f})
  /\ Left(f) \in Seq(Nat) /\ Left(f) # <<>> /\ Left(f)' = Tail(Left(f))
  /\ frees' = [frees EXCEPT ![Head(Left(f))] = @ + 1]

LEMMA EffectKeeps ==
  ASSUME NEW F, NEW G, Effect(F, G),
         \A f \in G : f \in F => At(f)' # "delete" /\ (f \in Frames => At(f) # "delete"),
         \A f \in Frames : f \notin F => At(f) # "delete"
  PROVE  Keeps
  BY DEF Effect, Keeps, SameLeft, CleaningUp

LEMMA TurnKeeps ==
  ASSUME NEW f, NEW to, Turn(f, to), At(f) # "delete", to # "delete"
  PROVE  Keeps
<1>1. Effect(Frames, {f})
  BY DEF Turn
<1>2. \A e \in {f} : e \in Frames => At(e)' # "delete" /\ (e \in Frames => At(e) # "delete")
  BY DEF Turn
<1>3. \A e \in Frames : e \notin Frames => At(e) # "delete"
  OBVIOUS
<1> QED
  BY <1>1, <1>2, <1>3, EffectKeeps

LEMMA CleaningStep ==
  ASSUME Formed, app \in 0 .. 3, [Next]_vars
  PROVE  \/ Keeps /\ frees' = frees
         \/ \E a \in Actors : Quit(a) /\ frees' = frees /\ \E f \in Frames : Begins(f)
         \/ \E a \in Actors : Free(a) /\ \E f \in Frames : Frees(f)
<1>1. stack' = stack /\ frees' = frees => Keeps /\ frees' = frees
  BY DEF Keeps, SameLeft, CleaningUp, Frames, At, Left
<1>2. Building \cup Serving \cup Leaving \subseteq Labels
  BY DEF Labels
<1>3. CASE UNCHANGED vars
  BY <1>1, <1>3 DEF vars
<1>4. ASSUME NEW from \in Building \cup Serving, Is(Main, from),
             NEW to \in Labels \ {"delete"}, Goto(Main, to), sent' = sent
      PROVE  Keeps
  <2>1. Turn(M, to) /\ At(M) = from
    BY <1>4, MainTurns, MainAt
  <2>2. from # "delete"
    BY <1>4 DEF Building, Serving
  <2> QED
    BY <1>4, <2>1, <2>2, TurnKeeps
<1>5. CASE Install
  <2>1. Is(Main, "signal") /\ frees' = frees /\ sent' = sent
        /\ (Goto(Main, "init") \/ Goto(Main, "signal"))
    BY <1>5 DEF Install
  <2> QED
    BY <1>4, <2>1 DEF Building, Labels
<1>6. CASE ServerInit
  <2>1. Is(Main, "init") /\ frees' = frees /\ sent' = sent
        /\ (Goto(Main, "new") \/ stack' = stack)
    BY <1>6 DEF ServerInit
  <2> QED
    BY <1>1, <1>4, <2>1 DEF Building, Labels
<1>7. CASE New
  <2>1. Is(Main, "new") /\ frees' = frees /\ sent' = sent
        /\ (Goto(Main, "assign") \/ Goto(Main, "new"))
    BY <1>7 DEF New
  <2> QED
    BY <1>4, <2>1 DEF Building, Labels
<1>8. CASE Assign
  <2>1. Is(Main, "assign") /\ frees' = frees /\ sent' = sent
        /\ (Goto(Main, "run") \/ Goto(Main, "new"))
    BY <1>8 DEF Assign
  <2> QED
    BY <1>4, <2>1 DEF Building, Serving, Labels
<1>9. CASE Accept
  <2>1. Is(Main, "run") /\ frees' = frees /\ sent' = sent
        /\ (Goto(Main, "accept") \/ Goto(Main, "quit"))
    BY <1>9 DEF Accept
  <2> QED
    BY <1>4, <2>1 DEF Building, Serving, Leaving, Labels
<1>10. CASE AcceptFails
  <2>1. Is(Main, "accept") /\ frees' = frees /\ sent' = sent /\ Goto(Main, "quit")
    BY <1>10 DEF AcceptFails
  <2> QED
    BY <1>4, <2>1 DEF Building, Serving, Leaving, Labels
<1>11. ASSUME NEW c \in Clients, Accepted(c) PROVE Keeps /\ frees' = frees
  <2>1. PICK f : f = <<c, 1>>
    OBVIOUS
  <2>2. /\ f \notin Frames /\ Effect(Frames \cup {f}, {f, M})
        /\ At(f)' = "call" /\ At(M)' = "run" /\ At(M) = "accept"
    BY <1>11, <2>1, AcceptEffect
  <2> QED
    BY <1>11, <2>2, EffectKeeps DEF Accepted
<1>12. ASSUME NEW c \in Clients, NEW from \in {"call", "file"}, Is(c, from),
              NEW to \in {"call", "file"}, Goto(c, to), sent' = sent
       PROVE  Keeps
  BY <1>12, ClientTurns, ClientAt, TurnKeeps
<1>13. ASSUME NEW c \in Clients, OpenFile(c) PROVE Keeps /\ frees' = frees
  BY <1>12, <1>13 DEF OpenFile
<1>14. ASSUME NEW c \in Clients, CloseFile(c) PROVE Keeps /\ frees' = frees
  BY <1>12, <1>14 DEF CloseFile
<1>15. ASSUME NEW c \in Clients, Return(c) PROVE Keeps /\ frees' = frees
  <2>1. At(<<c, 1>>) = "call" /\ Effect(Frames \ {<<c, 1>>}, {})
    BY <1>15, ReturnEffect DEF Formed
  <2> QED
    BY <1>15, <2>1, EffectKeeps DEF Return
<1>16. ASSUME NEW c \in Clients, Allocate(c) PROVE Keeps /\ frees' = frees
  BY <1>1, <1>16 DEF Allocate
<1>17. ASSUME NEW a \in Actors, Signal(a) PROVE Keeps /\ frees' = frees
  <2>1. frees' = frees
    BY <1>17 DEF Signal
  <2>2. ASSUME NEW f, f \notin Frames, Effect(Frames \cup {f}, {f}), At(f)' = "quit"
        PROVE  Keeps
    BY <2>2, EffectKeeps
  <2>3. stack' = stack \/ \E f : f \notin Frames /\ Effect(Frames \cup {f}, {f})
                                 /\ At(f)' = "quit"
    <3>1. ASSUME NEW f, f \notin Frames, Effect(Frames \cup {f}, {f}), At(f)' = "quit"
          PROVE  \E e : e \notin Frames /\ Effect(Frames \cup {e}, {e}) /\ At(e)' = "quit"
      BY <3>1
    <3> QED
      BY <1>17, <3>1, SignalEffect
  <2> QED
    BY <1>1, <2>1, <2>2, <2>3
<1>18. ASSUME NEW a \in Actors, Quit(a)
       PROVE  frees' = frees /\ \E f \in Frames : Begins(f)
  <2>1. PICK f : f = Id(a)
    OBVIOUS
  <2>2. stack[a] # <<>> /\ frees' = frees
    BY <1>18 DEF Quit, Is, Running
  <2>3. /\ Effect(Frames, {Id(a)}) /\ At(Id(a)) = "quit" /\ At(Id(a))' = "delete"
        /\ Left(Id(a))' = Owned(app)
        /\ \A b \in Actors : Len(stack'[b]) = Len(stack[b])
    BY <1>18, <2>2, QuitEffect DEF Formed
  <2>4. Id(a)' = f /\ f \in Frames
    BY <2>1, <2>2, <2>3, Tops DEF Id, Formed
  <2>5. At(f) = "quit" /\ At(f)' = "delete" /\ Left(f)' = Owned(app)
    BY <2>1, <2>3, <2>4 DEF At, Left
  <2>6. Frames' = Frames /\ \A e \in Frames : e # f => At(e)' = At(e) /\ Left(e)' = Left(e)
    BY <2>1, <2>3 DEF Effect
  <2>7. f \notin CleaningUp /\ CleaningUp' = CleaningUp \cup {f} /\ SameLeft(CleaningUp)
    BY <2>4, <2>5, <2>6 DEF CleaningUp, SameLeft
  <2> QED
    BY <2>2, <2>4, <2>5, <2>7 DEF Begins
<1>19. ASSUME NEW a \in Actors, Free(a)
       PROVE  \E f \in Frames : Frees(f)
  <2>1. PICK f : f = Id(a)
    OBVIOUS
  <2>2. /\ Effect(Frames, {Id(a)}) /\ At(Id(a)) = "delete" /\ At(Id(a))' = "delete"
        /\ Left(Id(a))' = Tail(Left(Id(a))) /\ Left(Id(a)) # <<>> /\ Left(Id(a)) \in Seq(Nat)
        /\ \A b \in Actors : Len(stack'[b]) = Len(stack[b])
        /\ frees' = [frees EXCEPT ![Head(Left(Id(a)))] = @ + 1]
        /\ stack[a] # <<>>
    BY <1>19, FreeEffect DEF Formed
  <2>3. Id(a)' = f /\ f \in Frames
    BY <2>1, <2>2, Tops DEF Id, Formed
  <2>4. At(f) = "delete" /\ At(f)' = "delete" /\ Left(f)' = Tail(Left(f))
        /\ Left(f) # <<>> /\ Left(f) \in Seq(Nat)
    BY <2>1, <2>2, <2>3 DEF At, Left
  <2>5. Frames' = Frames /\ \A e \in Frames : e # f => At(e)' = At(e) /\ Left(e)' = Left(e)
    BY <2>1, <2>2 DEF Effect
  <2>6. f \in CleaningUp /\ CleaningUp' = CleaningUp /\ SameLeft(CleaningUp \ {f})
    BY <2>3, <2>4, <2>5 DEF CleaningUp, SameLeft
  <2>7. frees' = [frees EXCEPT ![Head(Left(f))] = @ + 1]
    BY <2>1, <2>2
  <2> QED
    BY <2>3, <2>4, <2>6, <2>7 DEF Frees
<1>20. ASSUME NEW a \in Actors, Exit(a) \/ Crash(a) \/ Enter(a) PROVE Keeps /\ frees' = frees
  BY <1>1, <1>20 DEF Exit, Crash, Enter
<1> QED
  BY <1>3, <1>5, <1>6, <1>7, <1>8, <1>9, <1>10, <1>11, <1>13, <1>14, <1>15, <1>16, <1>17,
     <1>18, <1>19, <1>20
     DEF Next, Step, MainStep, ClientStep, CleanUp

-----------------------------------------------------------------------------
(* How far main() has come, and what it has built by then.                 *)
Typed ==
  /\ handled \in 0 .. Len(Signals) /\ (At(M) = "signal" => handled < Len(Signals))
  /\ socket_ \in BOOLEAN /\ number \in Actors \cup {Nobody} /\ holds \subseteq Clients
  /\ built \in 0 .. 4 /\ app \in 0 .. 3
  /\ app = IF At(M) = "assign" THEN built - 2 ELSE IF built = 0 THEN 0 ELSE built - 1
  /\ At(M) \in {"signal", "init"} => built = 0
  /\ At(M) = "new" => built < 4
  /\ At(M) = "assign" => built > 1
  /\ status \in {"running", "failed", "killed", "crashed", "exited"}

(* Who is not main(), or main() in a handler, leaves main() where it is.   *)
Aside ==
  \/ UNCHANGED vars
  \/ \E c \in Clients : ClientStep(c)
  \/ \E a \in Actors : CleanUp(a) \/ Enter(a) \/ Signal(a) \/ Crash(a)

LEMMA AsideLeaves ==
  ASSUME Formed, app \in 0 .. 3, Aside
  PROVE  At(M)' = At(M) \/ (At(M) \in Leaving /\ At(M)' \in Leaving)
<1>1. stack' = stack => At(M)' = At(M)
  BY DEF At
<1>2. M \in Frames /\ Bounded
  BY DEF Formed
<1>3. \A c \in Clients : M # <<c, 1>>
  BY Distinct DEF M
<1>4. CASE UNCHANGED vars
  BY <1>1, <1>4 DEF vars
<1>5. ASSUME NEW c \in Clients, NEW to, Turn(<<c, 1>>, to) PROVE At(M)' = At(M)
  BY <1>2, <1>3, <1>5 DEF Turn, Effect
<1>6. ASSUME NEW c \in Clients, ClientStep(c) PROVE At(M)' = At(M)
  <2>1. CASE Allocate(c)
    BY <1>1, <2>1 DEF Allocate
  <2>2. CASE OpenFile(c)
    BY <1>5, <2>2, ClientTurns DEF OpenFile
  <2>3. CASE CloseFile(c)
    BY <1>5, <2>3, ClientTurns DEF CloseFile
  <2>4. CASE Return(c)
    <3>1. Effect(Frames \ {<<c, 1>>}, {})
      BY <1>2, <2>4, ReturnEffect
    <3> QED
      BY <1>2, <1>3, <3>1 DEF Effect
  <2> QED
    BY <1>6, <2>1, <2>2, <2>3, <2>4 DEF ClientStep
<1>7. ASSUME NEW a \in Actors, NEW f \in Frames, Effect(Frames, {f}), At(f) \in Leaving,
             At(f)' \in Leaving
      PROVE  At(M)' = At(M) \/ (At(M) \in Leaving /\ At(M)' \in Leaving)
  <2>1. CASE f = M
    BY <1>7, <2>1
  <2>2. CASE f # M
    BY <1>2, <1>7, <2>2 DEF Effect
  <2> QED
    BY <2>1, <2>2
<1>8. ASSUME NEW a \in Actors, stack[a] # <<>>, Effect(Frames, {Id(a)}), At(Id(a)) \in Leaving,
             At(Id(a))' \in Leaving, \A b \in Actors : Len(stack'[b]) = Len(stack[b])
      PROVE  At(M)' = At(M) \/ (At(M) \in Leaving /\ At(M)' \in Leaving)
  <2>1. PICK f : f = Id(a)
    OBVIOUS
  <2>2. Id(a)' = f /\ f \in Frames
    BY <1>2, <1>8, <2>1, Tops DEF Id
  <2>3. At(f)' \in Leaving
    BY <1>8, <2>2 DEF At
  <2> QED
    BY <1>7, <1>8, <2>1, <2>2, <2>3
<1>9. ASSUME NEW a \in Actors, Quit(a)
      PROVE  At(M)' = At(M) \/ (At(M) \in Leaving /\ At(M)' \in Leaving)
  <2>1. stack[a] # <<>>
    BY <1>9 DEF Quit, Is, Running
  <2>2. /\ Effect(Frames, {Id(a)}) /\ At(Id(a)) = "quit" /\ At(Id(a))' = "delete"
        /\ \A b \in Actors : Len(stack'[b]) = Len(stack[b])
    BY <1>2, <1>9, <2>1, QuitEffect
  <2> QED
    BY <1>8, <2>1, <2>2 DEF Leaving
<1>10. ASSUME NEW a \in Actors, Free(a)
       PROVE  At(M)' = At(M) \/ (At(M) \in Leaving /\ At(M)' \in Leaving)
  <2>1. /\ Effect(Frames, {Id(a)}) /\ At(Id(a)) = "delete" /\ At(Id(a))' = "delete"
        /\ \A b \in Actors : Len(stack'[b]) = Len(stack[b])
        /\ stack[a] # <<>>
    BY <1>2, <1>10, FreeEffect
  <2> QED
    BY <1>8, <2>1 DEF Leaving
<1>11. ASSUME NEW a \in Actors, Exit(a) \/ Crash(a) \/ Enter(a) PROVE At(M)' = At(M)
  BY <1>1, <1>11 DEF Exit, Crash, Enter
<1>12. ASSUME NEW a \in Actors, Signal(a) PROVE At(M)' = At(M)
  <2>1. ASSUME NEW f, f \notin Frames, Effect(Frames \cup {f}, {f}) PROVE At(M)' = At(M)
    BY <1>2, <2>1 DEF Effect
  <2>2. stack' = stack \/ \E f : f \notin Frames /\ Effect(Frames \cup {f}, {f})
    <3>1. ASSUME NEW f, f \notin Frames, Effect(Frames \cup {f}, {f})
          PROVE  \E e : e \notin Frames /\ Effect(Frames \cup {e}, {e})
      BY <3>1
    <3> QED
      BY <1>12, <3>1, SignalEffect
  <2> QED
    BY <1>1, <2>1, <2>2
<1> QED
  BY <1>4, <1>6, <1>9, <1>10, <1>11, <1>12 DEF Aside, CleanUp

(* And it leaves alone what main() has set up.                             *)
LEMMA AsideSame ==
  Aside => handled' = handled /\ socket_' = socket_ /\ built' = built /\ app' = app
  BY DEF Aside, vars, ClientStep, Allocate, OpenFile, CloseFile, Return,
         CleanUp, Quit, Free, Exit, Enter, Signal, Crash

LEMMA StepTyped == Formed /\ Typed /\ [Next]_vars => Typed'
<1> SUFFICES ASSUME Formed, Typed, [Next]_vars PROVE Typed'
  OBVIOUS
<1>1. Building \cup Serving \cup Leaving \subseteq Labels
  BY DEF Labels
<1>2. /\ socket_' \in BOOLEAN /\ number' \in Actors \cup {Nobody} /\ holds' \subseteq Clients
      /\ status' \in {"running", "failed", "killed", "crashed", "exited"}
  <2> USE Distinct DEF Typed
  <2>1. CASE UNCHANGED vars
    BY <2>1 DEF vars
  <2>2. CASE Install \/ ServerInit \/ New \/ Assign \/ Accept \/ AcceptFails
    BY <2>2 DEF Install, ServerInit, New, Assign, Accept, AcceptFails
  <2>3. ASSUME NEW c \in Clients, Accepted(c) \/ ClientStep(c)
        PROVE  /\ socket_' \in BOOLEAN /\ number' \in Actors \cup {Nobody}
               /\ holds' \subseteq Clients /\ status' = status
    BY <2>3 DEF Accepted, ClientStep, Allocate, OpenFile, CloseFile, Return
  <2>4. ASSUME NEW a \in Actors, CleanUp(a) \/ Enter(a) \/ Signal(a) \/ Crash(a)
        PROVE  /\ socket_' \in BOOLEAN /\ number' \in Actors \cup {Nobody}
               /\ holds' \subseteq Clients
               /\ status' \in {"running", "failed", "killed", "crashed", "exited"}
    BY <2>4 DEF CleanUp, Quit, Free, Exit, Enter, Signal, Crash
  <2> QED
    BY <2>1, <2>2, <2>3, <2>4 DEF Next, Step, MainStep
<1>3. CASE Aside
  <2>1. At(M)' = At(M) \/ (At(M) \in Leaving /\ At(M)' \in Leaving)
    BY <1>3, AsideLeaves DEF Typed
  <2>2. handled' = handled /\ built' = built /\ app' = app
    BY <1>3, AsideSame
  <2> QED
    BY <1>2, <2>1, <2>2 DEF Typed, Leaving
<1>4. CASE Install
  <2>1. Is(Main, "signal") /\ sent' = sent /\ built' = built /\ app' = app
        /\ handled' = handled + 1
        /\ Goto(Main, IF handled' = Len(Signals) THEN "init" ELSE "signal")
    BY <1>4 DEF Install
  <2>2. At(M) = "signal"
    BY <2>1, MainAt DEF Building
  <2>3. At(M)' = IF handled' = Len(Signals) THEN "init" ELSE "signal"
    BY <2>1, MainTurns DEF Turn, Building, Labels
  <2>4. Len(Signals) \in Nat /\ handled \in Nat /\ handled < Len(Signals)
    BY <2>2, LifecycleAssumption DEF Typed
  <2>5. handled' \in 0 .. Len(Signals) /\ (At(M)' = "signal" => handled' < Len(Signals))
    BY <2>1, <2>3, <2>4
  <2> QED
    BY <1>2, <2>1, <2>2, <2>3, <2>5 DEF Typed
<1>5. CASE ServerInit
  <2>1. /\ Is(Main, "init") /\ sent' = sent /\ built' = built /\ app' = app
        /\ handled' = handled /\ (Goto(Main, "new") \/ stack' = stack)
    BY <1>5 DEF ServerInit
  <2>2. At(M) = "init"
    BY <2>1, MainAt DEF Building
  <2>3. At(M)' = "new" \/ At(M)' = "init"
    <3>1. stack' = stack => At(M)' = At(M)
      BY DEF At
    <3> QED
      BY <2>1, <2>2, <3>1, MainTurns DEF Turn, Building, Labels
  <2> QED
    BY <1>2, <2>1, <2>2, <2>3 DEF Typed
<1>6. CASE New
  <2>1. /\ Is(Main, "new") /\ sent' = sent /\ built' = built + 1 /\ app' = app
        /\ handled' = handled /\ Goto(Main, IF built = 0 THEN "new" ELSE "assign")
    BY <1>6 DEF New, About
  <2>2. At(M) = "new" /\ At(M)' = IF built = 0 THEN "new" ELSE "assign"
    BY <2>1, MainAt, MainTurns DEF Turn, Building, Labels
  <2> QED
    BY <1>2, <2>1, <2>2 DEF Typed
<1>7. CASE Assign
  <2>1. /\ Is(Main, "assign") /\ sent' = sent /\ built' = built /\ app' = built - 1
        /\ handled' = handled /\ Goto(Main, IF built = 4 THEN "run" ELSE "new")
    BY <1>7 DEF Assign, Assigned
  <2>2. At(M) = "assign" /\ At(M)' = IF built = 4 THEN "run" ELSE "new"
    BY <2>1, MainAt, MainTurns DEF Turn, Building, Serving, Labels
  <2> QED
    BY <1>2, <2>1, <2>2 DEF Typed
<1>8. CASE Accept
  <2>1. /\ Is(Main, "run") /\ sent' = sent /\ built' = built /\ app' = app
        /\ handled' = handled /\ (Goto(Main, "accept") \/ Goto(Main, "quit"))
    BY <1>8 DEF Accept
  <2>2. At(M) = "run" /\ At(M)' \in {"accept", "quit"}
    BY <2>1, MainAt, MainTurns DEF Turn, Serving, Leaving, Labels
  <2> QED
    BY <1>2, <2>1, <2>2 DEF Typed
<1>9. CASE AcceptFails
  <2>1. /\ Is(Main, "accept") /\ sent' = sent /\ built' = built /\ app' = app
        /\ handled' = handled /\ Goto(Main, "quit")
    BY <1>9 DEF AcceptFails
  <2>2. At(M) = "accept" /\ At(M)' = "quit"
    BY <2>1, MainAt, MainTurns DEF Turn, Serving, Leaving, Labels
  <2> QED
    BY <1>2, <2>1, <2>2 DEF Typed
<1>10. ASSUME NEW c \in Clients, Accepted(c) PROVE Typed'
  <2>1. built' = built /\ app' = app /\ handled' = handled
    BY <1>10 DEF Accepted
  <2>2. At(M) = "accept" /\ At(M)' = "run"
    BY <1>10, AcceptEffect
  <2> QED
    BY <1>2, <2>1, <2>2 DEF Typed
<1> QED
  BY <1>3, <1>4, <1>5, <1>6, <1>7, <1>8, <1>9, <1>10 DEF Next, Step, MainStep, Aside

-----------------------------------------------------------------------------
(* The socket's number: main() has it until the first clean-up closes it,  *)
(* and no client thread gets it before that.                               *)
Sockets ==
  /\ At(M) \notin {"signal", "init"} => socket_
  /\ number = Main => socket_
  /\ socket_ /\ number # Main => CleaningUp # {}
  /\ CleaningUp # {} => number # Main
  /\ holds # {} => CleaningUp # {}
  /\ \A f \in Frames : At(f) = "file" => f[1] \in holds
  /\ KeepsNumber

LEMMA NothingYet ==
  ASSUME Formed, At(M) \in Building, Len(stack[Main]) = 1
  PROVE  CleaningUp = {}
<1> SUFFICES ASSUME NEW f \in Frames PROVE At(f) # "delete"
  BY DEF CleaningUp
<1>1. f = <<f[1], f[2]>> /\ f[1] = Main /\ f[2] \in 1 .. Len(stack[f[1]])
  BY FrameFacts DEF Formed
<1>2. \A i \in 1 .. 1 : i = 1
  OBVIOUS
<1>3. f[2] = 1
  BY <1>1, <1>2
<1> QED
  BY <1>1, <1>3 DEF M, Building

(* No frame comes to "file" but where OpenFile puts it.                    *)
NoNewFile == \A f \in Frames' : At(f)' = "file" => f \in Frames /\ At(f) = "file"

LEMMA TurnFiles ==
  ASSUME NEW f, NEW to, Turn(f, to), to # "file"
  PROVE  NoNewFile
  BY DEF Turn, Effect, NoNewFile

LEMMA EffectFiles ==
  ASSUME NEW F, NEW G, Effect(F, G), \A f \in F : f \in G => At(f)' # "file"
  PROVE  NoNewFile
  BY DEF Effect, NoNewFile

(* A step that leaves the number alone and begins no clean-up.             *)
LEMMA SocketsSame ==
  ASSUME Sockets, Keeps, NoNewFile,
         socket_' = socket_ /\ number' = number /\ holds' = holds,
         At(M)' \notin {"signal", "init"} => At(M) \notin {"signal", "init"}
  PROVE  Sockets'
<1>1. CleaningUp' = CleaningUp
  BY DEF Keeps
<1>2. KeepsNumber'
  BY <1>1 DEF Sockets, KeepsNumber
<1> QED
  BY <1>1, <1>2 DEF Sockets, NoNewFile

(* One in which a client thread gets the number, which is free.            *)
LEMMA SocketsTaken ==
  ASSUME Sockets, Keeps, NEW c \in Clients, socket_, number = Nobody,
         socket_' = socket_ /\ number' = c /\ holds' = holds \cup {c},
         \A f \in Frames' : At(f)' = "file" => f[1] = c \/ (f \in Frames /\ At(f) = "file")
  PROVE  Sockets'
<1>1. CleaningUp' = CleaningUp
  BY DEF Keeps
<1>2. CleaningUp # {}
  BY Distinct DEF Sockets
<1>3. KeepsNumber'
  <2> SUFFICES ASSUME NEW d \in Clients, d \in holds', number' # d
               PROVE  \E f, g \in CleaningUp : f # g
    BY <1>1 DEF KeepsNumber
  <2>1. d \in holds /\ number # d
    BY Distinct
  <2> QED
    BY <2>1 DEF Sockets, KeepsNumber
<1>4. \A f \in Frames' : At(f)' = "file" => f[1] \in holds'
  BY DEF Sockets
<1> QED
  BY <1>1, <1>2, <1>3, <1>4, Distinct DEF Sockets

(* One in which it gives the number back.                                  *)
LEMMA SocketsGiven ==
  ASSUME Sockets, Keeps, NEW c \in Clients,
         socket_' = socket_ /\ holds' = holds \ {c},
         number' = IF c \in holds THEN Nobody ELSE number,
         \A f \in Frames' : At(f)' = "file" => f \in Frames /\ At(f) = "file" /\ f[1] # c,
         At(M)' \notin {"signal", "init"} => At(M) \notin {"signal", "init"}
  PROVE  Sockets'
<1>1. CleaningUp' = CleaningUp
  BY DEF Keeps
<1>2. KeepsNumber'
  <2> SUFFICES ASSUME NEW d \in Clients, d \in holds', number' # d
               PROVE  \E f, g \in CleaningUp : f # g
    BY <1>1 DEF KeepsNumber
  <2>1. d \in holds /\ d # c
    OBVIOUS
  <2>2. CASE number # d
    BY <2>1, <2>2 DEF Sockets, KeepsNumber
  <2>3. CASE number = d
    <3>1. c \in holds /\ number # c
      BY <2>1, <2>3
    <3> QED
      BY <3>1 DEF Sockets, KeepsNumber
  <2> QED
    BY <2>2, <2>3
<1>3. \A f \in Frames' : At(f)' = "file" => f[1] \in holds'
  BY DEF Sockets
<1>4. c \in holds => CleaningUp # {}
  BY DEF Sockets
<1> QED
  BY <1>1, <1>2, <1>3, <1>4, Distinct DEF Sockets

(* A clean-up begins: the second one may take the number of a client.      *)
LEMMA SocketsClosed ==
  ASSUME Sockets, socket_ \in BOOLEAN, NEW f, Begins(f), NoNewFile,
         socket_' = socket_ /\ holds' = holds,
         number' = IF socket_ THEN Nobody ELSE number,
         At(M)' \notin {"signal", "init"} => At(M) \notin {"signal", "init"}
  PROVE  Sockets'
<1>1. CleaningUp' = CleaningUp \cup {f} /\ f \notin CleaningUp
  BY DEF Begins
<1>2. number' # Main
  BY Distinct DEF Sockets
<1>3. KeepsNumber'
  <2> SUFFICES ASSUME NEW d \in Clients, d \in holds, number' # d
               PROVE  \E e, g \in CleaningUp \cup {f} : e # g
    BY <1>1 DEF KeepsNumber
  <2>1. PICK e \in CleaningUp : TRUE
    BY DEF Sockets
  <2> QED
    BY <1>1, <2>1
<1> QED
  BY <1>1, <1>2, <1>3 DEF Sockets, NoNewFile

(* What each of main()'s steps does to it.                                 *)
LEMMA MainMoves ==
  ASSUME Formed, NEW from \in Building \cup Serving, Is(Main, from),
         NEW to \in Labels \ {"delete", "file"}, Goto(Main, to), sent' = sent
  PROVE  At(M) = from /\ At(M)' = to /\ Keeps /\ NoNewFile
<1>1. Turn(M, to) /\ At(M) = from
  BY MainTurns, MainAt
<1>2. from # "delete" /\ to # "delete" /\ to # "file"
  BY DEF Building, Serving
<1> QED
  BY <1>1, <1>2, TurnKeeps, TurnFiles DEF Turn

LEMMA StillFiles == stack' = stack => Keeps /\ NoNewFile /\ At(M)' = At(M)
  BY DEF Keeps, SameLeft, NoNewFile, CleaningUp, Frames, At, Left

LEMMA MainSockets ==
  ASSUME Formed, Sockets, MainStep \/ AcceptFails
  PROVE  Sockets'
<1>1. CASE Install
  <2>1. /\ Is(Main, "signal") /\ sent' = sent /\ (Goto(Main, "init") \/ Goto(Main, "signal"))
        /\ socket_' = socket_ /\ number' = number /\ holds' = holds
    BY <1>1 DEF Install
  <2>2. At(M) = "signal" /\ At(M)' \in {"signal", "init"} /\ Keeps /\ NoNewFile
    BY <2>1, MainMoves DEF Building, Labels
  <2> QED
    BY <2>1, <2>2, SocketsSame
<1>2. CASE ServerInit
  <2>1. Is(Main, "init") /\ sent' = sent /\ holds' = holds
    BY <1>2 DEF ServerInit
  <2>2. CASE socket_' = TRUE /\ number' = Main /\ Goto(Main, "new")
    <3>1. At(M) = "init" /\ At(M)' = "new" /\ Keeps /\ NoNewFile
      BY <2>1, <2>2, MainMoves DEF Building, Labels
    <3>2. CleaningUp = {}
      BY <2>1, <3>1, MainAt, NothingYet DEF Building
    <3>3. CleaningUp' = {} /\ holds' = {}
      BY <2>1, <3>1, <3>2 DEF Keeps, Sockets
    <3>4. KeepsNumber'
      BY <3>3 DEF KeepsNumber
    <3>5. \A f \in Frames' : At(f)' = "file" => f[1] \in holds'
      BY <2>1, <3>1 DEF Sockets, NoNewFile
    <3> QED
      BY <2>2, <3>3, <3>4, <3>5 DEF Sockets
  <2>3. CASE socket_' = socket_ /\ number' = number /\ stack' = stack
    BY <2>1, <2>3, StillFiles, SocketsSame
  <2> QED
    BY <1>2, <2>2, <2>3 DEF ServerInit
<1>3. CASE New
  <2>1. /\ Is(Main, "new") /\ sent' = sent /\ (Goto(Main, "assign") \/ Goto(Main, "new"))
        /\ socket_' = socket_ /\ number' = number /\ holds' = holds
    BY <1>3 DEF New
  <2>2. At(M) = "new" /\ Keeps /\ NoNewFile
    BY <2>1, MainMoves DEF Building, Labels
  <2> QED
    BY <2>1, <2>2, SocketsSame
<1>4. CASE Assign
  <2>1. /\ Is(Main, "assign") /\ sent' = sent /\ (Goto(Main, "run") \/ Goto(Main, "new"))
        /\ socket_' = socket_ /\ number' = number /\ holds' = holds
    BY <1>4 DEF Assign
  <2>2. At(M) = "assign" /\ Keeps /\ NoNewFile
    BY <2>1, MainMoves DEF Building, Serving, Labels
  <2> QED
    BY <2>1, <2>2, SocketsSame
<1>5. CASE Accept
  <2>1. /\ Is(Main, "run") /\ sent' = sent /\ (Goto(Main, "accept") \/ Goto(Main, "quit"))
        /\ socket_' = socket_ /\ number' = number /\ holds' = holds
    BY <1>5 DEF Accept
  <2>2. At(M) = "run" /\ Keeps /\ NoNewFile
    BY <2>1, MainMoves DEF Serving, Leaving, Labels
  <2> QED
    BY <2>1, <2>2, SocketsSame
<1>6. CASE AcceptFails
  <2>1. /\ Is(Main, "accept") /\ sent' = sent /\ Goto(Main, "quit")
        /\ socket_' = socket_ /\ number' = number /\ holds' = holds
    BY <1>6 DEF AcceptFails
  <2>2. At(M) = "accept" /\ Keeps /\ NoNewFile
    BY <2>1, MainMoves DEF Serving, Leaving, Labels
  <2> QED
    BY <2>1, <2>2, SocketsSame
<1> QED
  BY <1>1, <1>2, <1>3, <1>4, <1>5, <1>6 DEF MainStep

LEMMA ClientSockets ==
  ASSUME Formed, Typed, Sockets, NEW c \in Clients, Accepted(c) \/ ClientStep(c)
  PROVE  Sockets'
<1>1. \A f \in Frames : f[1] = c /\ At(f) = "file" => f = <<c, 1>>
  <2> SUFFICES ASSUME NEW f \in Frames, f[1] = c, At(f) = "file" PROVE f = <<c, 1>>
    OBVIOUS
  <2>1. f = <<f[1], f[2]>> /\ f[2] \in Nat /\ f[2] >= 1
    BY FrameFacts DEF Formed
  <2>2. ~(f[2] > 1)
    BY DEF Formed, Leaving
  <2>3. \A n \in Nat : n >= 1 /\ ~(n > 1) => n = 1
    OBVIOUS
  <2>4. f[2] = 1
    BY <2>1, <2>2, <2>3
  <2> QED
    BY <2>1, <2>4
<1>2. CASE Accepted(c)
  <2>1. PICK f : f = <<c, 1>>
    OBVIOUS
  <2>2. /\ f \notin Frames /\ Effect(Frames \cup {f}, {f, M})
        /\ At(f)' = "call" /\ At(M)' = "run" /\ At(M) = "accept"
    BY <1>2, <2>1, AcceptEffect
  <2>3. Keeps /\ NoNewFile
    BY <2>2, EffectKeeps, EffectFiles
  <2>4. socket_
    BY <2>2 DEF Sockets
  <2>5. CASE socket_' = socket_ /\ number' = number /\ holds' = holds
    BY <2>2, <2>3, <2>5, SocketsSame
  <2>6. CASE socket_' = socket_ /\ number = Nobody /\ number' = c /\ holds' = holds \cup {c}
    BY <2>3, <2>4, <2>6, SocketsTaken DEF NoNewFile
  <2> QED
    BY <1>2, <2>5, <2>6 DEF Accepted
<1>3. CASE Allocate(c)
  BY <1>3, StillFiles, SocketsSame DEF Allocate
<1>4. CASE OpenFile(c)
  <2>1. /\ Is(c, "call") /\ Goto(c, "file") /\ sent' = sent /\ socket_ /\ number = Nobody
        /\ socket_' = socket_ /\ number' = c /\ holds' = holds \cup {c}
    BY <1>4 DEF OpenFile
  <2>2. Turn(<<c, 1>>, "file") /\ At(<<c, 1>>) = "call"
    BY <2>1, ClientTurns, ClientAt
  <2>3. Keeps
    BY <2>2, TurnKeeps
  <2>4. \A f \in Frames' : At(f)' = "file" => f[1] = c \/ (f \in Frames /\ At(f) = "file")
    BY <2>2 DEF Turn, Effect
  <2> QED
    BY <2>1, <2>3, <2>4, SocketsTaken
<1>5. CASE CloseFile(c)
  <2>1. /\ Is(c, "file") /\ Goto(c, "call") /\ sent' = sent
        /\ socket_' = socket_ /\ number' = Nobody /\ holds' = holds \ {c}
    BY <1>5 DEF CloseFile
  <2>2. /\ Turn(<<c, 1>>, "call") /\ At(<<c, 1>>) = "file" /\ <<c, 1>> \in Frames
    BY <2>1, ClientTurns, ClientAt
  <2>3. Keeps /\ NoNewFile
    BY <2>2, TurnKeeps, TurnFiles
  <2>4. \A f \in Frames' : At(f)' = "file" => f \in Frames /\ At(f) = "file" /\ f[1] # c
    <3>1. \A f \in Frames' : f = <<c, 1>> => At(f)' = "call"
      BY <2>2 DEF Turn
    <3> QED
      BY <1>1, <2>3, <3>1 DEF NoNewFile
  <2>5. c \in holds
    <3>1. <<c, 1>>[1] = c
      OBVIOUS
    <3> QED
      BY <2>2, <3>1 DEF Sockets
  <2>6. M \in Frames /\ M # <<c, 1>>
    BY Distinct DEF Formed, M
  <2>7. At(M)' = At(M)
    BY <2>2, <2>6 DEF Turn, Effect
  <2> QED
    BY <2>1, <2>3, <2>4, <2>5, <2>7, SocketsGiven
<1>6. CASE Return(c)
  <2>1. socket_' = socket_ /\ holds' = holds \ {c}
        /\ number' = IF c \in holds THEN Nobody ELSE number
    BY <1>6 DEF Return
  <2>2. At(<<c, 1>>) = "call" /\ Effect(Frames \ {<<c, 1>>}, {})
    BY <1>6, ReturnEffect DEF Formed
  <2>3. Keeps
    BY <2>2, EffectKeeps
  <2>4. \A f \in Frames' : At(f)' = "file" => f \in Frames /\ At(f) = "file" /\ f[1] # c
    BY <1>1, <2>2 DEF Effect
  <2>5. At(M)' = At(M)
    <3>1. M \in Frames \ {<<c, 1>>}
      BY Distinct DEF Formed, M
    <3> QED
      BY <2>2, <3>1 DEF Effect
  <2> QED
    BY <2>1, <2>3, <2>4, <2>5, SocketsGiven
<1> QED
  BY <1>2, <1>3, <1>4, <1>5, <1>6 DEF ClientStep

LEMMA HandlerSockets ==
  ASSUME Formed, Typed, Sockets, NEW a \in Actors,
         CleanUp(a) \/ Enter(a) \/ Signal(a) \/ Crash(a)
  PROVE  Sockets'
<1>1. At(M)' = At(M) \/ (At(M) \in Leaving /\ At(M)' \in Leaving)
  BY AsideLeaves DEF Aside, Typed
<1>2. At(M)' \notin {"signal", "init"} => At(M) \notin {"signal", "init"}
  BY <1>1 DEF Leaving
<1>3. CASE Quit(a)
  <2>1. /\ socket_' = socket_ /\ holds' = holds /\ stack[a] # <<>>
        /\ number' = IF socket_ THEN Nobody ELSE number
    BY <1>3 DEF Quit, Is, Running
  <2>2. PICK f : f = Id(a)
    OBVIOUS
  <2>3. /\ Effect(Frames, {Id(a)}) /\ At(Id(a)) = "quit" /\ At(Id(a))' = "delete"
        /\ Left(Id(a))' = Owned(app)
        /\ \A b \in Actors : Len(stack'[b]) = Len(stack[b])
    BY <1>3, <2>1, QuitEffect DEF Formed, Typed
  <2>4. Id(a)' = f /\ f \in Frames
    BY <2>1, <2>2, <2>3, Tops DEF Id, Formed
  <2>5. At(f) = "quit" /\ At(f)' = "delete" /\ Left(f)' = Owned(app)
    BY <2>2, <2>3, <2>4 DEF At, Left
  <2>6. Frames' = Frames /\ \A e \in Frames : e # f => At(e)' = At(e) /\ Left(e)' = Left(e)
    BY <2>2, <2>3 DEF Effect
  <2>7. Begins(f) /\ NoNewFile
    BY <2>4, <2>5, <2>6 DEF Begins, CleaningUp, SameLeft, NoNewFile
  <2> QED
    BY <1>2, <2>1, <2>7, SocketsClosed DEF Typed
<1>4. CASE Free(a)
  <2>1. socket_' = socket_ /\ number' = number /\ holds' = holds
    BY <1>4 DEF Free
  <2>2. PICK f : f = Id(a)
    OBVIOUS
  <2>3. /\ Effect(Frames, {Id(a)}) /\ At(Id(a)) = "delete" /\ At(Id(a))' = "delete"
        /\ \A b \in Actors : Len(stack'[b]) = Len(stack[b])
        /\ stack[a] # <<>>
    BY <1>4, FreeEffect DEF Formed
  <2>4. Id(a)' = f /\ f \in Frames
    BY <2>2, <2>3, Tops DEF Id, Formed
  <2>5. At(f) = "delete" /\ At(f)' = "delete"
    BY <2>2, <2>3, <2>4 DEF At
  <2>6. Frames' = Frames /\ \A e \in Frames : e # f => At(e)' = At(e)
    BY <2>2, <2>3 DEF Effect
  <2>7. CleaningUp' = CleaningUp /\ NoNewFile
    BY <2>4, <2>5, <2>6 DEF CleaningUp, NoNewFile
  <2>8. KeepsNumber'
    BY <2>1, <2>7 DEF Sockets, KeepsNumber
  <2> QED
    BY <1>2, <2>1, <2>7, <2>8 DEF Sockets, NoNewFile
<1>5. CASE Exit(a) \/ Crash(a) \/ Enter(a)
  BY <1>5, StillFiles, SocketsSame DEF Exit, Crash, Enter
<1>6. CASE Signal(a)
  <2>1. socket_' = socket_ /\ number' = number /\ holds' = holds
    BY <1>6 DEF Signal
  <2>2. stack' = stack \/ \E f : f \notin Frames /\ Effect(Frames \cup {f}, {f})
                                 /\ At(f)' = "quit"
    <3>1. ASSUME NEW f, f \notin Frames, Effect(Frames \cup {f}, {f}), At(f)' = "quit"
          PROVE  \E e : e \notin Frames /\ Effect(Frames \cup {e}, {e}) /\ At(e)' = "quit"
      BY <3>1
    <3> QED
      BY <1>6, <3>1, SignalEffect
  <2>3. ASSUME NEW f, f \notin Frames, Effect(Frames \cup {f}, {f}), At(f)' = "quit"
        PROVE  Keeps /\ NoNewFile
    BY <2>3, EffectKeeps, EffectFiles
  <2>4. Keeps /\ NoNewFile
    BY <2>2, <2>3, StillFiles
  <2> QED
    BY <1>2, <2>1, <2>4, SocketsSame
<1> QED
  BY <1>3, <1>4, <1>5, <1>6 DEF CleanUp

LEMMA StepSockets == Formed /\ Typed /\ Sockets /\ [Next]_vars => Sockets'
<1> SUFFICES ASSUME Formed, Typed, Sockets, [Next]_vars PROVE Sockets'
  OBVIOUS
<1>1. CASE UNCHANGED vars
  BY <1>1, StillFiles, SocketsSame DEF vars
<1> QED
  BY <1>1, MainSockets, ClientSockets, HandlerSockets DEF Next, Step

-----------------------------------------------------------------------------
(* What a clean-up has left is the outer end of the chain, and what is not *)
(* left any more has been destroyed.                                       *)
Rest(l) == l \in Seq(Nat) /\ Len(l) <= app /\ \A i \in 1 .. Len(l) : l[i] = app - Len(l) + i

Past(l) == \A o \in Objects : o # About /\ o <= app - Len(l) => frees[o] > 0

DoneWith(o) == {f \in CleaningUp : \A i \in DOMAIN Left(f) : Left(f)[i] # o}

Chain ==
  /\ frees \in [Objects -> Nat]
  /\ \A f \in CleaningUp : Rest(Left(f)) /\ Past(Left(f))
  /\ \A o \in Objects : frees[o] <= Cardinality(DoneWith(o))

LEMMA FiniteFrames ==
  ASSUME NEW S \in SUBSET (Actors \X (1 .. MaxSignals + 1))
  PROVE  IsFiniteSet(S) /\ Cardinality(S) \in Nat
<1>1. IsFiniteSet(Actors)
  <2>1. IsFiniteSet(Clients \cup {Main})
    BY LifecycleAssumption, FS_AddElement
  <2>2. Actors = Clients \cup {Main}
    BY DEF Actors
  <2> QED
    BY <2>1, <2>2
<1>2. IsFiniteSet(1 .. MaxSignals + 1)
  BY LifecycleAssumption, FS_Interval
<1>3. IsFiniteSet(Actors \X (1 .. MaxSignals + 1))
  BY <1>1, <1>2, FS_Product
<1>4. IsFiniteSet(S)
  BY <1>3, FS_Subset
<1> QED
  BY <1>4, FS_CardinalityType

LEMMA FiniteDone ==
  ASSUME NEW o
  PROVE  /\ IsFiniteSet(DoneWith(o)) /\ Cardinality(DoneWith(o)) \in Nat
         /\ IsFiniteSet(DoneWith(o)') /\ Cardinality(DoneWith(o)') \in Nat
<1>1. DoneWith(o) \in SUBSET (Actors \X (1 .. MaxSignals + 1))
      /\ DoneWith(o)' \in SUBSET (Actors \X (1 .. MaxSignals + 1))
  BY DEF DoneWith, CleaningUp, Frames
<1> QED
  BY <1>1, FiniteFrames

(* The arithmetic of taking the first off what is left.                    *)
LEMMA RestTail ==
  ASSUME app \in 0 .. 3, NEW l, Rest(l), l # <<>>, NEW t, t = Tail(l)
  PROVE  /\ Head(l) \in Objects /\ Head(l) \in 1 .. app /\ Rest(t)
         /\ \A o \in Objects : o <= app - Len(t) => o <= app - Len(l) \/ o = Head(l)
         /\ \A i \in 1 .. Len(l) : l[i] = Head(l) => i = 1
         /\ \A o \in Objects : o # Head(l) /\ (\A i \in DOMAIN t : t[i] # o)
                                 => \A i \in DOMAIN l : l[i] # o
         /\ \A i \in DOMAIN t : t[i] # Head(l)
<1>1. l \in Seq(Nat) /\ Len(l) \in Nat /\ Len(l) <= app
      /\ \A i \in 1 .. Len(l) : l[i] = app - Len(l) + i
  BY DEF Rest
<1>2. Len(l) >= 1 /\ Head(l) = l[1]
  BY <1>1
<1>3. t \in Seq(Nat) /\ Len(t) = Len(l) - 1 /\ \A i \in 1 .. Len(t) : t[i] = l[i + 1]
  BY <1>1, <1>2
<1> DEFINE n == Len(l)
<1>4. n \in Nat /\ 1 <= n /\ n <= app /\ app <= 3 /\ app \in Nat
  BY <1>1, <1>2
<1> HIDE DEF n
<1>5. Head(l) = app - n + 1
  BY <1>1, <1>2, <1>4 DEF n
<1>6. Head(l) \in Objects /\ Head(l) \in 1 .. app
  BY <1>4, <1>5 DEF Objects, About
<1>7. \A i \in 1 .. n : l[i] = app - n + i
  BY <1>1 DEF n
<1>8. Len(t) = n - 1
  BY <1>3 DEF n
<1>9. \A i \in 1 .. Len(t) : t[i] = app - Len(t) + i
  <2> SUFFICES ASSUME NEW i \in 1 .. n - 1 PROVE t[i] = app - (n - 1) + i
    BY <1>8
  <2>1. t[i] = l[i + 1] /\ i + 1 \in 1 .. n
    BY <1>3, <1>4, <1>8
  <2>2. l[i + 1] = app - n + (i + 1)
    BY <1>7, <2>1
  <2>3. \A j \in Nat : app - n + (j + 1) = app - (n - 1) + j
    BY <1>4
  <2>4. i \in Nat
    BY <1>4
  <2> QED
    BY <2>1, <2>2, <2>3, <2>4
<1>10. Rest(t)
  BY <1>3, <1>4, <1>8, <1>9 DEF Rest
<1>11. ASSUME NEW o \in Objects, o <= app - Len(t) PROVE o <= app - Len(l) \/ o = Head(l)
  BY <1>4, <1>5, <1>8, <1>11 DEF n, Objects, About
<1>12. ASSUME NEW i \in 1 .. Len(l), l[i] = Head(l) PROVE i = 1
  BY <1>4, <1>5, <1>7, <1>12 DEF n
<1>13. ASSUME NEW o \in Objects, o # Head(l), \A i \in DOMAIN t : t[i] # o, NEW i \in DOMAIN l
       PROVE  l[i] # o
  <2>1. i \in 1 .. n
    BY <1>1 DEF n
  <2>2. CASE i = 1
    BY <1>2, <1>13, <2>2
  <2>3. CASE i # 1
    <3>1. i - 1 \in 1 .. n - 1 /\ (i - 1) + 1 = i
      BY <1>4, <2>1, <2>3
    <3>2. t[i - 1] = l[i] /\ i - 1 \in DOMAIN t
      BY <1>3, <1>8, <3>1
    <3> QED
      BY <1>13, <3>2
  <2> QED
    BY <2>2, <2>3
<1>14. ASSUME NEW i \in DOMAIN t PROVE t[i] # Head(l)
  <2>1. i \in 1 .. Len(t)
    BY <1>3
  <2>2. t[i] = app - (n - 1) + i /\ i >= 1 /\ i \in Nat
    BY <1>8, <1>9, <2>1
  <2> QED
    BY <1>4, <1>5, <2>2
<1> QED
  BY <1>6, <1>10, <1>11, <1>12, <1>13, <1>14

LEMMA OwnedIs ==
  ASSUME app \in 0 .. 3
  PROVE  Rest(Owned(app)) /\ Len(Owned(app)) = app
<1>1. Owned(app) \in Seq(Nat) /\ Len(Owned(app)) = app
      /\ \A i \in 1 .. app : Owned(app)[i] = i
  BY DEF Owned
<1> QED
  BY <1>1 DEF Rest

(* A step that frees nothing: clean-ups only come.                         *)
LEMMA ChainSame ==
  ASSUME Chain, app \in 0 .. 3, frees' = frees, app' = app,
         Keeps \/ \E f : Begins(f)
  PROVE  Chain'
<1>1. \A f \in CleaningUp : f \in CleaningUp' /\ Left(f)' = Left(f)
  BY DEF Keeps, Begins, SameLeft
<1>2. \A f \in CleaningUp' : f \in CleaningUp \/ Left(f)' = Owned(app)
  BY DEF Keeps, Begins
<1>3. ASSUME NEW f \in CleaningUp' PROVE Rest(Left(f))' /\ Past(Left(f))'
  <2>1. CASE f \in CleaningUp
    BY <1>1, <2>1 DEF Chain, Rest, Past
  <2>2. CASE Left(f)' = Owned(app)
    <3>1. PICK l : l = Owned(app)
      OBVIOUS
    <3>2. Rest(l) /\ Len(l) = app
      BY <3>1, OwnedIs
    <3>3. \A o \in Objects : ~(o # About /\ o <= app - app)
      BY DEF Objects, About
    <3> QED
      BY <2>2, <3>1, <3>2, <3>3 DEF Rest, Past
  <2> QED
    BY <1>2, <2>1, <2>2
<1>4. ASSUME NEW o \in Objects PROVE frees'[o] <= Cardinality(DoneWith(o)')
  <2>1. DoneWith(o) \in SUBSET DoneWith(o)'
    BY <1>1 DEF DoneWith
  <2>2. IsFiniteSet(DoneWith(o)') /\ Cardinality(DoneWith(o)') \in Nat
    BY FiniteDone
  <2>3. Cardinality(DoneWith(o)) <= Cardinality(DoneWith(o)')
    BY <2>1, <2>2, FS_Subset
  <2>4. frees[o] \in Nat /\ frees[o] <= Cardinality(DoneWith(o))
        /\ Cardinality(DoneWith(o)) \in Nat
    BY FiniteDone DEF Chain
  <2> QED
    BY <2>2, <2>3, <2>4
<1> QED
  BY <1>3, <1>4 DEF Chain

(* A step that frees one object.                                           *)
LEMMA ChainFrees ==
  ASSUME Chain, app \in 0 .. 3, app' = app, NEW f, Frees(f)
  PROVE  Chain'
<1>1. PICK l : l = Left(f)
  OBVIOUS
<1>2. PICK t : t = Tail(l)
  OBVIOUS
<1>3. PICK h : h = Head(l)
  OBVIOUS
<1>4. /\ f \in CleaningUp /\ CleaningUp' = CleaningUp /\ l # <<>> /\ Left(f)' = t
      /\ \A e \in CleaningUp : e # f => Left(e)' = Left(e)
      /\ frees' = [frees EXCEPT ![h] = @ + 1]
  BY <1>1, <1>2, <1>3 DEF Frees, SameLeft
<1>5. Rest(l) /\ Past(l)
  BY <1>1, <1>4 DEF Chain
<1>6. /\ h \in Objects /\ Rest(t)
      /\ \A o \in Objects : o <= app - Len(t) => o <= app - Len(l) \/ o = h
      /\ \A i \in DOMAIN t : t[i] # h
      /\ \A o \in Objects : o # h /\ (\A i \in DOMAIN t : t[i] # o)
                              => \A i \in DOMAIN l : l[i] # o
      /\ l[1] = h /\ 1 \in DOMAIN l
  <2>1. l \in Seq(Nat)
    BY <1>5 DEF Rest
  <2>2. l[1] = h /\ 1 \in DOMAIN l
    BY <1>3, <1>4, <2>1
  <2>3. l # <<>> /\ Rest(l) /\ t = Tail(l)
    BY <1>2, <1>4, <1>5
  <2>4. /\ Head(l) \in Objects /\ Rest(t)
        /\ \A o \in Objects : o <= app - Len(t) => o <= app - Len(l) \/ o = Head(l)
        /\ \A i \in DOMAIN t : t[i] # Head(l)
        /\ \A o \in Objects : o # Head(l) /\ (\A i \in DOMAIN t : t[i] # o)
                                => \A i \in DOMAIN l : l[i] # o
    BY <2>3, RestTail
  <2> QED
    BY <1>3, <2>2, <2>4
<1>7. /\ frees' \in [Objects -> Nat] /\ frees'[h] = frees[h] + 1
      /\ \A o \in Objects : o # h => frees'[o] = frees[o]
      /\ \A o \in Objects : frees[o] \in Nat
  BY <1>4, <1>6 DEF Chain
<1>8. \A o \in Objects : frees[o] > 0 => frees'[o] > 0
  BY <1>6, <1>7
<1>9. ASSUME NEW e \in CleaningUp PROVE Rest(Left(e))' /\ Past(Left(e))'
  <2>1. CASE e # f
    <3>1. PICK m : m = Left(e)
      OBVIOUS
    <3>2. Left(e)' = m /\ Rest(m) /\ Past(m)
      BY <1>4, <1>9, <2>1, <3>1 DEF Chain
    <3>3. Rest(m)' /\ Past(m)'
      BY <1>8, <3>2 DEF Rest, Past
    <3> QED
      BY <3>2, <3>3 DEF Rest, Past
  <2>2. CASE e = f
    <3>1. Rest(t)'
      BY <1>6 DEF Rest
    <3>2. frees'[h] > 0
      BY <1>6, <1>7
    <3>3. Past(t)'
      BY <1>5, <1>6, <1>8, <3>2 DEF Past
    <3> QED
      BY <1>4, <2>2, <3>1, <3>3 DEF Rest, Past
  <2> QED
    BY <2>1, <2>2
<1>10. ASSUME NEW o \in Objects PROVE frees'[o] <= Cardinality(DoneWith(o)')
  <2>1. frees[o] <= Cardinality(DoneWith(o)) /\ frees[o] \in Nat
        /\ IsFiniteSet(DoneWith(o)) /\ Cardinality(DoneWith(o)) \in Nat
        /\ IsFiniteSet(DoneWith(o)') /\ Cardinality(DoneWith(o)') \in Nat
    BY <1>7, FiniteDone DEF Chain
  <2>2. CASE o # h
    <3>1. ASSUME NEW e \in DoneWith(o) PROVE e \in DoneWith(o)'
      <4>1. e \in CleaningUp /\ \A i \in DOMAIN Left(e) : Left(e)[i] # o
        BY DEF DoneWith
      <4>2. CASE e # f
        BY <1>4, <4>1, <4>2 DEF DoneWith
      <4>3. CASE e = f
        <5>1. \A i \in DOMAIN t : t[i] # o
          <6>1. \A i \in DOMAIN l : l[i] # o
            BY <1>1, <4>1, <4>3
          <6>2. \A i \in DOMAIN t : \E j \in DOMAIN l : t[i] = l[j]
            <7>1. l \in Seq(Nat) /\ l # <<>>
              BY <1>4, <1>5 DEF Rest
            <7>2. \A i \in DOMAIN t : i + 1 \in DOMAIN l /\ t[i] = l[i + 1]
              BY <1>2, <7>1
            <7> QED
              BY <7>2
          <6> QED
            BY <6>1, <6>2
        <5> QED
          BY <1>4, <4>1, <4>3, <5>1 DEF DoneWith
      <4> QED
        BY <4>2, <4>3
    <3>2. DoneWith(o) \in SUBSET DoneWith(o)'
      BY <3>1
    <3>3. Cardinality(DoneWith(o)) <= Cardinality(DoneWith(o)')
      BY <2>1, <3>2, FS_Subset
    <3>4. frees'[o] = frees[o]
      BY <1>7, <2>2
    <3> QED
      BY <2>1, <3>3, <3>4
  <2>3. CASE o = h
    <3>1. f \notin DoneWith(o)
      BY <1>1, <1>6, <2>3 DEF DoneWith
    <3>2. f \in DoneWith(o)'
      BY <1>4, <1>6, <2>3 DEF DoneWith
    <3>3. DoneWith(o) \cup {f} \in SUBSET DoneWith(o)'
      <4>1. ASSUME NEW e \in DoneWith(o) PROVE e \in DoneWith(o)'
        BY <1>4, <3>1, <4>1 DEF DoneWith
      <4> QED
        BY <3>2, <4>1
    <3>4. Cardinality(DoneWith(o) \cup {f}) = Cardinality(DoneWith(o)) + 1
      BY <2>1, <3>1, FS_AddElement
    <3>5. Cardinality(DoneWith(o) \cup {f}) <= Cardinality(DoneWith(o)')
      BY <2>1, <3>3, FS_Subset
    <3>6. frees'[o] = frees[o] + 1
      BY <1>7, <2>3
    <3> QED
      BY <2>1, <3>4, <3>5, <3>6
  <2> QED
    BY <2>2, <2>3
<1> QED
  BY <1>4, <1>7, <1>9, <1>10 DEF Chain

(* The pointer app only changes before any clean-up.                       *)
LEMMA AppFixed ==
  ASSUME Formed, Typed, [Next]_vars
  PROVE  app' = app \/ (CleaningUp = {} /\ Keeps)
<1>1. CASE Assign
  <2>1. Is(Main, "assign") /\ sent' = sent /\ (Goto(Main, "run") \/ Goto(Main, "new"))
    BY <1>1 DEF Assign
  <2>2. At(M) = "assign" /\ Keeps
    BY <2>1, MainMoves DEF Building, Serving, Labels
  <2>3. CleaningUp = {}
    BY <2>1, <2>2, MainAt, NothingYet DEF Building
  <2> QED
    BY <2>2, <2>3
<1>2. CASE ~Assign
  BY <1>2 DEF Next, vars, Step, MainStep, ClientStep, CleanUp, Install, ServerInit, New, Accept,
       AcceptFails, Accepted, Allocate, OpenFile, CloseFile, Return, Signal, Quit, Free, Exit,
       Enter, Crash
<1> QED
  BY <1>1, <1>2

LEMMA StepChain == Formed /\ Typed /\ Chain /\ [Next]_vars => Chain'
<1> SUFFICES ASSUME Formed, Typed, Chain, [Next]_vars PROVE Chain'
  OBVIOUS
<1>1. app \in 0 .. 3 /\ app' \in 0 .. 3
  BY StepTyped DEF Typed
<1>2. CASE app' = app
  <2>1. \/ Keeps /\ frees' = frees
        \/ frees' = frees /\ \E f \in Frames : Begins(f)
        \/ \E f \in Frames : Frees(f)
    BY <1>1, CleaningStep
  <2> QED
    BY <1>1, <1>2, <2>1, ChainSame, ChainFrees
<1>3. CASE app' # app
  <2>1. CleaningUp = {} /\ CleaningUp' = {}
    BY <1>3, AppFixed DEF Keeps
  <2>2. \A f : ~Begins(f) /\ ~Frees(f)
    BY <2>1 DEF Begins, Frees
  <2>3. frees' = frees
    BY <1>1, <2>2, CleaningStep
  <2>4. \A o : DoneWith(o) = {} /\ DoneWith(o)' = {}
    BY <2>1 DEF DoneWith
  <2> QED
    BY <2>1, <2>3, <2>4 DEF Chain
<1> QED
  BY <1>2, <1>3

(* Nobody destroys what app does not own.                                  *)
Spared == \A o \in Objects : o \notin 1 .. app => frees[o] = 0

LEMMA StepSpared == Formed /\ Typed /\ Chain /\ Spared /\ [Next]_vars => Spared'
<1> SUFFICES ASSUME Formed, Typed, Chain, Spared, [Next]_vars, NEW o \in Objects, o \notin 1 .. app'
             PROVE  frees'[o] = 0
  BY DEF Spared
<1>1. app \in 0 .. 3
  BY DEF Typed
<1>2. ASSUME NEW f, Frees(f), app' = app PROVE frees'[o] = 0
  <2>1. PICK l : l = Left(f)
    OBVIOUS
  <2>2. Rest(l) /\ l # <<>> /\ frees' = [frees EXCEPT ![Head(l)] = @ + 1]
    BY <1>2, <2>1 DEF Frees, Chain
  <2>3. Head(l) \in 1 .. app
    BY <1>1, <2>2, RestTail
  <2> QED
    BY <1>2, <2>2, <2>3 DEF Spared, Chain
<1>3. CASE app' = app
  <2>1. frees' = frees \/ \E f : Frees(f)
    BY <1>1, CleaningStep
  <2> QED
    BY <1>2, <1>3, <2>1 DEF Spared
<1>4. CASE app' # app
  <2>1. CleaningUp = {} /\ Keeps
    BY <1>4, AppFixed
  <2>2. \A f : ~Begins(f) /\ ~Frees(f)
    BY <2>1 DEF Begins, Frees, Keeps
  <2>3. frees' = frees
    BY <1>1, <2>2, CleaningStep
  <2>4. DoneWith(o) = {}
    BY <2>1 DEF DoneWith
  <2>5. Cardinality(DoneWith(o)) = 0
    BY <2>4, FS_EmptySet
  <2>6. frees[o] \in Nat /\ frees[o] <= 0
    BY <2>5 DEF Chain
  <2> QED
    BY <2>3, <2>6
<1> QED
  BY <1>3, <1>4

-----------------------------------------------------------------------------
(* Exit is the only end that leaves all tidied up, but for About.          *)
LEMMA ExitLeavesOnlyAbout ==
  ASSUME Formed, Typed, Sockets, Chain, Spared, NEW a \in Actors, Exit(a)
  PROVE  LeavesOnlyAbout'
<1>1. /\ stack[a] # <<>> /\ Top(a).at = "delete" /\ Top(a).left = <<>>
      /\ number' = number /\ built' = built /\ frees' = frees /\ app' = app /\ stack' = stack
  BY DEF Exit, Is, Running
<1>2. Id(a) \in Frames /\ At(Id(a)) = "delete" /\ Left(Id(a)) = <<>>
  BY <1>1, Tops DEF Formed
<1>3. Id(a) \in CleaningUp
  BY <1>2 DEF CleaningUp
<1>4. Rest(<<>>) /\ Past(<<>>)
  BY <1>2, <1>3 DEF Chain
<1>5. ASSUME NEW o \in Objects, o < built
      PROVE  frees[o] = 0 <=> o = About \/ (o > app /\ At(M) = "assign")
  <2>1. /\ built \in Nat /\ built <= 4 /\ app \in Nat /\ o \in Nat /\ About = 0
    BY DEF Typed, Objects, About
  <2>2. CASE o # About /\ o <= app
    <3>1. Len(<<>>) = 0
      OBVIOUS
    <3>2. o <= app - 0 /\ ~(o > app)
      BY <2>1, <2>2
    <3>3. frees[o] > 0
      BY <1>4, <2>2, <3>1, <3>2 DEF Past
    <3> QED
      BY <2>2, <3>2, <3>3
  <2>3. CASE o = About \/ o > app
    <3>1. o \notin 1 .. app
      BY <2>1, <2>3
    <3>2. frees[o] = 0
      BY <3>1 DEF Spared
    <3>3. o > app => At(M) = "assign"
      BY <1>5, <2>1 DEF Typed
    <3> QED
      BY <2>3, <3>2, <3>3
  <2>4. o > app \/ o <= app
    BY <2>1
  <2> QED
    BY <2>2, <2>3, <2>4
<1>6. At(M)' = At(M) /\ number # Main
  BY <1>1, <1>3 DEF At, Sockets
<1> QED
  BY <1>1, <1>5, <1>6 DEF LeavesOnlyAbout, M

(* Nothing happens in a process that has ended.                            *)
LEMMA EndedStays ==
  ASSUME Next, status' = "exited"
  PROVE  \E a \in Actors : Exit(a)
  BY Distinct
     DEF Next, Step, MainStep, ClientStep, CleanUp, Install, ServerInit, New, Assign, Accept,
         AcceptFails, Accepted, Allocate, OpenFile, CloseFile, Return, Signal, Quit, Free,
         Enter, Crash, Is, Running

LifecycleInv == Formed /\ Typed /\ Sockets /\ Chain /\ Spared /\ LeavesOnlyAbout

LEMMA StepLifecycle == LifecycleInv /\ [Next]_vars => LifecycleInv'
<1> SUFFICES ASSUME LifecycleInv, [Next]_vars PROVE LifecycleInv'
  OBVIOUS
<1>1. Formed /\ Typed /\ Sockets /\ Chain /\ Spared /\ LeavesOnlyAbout
  BY DEF LifecycleInv
<1>2. Formed' /\ Typed' /\ Sockets' /\ Chain' /\ Spared'
  <2>1. app \in 0 .. 3
    BY <1>1 DEF Typed
  <2> QED
    BY <1>1, <2>1, StepFormed, StepTyped, StepSockets, StepChain, StepSpared
<1>3. LeavesOnlyAbout'
  <2>1. CASE UNCHANGED vars
    BY <1>1, <2>1 DEF vars, LeavesOnlyAbout, At
  <2>2. CASE Next
    <3>1. CASE status' = "exited"
      BY <1>1, <2>2, <3>1, EndedStays, ExitLeavesOnlyAbout
    <3>2. CASE status' # "exited"
      BY <3>2 DEF LeavesOnlyAbout
    <3> QED
      BY <3>1, <3>2
  <2> QED
    BY <2>1, <2>2
<1> QED
  BY <1>2, <1>3 DEF LifecycleInv

LEMMA InitLifecycle == Init => LifecycleInv
<1> SUFFICES ASSUME Init PROVE LifecycleInv
  OBVIOUS
<1>1. PICK g : g = Frame("none", "signal")
  OBVIOUS
<1>2. g \in FrameType /\ g.at = "signal"
  BY <1>1 DEF Frame, FrameType, Names, Labels, Building
<1>3. PICK s : s = <<g>>
  OBVIOUS
<1>4. s \in Seq(FrameType) /\ Len(s) = 1 /\ s[1] = g /\ <<>> \in Seq(FrameType)
  BY <1>2, <1>3
<1>5. stack = [a \in Actors |-> IF a = Main THEN s ELSE <<>>]
  BY <1>1, <1>3 DEF Init
<1>6. stack[Main] = s /\ \A a \in Actors : a # Main => stack[a] = <<>>
  BY <1>5, Distinct
<1>7. sent = 0 /\ MaxSignals \in Nat /\ Len(<<>>) = 0
  BY LifecycleAssumption DEF Init
<1>8. Bounded
  <2>1. Stacks
    BY <1>4, <1>5 DEF Stacks
  <2>2. \A a \in Actors : Len(stack[a]) = 0 \/ Len(stack[a]) = 1
    BY <1>4, <1>6, <1>7
  <2>3. \A a \in Actors : Len(stack[a]) <= sent + 1
    <3>1. sent + 1 = 1
      BY <1>7
    <3>2. \A n : n = 0 \/ n = 1 => n <= 1
      OBVIOUS
    <3> QED
      BY <2>2, <3>1, <3>2
  <2> QED
    BY <1>7, <2>1, <2>3 DEF Bounded, Depth
<1>9. M \in Frames /\ At(M) = "signal"
  <2>1. 1 \in 1 .. Len(stack[Main])
    <3>1. Len(stack[Main]) = 1
      BY <1>4, <1>6
    <3>2. 1 \in 1 .. 1
      OBVIOUS
    <3> QED
      BY <3>1, <3>2
  <2>2. M \in Frames
    BY <1>8, <2>1, Distinct, FrameOf DEF M
  <2>3. stack[M[1]][M[2]] = g
    BY <1>4, <1>6 DEF M
  <2> QED
    BY <1>2, <2>2, <2>3 DEF At
<1>10. \A f \in Frames : f = M
  <2> SUFFICES ASSUME NEW f \in Frames PROVE f = M
    OBVIOUS
  <2>1. f = <<f[1], f[2]>> /\ f[1] \in Actors /\ f[2] \in 1 .. Len(stack[f[1]])
        /\ stack[f[1]] # <<>>
    BY <1>8, FrameFacts
  <2>2. f[1] = Main
    BY <1>6, <2>1
  <2>3. f[2] \in 1 .. 1
    BY <1>4, <1>6, <2>1, <2>2
  <2>4. \A i \in 1 .. 1 : i = 1
    OBVIOUS
  <2> QED
    BY <2>1, <2>2, <2>3, <2>4 DEF M
<1>11. M[1] = Main /\ M[2] = 1 /\ M[1] \notin Clients
  BY Distinct DEF M
<1>12. Formed
  <2>1. ~(M[2] > 1)
    BY <1>11
  <2>2. heap = Nobody
    BY DEF Init
  <2> QED
    BY <1>8, <1>9, <1>10, <1>11, <2>1, <2>2 DEF Formed, Building
<1>13. Typed
  <2>1. Len(Signals) \in Nat /\ Len(Signals) > 0
    BY LifecycleAssumption
  <2>2. /\ handled = 0 /\ socket_ = FALSE /\ number = Nobody /\ holds = {} /\ app = 0
        /\ built = 0 /\ status = "running"
    BY DEF Init
  <2>3. handled \in 0 .. Len(Signals) /\ handled < Len(Signals)
    BY <2>1, <2>2
  <2>4. built \in 0 .. 4 /\ app \in 0 .. 3 /\ app = 0 /\ built = 0
    BY <2>2
  <2> QED
    BY <1>9, <2>2, <2>3, <2>4 DEF Typed
<1>14. CleaningUp = {}
  BY <1>9, <1>10 DEF CleaningUp
<1>15. Sockets
  BY <1>9, <1>10, <1>14, Distinct DEF Init, Sockets, KeepsNumber
<1>16. Chain
  <2>1. \A o : DoneWith(o) = {}
    BY <1>14 DEF DoneWith
  <2>2. Cardinality({}) = 0
    BY FS_EmptySet
  <2>3. frees \in [Objects -> Nat] /\ \A o \in Objects : frees[o] = 0
    BY DEF Init
  <2> QED
    BY <1>14, <2>1, <2>2, <2>3 DEF Chain
<1>17. LeavesOnlyAbout
  BY DEF Init, LeavesOnlyAbout
<1>18. Spared
  BY DEF Init, Spared
<1> QED
  BY <1>12, <1>13, <1>15, <1>16, <1>17, <1>18 DEF LifecycleInv

LEMMA LifecycleCorrect == Spec => []LifecycleInv
  BY InitLifecycle, StepLifecycle, PTL DEF Spec

-----------------------------------------------------------------------------
(* Every reachable state is well typed, and every lock has its holder.     *)
THEOREM TypeCorrect == Spec => []TypeOK
<1>1. LifecycleInv => TypeOK
  <2> SUFFICES ASSUME LifecycleInv PROVE TypeOK
    OBVIOUS
  <2>1. Formed /\ Typed
    BY DEF LifecycleInv
  <2>2. \A f \in Frames : stack[f[1]][f[2]] \in FrameType /\ At(f) \in Labels
    BY <2>1, FrameFacts DEF Formed
  <2>3. \A f \in Frames : stack[f[1]][f[2]].sig \in {Signals[i] : i \in DOMAIN Signals} \cup {"none"}
    BY <2>2 DEF FrameType, Names
  <2>4. \A f \in Frames : At(f) \in {"signal", "init", "new", "assign", "run", "accept",
                                     "quit", "delete", "call", "file"}
    BY <2>2 DEF Labels, Building, Serving, Leaving
  <2>5. built > 0 => app \in {built - 1, built - 2}
    BY <2>1 DEF Typed
  <2>6. heap \in Frames \cup {Nobody} /\ sent \in 0 .. MaxSignals
    BY <2>1 DEF Formed, Bounded
  <2> QED
    BY <2>1, <2>3, <2>4, <2>5, <2>6 DEF TypeOK, Typed
<1> QED
  BY <1>1, LifecycleCorrect, PTL

(* However many signals come and wherever, an object is destroyed at most  *)
(* once by each clean-up.                                                  *)
THEOREM DestroyedOnceCorrect == Spec => []DestroyedOnce
<1>1. LifecycleInv => DestroyedOnce
  BY DEF LifecycleInv, Chain, DoneWith, DestroyedOnce
<1> QED
  BY <1>1, LifecycleCorrect, PTL

(* Only a second clean-up closes a number that a client thread has got.    *)
THEOREM KeepsNumberCorrect == Spec => []KeepsNumber
<1>1. LifecycleInv => KeepsNumber
  BY DEF LifecycleInv, Sockets
<1> QED
  BY <1>1, LifecycleCorrect, PTL

(* exit(0) leaves no socket open, and of the chain just what urlmap points *)
(* to and an object not assigned yet, however clean-ups are interleaved.   *)
THEOREM LeavesOnlyAboutCorrect == Spec => []LeavesOnlyAbout
<1>1. LifecycleInv => LeavesOnlyAbout
  BY DEF LifecycleInv
<1> QED
  BY <1>1, LifecycleCorrect, PTL

-----------------------------------------------------------------------------
(* A frame that holds the lock is where it allocates or frees something.   *)
Allocates(f) ==
  At(f) \in {"new", "call"} \/ (At(f) = "delete" /\ Left(f) # <<>>)

Allocating == heap # Nobody => Allocates(heap)

LEMMA StepAllocating ==
  Formed /\ app \in 0 .. 3 /\ Allocating /\ [Next]_vars => Allocating'
<1> SUFFICES ASSUME Formed, app \in 0 .. 3, Allocating, [Next]_vars, heap' # Nobody
             PROVE  Allocates(heap)'
  BY DEF Allocating
<1>1. Bounded
  BY DEF Formed
<1>2. PICK h : h = heap
  OBVIOUS
<1>3. CASE heap' # heap
  <2>1. PICK a \in Actors : Enter(a)
    BY <1>3
    DEF vars, Next, Step, MainStep, ClientStep, CleanUp, Install, ServerInit, New, Assign,
        Accept, AcceptFails, Accepted, Allocate, OpenFile, CloseFile, Return, Signal, Quit,
        Free, Exit, Crash
  <2>2. /\ stack[a] # <<>> /\ heap' = Id(a) /\ stack' = stack
        /\ Top(a).at \in {"new", "call"} \/ (Top(a).at = "delete" /\ Top(a).left # <<>>)
    BY <2>1 DEF Enter, Running, Is
  <2>3. At(Id(a)) = Top(a).at /\ Left(Id(a)) = Top(a).left
    BY <1>1, <2>2, Tops
  <2>4. PICK f : f = Id(a)
    OBVIOUS
  <2>5. At(heap)' = At(f) /\ Left(heap)' = Left(f)
    BY <2>2, <2>4 DEF At, Left
  <2> QED
    BY <2>2, <2>3, <2>4, <2>5 DEF Allocates
<1>4. CASE heap' = heap
  <2>1. h # Nobody /\ h \in Frames /\ heap' = h /\ Allocates(h)
    BY <1>2, <1>4 DEF Formed, Allocating
  <2>2. ASSUME At(h)' = At(h), Left(h)' = Left(h) PROVE Allocates(heap)'
    <3>1. At(heap)' = At(h) /\ Left(heap)' = Left(h)
      BY <2>1, <2>2 DEF At, Left
    <3> QED
      BY <2>1, <3>1 DEF Allocates
  <2>3. ASSUME NEW F, NEW G, Effect(F, G), h \in F \ G PROVE Allocates(heap)'
    BY <2>2, <2>3 DEF Effect
  <2>4. stack' = stack => Allocates(heap)'
    BY <2>2 DEF At, Left
  <2>5. ASSUME NEW f, NEW to, Turn(f, to), f # h PROVE Allocates(heap)'
    BY <2>1, <2>3, <2>5 DEF Turn
  <2>6. ASSUME NEW from \in {"signal", "init", "assign", "run", "accept"}, Is(Main, from),
               NEW to \in Labels, Goto(Main, to), sent' = sent
        PROVE  Allocates(heap)'
    <3>1. Turn(M, to) /\ At(M) = from
      BY <2>6, MainTurns, MainAt DEF Building, Serving
    <3>2. M # h
      BY <2>1, <2>6, <3>1 DEF Allocates
    <3> QED
      BY <2>5, <3>1, <3>2
  <2>7. CASE UNCHANGED vars
    BY <2>4, <2>7 DEF vars
  <2>8. CASE Install
    BY <2>6, <2>8 DEF Install, Labels, Building
  <2>9. CASE ServerInit
    BY <2>4, <2>6, <2>9 DEF ServerInit, Labels, Building
  <2>10. CASE Assign
    BY <2>6, <2>10 DEF Assign, Labels, Building, Serving
  <2>11. CASE Accept \/ AcceptFails
    BY <2>6, <2>11 DEF Accept, AcceptFails, Labels, Serving, Leaving
  <2>12. CASE New
    BY <1>4, <2>1, <2>12 DEF New
  <2>13. ASSUME NEW c \in Clients, Accepted(c) PROVE Allocates(heap)'
    <3>1. PICK f : f = <<c, 1>>
      OBVIOUS
    <3>2. f \notin Frames /\ At(M) = "accept" /\ Effect(Frames \cup {f}, {f, M})
      BY <2>13, <3>1, AcceptEffect
    <3>3. h # M /\ h # f
      BY <2>1, <3>2 DEF Allocates
    <3> QED
      BY <2>1, <2>3, <3>2, <3>3
  <2>14. ASSUME NEW c \in Clients, Allocate(c) PROVE Allocates(heap)'
    BY <2>4, <2>14 DEF Allocate
  <2>15. ASSUME NEW c \in Clients, OpenFile(c) PROVE Allocates(heap)'
    <3>1. Is(c, "call") /\ Goto(c, "file") /\ sent' = sent /\ h # Id(c)
      BY <1>2, <2>15 DEF OpenFile
    <3>2. Turn(<<c, 1>>, "file") /\ Id(c) = <<c, 1>>
      BY <3>1, ClientTurns, ClientAt
    <3> QED
      BY <2>5, <3>1, <3>2
  <2>16. ASSUME NEW c \in Clients, CloseFile(c) PROVE Allocates(heap)'
    <3>1. Is(c, "file") /\ Goto(c, "call") /\ sent' = sent
      BY <2>16 DEF CloseFile
    <3>2. Turn(<<c, 1>>, "call") /\ At(<<c, 1>>) = "file"
      BY <3>1, ClientTurns, ClientAt
    <3>3. <<c, 1>> # h
      BY <2>1, <3>2 DEF Allocates
    <3> QED
      BY <2>5, <3>2, <3>3
  <2>17. ASSUME NEW c \in Clients, Return(c) PROVE Allocates(heap)'
    <3>1. Id(c) = <<c, 1>> /\ Effect(Frames \ {<<c, 1>>}, {}) /\ h # Id(c)
      BY <1>1, <1>2, <2>17, ReturnEffect DEF Return
    <3> QED
      BY <2>1, <2>3, <3>1
  <2>18. ASSUME NEW a \in Actors, Quit(a) PROVE Allocates(heap)'
    <3>1. stack[a] # <<>>
      BY <2>18 DEF Quit, Is, Running
    <3>2. PICK f : f = Id(a)
      OBVIOUS
    <3>3. Effect(Frames, {f}) /\ At(f) = "quit"
      BY <1>1, <2>18, <3>1, <3>2, QuitEffect
    <3>4. h # f
      BY <2>1, <3>3 DEF Allocates
    <3> QED
      BY <2>1, <2>3, <3>3, <3>4
  <2>19. ASSUME NEW a \in Actors, Free(a) PROVE Allocates(heap)'
    BY <1>4, <2>1, <2>19 DEF Free
  <2>20. ASSUME NEW a \in Actors, Exit(a) \/ Crash(a) \/ Enter(a) PROVE Allocates(heap)'
    BY <2>4, <2>20 DEF Exit, Crash, Enter
  <2>21. ASSUME NEW a \in Actors, Signal(a) PROVE Allocates(heap)'
    <3>1. ASSUME NEW f, f \notin Frames, Effect(Frames \cup {f}, {f}) PROVE Allocates(heap)'
      BY <2>1, <2>3, <3>1
    <3>2. stack' = stack \/ \E f : f \notin Frames /\ Effect(Frames \cup {f}, {f})
      <4>1. ASSUME NEW f, f \notin Frames, Effect(Frames \cup {f}, {f})
            PROVE  \E e : e \notin Frames /\ Effect(Frames \cup {e}, {e})
        BY <4>1
      <4> QED
        BY <2>21, <4>1, SignalEffect
    <3> QED
      BY <2>4, <3>1, <3>2
  <2> QED
    BY <2>7, <2>8, <2>9, <2>10, <2>11, <2>12, <2>13, <2>14, <2>15, <2>16, <2>17, <2>18,
       <2>19, <2>20, <2>21
    DEF Next, Step, MainStep, ClientStep, CleanUp
<1> QED
  BY <1>3, <1>4

(* Whoever has the lock gives it back with the next step of its code, New, *)
(* Allocate or Free, unless a handler is on top of it.                     *)
HolderMoves ==
  heap # Nobody /\ ~Ended =>
    \/ Stuck
    \/ heap = Id(Main) /\ Is(Main, "new")
    \/ \E c \in Clients : heap = Id(c) /\ Is(c, "call")
    \/ \E a \in Actors : heap = Id(a) /\ Is(a, "delete") /\ Top(a).left # <<>>

(* Nobody waits for the allocator for ever, however many threads there are *)
(* and wherever signals come, unless a handler has interrupted the thread  *)
(* that is in it: the safety half of SignalEnds.                           *)
THEOREM HolderMovesCorrect == Spec => []HolderMoves
<1>1. Init => Allocating
  BY DEF Init, Allocating
<1>2. Formed /\ Typed => app \in 0 .. 3
  BY DEF Typed
<1>3. Formed /\ Allocating => HolderMoves
  <2> SUFFICES ASSUME Formed, Allocating, heap # Nobody, status = "running", ~Stuck
               PROVE  \/ heap = Id(Main) /\ Is(Main, "new")
                      \/ \E c \in Clients : heap = Id(c) /\ Is(c, "call")
                      \/ \E a \in Actors : heap = Id(a) /\ Is(a, "delete")
                                           /\ Top(a).left # <<>>
    BY DEF HolderMoves, Ended
  <2>1. PICK f \in Frames : f = heap
    BY DEF Formed
  <2>2. /\ f = <<f[1], f[2]>> /\ f[1] \in Actors /\ f[2] \in 1 .. Len(stack[f[1]])
        /\ stack[f[1]] # <<>> /\ Bounded
    BY FrameFacts DEF Formed
  <2>3. PICK a \in Actors : a = f[1]
    BY <2>2
  <2>4. Len(stack[a]) \in Nat
    BY <2>2, <2>3, Tops
  <2>5. f = Id(a)
    <3>1. ~(f[2] < Len(stack[a]))
      BY <2>1, <2>3 DEF Stuck
    <3>2. f[2] = Len(stack[a])
      BY <2>2, <2>3, <2>4, <3>1
    <3> QED
      BY <2>2, <2>3, <3>2 DEF Id
  <2>6. /\ At(f) = Top(a).at /\ Left(f) = Top(a).left /\ Running(a) /\ Allocates(f)
    BY <2>1, <2>2, <2>3, <2>5, Tops DEF Running, Allocating
  <2>7. CASE At(f) = "delete"
    BY <2>1, <2>5, <2>6, <2>7 DEF Is, Allocates
  <2>8. CASE At(f) \in {"new", "call"}
    <3>1. f[2] = 1
      <4>1. ~(f[2] > 1)
        BY <2>8 DEF Formed, Leaving
      <4> QED
        BY <2>2, <2>3, <2>4, <4>1
    <3>2. CASE a = Main
      <4>1. f = M
        BY <2>2, <2>3, <3>1, <3>2 DEF M
      <4>2. At(f) = "new"
        BY <2>8, <4>1 DEF Formed, Building, Serving, Leaving
      <4> QED
        BY <2>1, <2>5, <2>6, <3>2, <4>2 DEF Is
    <3>3. CASE a \in Clients
      <4>1. At(f) = "call"
        BY <2>3, <2>8, <3>1, <3>3 DEF Formed
      <4> QED
        BY <2>1, <2>5, <2>6, <3>3, <4>1 DEF Is
    <3> QED
      BY <3>2, <3>3 DEF Actors
  <2> QED
    BY <2>6, <2>7, <2>8 DEF Allocates
<1>4. LifecycleInv => Formed /\ Typed
  BY DEF LifecycleInv
<1>5. LifecycleInv /\ Allocating /\ [Next]_vars => Allocating'
  BY <1>2, <1>4, StepAllocating
<1> QED
  BY <1>1, <1>3, <1>4, <1>5, LifecycleCorrect, PTL DEF Spec

(* A clean-up that has begun goes on, in whatever thread and handler: what *)
(* it has still to free is only taken from, one object after another, the  *)
(* innermost first, and nobody's step takes it back.                       *)
CleanUpAdvances ==
  [][\A f \in CleaningUp :
       /\ f \in CleaningUp'
       /\ \/ Left(f)' = Left(f)
          \/ Left(f) # <<>> /\ Left(f)' = Tail(Left(f))]_vars

(* For any threads, signals and interleaving of their clean-ups.           *)
THEOREM CleanUpAdvancesCorrect == Spec => CleanUpAdvances
<1>1. ASSUME Formed, app \in 0 .. 3, [Next]_vars, NEW f \in CleaningUp
      PROVE  /\ f \in CleaningUp'
             /\ Left(f)' = Left(f) \/ (Left(f) # <<>> /\ Left(f)' = Tail(Left(f)))
  <2>1. CASE Keeps
    BY <1>1, <2>1 DEF Keeps, SameLeft
  <2>2. ASSUME NEW e, Begins(e) PROVE f \in CleaningUp' /\ Left(f)' = Left(f)
    BY <1>1, <2>2 DEF Begins, SameLeft
  <2>3. ASSUME NEW e, Frees(e)
        PROVE  /\ f \in CleaningUp'
               /\ Left(f)' = Left(f) \/ (Left(f) # <<>> /\ Left(f)' = Tail(Left(f)))
    BY <1>1, <2>3 DEF Frees, SameLeft
  <2> QED
    BY <1>1, <2>1, <2>2, <2>3, CleaningStep
<1>2. LifecycleInv /\ [Next]_vars =>
        \A f \in CleaningUp :
          /\ f \in CleaningUp'
          /\ \/ Left(f)' = Left(f)
             \/ Left(f) # <<>> /\ Left(f)' = Tail(Left(f))
  BY <1>1 DEF LifecycleInv, Typed
<1> QED
  BY <1>2, LifecycleCorrect, PTL DEF Spec, CleanUpAdvances
=============================================================================
