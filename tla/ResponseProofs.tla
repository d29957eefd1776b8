--------------------------- MODULE ResponseProofs ----------------------------
(***************************************************************************)
(* Proofs about Response, for any names, values and bodies and however     *)
(* many operations: what is in the map is what the last of them put there, *)
(* and what write() sends, or that it throws, follows from it.             *)
(***************************************************************************)
EXTENDS Response, TLAPS

Ops == [name : Names \cup {"body"}, value : Values \cup Bodies]

(* v is what the last of the operations in I gave, or else by default.     *)
GivenBy(I, v, default) ==
  \/ I = {} /\ v = default
  \/ \E i \in I : (\A j \in I : j <= i) /\ v = ops[i].value

Shape ==
  /\ ops \in Seq(Ops)
  /\ body_ \in Bodies \cup {<<>>}
  /\ pc \in {"open", "sent", "thrown"}

(* Until write(), the map and the body are those of the operations.        *)
Open ==
  /\ DOMAIN datas_ = Mentioned
  /\ \A n \in Mentioned : datas_[n] \in Values /\ GivenBy(Assignments(n), datas_[n], Empty)
  /\ GivenBy(BodySets, body_, <<>>)

LEMMA LastIs ==
  ASSUME ops \in Seq(Ops), NEW I \in SUBSET DOMAIN ops,
         NEW i \in I, \A j \in I : j <= i
  PROVE  LastOf(I) = i
<1>1. \A k \in I : k \in Nat
  OBVIOUS
<1>2. \A k \in I : (\A j \in I : j <= k) => k = i
  BY <1>1
<1> QED
  BY <1>2 DEF LastOf

LEMMA FinalIs ==
  ASSUME Shape, NEW n, NEW v, GivenBy(Assignments(n), v, Empty)
  PROVE  v = Final(n)
<1>1. CASE Assignments(n) = {} /\ v = Empty
  BY <1>1 DEF Final
<1>2. ASSUME NEW i \in Assignments(n), \A j \in Assignments(n) : j <= i, v = ops[i].value
      PROVE  v = Final(n)
  <2>1. Assignments(n) \in SUBSET DOMAIN ops
    BY DEF Assignments
  <2>2. LastOf(Assignments(n)) = i
    BY <1>2, <2>1, LastIs DEF Shape
  <2> QED
    BY <1>2, <2>2 DEF Final
<1> QED
  BY <1>1, <1>2 DEF GivenBy

LEMMA FinalBodyIs ==
  ASSUME Shape, NEW v, GivenBy(BodySets, v, <<>>)
  PROVE  v = FinalBody
<1>1. CASE BodySets = {} /\ v = <<>>
  BY <1>1 DEF FinalBody
<1>2. ASSUME NEW i \in BodySets, \A j \in BodySets : j <= i, v = ops[i].value
      PROVE  v = FinalBody
  <2>1. BodySets \in SUBSET DOMAIN ops
    BY DEF BodySets
  <2>2. LastOf(BodySets) = i
    BY <1>2, <2>1, LastIs DEF Shape
  <2> QED
    BY <1>2, <2>2 DEF FinalBody
<1> QED
  BY <1>1, <1>2 DEF GivenBy

-----------------------------------------------------------------------------
(* One more operation: the positions of those before stay what they were.  *)
Done(op) == ops' = Append(ops, op)

LEMMA DoAppends ==
  ASSUME Shape, NEW op \in Ops, Done(op)
  PROVE  /\ ops' \in Seq(Ops)
         /\ DOMAIN ops' = DOMAIN ops \cup {Len(ops) + 1}
         /\ Len(ops) + 1 \notin DOMAIN ops
         /\ \A i \in DOMAIN ops : ops'[i] = ops[i] /\ i <= Len(ops) + 1
         /\ ops'[Len(ops) + 1] = op
         /\ Len(ops) + 1 \in Nat
  BY DEF Shape, Done

LEMMA MentionedNames == ASSUME Shape PROVE Mentioned \subseteq Names
<1>1. \A i \in DOMAIN ops : ops[i] \in Ops
  BY DEF Shape
<1>2. \A i \in DOMAIN ops : ops[i].name \in Names \cup {"body"}
  BY <1>1 DEF Ops
<1> QED
  BY <1>2 DEF Mentioned

LEMMA MentionedGrows ==
  ASSUME Shape, NEW op \in Ops, Done(op)
  PROVE  Mentioned' = Mentioned \cup ({op.name} \ {"body"})
  BY DoAppends DEF Mentioned

(* An operation that does not concern I leaves what it gives alone.        *)
LEMMA StillGiven ==
  ASSUME Shape, NEW op \in Ops, Done(op), NEW I \in SUBSET DOMAIN ops,
         NEW v, NEW d, GivenBy(I, v, d)
  PROVE  GivenBy(I, v, d)'
  BY DoAppends DEF GivenBy

(* One that does is the last of them.                                      *)
LEMMA NowGiven ==
  ASSUME Shape, NEW op \in Ops, Done(op), NEW I \in SUBSET DOMAIN ops, NEW d
  PROVE  \E i \in I \cup {Len(ops) + 1} :
           (\A j \in I \cup {Len(ops) + 1} : j <= i) /\ op.value = ops'[i].value
<1>1. \A j \in I \cup {Len(ops) + 1} : j <= Len(ops) + 1
  BY DoAppends
<1> QED
  BY <1>1, DoAppends

LEMMA AssignmentsGrow ==
  ASSUME Shape, NEW op \in Ops, Done(op), NEW n
  PROVE  Assignments(n)' = Assignments(n) \cup
                             (IF op.name = n /\ op.value # Empty THEN {Len(ops) + 1} ELSE {})
  BY DoAppends DEF Assignments

LEMMA BodySetsGrow ==
  ASSUME Shape, NEW op \in Ops, Done(op)
  PROVE  BodySets' = BodySets \cup (IF op.name = "body" THEN {Len(ops) + 1} ELSE {})
  BY DoAppends DEF BodySets

-----------------------------------------------------------------------------
(* A header's value after an operation op that leaves it v, and w if op    *)
(* has given it another.                                                   *)
LEMMA HeaderGiven ==
  ASSUME Shape, NEW op \in Ops, Done(op), NEW n \in Names, NEW v,
         \/ op.name = n /\ op.value # Empty /\ v = op.value
         \/ (op.name # n \/ op.value = Empty) /\ GivenBy(Assignments(n), v, Empty)
  PROVE  GivenBy(Assignments(n), v, Empty)'
<1>1. PICK I \in SUBSET DOMAIN ops : I = Assignments(n)
  BY DEF Assignments
<1>2. CASE op.name = n /\ op.value # Empty /\ v = op.value
  <2>1. Assignments(n)' = I \cup {Len(ops) + 1}
    BY <1>1, <1>2, AssignmentsGrow
  <2>2. \E i \in I \cup {Len(ops) + 1} :
           (\A j \in I \cup {Len(ops) + 1} : j <= i) /\ op.value = ops'[i].value
    BY NowGiven
  <2> QED
    BY <1>2, <2>1, <2>2 DEF GivenBy
<1>3. CASE (op.name # n \/ op.value = Empty) /\ GivenBy(Assignments(n), v, Empty)
  <2>1. Assignments(n)' = I
    <3>1. ~(op.name = n /\ op.value # Empty)
      BY <1>3
    <3>2. Assignments(n)' = Assignments(n) \cup {}
      BY <3>1, AssignmentsGrow
    <3> QED
      BY <1>1, <3>2
  <2>2. GivenBy(I, v, Empty)
    BY <1>1, <1>3
  <2>3. GivenBy(I, v, Empty)'
    BY <2>2, StillGiven
  <2> QED
    BY <2>1, <2>3 DEF GivenBy
<1> QED
  BY <1>2, <1>3

LEMMA BodyGiven ==
  ASSUME Shape, NEW op \in Ops, Done(op), NEW v,
         \/ op.name = "body" /\ v = op.value
         \/ op.name # "body" /\ GivenBy(BodySets, v, <<>>)
  PROVE  GivenBy(BodySets, v, <<>>)'
<1>1. PICK I \in SUBSET DOMAIN ops : I = BodySets
  BY DEF BodySets
<1>2. CASE op.name = "body" /\ v = op.value
  <2>1. BodySets' = I \cup {Len(ops) + 1}
    BY <1>1, <1>2, BodySetsGrow
  <2>2. \E i \in I \cup {Len(ops) + 1} :
           (\A j \in I \cup {Len(ops) + 1} : j <= i) /\ op.value = ops'[i].value
    BY NowGiven
  <2> QED
    BY <1>2, <2>1, <2>2 DEF GivenBy
<1>3. CASE op.name # "body" /\ GivenBy(BodySets, v, <<>>)
  <2>1. BodySets' = I
    BY <1>1, <1>3, BodySetsGrow
  <2>2. GivenBy(I, v, <<>>)
    BY <1>1, <1>3
  <2>3. GivenBy(I, v, <<>>)'
    BY <2>2, StillGiven
  <2> QED
    BY <2>1, <2>3 DEF GivenBy
<1> QED
  BY <1>2, <1>3

LEMMA LookUpKeepsOpen ==
  ASSUME Shape, Open, NEW n \in Names, LookUp(n)
  PROVE  Shape' /\ Open'
<1> DEFINE op == [name |-> n, value |-> Empty]
<1>1. op \in Ops /\ op.name = n /\ op.value = Empty /\ n # "body"
  BY ResponseAssumption DEF Ops, Values
<1>2. Done(op) /\ pc = "open" /\ pc' = pc /\ body_' = body_ /\ datas_' = LookedUp(datas_, n)
  BY DEF LookUp, Do, Done
<1> HIDE DEF op
<1>3. Shape'
  BY <1>1, <1>2, DoAppends DEF Shape
<1>4. Mentioned' = Mentioned \cup {n}
  BY <1>1, <1>2, MentionedGrows
<1>5. ASSUME NEW m \in Mentioned'
      PROVE  datas_'[m] \in Values /\ GivenBy(Assignments(m), datas_[m], Empty)'
  <2>1. m \in Names
    BY <1>4, MentionedNames
  <2>2. datas_'[m] = IF m \in Mentioned THEN datas_[m] ELSE Empty
    BY <1>2, <1>4 DEF LookedUp, Open
  <2>3. m \notin Mentioned => Assignments(m) = {}
    BY <2>1, ResponseAssumption DEF Mentioned, Assignments
  <2>4. PICK v : v = datas_'[m]
    OBVIOUS
  <2>5. v \in Values /\ GivenBy(Assignments(m), v, Empty)
    BY <2>2, <2>3, <2>4 DEF Open, GivenBy, Values
  <2>6. GivenBy(Assignments(m), v, Empty)'
    BY <1>1, <1>2, <2>1, <2>5, HeaderGiven
  <2> QED
    BY <2>4, <2>5, <2>6
<1>6. GivenBy(BodySets, body_, <<>>)'
  <2>1. PICK v : v = body_
    OBVIOUS
  <2>2. GivenBy(BodySets, v, <<>>)'
    BY <1>1, <1>2, <2>1, BodyGiven DEF Open
  <2> QED
    BY <1>2, <2>1, <2>2
<1>7. DOMAIN datas_' = Mentioned'
  BY <1>2, <1>4 DEF LookedUp, Open
<1> QED
  BY <1>3, <1>5, <1>6, <1>7 DEF Open

LEMMA AssignKeepsOpen ==
  ASSUME Shape, Open, NEW n \in Names, NEW w \in Values \ {Empty}, Assign(n, w)
  PROVE  Shape' /\ Open'
<1> DEFINE op == [name |-> n, value |-> w]
<1>1. op \in Ops /\ op.name = n /\ op.value = w /\ n # "body" /\ w # Empty
  BY ResponseAssumption DEF Ops
<1>2. Done(op) /\ pc = "open" /\ pc' = pc /\ body_' = body_ /\ datas_' = With(datas_, n, w)
  BY DEF Assign, Do, Done
<1> HIDE DEF op
<1>3. Shape'
  BY <1>1, <1>2, DoAppends DEF Shape
<1>4. Mentioned' = Mentioned \cup {n}
  BY <1>1, <1>2, MentionedGrows
<1>5. ASSUME NEW m \in Mentioned'
      PROVE  datas_'[m] \in Values /\ GivenBy(Assignments(m), datas_[m], Empty)'
  <2>1. m \in Names
    BY <1>4, MentionedNames
  <2>2. datas_'[m] = IF m = n THEN w ELSE datas_[m]
    BY <1>2, <1>4 DEF With, Open
  <2>3. m # n => m \in Mentioned
    BY <1>4
  <2>4. PICK v : v = datas_'[m]
    OBVIOUS
  <2>5. v \in Values /\ (m # n => GivenBy(Assignments(m), v, Empty))
    BY <2>2, <2>3, <2>4 DEF Open
  <2>6. GivenBy(Assignments(m), v, Empty)'
    BY <1>1, <1>2, <2>1, <2>2, <2>4, <2>5, HeaderGiven
  <2> QED
    BY <2>4, <2>5, <2>6
<1>6. GivenBy(BodySets, body_, <<>>)'
  <2>1. PICK v : v = body_
    OBVIOUS
  <2>2. GivenBy(BodySets, v, <<>>)'
    BY <1>1, <1>2, <2>1, BodyGiven DEF Open
  <2> QED
    BY <1>2, <2>1, <2>2
<1>7. DOMAIN datas_' = Mentioned'
  BY <1>2, <1>4 DEF With, Open
<1> QED
  BY <1>3, <1>5, <1>6, <1>7 DEF Open

LEMMA SetBodyKeepsOpen ==
  ASSUME Shape, Open, NEW b \in Bodies, SetBody(b)
  PROVE  Shape' /\ Open'
<1> DEFINE op == [name |-> "body", value |-> b]
<1>1. op \in Ops /\ op.name = "body" /\ op.value = b
  BY DEF Ops
<1>2. Done(op) /\ pc = "open" /\ pc' = pc /\ body_' = b /\ datas_' = datas_
  BY DEF SetBody, Do, Done
<1> HIDE DEF op
<1>3. Shape'
  BY <1>1, <1>2, DoAppends DEF Shape
<1>4. Mentioned' = Mentioned
  BY <1>1, <1>2, MentionedGrows
<1>5. ASSUME NEW m \in Mentioned'
      PROVE  datas_'[m] \in Values /\ GivenBy(Assignments(m), datas_[m], Empty)'
  <2>1. m \in Names /\ m # "body"
    BY <1>4, MentionedNames, ResponseAssumption
  <2>2. PICK v : v = datas_[m]
    OBVIOUS
  <2>3. v \in Values /\ GivenBy(Assignments(m), v, Empty)
    BY <1>4, <2>2 DEF Open
  <2>4. GivenBy(Assignments(m), v, Empty)'
    BY <1>1, <1>2, <2>1, <2>3, HeaderGiven
  <2> QED
    BY <1>2, <2>2, <2>3, <2>4
<1>6. GivenBy(BodySets, body_, <<>>)'
  <2>1. PICK v : v = b
    OBVIOUS
  <2>2. GivenBy(BodySets, v, <<>>)'
    BY <1>1, <1>2, <2>1, BodyGiven
  <2> QED
    BY <1>2, <2>1, <2>2
<1> QED
  BY <1>2, <1>3, <1>4, <1>5, <1>6 DEF Open

-----------------------------------------------------------------------------
LEMMA ValueTypes == \A v \in Values : v.type \in {"empty", "string", "number"}
<1>1. Empty.type = "empty"
  BY DEF Empty
<1>2. \A t \in Strings : String(t).type = "string"
  BY DEF String
<1>3. \A v \in [type : {"number"}, value : Numbers] : v.type = "number"
  OBVIOUS
<1> QED
  BY <1>1, <1>2, <1>3 DEF Values

LEMMA OwnValues ==
  ASSUME NEW k, NEW n \in Own
  PROVE  /\ DOMAIN OwnHeaders(k) = Own
         /\ OwnHeaders(k)[n].type = "string"
         /\ OwnHeaders(k)["Content-Length"].value = Decimal(k)
  BY DEF OwnHeaders, String, Own

(* What the map holds once write() has set its own headers.                *)
LEMMA WithOwnIs ==
  ASSUME Shape, Open
  PROVE  /\ DOMAIN WithOwn(datas_) = Mentioned \cup Own
         /\ \A n \in Own : WithOwn(datas_)[n] = OwnHeaders(Len(body_))[n]
         /\ \A n \in Mentioned \ Own : /\ WithOwn(datas_)[n] = Final(n)
                                       /\ Final(n) \in Values
<1>1. \A n \in Mentioned : datas_[n] = Final(n) /\ datas_[n] \in Values
  BY FinalIs DEF Open
<1>2. DOMAIN datas_ = Mentioned
  BY DEF Open
<1> QED
  BY <1>1, <1>2 DEF WithOwn

(* What is true once write() has run.                                      *)
Written ==
  /\ DOMAIN datas_ = Mentioned \cup Own
  /\ \A n \in DOMAIN datas_ : datas_[n].type \in {"empty", "string", "number"}

LEMMA WriteIsTrue ==
  ASSUME Shape, Open, Write
  PROVE  Shape' /\ pc' # "open" /\ Written' /\ ThrowsCause' /\ HeadersTrue' /\ LengthTrue'
<1> DEFINE d == WithOwn(datas_)
<1>1. /\ datas_' = d /\ body_' = body_ /\ ops' = ops
      /\ \/ (\A n \in DOMAIN d : Castable(d[n])) /\ pc' = "sent"
            /\ sent' = [headers |-> ToText(d), body |-> body_]
         \/ ~(\A n \in DOMAIN d : Castable(d[n])) /\ pc' = "thrown"
  BY DEF Write
<1>2. /\ Mentioned' = Mentioned /\ FinalBody' = FinalBody
      /\ \A n \in Mentioned : Final(n)' = Final(n)
  BY <1>1 DEF Mentioned, FinalBody, Final, Assignments, BodySets
<1>3. /\ DOMAIN d = Mentioned \cup Own
      /\ \A n \in Own : d[n] = OwnHeaders(Len(body_))[n]
      /\ \A n \in Mentioned \ Own : d[n] = Final(n) /\ Final(n) \in Values
  BY WithOwnIs
<1> HIDE DEF d
<1>4. \A n \in Own : d[n].type = "string"
  BY <1>3, OwnValues
<1>5. Shape' /\ pc' # "open"
  BY <1>1 DEF Shape
<1>6. Written'
  BY <1>1, <1>2, <1>3, <1>4, ValueTypes DEF Written
<1>7. ThrowsCause'
  <2>1. (\A n \in DOMAIN d : Castable(d[n])) <=>
           ~(\E n \in Mentioned \ Own : Final(n).type # "string")
    BY <1>3, <1>4 DEF Castable
  <2>2. pc' = "thrown" <=> \E n \in Mentioned \ Own : Final(n).type # "string"
    BY <1>1, <2>1
  <2> QED
    BY <1>2, <2>2 DEF ThrowsCause
<1>8. HeadersTrue'
  <2> SUFFICES ASSUME pc' = "sent"
               PROVE  sent'.headers =
                        {<<n, Final(n)'.value>> : n \in Mentioned' \ Own}
                        \cup {<<n, OwnHeaders(Len(sent'.body))[n].value>> : n \in Own}
    BY DEF HeadersTrue, OwnHeaders
  <2>1. sent'.headers = ToText(d) /\ sent'.body = body_
    BY <1>1
  <2>2. ToText(d) = {<<n, d[n].value>> : n \in Mentioned \cup Own}
    BY <1>3 DEF ToText
  <2>3. {<<n, d[n].value>> : n \in Mentioned \cup Own} =
           {<<n, d[n].value>> : n \in Mentioned \ Own} \cup {<<n, d[n].value>> : n \in Own}
    OBVIOUS
  <2>4. {<<n, d[n].value>> : n \in Mentioned \ Own} =
           {<<n, Final(n)'.value>> : n \in Mentioned' \ Own}
    BY <1>2, <1>3
  <2>5. {<<n, d[n].value>> : n \in Own} =
           {<<n, OwnHeaders(Len(body_))[n].value>> : n \in Own}
    BY <1>3
  <2> QED
    BY <2>1, <2>2, <2>3, <2>4, <2>5
<1>9. LengthTrue'
  <2> SUFFICES ASSUME pc' = "sent" PROVE LengthTrue'
    BY DEF LengthTrue
  <2>1. sent'.headers = ToText(d) /\ sent'.body = body_
    BY <1>1
  <2>2. sent'.body = FinalBody'
    BY <1>2, <2>1, FinalBodyIs DEF Open
  <2>3. /\ "Content-Length" \in Own /\ "Content-Length" \in DOMAIN d
        /\ d["Content-Length"].value = Decimal(Len(body_))
    BY <1>3, OwnValues DEF Own
  <2>4. \E h \in sent'.headers : Lower(h[1]) = "content-length"
                                 /\ h[2] = Decimal(Len(sent'.body))
    <3>1. <<"Content-Length", d["Content-Length"].value>> \in ToText(d)
      BY <2>3 DEF ToText
    <3> QED
      BY <2>1, <2>3, <3>1, ResponseAssumption
  <2>5. ASSUME NEW g \in sent'.headers, NEW h \in sent'.headers, g # h,
               Lower(g[1]) = "content-length", Lower(h[1]) = "content-length"
        PROVE  \E n \in Mentioned' \ Own : Lower(n) = "content-length"
    <3>1. PICK m \in DOMAIN d : g = <<m, d[m].value>>
      BY <2>1 DEF ToText
    <3>2. PICK n \in DOMAIN d : h = <<n, d[n].value>>
      BY <2>1 DEF ToText
    <3>3. m # n /\ Lower(m) = "content-length" /\ Lower(n) = "content-length"
      BY <2>5, <3>1, <3>2
    <3>4. \A k \in Own : Lower(k) = "content-length" => k = "Content-Length"
      BY ResponseAssumption DEF Own
    <3> QED
      BY <1>2, <1>3, <3>3, <3>4
  <2> QED
    BY <2>2, <2>4, <2>5 DEF LengthTrue
<1> QED
  BY <1>5, <1>6, <1>7, <1>8, <1>9

-----------------------------------------------------------------------------
Sound ==
  /\ Shape
  /\ pc = "open" => Open
  /\ pc # "open" => Written
  /\ ThrowsCause /\ HeadersTrue /\ LengthTrue

LEMMA InitSound == Init => Sound
<1> SUFFICES ASSUME Init PROVE Sound
  OBVIOUS
<1>1. ops = <<>> /\ body_ = <<>> /\ pc = "open" /\ DOMAIN datas_ = {}
  BY DEF Init
<1>2. Mentioned = {} /\ BodySets = {}
  BY <1>1 DEF Mentioned, BodySets
<1>3. Shape /\ Open
  BY <1>1, <1>2 DEF Shape, Open, GivenBy
<1> QED
  BY <1>1, <1>3 DEF Sound, ThrowsCause, HeadersTrue, LengthTrue

LEMMA StepSound == Sound /\ [Next]_vars => Sound'
<1> SUFFICES ASSUME Sound, [Next]_vars PROVE Sound'
  OBVIOUS
<1>1. CASE UNCHANGED vars
  <2>1. datas_' = datas_ /\ body_' = body_ /\ sent' = sent /\ pc' = pc /\ ops' = ops
    BY <1>1 DEF vars
  <2>2. /\ Mentioned' = Mentioned /\ BodySets' = BodySets /\ FinalBody' = FinalBody
        /\ \A n : Assignments(n)' = Assignments(n) /\ Final(n)' = Final(n)
    BY <2>1 DEF Mentioned, BodySets, FinalBody, Assignments, Final
  <2>3. Shape'
    BY <2>1 DEF Sound, Shape
  <2>4. (pc = "open" => Open') /\ (pc # "open" => Written')
    BY <2>1, <2>2 DEF Sound, Open, Written, GivenBy
  <2>5. ThrowsCause' /\ LengthTrue'
    BY <2>1, <2>2 DEF Sound, ThrowsCause, LengthTrue
  <2>6. HeadersTrue'
    BY <2>1, <2>2 DEF Sound, HeadersTrue, OwnHeaders
  <2> QED
    BY <2>1, <2>3, <2>4, <2>5, <2>6 DEF Sound
<1>2. ASSUME Shape' /\ Open', pc = "open", pc' = pc PROVE Sound'
  BY <1>2 DEF Sound, ThrowsCause, HeadersTrue, LengthTrue
<1>3. ASSUME NEW n \in Names, LookUp(n) PROVE Sound'
  BY <1>2, <1>3, LookUpKeepsOpen DEF Sound, LookUp, Do
<1>4. ASSUME NEW n \in Names, NEW v \in Values \ {Empty}, Assign(n, v) PROVE Sound'
  BY <1>2, <1>4, AssignKeepsOpen DEF Sound, Assign, Do
<1>5. ASSUME NEW b \in Bodies, SetBody(b) PROVE Sound'
  BY <1>2, <1>5, SetBodyKeepsOpen DEF Sound, SetBody, Do
<1>6. CASE Write
  <2>1. Shape /\ Open
    BY <1>6 DEF Sound, Write
  <2> QED
    BY <1>6, <2>1, WriteIsTrue DEF Sound
<1> QED
  BY <1>1, <1>3, <1>4, <1>5, <1>6 DEF Next

LEMMA SoundCorrect == Spec => []Sound
  BY InitSound, StepSound, PTL DEF Spec

(* Every reachable state is well typed, and write() has set its headers.   *)
THEOREM TypeCorrect == Spec => []TypeOK
<1>1. Sound => TypeOK
  <2> SUFFICES ASSUME Sound PROVE TypeOK
    OBVIOUS
  <2>1. Shape
    BY DEF Sound
  <2>2. Mentioned \subseteq Names /\ Own \subseteq Names
    BY <2>1, MentionedNames, ResponseAssumption
  <2>3. DOMAIN datas_ \subseteq Names /\ (pc # "open" => Own \subseteq DOMAIN datas_)
    BY <2>2 DEF Sound, Open, Written
  <2>4. \A n \in DOMAIN datas_ : datas_[n].type \in {"empty", "string", "number"}
    BY ValueTypes DEF Sound, Open, Written
  <2> QED
    BY <2>1, <2>3, <2>4 DEF TypeOK, Shape
<1> QED
  BY <1>1, SoundCorrect, PTL

(* write() throws exactly if a header but its own is left a number or      *)
(* without a value (header.cc:3-5, 12), whatever was done in which order.  *)
THEOREM ThrowsCauseCorrect == Spec => []ThrowsCause
<1>1. Sound => ThrowsCause
  BY DEF Sound
<1> QED
  BY <1>1, SoundCorrect, PTL

(* What is sent is every header with its last value, and those of write(). *)
THEOREM HeadersTrueCorrect == Spec => []HeadersTrue
<1>1. Sound => HeadersTrue
  BY DEF Sound
<1> QED
  BY <1>1, SoundCorrect, PTL

(* Content-Length is the length of the last body, for any bodies and any   *)
(* headers a middleware wrote before.                                      *)
THEOREM LengthTrueCorrect == Spec => []LengthTrue
<1>1. Sound => LengthTrue
  BY DEF Sound
<1> QED
  BY <1>1, SoundCorrect, PTL
=============================================================================
