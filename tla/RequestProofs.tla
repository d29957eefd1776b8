--------------------------- MODULE RequestProofs ---------------------------
(***************************************************************************)
(* Proofs about Request: whatever texts and lines a client sends, wherever *)
(* the bytes stop, the headers and parameters parse() keeps are the last   *)
(* of each name.                                                           *)
(***************************************************************************)
EXTENDS Request, SumTheorems

(* map has the names of rows from .. n and no other, each with the value   *)
(* of the last of these rows that has its name.                            *)
Wins(map, names, values, from, n) ==
  /\ DOMAIN map = {names[i] : i \in from .. n}
  /\ \A i \in from .. n :
       (\A j \in from .. n : names[j] = names[i] => j <= i) => map[names[i]] = values[i]

HeaderNames  == [i \in 1 .. Len(data.lines) |-> HeaderName(data.lines[i].text)]
HeaderValues == [i \in 1 .. Len(data.lines) |-> HeaderValue(data.lines[i].text)]

Params      == Query[data.lines[1].text]
ParamNames  == [i \in 1 .. Len(Params) |-> Params[i].name]
ParamValues == [i \in 1 .. Len(Params) |-> ParamValue(Params[i])]

(* How many lines have been taken off the queue, how many parameters       *)
(* visited.                                                                *)
Taken   == Len(data.lines) - Len(result)
Visited == Len(Params) - Len(todo)

Typed ==
  /\ data.lines \in Seq([text : Texts, cr : BOOLEAN])
  /\ result \in Seq(Texts)
  /\ pc \in Ended \cup {"split", "start", "params", "headers"}

Rest ==
  /\ Taken \in 0 .. Len(data.lines)
  /\ \A i \in 1 .. Len(result) : result[i] = data.lines[Taken + i].text

(* Nothing of the head has been parsed, except its parameters.             *)
Beginning ==
  /\ pc \in {"split", "start"} => DOMAIN params = {}
  /\ pc \in {"split", "start", "params"} => DOMAIN header_ = {}
  /\ pc \in {"start", "params"} => Rest /\ Taken = 0

Started == Len(data.lines) > 0 /\ data.lines[1].text \in Words3

Visiting ==
  pc = "params" =>
    /\ Started
    /\ todo \in Seq({Params[i] : i \in DOMAIN Params})
    /\ Visited \in 0 .. Len(Params)
    /\ \A i \in 1 .. Len(todo) : todo[i] = Params[Visited + i]
    /\ Wins(params, ParamNames, ParamValues, 1, Visited)

AllVisited ==
  pc \in {"headers", "done"} =>
    Started /\ Wins(params, ParamNames, ParamValues, 1, Len(Params))

Taking ==
  pc = "headers" =>
    /\ Rest /\ Taken > 0
    /\ \A i \in 1 .. Taken : data.lines[i].text # Empty
    /\ Wins(header_, HeaderNames, HeaderValues, 2, Taken)

AllTaken ==
  pc = "done" /\ HeadRead(data) =>
    Wins(header_, HeaderNames, HeaderValues, 2, HeadLen(data) - 1)

RequestInv == Typed /\ Beginning /\ Visiting /\ AllVisited /\ Taking /\ AllTaken

-----------------------------------------------------------------------------
LEMMA Lines ==
  ASSUME Typed
  PROVE  /\ Len(data.lines) \in Nat
         /\ \A i \in 1 .. Len(data.lines) : /\ data.lines[i].text \in Texts
                                            /\ Size[data.lines[i].text] \in Nat
<1> DEFINE Line == [text : Texts, cr : BOOLEAN]
<1>1. \A l \in Line : l.text \in Texts
  OBVIOUS
<1>2. data.lines \in Seq(Line)
  BY DEF Typed
<1> HIDE DEF Line
<1>3. Len(data.lines) \in Nat /\ \A i \in 1 .. Len(data.lines) : data.lines[i] \in Line
  BY <1>2
<1>4. \A x \in Texts : Size[x] \in Nat
  BY RequestAssumption
<1> QED
  BY <1>1, <1>3, <1>4

(* Putting the next row into the map makes that row the last of its name.  *)
LEMMA PutWins ==
  ASSUME NEW map, NEW names, NEW values, NEW from \in Nat, NEW n \in Nat,
         from <= n + 1, Wins(map, names, values, from, n)
  PROVE  Wins(Put(map, names[n + 1], values[n + 1]), names, values, from, n + 1)
<1> DEFINE put == Put(map, names[n + 1], values[n + 1])
<1>1. from .. n + 1 = (from .. n) \cup {n + 1}
  OBVIOUS
<1>2. /\ DOMAIN put = DOMAIN map \cup {names[n + 1]}
      /\ \A k \in DOMAIN put : put[k] = IF k = names[n + 1] THEN values[n + 1] ELSE map[k]
  BY DEF Put
<1>3. DOMAIN put = {names[i] : i \in from .. n + 1}
  BY <1>1, <1>2 DEF Wins
<1>4. ASSUME NEW i \in from .. n + 1,
             \A j \in from .. n + 1 : names[j] = names[i] => j <= i
      PROVE  put[names[i]] = values[i]
  <2>1. CASE i = n + 1
    BY <1>2, <2>1
  <2>2. CASE i # n + 1
    <3>1. i \in from .. n /\ ~(n + 1 <= i)
      BY <2>2
    <3>2. names[n + 1] # names[i]
      BY <1>1, <1>4, <3>1
    <3>3. map[names[i]] = values[i]
      BY <1>1, <1>4, <3>1 DEF Wins
    <3> QED
      BY <1>2, <1>3, <3>2, <3>3
  <2> QED
    BY <2>1, <2>2
<1> QED
  BY <1>3, <1>4 DEF Wins

LEMMA NoneWin ==
  ASSUME NEW map, DOMAIN map = {}, NEW names, NEW values, NEW n \in Nat
  PROVE  Wins(map, names, values, n + 1, n)
<1>1. (n + 1) .. n = {}
  OBVIOUS
<1> QED
  BY <1>1 DEF Wins

(* The head ends at the first empty line.                                  *)
LEMMA HeadEnds ==
  ASSUME Typed, NEW n \in 1 .. Len(data.lines), data.lines[n].text = Empty,
         \A i \in 1 .. n - 1 : data.lines[i].text # Empty
  PROVE  HeadLen(data) = n
<1> DEFINE B == Blanks(data)
<1>1. n \in B /\ \A j \in B : n <= j
  BY DEF Blanks, Typed
<1>2. \A i \in B : (\A j \in B : i <= j) => i = n
  BY <1>1 DEF Blanks, Typed
<1> QED
  BY <1>1, <1>2 DEF HeadLen

LEMMA NoHead ==
  ASSUME Typed, \A i \in 1 .. Len(data.lines) : data.lines[i].text # Empty
  PROVE  ~HeadRead(data)
<1>1. Blanks(data) = {}
  BY DEF Blanks
<1> QED
  BY <1>1 DEF HeadRead, HeadLen

-----------------------------------------------------------------------------
LEMMA RequestInit == Init => RequestInv
<1> SUFFICES ASSUME Init PROVE RequestInv
  OBVIOUS
<1>1. data.lines \in Seq([text : Texts, cr : BOOLEAN])
  BY RequestAssumption DEF Init
<1>2. Typed
  BY <1>1 DEF Init, Typed
<1> QED
  BY <1>2 DEF Init, RequestInv, Beginning, Visiting, AllVisited, Taking, AllTaken

(* data never changes, nor what is said of it.                             *)
LEMMA SameData ==
  ASSUME UNCHANGED data
  PROVE  /\ HeaderNames' = HeaderNames /\ HeaderValues' = HeaderValues
         /\ Params' = Params /\ ParamNames' = ParamNames /\ ParamValues' = ParamValues
         /\ Started' = Started
         /\ HeadRead(data)' = HeadRead(data) /\ HeadLen(data)' = HeadLen(data)
BY DEF HeaderNames, HeaderValues, Params, ParamNames, ParamValues, Started

(* Taking a line off the queue leaves the rest of the lines.               *)
LEMMA TakeRest ==
  ASSUME Typed, Rest, result # <<>>, UNCHANGED data, result' = Tail(result)
  PROVE  /\ Rest' /\ Taken' = Taken + 1 /\ result' \in Seq(Texts)
         /\ Head(result) = data.lines[Taken + 1].text
         /\ Taken \in Nat /\ Taken + 1 <= Len(data.lines)
<1>1. result \in Seq(Texts) /\ Len(result) \in Nat \ {0} /\ Len(data.lines) \in Nat
  BY DEF Typed
<1>2. /\ result' \in Seq(Texts) /\ Len(result') = Len(result) - 1
      /\ \A i \in 1 .. Len(result') : result'[i] = result[i + 1]
      /\ Head(result) = result[1]
  BY <1>1
<1>3. Taken' = Taken + 1 /\ Taken \in Nat /\ Taken + 1 <= Len(data.lines)
  BY <1>1, <1>2 DEF Rest, Taken
<1>4. \A i \in 1 .. Len(result') : result'[i] = data.lines[Taken' + i].text
  <2> TAKE i \in 1 .. Len(result')
  <2>1. i + 1 \in 1 .. Len(result) /\ Taken' + i = Taken + (i + 1)
    BY <1>1, <1>2, <1>3
  <2> QED
    BY <1>2, <2>1 DEF Rest
<1>5. Head(result) = data.lines[Taken + 1].text
  BY <1>1, <1>2 DEF Rest
<1>6. Taken' \in 0 .. Len(data'.lines)
  BY <1>1, <1>3
<1> QED
  BY <1>2, <1>3, <1>4, <1>5, <1>6 DEF Rest

LEMMA IsASeq ==
  ASSUME NEW S, NEW n \in Nat, NEW f \in [1 .. n -> S]
  PROVE  f \in Seq(S) /\ Len(f) = n
OBVIOUS

LEMMA SplitKeeps ==
  ASSUME RequestInv, SplitLines
  PROVE  RequestInv'
<1>1. result' \in Seq(Texts) /\ Len(result') = Len(data.lines)
  <2>1. Len(data.lines) \in Nat /\ \A i \in 1 .. Len(data.lines) : data.lines[i].text \in Texts
    BY Lines DEF RequestInv
  <2>2. result' = [i \in 1 .. Len(data.lines) |-> data.lines[i].text]
    BY DEF SplitLines
  <2> DEFINE texts == [i \in 1 .. Len(data.lines) |-> data.lines[i].text]
  <2>3. texts \in [1 .. Len(data.lines) -> Texts]
    BY <2>1
  <2>4. texts \in Seq(Texts) /\ Len(texts) = Len(data.lines)
    BY <2>1, <2>3, IsASeq
  <2> QED
    BY <2>2, <2>4
<1>2. Taken' = 0 /\ Rest'
  BY <1>1 DEF SplitLines, Taken, Rest, RequestInv, Typed
<1>3. pc' = "start" /\ pc = "split" /\ UNCHANGED <<data, header_, params>>
  BY DEF SplitLines
<1> QED
  BY <1>1, <1>2, <1>3
  DEF RequestInv, Typed, Beginning, Visiting, AllVisited, Taking, AllTaken, Ended

LEMMA ParseInitKeeps ==
  ASSUME RequestInv, ParseInit
  PROVE  RequestInv'
<1>1. /\ pc = "start" /\ UNCHANGED <<data, result, header_, params>> /\ result # <<>>
      /\ DOMAIN params = {} /\ DOMAIN header_ = {} /\ Rest /\ Taken = 0 /\ Typed
  BY DEF RequestInv, Beginning, ParseInit
<1>2. Rest' /\ Taken' = Taken
  BY <1>1 DEF Rest, Taken
<1>3. Len(data.lines) > 0 /\ Head(result) = data.lines[1].text
  BY <1>1 DEF Rest, Taken, Typed
<1>4. CASE Head(result) \in Words3
  <2>1. pc' = "params" /\ todo' = Params /\ Started
    BY <1>3, <1>4 DEF ParseInit, Params, Started
  <2>2. Params \in Seq({Params[i] : i \in DOMAIN Params})
    BY <1>3, <1>4, RequestAssumption DEF Params
  <2>3. Params' = Params /\ Started' /\ Visited' = 0
    BY <1>1, <2>1, <2>2, SameData DEF Visited
  <2>4. Wins(params, ParamNames, ParamValues, 1, 0)'
    BY <1>1, NoneWin
  <2>5. Visiting'
    BY <2>1, <2>2, <2>3, <2>4 DEF Visiting
  <2> QED
    BY <1>1, <1>2, <2>1, <2>5
    DEF RequestInv, Typed, Beginning, AllVisited, Taking, AllTaken, Ended
<1>5. CASE Head(result) \notin Words3
  BY <1>1, <1>2, <1>5
  DEF ParseInit, RequestInv, Typed, Beginning, Visiting, AllVisited, Taking, AllTaken, Ended
<1> QED
  BY <1>4, <1>5

LEMMA ParseParamKeeps ==
  ASSUME RequestInv, ParseParam
  PROVE  RequestInv'
<1>1. /\ pc = "params" /\ pc' = "params" /\ UNCHANGED <<data, result, header_>>
      /\ todo # <<>> /\ todo' = Tail(todo)
      /\ params' = Put(params, Head(todo).name, ParamValue(Head(todo)))
      /\ Started /\ DOMAIN header_ = {} /\ Rest /\ Taken = 0 /\ Typed
  BY DEF RequestInv, Beginning, Visiting, ParseParam
<1>2. Rest' /\ Taken' = Taken /\ Started'
  BY <1>1, SameData DEF Rest, Taken
<1> DEFINE S == {Params[i] : i \in DOMAIN Params}
<1>3. todo \in Seq(S) /\ Params \in Seq(S) /\ Visited \in 0 .. Len(Params)
  BY <1>1, RequestAssumption DEF RequestInv, Visiting, Params, Started
<1> HIDE DEF S
<1>13. Len(todo) \in Nat \ {0} /\ Len(Params) \in Nat
  BY <1>1, <1>3
<1>4. /\ todo' \in Seq(S) /\ Len(todo') = Len(todo) - 1
      /\ \A i \in 1 .. Len(todo') : todo'[i] = todo[i + 1]
      /\ Head(todo) = todo[1]
  BY <1>1, <1>3
<1>5. Params' = Params /\ ParamNames' = ParamNames /\ ParamValues' = ParamValues
  BY <1>1, SameData
<1>6. Visited' = Visited + 1 /\ Visited \in Nat /\ Visited + 1 \in 1 .. Len(Params)
  BY <1>3, <1>4, <1>5, <1>13 DEF Visited
<1>7. \A i \in 1 .. Len(todo) : todo[i] = Params[Visited + i]
  BY <1>1 DEF RequestInv, Visiting
<1>8. \A i \in 1 .. Len(todo') : todo'[i] = Params[Visited' + i]
  <2> TAKE i \in 1 .. Len(todo')
  <2>2. Len(todo') = Len(todo) - 1 /\ Len(todo) \in Nat
    BY <1>4, <1>13
  <2>3. i \in Nat /\ i + 1 \in 1 .. Len(todo)
    BY <2>2
  <2>4. Visited' = Visited + 1 /\ Visited \in Nat
    BY <1>6
  <2>1. i + 1 \in 1 .. Len(todo) /\ Visited' + i = Visited + (i + 1)
    BY <2>3, <2>4
  <2> QED
    BY <1>4, <1>7, <2>1
<1>9. Head(todo) = Params[Visited + 1]
  BY <1>4, <1>7, <1>13
<1>10. /\ ParamNames[Visited + 1] = Head(todo).name
       /\ ParamValues[Visited + 1] = ParamValue(Head(todo))
  BY <1>6, <1>9 DEF ParamNames, ParamValues
<1>11. Wins(params', ParamNames, ParamValues, 1, Visited + 1)
  <2>1. Wins(params, ParamNames, ParamValues, 1, Visited)
    BY <1>1 DEF RequestInv, Visiting
  <2>2. params' = Put(params, ParamNames[Visited + 1], ParamValues[Visited + 1])
    BY <1>1, <1>10
  <2>3. 1 <= Visited + 1
    BY <1>6
  <2> QED
    BY <1>6, <2>1, <2>2, <2>3, PutWins
<1>12. Visiting'
  <2>1. todo' \in Seq({Params[i] : i \in DOMAIN Params})
    BY <1>4 DEF S
  <2>2. Visited' \in 0 .. Len(Params)
    BY <1>6
  <2>3. Wins(params, ParamNames, ParamValues, 1, Visited)'
    BY <1>5, <1>6, <1>11
  <2> QED
    BY <1>2, <1>5, <1>8, <2>1, <2>2, <2>3 DEF Visiting
<1> QED
  BY <1>1, <1>2, <1>12
  DEF RequestInv, Typed, Beginning, AllVisited, Taking, AllTaken, Ended

LEMMA EndInitKeeps ==
  ASSUME RequestInv, EndInit
  PROVE  RequestInv'
<1>1. /\ pc = "params" /\ todo = <<>> /\ UNCHANGED <<data, todo, header_, params>>
      /\ Started /\ DOMAIN header_ = {} /\ Rest /\ Taken = 0 /\ Typed
      /\ Wins(params, ParamNames, ParamValues, 1, Visited)
  BY DEF RequestInv, Beginning, Visiting, EndInit
<1>2. CASE Head(result) \in Rooted
  <2>1. pc' = "headers" /\ result' = Tail(result)
    BY <1>2 DEF EndInit
  <2>2. result # <<>>
    BY <1>1 DEF Started, Taken, Typed
  <2>3. Rest' /\ Taken' = 1 /\ result' \in Seq(Texts)
    BY <1>1, <2>1, <2>2, TakeRest
  <2>4. data.lines[1].text # Empty
    BY <1>1, RequestAssumption DEF Started
  <2>5. Wins(header_, HeaderNames, HeaderValues, 2, 1)'
    BY <1>1, NoneWin, 1 + 1 = 2
  <2>6. Visited = Len(Params)
    <3>1. Len(Params) \in Nat
      BY <1>1, RequestAssumption DEF Started, Params
    <3> QED
      BY <1>1, <3>1 DEF Visited
  <2>7. AllVisited'
    BY <1>1, <2>6, SameData DEF AllVisited
  <2>8. Taking'
    BY <1>1, <2>3, <2>4, <2>5 DEF Taking
  <2> QED
    BY <1>1, <2>1, <2>3, <2>7, <2>8
    DEF RequestInv, Typed, Beginning, Visiting, AllTaken, Ended
<1>3. CASE Head(result) \notin Rooted
  BY <1>1, <1>3
  DEF EndInit, RequestInv, Typed, Beginning, Visiting, AllVisited, Taking, AllTaken, Ended
<1> QED
  BY <1>2, <1>3

LEMMA ParseHeaderKeeps ==
  ASSUME RequestInv, ParseHeader
  PROVE  RequestInv'
<1>1. /\ pc = "headers" /\ pc' = "headers" /\ UNCHANGED <<data, params>>
      /\ result # <<>> /\ Head(result) # Empty /\ result' = Tail(result)
      /\ header_' = Put(header_, HeaderName(Head(result)), HeaderValue(Head(result)))
      /\ Rest /\ Typed /\ Taken > 0
      /\ \A i \in 1 .. Taken : data.lines[i].text # Empty
      /\ Wins(header_, HeaderNames, HeaderValues, 2, Taken)
  BY DEF RequestInv, Taking, ParseHeader
<1>2. /\ Rest' /\ Taken' = Taken + 1 /\ result' \in Seq(Texts)
      /\ Head(result) = data.lines[Taken + 1].text
      /\ Taken \in Nat /\ Taken + 1 <= Len(data.lines)
  BY <1>1, TakeRest
<1>3. /\ HeaderNames[Taken + 1] = HeaderName(Head(result))
      /\ HeaderValues[Taken + 1] = HeaderValue(Head(result))
  BY <1>1, <1>2 DEF HeaderNames, HeaderValues, Typed
<1>4. Wins(header_', HeaderNames, HeaderValues, 2, Taken + 1)
  <2>1. header_' = Put(header_, HeaderNames[Taken + 1], HeaderValues[Taken + 1])
    BY <1>1, <1>3
  <2>2. 2 <= Taken + 1
    BY <1>1, <1>2
  <2> QED
    BY <1>1, <1>2, <2>1, <2>2, PutWins
<1>5. Wins(header_, HeaderNames, HeaderValues, 2, Taken)'
  BY <1>1, <1>2, <1>4, SameData
<1>6. \A i \in 1 .. Taken + 1 : data.lines[i].text # Empty
  <2>1. 1 .. Taken + 1 = (1 .. Taken) \cup {Taken + 1}
    BY <1>2
  <2> QED
    BY <1>1, <1>2, <2>1
<1>7. Taking'
  BY <1>1, <1>2, <1>5, <1>6 DEF Taking
<1>8. AllVisited'
  BY <1>1, SameData DEF RequestInv, AllVisited
<1> QED
  BY <1>1, <1>2, <1>7, <1>8
  DEF RequestInv, Typed, Beginning, Visiting, AllTaken, Ended

(* The head was read up to an empty line, or was not read to its end.      *)
LEMMA TakeBodyKeeps ==
  ASSUME RequestInv, pc = "headers", TakeBody,
         result # <<>> => Head(result) = Empty
  PROVE  RequestInv'
<1>1. /\ UNCHANGED <<data, result, header_, params>> /\ pc' \in {"done", "thrown"}
      /\ Rest /\ Typed /\ Taken > 0
      /\ \A i \in 1 .. Taken : data.lines[i].text # Empty
      /\ Wins(header_, HeaderNames, HeaderValues, 2, Taken)
  BY DEF RequestInv, Taking, TakeBody
<1>2. HeadRead(data) => Wins(header_, HeaderNames, HeaderValues, 2, HeadLen(data) - 1)
  <2>1. CASE result # <<>>
    <3>1. /\ Taken \in Nat /\ Taken + 1 \in 1 .. Len(data.lines)
          /\ data.lines[Taken + 1].text = Empty
      BY <1>1, <2>1 DEF Rest, Taken, Typed
    <3>2. HeadLen(data) = Taken + 1
      <4>1. (Taken + 1) - 1 = Taken
        BY <3>1
      <4> QED
        BY <1>1, <3>1, <4>1, HeadEnds
    <3>3. HeadLen(data) - 1 = Taken
      BY <3>1, <3>2
    <3> QED
      BY <1>1, <3>3
  <2>2. CASE result = <<>>
    <3>1. Taken = Len(data.lines)
      BY <1>1, <2>2 DEF Taken, Typed
    <3> QED
      BY <1>1, <3>1, NoHead
  <2> QED
    BY <2>1, <2>2
<1>3. AllTaken'
  BY <1>1, <1>2, SameData DEF AllTaken
<1>4. AllVisited'
  BY <1>1, SameData DEF RequestInv, AllVisited
<1> QED
  BY <1>1, <1>3, <1>4 DEF RequestInv, Typed, Beginning, Visiting, Taking, Ended

LEMMA RequestStep == RequestInv /\ [Next]_vars => RequestInv'
<1> SUFFICES ASSUME RequestInv, [Next]_vars PROVE RequestInv'
  OBVIOUS
<1>1. CASE UNCHANGED vars
  <2>1. UNCHANGED <<data, pc, result, todo, header_, params>>
    BY <1>1 DEF vars
  <2> QED
    BY <2>1, SameData
    DEF RequestInv, Typed, Beginning, Visiting, AllVisited, Taking, AllTaken, Rest, Taken,
        Visited
<1>2. CASE EmptyLine
  BY <1>2, TakeBodyKeeps DEF EmptyLine
<1>3. CASE FrontOfNothing
  <2>1. CASE pc = "headers" /\ TakeBody
    BY <1>3, <2>1, TakeBodyKeeps DEF FrontOfNothing
  <2>2. CASE pc' \in {"crashed", "thrown"} /\ UNCHANGED <<data, result, todo, header_, params>>
    BY <2>2
    DEF RequestInv, Typed, Beginning, Visiting, AllVisited, Taking, AllTaken, Ended
  <2> QED
    BY <1>3, <2>1, <2>2 DEF FrontOfNothing
<1> QED
  BY <1>1, <1>2, <1>3, SplitKeeps, ParseInitKeeps, ParseParamKeeps, EndInitKeeps,
     ParseHeaderKeeps DEF Next

LEMMA RequestInvCorrect == Spec => []RequestInv
BY RequestInit, RequestStep, PTL DEF Spec

-----------------------------------------------------------------------------
(* Of the headers of one name parse() keeps the last, and it invents none, *)
(* whatever the head says and wherever it is cut.                          *)
THEOREM LastHeaderWinsCorrect == Spec => []LastHeaderWins
<1>1. RequestInv => LastHeaderWins
  <2> SUFFICES ASSUME RequestInv, pc = "done", HeadRead(data)
               PROVE  LastHeaderWins
    BY DEF LastHeaderWins
  <2> DEFINE n == HeadLen(data)
  <2>1. Wins(header_, HeaderNames, HeaderValues, 2, n - 1)
    BY DEF RequestInv, AllTaken
  <2>2. n \in 1 .. Len(data.lines)
    <3>1. Blanks(data) # {} /\ n > 1
      BY DEF HeadRead, HeadLen
    <3>2. n = CHOOSE i \in Blanks(data) : \A j \in Blanks(data) : i <= j
      BY <3>1 DEF HeadLen
    <3>3. Blanks(data) \in SUBSET Nat
      BY DEF Blanks
    <3>4. \E i \in Blanks(data) : \A j \in Blanks(data) : i <= j
      BY <3>1, <3>3, Least
    <3>5. n \in Blanks(data)
      BY <3>2, <3>4
    <3> QED
      BY <3>5 DEF Blanks
  <2>3. \A i \in 2 .. n - 1 : /\ HeaderNames[i] = HeaderName(data.lines[i].text)
                              /\ HeaderValues[i] = HeaderValue(data.lines[i].text)
    BY <2>2 DEF HeaderNames, HeaderValues
  <2> HIDE DEF n
  <2>4. \A k \in DOMAIN header_ : \E i \in 2 .. n - 1 : HeaderName(data.lines[i].text) = k
    BY <2>1, <2>3 DEF Wins
  <2>5. ASSUME NEW i \in 2 .. n - 1
        PROVE  LET k == HeaderName(data.lines[i].text)
               IN /\ k \in DOMAIN header_
                  /\ (\A j \in Setting(data, k) : j <= i)
                       => header_[k] = HeaderValue(data.lines[i].text)
    BY <2>1, <2>3 DEF Wins, Setting, n
  <2> QED
    BY <2>4, <2>5 DEF LastHeaderWins, Setting, n
<1> QED
  BY <1>1, RequestInvCorrect, PTL

(* Of the parameters of one name it keeps the last, and invents none.      *)
THEOREM LastParamWinsCorrect == Spec => []LastParamWins
<1>1. RequestInv => LastParamWins
  <2> SUFFICES ASSUME RequestInv, pc \in {"headers", "done"}
               PROVE  LastParamWins
    BY DEF LastParamWins
  <2>1. Wins(params, ParamNames, ParamValues, 1, Len(Params))
    BY DEF RequestInv, AllVisited
  <2>2. \A i \in 1 .. Len(Params) :
          /\ ParamNames[i] = Params[i].name
          /\ ParamValues[i] = IF Params[i].eq THEN Params[i].value ELSE Params[i].name
    BY DEF ParamNames, ParamValues, ParamValue
  <2>3. \A k \in DOMAIN params : \E i \in 1 .. Len(Params) : Params[i].name = k
    BY <2>1, <2>2 DEF Wins
  <2>4. ASSUME NEW i \in 1 .. Len(Params),
               \A j \in 1 .. Len(Params) : Params[j].name = Params[i].name => j <= i
        PROVE  /\ Params[i].name \in DOMAIN params
               /\ params[Params[i].name] =
                    IF Params[i].eq THEN Params[i].value ELSE Params[i].name
    BY <2>1, <2>2, <2>4 DEF Wins
  <2> QED
    BY <2>3, <2>4 DEF LastParamWins, Params
<1> QED
  BY <1>1, RequestInvCorrect, PTL

-----------------------------------------------------------------------------
(* 1 when the first n lines are all of them and the last lacks its '\n'.   *)
Missing(n) == IF n = Len(data.lines) /\ data.cut THEN 1 ELSE 0

(* What is counted with n lines parsed: what they occupy, but for the '\r' *)
(* of each, and with a '\n' for each.                                      *)
Counts(c, n) == c + SumTo(Returns(data), n) = RawSize(data, n) + Missing(n)

CountInv ==
  /\ data \in Inputs
  /\ nbchar \in Nat /\ nbchar <= DataSize(data) + 2
  /\ pc \in {"split", "start", "params"} => nbchar = 0
  /\ pc = "headers" => Counts(nbchar, Taken)
  /\ PayloadKept
  /\ HeadSuffices

LEMMA Sizes ==
  ASSUME Typed
  PROVE  /\ Len(data.lines) \in Nat
         /\ Returns(data) \in [1 .. Len(data.lines) -> Nat]
         /\ Raw(data) \in [1 .. Len(data.lines) -> Nat]
         /\ \A n \in 1 .. Len(data.lines) :
              Raw(data)[n] + Missing(n) = Size[data.lines[n].text] + Returns(data)[n] + 1
<1>1. /\ Len(data.lines) \in Nat
      /\ \A n \in 1 .. Len(data.lines) : Size[data.lines[n].text] \in Nat
  BY Lines
<1>2. Returns(data) \in [1 .. Len(data.lines) -> Nat]
  BY <1>1 DEF Returns
<1>3. ASSUME NEW n \in 1 .. Len(data.lines)
      PROVE  /\ Raw(data)[n] \in Nat
             /\ Raw(data)[n] + Missing(n) = Size[data.lines[n].text] + Returns(data)[n] + 1
  <2>1. Returns(data)[n] \in Nat /\ Size[data.lines[n].text] \in Nat
    BY <1>1, <1>2
  <2>2. Raw(data)[n] = Size[data.lines[n].text] + Returns(data)[n]
                       + (IF n = Len(data.lines) /\ data.cut THEN 0 ELSE 1)
    BY DEF Raw
  <2> QED
    BY <2>1, <2>2 DEF Missing
<1>4. Raw(data) = [n \in 1 .. Len(data.lines) |-> Raw(data)[n]]
  BY DEF Raw
<1> QED
  BY <1>1, <1>2, <1>3, <1>4

LEMMA Sums ==
  ASSUME Typed, NEW n \in 0 .. Len(data.lines)
  PROVE  /\ SumTo(Returns(data), n) \in Nat /\ RawSize(data, n) \in Nat
         /\ DataSize(data) \in Nat /\ RawSize(data, n) <= DataSize(data)
<1>1. n \in 0 .. Len(data.lines) /\ Len(data.lines) \in 0 .. Len(data.lines)
      /\ n \in 0 .. Len(data.lines)
  BY Sizes
<1>2. SumTo(Returns(data), n) \in Nat
  BY <1>1, Sizes, SumGrows
<1>3. \A k \in 0 .. Len(data.lines) :
        /\ SumTo(Raw(data), k) \in Nat
        /\ \A m \in 0 .. k : SumTo(Raw(data), m) <= SumTo(Raw(data), k)
  BY Sizes, SumGrows
<1> QED
  BY <1>1, <1>2, <1>3 DEF RawSize, DataSize

(* Counting one more line.                                                 *)
LEMMA CountLine ==
  ASSUME Typed, NEW n \in Nat, n + 1 <= Len(data.lines), NEW c \in Nat, Counts(c, n)
  PROVE  Counts(c + Counted(data.lines[n + 1].text), n + 1)
<1> DEFINE size == Size[data.lines[n + 1].text]
           ret  == Returns(data)[n + 1]
           raw  == Raw(data)[n + 1]
<1>1. /\ n \in 0 .. Len(data.lines) /\ n + 1 \in 1 .. Len(data.lines)
      /\ n # Len(data.lines) /\ Len(data.lines) \in Nat
  BY Sizes
<1>2. Missing(n) = 0
  BY <1>1 DEF Missing
<1>3. /\ SumTo(Returns(data), n + 1) = SumTo(Returns(data), n) + ret
      /\ RawSize(data, n + 1) = RawSize(data, n) + raw
  BY SumStep DEF RawSize
<1>4. raw + Missing(n + 1) = size + ret + 1
  BY <1>1, Sizes
<1>5. ret \in Nat /\ raw \in Nat /\ size \in Nat /\ Missing(n + 1) \in Nat
  BY <1>1, Sizes, Lines DEF Missing
<1>6. SumTo(Returns(data), n) \in Nat /\ RawSize(data, n) \in Nat
  BY <1>1, Sums
<1>7. c + SumTo(Returns(data), n) = RawSize(data, n)
  BY <1>2, <1>6 DEF Counts
<1> HIDE DEF size, ret, raw
<1>8. (c + (size + 1)) + SumTo(Returns(data), n + 1)
        = RawSize(data, n + 1) + Missing(n + 1)
  <2> DEFINE a == SumTo(Returns(data), n)
             b == RawSize(data, n)
             m == Missing(n + 1)
  <2>1. /\ c + a = b /\ raw + m = size + ret + 1
        /\ a \in Nat /\ b \in Nat /\ m \in Nat
        /\ size \in Nat /\ ret \in Nat /\ raw \in Nat
    BY <1>4, <1>5, <1>6, <1>7
  <2> HIDE DEF a, b, m
  <2>3. (c + (size + 1)) + (a + ret) = (b + raw) + m
    BY <2>1
  <2>2. (c + (size + 1)) + (SumTo(Returns(data), n) + ret)
          = (RawSize(data, n) + raw) + Missing(n + 1)
    BY <2>3 DEF a, b, m
  <2> QED
    BY <1>3, <2>2
<1> QED
  BY <1>8 DEF Counts, Counted, size

LEMMA CountInit == Init => CountInv
<1> SUFFICES ASSUME Init PROVE CountInv
  OBVIOUS
<1>1. Typed
  BY RequestInit DEF RequestInv
<1>2. DataSize(data) \in Nat
  BY <1>1, Sizes, Sums
<1> QED
  BY <1>2 DEF Init, CountInv, PayloadKept, HeadSuffices

(* Nothing is counted, and parse() ends in no new way.                     *)
LEMMA CountStays ==
  ASSUME CountInv, UNCHANGED <<data, nbchar>>, pc' \notin {"headers", "done"},
         pc' \in {"split", "start", "params"} => nbchar = 0,
         HeadRead(data) /\ data.lines[1].text \in Rooted => pc' \notin {"thrown", "crashed"}
  PROVE  CountInv'
BY DEF CountInv, PayloadKept, HeadSuffices

(* Another line is counted.                                                *)
LEMMA CountMoves ==
  ASSUME RequestInv, CountInv, RequestInv', UNCHANGED data, pc' = "headers",
         Taken \in Nat, Taken + 1 <= Len(data.lines), Taken' = Taken + 1,
         Counts(nbchar, Taken), nbchar' = nbchar + Counted(data.lines[Taken + 1].text)
  PROVE  CountInv'
<1> DEFINE n == Taken + 1
<1>1. Typed /\ data \in Inputs /\ nbchar \in Nat
  BY DEF RequestInv, CountInv
<1>2. Counts(nbchar', n)
  BY <1>1, CountLine
<1>3. n \in 0 .. Len(data.lines) /\ Size[data.lines[n].text] \in Nat
  BY <1>1, Lines
<1> HIDE DEF n
<1>4. nbchar' \in Nat
  BY <1>1, <1>3 DEF Counted, n
<1>5. nbchar' <= DataSize(data) + 2
  BY <1>1, <1>2, <1>3, <1>4, Sums DEF Counts, Missing
<1>6. Counts(nbchar, Taken)'
  BY <1>2 DEF Counts, Missing, n
<1> QED
  BY <1>1, <1>4, <1>5, <1>6 DEF CountInv, PayloadKept, HeadSuffices

(* The body is taken: at an empty line, where it has a place, or from      *)
(* nothing, when no head was read.                                         *)
LEMMA CountBody ==
  ASSUME RequestInv, CountInv, pc = "headers", TakeBody,
         result # <<>> => Head(result) = Empty
  PROVE  CountInv'
<1>1. /\ UNCHANGED <<data, result>> /\ nbchar' = nbchar + 1
      /\ pc' = IF nbchar' <= DataSize(data) THEN "done" ELSE "thrown"
      /\ Rest /\ Typed /\ Taken > 0 /\ Counts(nbchar, Taken)
      /\ \A i \in 1 .. Taken : data.lines[i].text # Empty
      /\ nbchar \in Nat /\ data \in Inputs
  BY DEF RequestInv, Taking, TakeBody, CountInv
<1>2. /\ Taken \in 0 .. Len(data.lines) /\ Len(data.lines) \in Nat
      /\ DataSize(data) \in Nat /\ RawSize(data, Taken) \in Nat
      /\ SumTo(Returns(data), Taken) \in Nat /\ RawSize(data, Taken) <= DataSize(data)
  BY <1>1, Sizes, Sums DEF Rest
<1>3. nbchar' \in Nat /\ nbchar' <= DataSize(data) + 2
  BY <1>1, <1>2 DEF Counts, Missing
<1>4. CASE result # <<>>
  <2> DEFINE n == Taken + 1
  <2>1. n \in 1 .. Len(data.lines) /\ data.lines[n].text = Empty /\ n - 1 = Taken
    BY <1>1, <1>2, <1>4 DEF Rest, Taken, Typed
  <2>2. HeadLen(data) = n
    BY <1>1, <2>1, HeadEnds
  <2>3. Counts(nbchar', n)
    <3>1. Counted(Empty) = 1
      BY RequestAssumption DEF Counted
    <3>2. Taken \in Nat /\ Taken + 1 <= Len(data.lines)
      BY <1>2, <2>1
    <3> QED
      BY <1>1, <2>1, <3>1, <3>2, CountLine
  <2>4. /\ SumTo(Returns(data), n) = SumTo(Returns(data), Taken) + Returns(data)[n]
        /\ Returns(data)[n] \in Nat
    <3>1. Taken \in Nat
      BY <1>2
    <3>2. SumTo(Returns(data), Taken + 1) = SumTo(Returns(data), Taken) + Returns(data)[Taken + 1]
      BY <3>1, SumStep
    <3> QED
      BY <1>1, <2>1, <3>2, Sizes
  <2>5. Missing(n) = 1 => Returns(data)[n] = 1
    BY <1>1, <2>1, RequestAssumption DEF Missing, Returns
  <2>6. /\ RawSize(data, n) \in Nat /\ RawSize(data, n) <= DataSize(data)
        /\ SumTo(Returns(data), n) \in Nat
    BY <1>1, <2>1, Sums
  <2> HIDE DEF n
  <2>7. Missing(n) \in {0, 1}
    BY DEF Missing
  <2>8. nbchar' + SumTo(Returns(data), n) = RawSize(data, n) + Missing(n)
    BY <2>3 DEF Counts
  <2>9. nbchar' <= DataSize(data)
    <3>1. CASE Missing(n) = 0
      BY <1>2, <1>3, <2>6, <2>8, <3>1
    <3>2. CASE Missing(n) = 1
      BY <1>2, <1>3, <2>4, <2>5, <2>6, <2>8, <3>2
    <3> QED
      BY <2>7, <3>1, <3>2
  <2>10. pc' = "done"
    BY <1>1, <2>9
  <2>11. Whole(data) => Missing(n) = 0
    BY <1>2, <2>1, <2>2 DEF Whole, Missing
  <2>12. PayloadKept'
    BY <1>1, <2>2, <2>6, <2>8, <2>11 DEF PayloadKept, Uncounted
  <2> QED
    BY <1>1, <1>3, <2>10, <2>12 DEF CountInv, HeadSuffices
<1>5. CASE result = <<>>
  <2>1. Taken = Len(data.lines)
    BY <1>1, <1>5 DEF Taken, Typed
  <2>2. ~HeadRead(data)
    BY <1>1, <2>1, NoHead
  <2> QED
    BY <1>1, <1>3, <2>2 DEF CountInv, PayloadKept, HeadSuffices, Whole
<1> QED
  BY <1>4, <1>5

LEMMA CountStep == RequestInv /\ CountInv /\ [Next]_vars => CountInv'
<1> SUFFICES ASSUME RequestInv, CountInv, [Next]_vars PROVE CountInv'
  OBVIOUS
<1>1. RequestInv'
  BY RequestStep
<1>2. CASE UNCHANGED vars
  <2>1. UNCHANGED <<data, pc, result, nbchar>>
    BY <1>2 DEF vars
  <2>2. Taken' = Taken
    BY <2>1 DEF Taken
  <2> QED
    BY <2>1, <2>2 DEF CountInv, PayloadKept, HeadSuffices, Counts, Missing
<1>3. CASE SplitLines
  BY <1>3, CountStays DEF SplitLines, CountInv
<1>4. CASE ParseInit
  <2>1. Head(result) = data.lines[1].text
    BY <1>4 DEF ParseInit, RequestInv, Beginning, Rest, Taken, Typed
  <2> QED
    BY <1>4, <2>1, CountStays, RequestAssumption DEF ParseInit, CountInv
<1>5. CASE ParseParam
  BY <1>5, CountStays DEF ParseParam, CountInv
<1>6. CASE EndInit
  <2>1. /\ pc = "params" /\ UNCHANGED data /\ Started /\ Rest /\ Taken = 0 /\ Typed
    BY <1>6 DEF EndInit, RequestInv, Beginning, Visiting
  <2>2. Len(data.lines) \in Nat /\ Len(data.lines) > 0 /\ result # <<>>
    BY <2>1 DEF Started, Taken, Typed
  <2>3. Head(result) = data.lines[1].text
    BY <2>1, <2>2 DEF Rest, Typed
  <2>4. CASE Head(result) \in Rooted
    <3>1. pc' = "headers" /\ nbchar' = nbchar + Counted(data.lines[1].text)
          /\ result' = Tail(result)
      BY <1>6, <2>3, <2>4 DEF EndInit
    <3>2. Taken' = 1
      BY <2>1, <2>2, <3>1, TakeRest
    <3>3. Counts(nbchar, 0)
      <4>1. nbchar = 0 /\ Missing(0) = 0
        BY <2>1, <2>2 DEF CountInv, Missing
      <4>2. SumTo(Returns(data), 0) = 0 /\ RawSize(data, 0) = 0
        BY SumStep DEF RawSize
      <4> QED
        BY <4>1, <4>2 DEF Counts
    <3>4. Taken + 1 = 1
      BY <2>1
    <3> QED
      BY <1>1, <2>1, <2>2, <3>1, <3>2, <3>3, <3>4, CountMoves
  <2>5. CASE Head(result) \notin Rooted
    BY <1>6, <2>3, <2>5, CountStays DEF EndInit
  <2> QED
    BY <2>4, <2>5
<1>7. CASE ParseHeader
  <2>1. /\ pc = "headers" /\ pc' = "headers" /\ UNCHANGED data /\ result # <<>>
        /\ result' = Tail(result) /\ nbchar' = nbchar + Counted(Head(result))
        /\ Rest /\ Typed /\ Counts(nbchar, Taken)
    BY <1>7 DEF ParseHeader, RequestInv, Taking, CountInv
  <2> QED
    BY <1>1, <2>1, TakeRest, CountMoves
<1>8. CASE EmptyLine
  BY <1>8, CountBody DEF EmptyLine
<1>9. CASE FrontOfNothing
  <2>1. CASE pc = "headers" /\ TakeBody
    BY <1>9, <2>1, CountBody DEF FrontOfNothing
  <2>2. CASE pc' \in {"crashed", "thrown"} /\ UNCHANGED <<data, nbchar>>
    <3>1. ~HeadRead(data)
      <4>1. Typed /\ Rest /\ result = <<>>
        BY <1>9 DEF FrontOfNothing, RequestInv, Beginning, Taking
      <4>2. Taken = Len(data.lines)
        BY <4>1 DEF Taken, Typed
      <4>3. pc \in {"start", "headers"} /\ (pc = "start" => Len(data.lines) = 0)
        BY <1>9, <4>2 DEF FrontOfNothing, RequestInv, Beginning
      <4>4. \A i \in 1 .. Len(data.lines) : data.lines[i].text # Empty
        BY <4>2, <4>3 DEF RequestInv, Taking
      <4> QED
        BY <4>1, <4>4, NoHead
    <3> QED
      BY <2>2, <3>1, CountStays
  <2> QED
    BY <1>9, <2>1, <2>2 DEF FrontOfNothing
<1> QED
  BY <1>2, <1>3, <1>4, <1>5, <1>6, <1>7, <1>8, <1>9 DEF Next

LEMMA CountInvCorrect == Spec => []CountInv
BY RequestInvCorrect, CountInit, CountStep, PTL DEF Spec

-----------------------------------------------------------------------------
(* The variables have their types, and nbchar never goes past the end of   *)
(* the data by more than two.                                              *)
THEOREM TypeCorrect == Spec => []TypeOK
<1>1. RequestInv /\ CountInv => TypeOK
  BY RequestAssumption DEF RequestInv, Typed, CountInv, TypeOK
<1> QED
  BY <1>1, RequestInvCorrect, CountInvCorrect, PTL

(* Between two lines, nbchar is what the lines taken occupy in the data,   *)
(* less the '\r' of each that had one, a '\n' the last line lacks counted   *)
(* all the same (request.cc:34-55).                                        *)
THEOREM CountCorrect == Spec => [](pc = "headers" => Counts(nbchar, Taken))
<1>1. CountInv => (pc = "headers" => Counts(nbchar, Taken))
  BY DEF CountInv
<1> QED
  BY <1>1, CountInvCorrect, PTL

(* The body is the payload preceded by as many bytes of the head as lines  *)
(* of it ended in a carriage return, for requests of any length.           *)
THEOREM PayloadKeptCorrect == Spec => []PayloadKept
<1>1. CountInv => PayloadKept
  BY DEF CountInv
<1> QED
  BY <1>1, CountInvCorrect, PTL

(* A request whose head was read and starts well is accepted.              *)
THEOREM HeadSufficesCorrect == Spec => []HeadSuffices
<1>1. CountInv => HeadSuffices
  BY DEF CountInv
<1> QED
  BY <1>1, CountInvCorrect, PTL

=============================================================================
