---------------------------- MODULE NamesProofs -----------------------------
(***************************************************************************)
(* Proofs about Names: for any number of threads and any names a client    *)
(* may send, operator[] inserts nothing, whatever rows the tables have,    *)
(* and every look-up is answered from the row of its key.                  *)
(***************************************************************************)
EXTENDS Names, TLAPS

IsMap(f) == f = [k \in DOMAIN f |-> f[k]]

AreMaps(f) == f = [m \in Tables |-> f[m]] /\ \A m \in Tables : IsMap(f[m])

(* A thread only indexes a map after it has found the key there.           *)
LookingOK(l) ==
  /\ l = [table |-> l.table, by |-> l.by, key |-> l.key, at |-> l.at, answer |-> l.answer]
  /\ l.at \in {"idle", "find", "index", "done"}
  /\ l.at \in {"find", "index"} => l.table \in Tables
  /\ l.at = "index" => l.key \in DOMAIN Map(l)

NamesInv ==
  /\ AreMaps(str_to_value) /\ AreMaps(value_to_str)
  /\ looking = [t \in Threads |-> looking[t]]
  /\ \A t \in Threads : LookingOK(looking[t])

(* operator[] on a key that is there leaves the map as it is.              *)
LEMMA IndexReads ==
  ASSUME NEW f, IsMap(f), NEW k \in DOMAIN f, NEW x
  PROVE  Indexed(f, k, x) = f
<1>1. DOMAIN f \cup {k} = DOMAIN f
  OBVIOUS
<1>2. Indexed(f, k, x) = [i \in DOMAIN f |-> f[i]]
  BY <1>1 DEF Indexed
<1> QED
  BY <1>2 DEF IsMap

LEMMA OneMapReads ==
  ASSUME NEW f, AreMaps(f), NEW m \in Tables, NEW k \in DOMAIN f[m], NEW x
  PROVE  [f EXCEPT ![m] = Indexed(@, k, x)] = f
<1>1. Indexed(f[m], k, x) = f[m]
  BY IndexReads DEF AreMaps
<1> QED
  BY <1>1 DEF AreMaps

LEMMA IndexStays ==
  ASSUME NamesInv, NEW t \in Threads, Index(t)
  PROVE  UNCHANGED <<str_to_value, value_to_str>>
<1> DEFINE l == looking[t]
<1>1. l.table \in Tables /\ l.key \in DOMAIN Map(l)
  BY DEF NamesInv, LookingOK, Index
<1>2. CASE l.by = "name"
  <2>1. l.key \in DOMAIN str_to_value[l.table]
    BY <1>1, <1>2 DEF Map
  <2>2. /\ str_to_value' = [str_to_value EXCEPT ![l.table] = Indexed(@, l.key, 0)]
        /\ UNCHANGED value_to_str
    BY <1>2 DEF Index
  <2> QED
    BY <1>1, <2>1, <2>2, OneMapReads DEF NamesInv
<1>3. CASE l.by # "name"
  <2>1. l.key \in DOMAIN value_to_str[l.table]
    BY <1>1, <1>3 DEF Map
  <2>2. /\ value_to_str' = [value_to_str EXCEPT ![l.table] = Indexed(@, l.key, "")]
        /\ UNCHANGED str_to_value
    BY <1>3 DEF Index
  <2>3. \A x : [value_to_str EXCEPT ![l.table] = Indexed(@, l.key, x)] = value_to_str
    BY <1>1, <2>1, OneMapReads DEF NamesInv
  <2> QED
    BY <2>2, <2>3
<1> QED
  BY <1>2, <1>3

LEMMA NamesInit == Init => NamesInv
<1> SUFFICES ASSUME Init PROVE NamesInv
  OBVIOUS
<1>1. \A rows : IsMap(CreateMap(rows, 1)) /\ IsMap(CreateMap(rows, 2))
  BY DEF IsMap, CreateMap
<1>2. AreMaps(str_to_value) /\ AreMaps(value_to_str)
  BY <1>1 DEF Init, AreMaps
<1>3. LookingOK(Idle)
  BY DEF LookingOK, Idle
<1> QED
  BY <1>2, <1>3 DEF Init, NamesInv

LEMMA NamesStep == NamesInv /\ [Next]_vars => NamesInv'
<1> SUFFICES ASSUME NamesInv, [Next]_vars PROVE NamesInv'
  OBVIOUS
<1>1. CASE UNCHANGED vars
  BY <1>1 DEF vars, NamesInv, LookingOK, Map
<1>2. ASSUME NEW t \in Threads, Call(t) \/ Find(t) \/ Index(t) \/ Return(t)
      PROVE  NamesInv'
  <2>1. UNCHANGED <<str_to_value, value_to_str>>
    BY <1>2, IndexStays DEF Call, Find, Return
  <2>2. LookingOK(looking[t]) /\ looking = [u \in Threads |-> looking[u]]
    BY DEF NamesInv
  <2>3. \A u \in Threads \ {t} : looking'[u] = looking[u]
    BY <1>2, <2>2 DEF Call, Find, Index, Return, Answer
  <2>4. \A k : Map(k)' = Map(k)
    BY <2>1 DEF Map
  <2>5. LookingOK(looking[t])'
    <3> DEFINE l == looking[t]
    <3>1. CASE Call(t)
      <4>1. PICK m \in Tables, by \in {"name", "value"} :
              \E key : looking' = [looking EXCEPT ![t] =
                [table |-> m, by |-> by, key |-> key, at |-> "find", answer |-> ""]]
        BY <3>1 DEF Call
      <4>2. PICK key : looking' = [looking EXCEPT ![t] =
                [table |-> m, by |-> by, key |-> key, at |-> "find", answer |-> ""]]
        BY <4>1
      <4> QED
        BY <2>2, <4>2 DEF LookingOK
    <3>2. CASE Find(t)
      <4>1. CASE Found(l)
        <5>1. looking' = [looking EXCEPT ![t].at = "index"] /\ l.at = "find"
          BY <3>2, <4>1 DEF Find
        <5>2. looking'[t] = [l EXCEPT !.at = "index"]
          BY <2>2, <5>1
        <5>3. looking'[t] = [table |-> l.table, by |-> l.by, key |-> l.key,
                             at |-> "index", answer |-> l.answer]
          BY <2>2, <5>2 DEF LookingOK
        <5>4. l.table \in Tables /\ l.key \in DOMAIN Map(l) /\ Map(looking'[t]) = Map(l)
          BY <2>2, <4>1, <5>1, <5>3 DEF LookingOK, Found, Map
        <5> QED
          BY <2>4, <5>3, <5>4 DEF LookingOK
      <4>2. CASE ~Found(l)
        <5>1. looking' = [looking EXCEPT ![t].at = "done", ![t].answer = Default(l)]
          BY <3>2, <4>2 DEF Find, Answer
        <5> QED
          BY <2>2, <5>1 DEF LookingOK
      <4> QED
        BY <4>1, <4>2
    <3>3. CASE Index(t)
      <4>1. PICK a : looking' = [looking EXCEPT ![t].at = "done", ![t].answer = a]
        BY <3>3 DEF Index, Answer
      <4> QED
        BY <2>2, <4>1 DEF LookingOK
    <3>4. CASE Return(t)
      BY <2>2, <3>4 DEF Return, Idle, LookingOK
    <3> QED
      BY <1>2, <3>1, <3>2, <3>3, <3>4
  <2>6. looking' = [u \in Threads |-> looking'[u]]
    BY <1>2, <2>2 DEF Call, Find, Index, Return, Answer
  <2>7. ASSUME NEW u \in Threads \ {t} PROVE LookingOK(looking[u])'
    BY <2>3, <2>4 DEF NamesInv, LookingOK
  <2> QED
    BY <2>1, <2>5, <2>6, <2>7 DEF NamesInv
<1> QED
  BY <1>1, <1>2 DEF Next

LEMMA NamesInvCorrect == Spec => []NamesInv
BY NamesInit, NamesStep, PTL DEF Spec

(* However many threads look names up, none inserts one: the maps they     *)
(* share without a lock are only read.                                     *)
THEOREM OnlyReadCorrect == Spec => OnlyRead
<1>1. NamesInv /\ [Next]_vars => [UNCHANGED <<str_to_value, value_to_str>>]_vars
  <2> SUFFICES ASSUME NamesInv, [Next]_vars
               PROVE  UNCHANGED <<str_to_value, value_to_str>>
    OBVIOUS
  <2> QED
    BY IndexStays DEF Next, Call, Find, Return, vars
<1> QED
  BY <1>1, NamesInvCorrect, PTL DEF Spec, OnlyRead

-----------------------------------------------------------------------------
(* The keys of a map made from column k of the rows.                       *)
Column(rows, k) == {rows[i][k] : i \in DOMAIN rows}

LEMMA RowsColumn ==
  ASSUME NEW rows
  PROVE  /\ {row[1] : row \in Range(rows)} = Column(rows, 1)
         /\ {row[2] : row \in Range(rows)} = Column(rows, 2)
BY DEF Range, Column

(* A map made of rows that have no key twice: its keys are those of the    *)
(* rows, and each gets the other column of its row.                        *)
LEMMA CreatedMap ==
  ASSUME NEW rows, NEW k, NEW c, c = 3 - k,
         \A i, j \in DOMAIN rows : rows[i][k] = rows[j][k] => i = j
  PROVE  /\ DOMAIN CreateMap(rows, k) = Column(rows, k)
         /\ \A i \in DOMAIN rows : CreateMap(rows, k)[rows[i][k]] = rows[i][c]
<1>1. DOMAIN CreateMap(rows, k) = Column(rows, k)
  BY DEF CreateMap, Column
<1>2. ASSUME NEW i \in DOMAIN rows
      PROVE  CreateMap(rows, k)[rows[i][k]] = rows[i][c]
  <2> DEFINE j == CHOOSE j \in DOMAIN rows : rows[j][k] = rows[i][k]
  <2>1. j \in DOMAIN rows /\ rows[j][k] = rows[i][k]
    OBVIOUS
  <2>2. j = i
    BY <2>1
  <2>3. CreateMap(rows, k)[rows[i][k]] = rows[j][c]
    BY DEF CreateMap
  <2> QED
    BY <2>2, <2>3
<1> QED
  BY <1>1, <1>2

(* What a look-up asks for, and what it has been told when it is done.     *)
Asked(l) ==
  /\ l.table \in Tables /\ l.by \in {"name", "value"}
  /\ l.by = "name" => l.key \in Column(Rows[l.table], 1) \cup OtherNames
  /\ l.by = "value" => l.key \in Column(Rows[l.table], 2) \cup OtherValues

Told(l) == l.answer = IF Found(l) THEN Map(l)[l.key] ELSE Default(l)

AnswersInv ==
  /\ str_to_value = [m \in Tables |-> CreateMap(Rows[m], 1)]
  /\ value_to_str = [m \in Tables |-> CreateMap(Rows[m], 2)]
  /\ \A t \in Threads : /\ looking[t].at # "idle" => Asked(looking[t])
                        /\ looking[t].at = "done" => Told(looking[t])

(* The two maps of a table hold the same rows, each by its own column.     *)
LEMMA MapsOfRows ==
  ASSUME AnswersInv, NEW m \in Tables
  PROVE  /\ DOMAIN str_to_value[m] = Column(Rows[m], 1)
         /\ DOMAIN value_to_str[m] = Column(Rows[m], 2)
         /\ \A row \in Range(Rows[m]) : /\ str_to_value[m][row[1]] = row[2]
                                         /\ value_to_str[m][row[2]] = row[1]
<1> DEFINE rows == Rows[m]
<1>1. /\ \A i, j \in DOMAIN rows : rows[i][1] = rows[j][1] => i = j
      /\ \A i, j \in DOMAIN rows : rows[i][2] = rows[j][2] => i = j
  BY DistinctRows
<1>2. str_to_value[m] = CreateMap(rows, 1) /\ value_to_str[m] = CreateMap(rows, 2)
  BY DEF AnswersInv
<1>3. Range(rows) = {rows[i] : i \in DOMAIN rows}
  BY DEF Range
<1> HIDE DEF rows
<1>4. 2 = 3 - 1 /\ 1 = 3 - 2
  OBVIOUS
<1>5. /\ DOMAIN CreateMap(rows, 1) = Column(rows, 1)
      /\ \A i \in DOMAIN rows : CreateMap(rows, 1)[rows[i][1]] = rows[i][2]
  BY <1>1, <1>4, CreatedMap
<1>6. /\ DOMAIN CreateMap(rows, 2) = Column(rows, 2)
      /\ \A i \in DOMAIN rows : CreateMap(rows, 2)[rows[i][2]] = rows[i][1]
  BY <1>1, <1>4, CreatedMap
<1> QED
  BY <1>2, <1>3, <1>5, <1>6 DEF rows

LEMMA AnswersInit == Init => AnswersInv
<1> SUFFICES ASSUME Init PROVE AnswersInv
  OBVIOUS
<1>1. \A t \in Threads : looking[t].at = "idle"
  BY DEF Init, Idle
<1> QED
  BY <1>1 DEF Init, AnswersInv

LEMMA AnswersStep == NamesInv /\ AnswersInv /\ [Next]_vars => AnswersInv'
<1> SUFFICES ASSUME NamesInv, AnswersInv, [Next]_vars PROVE AnswersInv'
  OBVIOUS
<1>1. CASE UNCHANGED vars
  BY <1>1 DEF vars, AnswersInv, Asked, Told, Found, Map
<1>2. ASSUME NEW t \in Threads, Call(t) \/ Find(t) \/ Index(t) \/ Return(t)
      PROVE  AnswersInv'
  <2> DEFINE l == looking[t]
  <2>1. UNCHANGED <<str_to_value, value_to_str>>
    BY <1>2, IndexStays DEF Call, Find, Return
  <2>2. \A k : Map(k)' = Map(k)
    BY <2>1 DEF Map
  <2>3. /\ looking = [u \in Threads |-> looking[u]]
        /\ l = [table |-> l.table, by |-> l.by, key |-> l.key, at |-> l.at, answer |-> l.answer]
    BY DEF NamesInv, LookingOK
  <2>4. \A u \in Threads \ {t} : looking'[u] = looking[u]
    BY <1>2, <2>3 DEF Call, Find, Index, Return, Answer
  <2>5. ASSUME NEW a, Answer(t, a), Asked(l), a = IF Found(l) THEN Map(l)[l.key] ELSE Default(l)
        PROVE  Asked(looking'[t]) /\ Told(looking[t])'
    <3>1. looking'[t] = [table |-> l.table, by |-> l.by, key |-> l.key,
                         at |-> "done", answer |-> a]
      BY <2>3, <2>5 DEF Answer
    <3>2. Map(looking'[t]) = Map(l) /\ Default(looking'[t]) = Default(l)
      BY <3>1 DEF Map, Default
    <3> QED
      BY <2>2, <2>5, <3>1, <3>2 DEF Asked, Told, Found
  <2>6. /\ (looking[t].at # "idle" => Asked(looking[t]))'
        /\ (looking[t].at = "done" => Told(looking[t]))'
    <3>1. CASE Call(t)
      <4>1. PICK m \in Tables, by \in {"name", "value"} :
              \E key \in IF by = "name" THEN Column(Rows[m], 1) \cup OtherNames
                         ELSE Column(Rows[m], 2) \cup OtherValues :
                looking' = [looking EXCEPT ![t] =
                  [table |-> m, by |-> by, key |-> key, at |-> "find", answer |-> ""]]
        BY <3>1, RowsColumn DEF Call
      <4>2. PICK key \in IF by = "name" THEN Column(Rows[m], 1) \cup OtherNames
                         ELSE Column(Rows[m], 2) \cup OtherValues :
                looking' = [looking EXCEPT ![t] =
                  [table |-> m, by |-> by, key |-> key, at |-> "find", answer |-> ""]]
        BY <4>1
      <4>3. \E none : looking'[t] =
              [table |-> m, by |-> by, key |-> key, at |-> "find", answer |-> none]
        BY <2>3, <4>2
      <4>4. /\ looking'[t].table = m /\ looking'[t].by = by /\ looking'[t].key = key
            /\ looking'[t].at = "find"
        BY <4>3
      <4>5. Asked(looking'[t])
        BY <4>2, <4>4 DEF Asked
      <4> QED
        BY <4>4, <4>5
    <3>2. CASE Find(t) /\ Found(l)
      <4>1. looking' = [looking EXCEPT ![t].at = "index"] /\ Asked(l)
        BY <3>2 DEF Find, AnswersInv
      <4>2. looking'[t] = [table |-> l.table, by |-> l.by, key |-> l.key,
                           at |-> "index", answer |-> l.answer]
        BY <2>3, <4>1
      <4> QED
        BY <4>1, <4>2 DEF Asked
    <3>3. CASE Find(t) /\ ~Found(l)
      BY <2>5, <3>3 DEF Find, AnswersInv
    <3>4. CASE Index(t)
      <4>1. Asked(l) /\ Found(l) /\ l.at = "index"
        BY <3>4 DEF Index, AnswersInv, NamesInv, LookingOK, Found
      <4>2. Answer(t, Map(l)[l.key])
        BY <2>1, <3>4 DEF Index, Map
      <4> QED
        BY <2>5, <4>1, <4>2
    <3>5. CASE Return(t)
      BY <2>3, <3>5 DEF Return, Idle
    <3> QED
      BY <1>2, <3>1, <3>2, <3>3, <3>4, <3>5
  <2>7. ASSUME NEW u \in Threads \ {t}
        PROVE  /\ (looking[u].at # "idle" => Asked(looking[u]))'
               /\ (looking[u].at = "done" => Told(looking[u]))'
    BY <2>2, <2>4 DEF AnswersInv, Asked, Told, Found
  <2> QED
    BY <2>1, <2>6, <2>7 DEF AnswersInv
<1> QED
  BY <1>1, <1>2 DEF Next

LEMMA AnswersInvCorrect == Spec => []AnswersInv
BY AnswersInit, AnswersStep, NamesInvCorrect, PTL DEF Spec

(* Every map keeps exactly the keys of its rows, and a thread that is      *)
(* about to index one has found its key there, however many threads look   *)
(* names up at the same time.                                              *)
THEOREM TypeCorrect == Spec => []TypeOK
<1>1. NamesInv /\ AnswersInv => TypeOK
  <2> SUFFICES ASSUME NamesInv, AnswersInv PROVE TypeOK
    OBVIOUS
  <2>1. DOMAIN str_to_value = Tables /\ DOMAIN value_to_str = Tables
    BY DEF NamesInv, AreMaps
  <2>2. ASSUME NEW m \in Tables
        PROVE  /\ DOMAIN str_to_value[m] = {row[1] : row \in Range(Rows[m])}
               /\ DOMAIN value_to_str[m] = {row[2] : row \in Range(Rows[m])}
    BY MapsOfRows, RowsColumn
  <2> QED
    BY <2>1, <2>2 DEF NamesInv, LookingOK, TypeOK
<1> QED
  BY <1>1, NamesInvCorrect, AnswersInvCorrect, PTL

(* Every look-up is answered from the row of its key, in both directions,  *)
(* and an unknown key with the function's own default, however many        *)
(* threads look up at the same time.                                       *)
THEOREM RoundTripCorrect == Spec => []RoundTrip
<1>1. AnswersInv => RoundTrip
  <2> SUFFICES ASSUME AnswersInv, NEW t \in Threads, looking[t].at = "done"
               PROVE  LET l == looking[t] IN
                 IF l.by = "name"
                 THEN IF l.key \in OtherNames
                      THEN l.answer = IF l.table = "error" THEN 500 ELSE 0
                      ELSE /\ l.answer \in DOMAIN value_to_str[l.table]
                           /\ value_to_str[l.table][l.answer] = l.key
                 ELSE IF l.key \in OtherValues THEN l.answer = ""
                      ELSE /\ l.answer \in DOMAIN str_to_value[l.table]
                           /\ str_to_value[l.table][l.answer] = l.key
    BY DEF RoundTrip
  <2> DEFINE l == looking[t]
             rows == Range(Rows[l.table])
  <2>1. Asked(l) /\ Told(l)
    BY DEF AnswersInv
  <2>2. \A row \in rows : row[1] \notin OtherNames /\ row[2] \notin OtherValues
    BY <2>1, NamesAssumption DEF Asked
  <2>3. /\ DOMAIN str_to_value[l.table] = {row[1] : row \in rows}
        /\ DOMAIN value_to_str[l.table] = {row[2] : row \in rows}
        /\ \A row \in rows : /\ str_to_value[l.table][row[1]] = row[2]
                              /\ value_to_str[l.table][row[2]] = row[1]
    BY <2>1, MapsOfRows, RowsColumn DEF Asked
  <2> HIDE DEF rows
  <2>4. CASE l.by = "name"
    <3>1. CASE l.key \in OtherNames
      BY <2>1, <2>2, <2>3, <2>4, <3>1 DEF Told, Found, Map, Default
    <3>2. CASE l.key \notin OtherNames
      <4>1. PICK row \in rows : l.key = row[1]
        BY <2>1, <2>4, <3>2, RowsColumn DEF Asked, rows
      <4>2. l.answer = row[2]
        BY <2>1, <2>3, <2>4, <4>1 DEF Told, Found, Map
      <4> QED
        BY <2>3, <2>4, <3>2, <4>1, <4>2
    <3> QED
      BY <3>1, <3>2
  <2>5. CASE l.by = "value"
    <3>1. CASE l.key \in OtherValues
      BY <2>1, <2>2, <2>3, <2>5, <3>1 DEF Told, Found, Map, Default
    <3>2. CASE l.key \notin OtherValues
      <4>1. PICK row \in rows : l.key = row[2]
        BY <2>1, <2>5, <3>2, RowsColumn DEF Asked, rows
      <4>2. l.answer = row[1]
        BY <2>1, <2>3, <2>5, <4>1 DEF Told, Found, Map
      <4> QED
        BY <2>3, <2>5, <3>2, <4>1, <4>2
    <3> QED
      BY <3>1, <3>2
  <2> QED
    BY <2>1, <2>4, <2>5 DEF Asked
<1> QED
  BY <1>1, AnswersInvCorrect, PTL

=============================================================================
