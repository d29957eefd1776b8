------------------------------- MODULE Names --------------------------------
(***************************************************************************)
(* The names of methods, versions and errors (src/protocol/http.cc and     *)
(* include/protocol/http.h): two maps for each, filled before main() and   *)
(* then shared by all client threads without a lock.  A look-up asks       *)
(* find() whether the key is there and then takes it with operator[],      *)
(* which would insert a missing key: what two threads may do at the same   *)
(* time only as long as nobody inserts.                                    *)
(***************************************************************************)
EXTENDS Naturals, Sequences, SequencesExt

CONSTANTS
  Threads,
  OtherNames, OtherValues  (* keys no table has: a name a client may send, *)
                           (* a code that was never initialised            *)

(* Rows are <<name, value>>.                                               *)
Methods ==
  <<<<"UNKNOW", 0>>, <<"OPTION", 1>>, <<"GET", 2>>, <<"HEAD", 3>>, <<"POST", 4>>,
  <<"PUT", 5>>, <<"DELETE", 6>>, <<"TRACE", 7>>, <<"CONNECT", 8>>>>

Versions == <<<<"HTTP/unknow", 0>>, <<"HTTP/1.0", 1>>, <<"HTTP/1.1", 2>>>>

Errors ==
  <<<<"ERROR_UNKNOW", 0>>, <<"Continue", 100>>, <<"Switching Protocols", 101>>,
  <<"Processing", 102>>, <<"Connection timed out", 118>>, <<"OK", 200>>,
  <<"Created", 201>>, <<"Accepted", 202>>, <<"Non-Authoritative Information", 203>>,
  <<"No Content", 204>>, <<"Reset Content", 205>>, <<"Partial Content", 206>>,
  <<"Multi-Status", 207>>, <<"Content Different", 210>>, <<"Multiple Choices", 300>>,
  <<"Moved Permanently", 301>>, <<"Moved Temporarily", 302>>, <<"See Other", 303>>,
  <<"Not Modified", 304>>, <<"Use Proxy", 305>>, <<"Temporary Redirect", 307>>,
  <<"Too many Redirects", 310>>, <<"Bad Request", 400>>, <<"Unauthorized", 401>>,
  <<"Payment Required", 402>>, <<"Forbidden", 403>>, <<"Not Found", 404>>,
  <<"Method Not Allowed", 405>>, <<"Not Acceptable", 406>>,
  <<"Proxy Authentication Required", 407>>, <<"Request Time-out", 408>>,
  <<"Conflict", 409>>, <<"Gone", 410>>, <<"Length Required", 411>>,
  <<"Precondition Failed", 412>>, <<"Request Entity Too Large", 413>>,
  <<"Request-URI Too Long", 414>>, <<"Unsupported Media Type", 415>>,
  <<"Requested range unsatisfiable", 416>>, <<"Expectation failed", 417>>,
  <<"I'm a teapot", 418>>, <<"Unprocessable entity", 422>>, <<"Locked", 423>>,
  <<"Method failure", 424>>, <<"Unordered Collection", 425>>,
  <<"Upgrade Required", 426>>, <<"Retry With", 449>>,
  <<"Blocked by Windows Parental Controls", 450>>, <<"Internal Server Error", 500>>,
  <<"Not Implemented", 501>>, <<"Bad Gateway", 502>>, <<"Service Unavailable", 503>>,
  <<"Gateway Time-out", 504>>, <<"HTTP Version not supported", 505>>,
  <<"Insufficient storage", 507>>, <<"Bandwidth Limit Exceeded", 509>>>>

Rows == [method |-> Methods, version |-> Versions, error |-> Errors]
Tables == DOMAIN Rows

ASSUME NamesAssumption ==
  \A m \in Tables : \A row \in Range(Rows[m]) :
    row[1] \notin OtherNames /\ row[2] \notin OtherValues

(* No table has a name or a value twice: a fact of the rows of http.h,     *)
(* which TLC evaluates in full; the provers cannot compare the names.      *)
ASSUME DistinctRows ==
  \A m \in Tables : \A i, j \in DOMAIN Rows[m] : \A k \in 1..2 :
    Rows[m][i][k] = Rows[m][j][k] => i = j

VARIABLES
  str_to_value, value_to_str,  (* per table, a map                         *)
  looking                      (* per thread, what it is looking up:       *)
                               (* [table, by, key, at, answer]             *)

vars == <<str_to_value, value_to_str, looking>>

-----------------------------------------------------------------------------
(* create_map over the rows, column k giving the keys.                     *)
CreateMap(rows, k) ==
  [key \in {rows[i][k] : i \in DOMAIN rows} |->
     rows[CHOOSE i \in DOMAIN rows : rows[i][k] = key][3 - k]]

(* What a function answers for a key its map does not have.                *)
Default(l) ==
  IF l.by = "value" THEN "" ELSE IF l.table = "error" THEN 500 ELSE 0

Idle == [table |-> "none", by |-> "none", key |-> "", at |-> "idle", answer |-> ""]

Init ==
  /\ str_to_value = [m \in Tables |-> CreateMap(Rows[m], 1)]
  /\ value_to_str = [m \in Tables |-> CreateMap(Rows[m], 2)]
  /\ looking = [t \in Threads |-> Idle]

Call(t) ==
  /\ looking[t].at = "idle"
  /\ \E m \in Tables, by \in {"name", "value"} :
       \E key \in IF by = "name" THEN {row[1] : row \in Range(Rows[m])} \cup OtherNames
                 ELSE {row[2] : row \in Range(Rows[m])} \cup OtherValues :
         looking' = [looking EXCEPT ![t] = [table |-> m, by |-> by, key |-> key,
                                            at |-> "find", answer |-> ""]]
  /\ UNCHANGED <<str_to_value, value_to_str>>

Map(l) == IF l.by = "name" THEN str_to_value[l.table] ELSE value_to_str[l.table]

Answer(t, a) ==
  looking' = [looking EXCEPT ![t].at = "done", ![t].answer = a]

(* Faulty variant: nothing is asked, operator[] being trusted to answer.   *)
FoundAlways(l) == TRUE

(* Faulty variant: every function asks the map of methods.                 *)
FoundInMethods(l) ==
  l.key \in IF l.by = "name" THEN DOMAIN str_to_value.method ELSE DOMAIN value_to_str.method

(* find() != end()                                                         *)
Found(l) == l.key \in DOMAIN Map(l)

Find(t) ==
  /\ looking[t].at = "find"
  /\ IF Found(looking[t]) THEN looking' = [looking EXCEPT ![t].at = "index"]
     ELSE Answer(t, Default(looking[t]))
  /\ UNCHANGED <<str_to_value, value_to_str>>

(* operator[]: a missing key is inserted, with value 0 or "".              *)
Indexed(f, key, nothing) ==
  [k \in DOMAIN f \cup {key} |-> IF k \in DOMAIN f THEN f[k] ELSE nothing]

Index(t) ==
  LET l == looking[t]
  IN /\ l.at = "index"
     /\ IF l.by = "name"
        THEN /\ str_to_value' = [str_to_value EXCEPT ![l.table] = Indexed(@, l.key, 0)]
             /\ Answer(t, str_to_value'[l.table][l.key])
             /\ UNCHANGED value_to_str
        ELSE /\ value_to_str' = [value_to_str EXCEPT ![l.table] = Indexed(@, l.key, "")]
             /\ Answer(t, value_to_str'[l.table][l.key])
             /\ UNCHANGED str_to_value

Return(t) ==
  /\ looking[t].at = "done"
  /\ looking' = [looking EXCEPT ![t] = Idle]
  /\ UNCHANGED <<str_to_value, value_to_str>>

Next == \E t \in Threads : Call(t) \/ Find(t) \/ Index(t) \/ Return(t)

Spec == Init /\ [][Next]_vars

-----------------------------------------------------------------------------
(* Every map has the keys of its rows, no fewer and no more; a thread      *)
(* indexes one it has found.                                               *)
TypeOK ==
  /\ DOMAIN str_to_value = Tables /\ DOMAIN value_to_str = Tables
  /\ \A m \in Tables : /\ DOMAIN str_to_value[m] = {row[1] : row \in Range(Rows[m])}
                       /\ DOMAIN value_to_str[m] = {row[2] : row \in Range(Rows[m])}
  /\ \A t \in Threads : /\ looking[t].at \in {"idle", "find", "index", "done"}
                        /\ looking[t].at = "index" => looking[t].key \in DOMAIN Map(looking[t])

(* No look-up writes to a map (http.cc:3-17), whatever name a client sends *)
(* and whatever an uninitialised code is: threads may look up at the same  *)
(* time without a lock only because operator[] never inserts.              *)
OnlyRead == [][UNCHANGED <<str_to_value, value_to_str>>]_vars

(* Names and values belong together in both directions, over all rows of   *)
(* http.h:24-92: looking an answer up in the other map gives the key back; *)
(* other keys get UNKNOW, HTTP_UNKNOW, Internal_Server_Error or "", and a  *)
(* status line may so have a code without a name (response.cc:29-31).      *)
RoundTrip ==
  \A t \in Threads : LET l == looking[t] IN l.at = "done" =>
    IF l.by = "name"
    THEN IF l.key \in OtherNames THEN l.answer = IF l.table = "error" THEN 500 ELSE 0
         ELSE /\ l.answer \in DOMAIN value_to_str[l.table]
              /\ value_to_str[l.table][l.answer] = l.key
    ELSE IF l.key \in OtherValues THEN l.answer = ""
         ELSE /\ l.answer \in DOMAIN str_to_value[l.table]
              /\ str_to_value[l.table][l.answer] = l.key

=============================================================================
