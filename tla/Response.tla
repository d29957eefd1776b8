------------------------------ MODULE Response ------------------------------
(***************************************************************************)
(* A response from its construction to write() (src/protocol/http/         *)
(* response.cc) and the header in it, a map from names to values of any    *)
(* type (src/protocol/http/header.cc).  The middlewares a response goes    *)
(* through, copied from one to the next, may each look a header up, assign *)
(* a string or a number to it, or replace the body; write() adds three     *)
(* headers of its own and sends everything.                                *)
(***************************************************************************)
EXTENDS Naturals, Sequences

CONSTANTS
  Names,    (* header names                                                *)
  Lower(_), (* a name in lower case                                        *)
  Decimal(_), (* a number written down                                     *)
  Strings,  (* strings a middleware may assign                             *)
  Numbers,  (* numbers it may, written down                                *)
  Bodies,   (* bodies, as sequences of bytes                               *)
  MaxOps    (* bound on what the middlewares do                            *)

Own == {"Server", "Date", "Content-Length"}  (* the headers write() sets    *)

ASSUME ResponseAssumption ==
  /\ Own \subseteq Names /\ "body" \notin Names
  /\ Lower("Content-Length") = "content-length"
  /\ \A n \in {"Server", "Date"} : Lower(n) # "content-length"
  /\ Bodies \subseteq Seq(Nat) /\ MaxOps \in Nat

VARIABLES
  datas_,  (* header::datas_: values, [type, value], of the names in it    *)
  body_,
  sent,    (* what went to the socket: [headers, body], once it did        *)
  pc,      (* "open", "sent", or "thrown" out of write()                   *)
  ops      (* history: what the middlewares have done, in order            *)

vars == <<datas_, body_, sent, pc, ops>>

Empty == [type |-> "empty", value |-> ""]
String(s) == [type |-> "string", value |-> s]
Values == {Empty} \cup {String(s) : s \in Strings}
                  \cup [type : {"number"}, value : Numbers]

Nothing == [headers |-> {}, body |-> <<>>]

-----------------------------------------------------------------------------
Init ==
  /\ datas_ = [n \in {} |-> Empty]
  /\ body_ = <<>>
  /\ sent = Nothing
  /\ pc = "open"
  /\ ops = <<>>

Do(op) ==
  /\ pc = "open"
  /\ Len(ops) < MaxOps
  /\ ops' = Append(ops, op)

(* Faulty variant: [] const, which finds nothing where nothing is.         *)
LookedUpConst(d, n) == d

(* datas_[n]: a name that is missing is inserted, with an empty value.     *)
LookedUp(d, n) == [m \in DOMAIN d \cup {n} |-> IF m \in DOMAIN d THEN d[m] ELSE Empty]

With(d, n, v) == [m \in DOMAIN d \cup {n} |-> IF m = n THEN v ELSE d[m]]

(* response[n] read                                                        *)
LookUp(n) ==
  /\ Do([name |-> n, value |-> Empty])
  /\ datas_' = LookedUp(datas_, n)
  /\ UNCHANGED <<body_, sent, pc>>

(* response[n] = v                                                         *)
Assign(n, v) ==
  /\ Do([name |-> n, value |-> v])
  /\ datas_' = With(datas_, n, v)
  /\ UNCHANGED <<body_, sent, pc>>

SetBody(b) ==
  /\ Do([name |-> "body", value |-> b])
  /\ body_' = b
  /\ UNCHANGED <<datas_, sent, pc>>

OwnHeaders(length) ==
  [n \in Own |-> String(IF n = "Content-Length" THEN Decimal(length) ELSE n)]

(* Faulty variant: write() fills the copy that header() returns.           *)
WithOwnCopied(d) == d

(* Faulty variant: a header that is there already is kept.                 *)
WithOwnKept(d) ==
  [n \in DOMAIN d \cup Own |-> IF n \in DOMAIN d THEN d[n] ELSE OwnHeaders(Len(body_))[n]]

(* The headers with the three of write(), the values of Server and Date    *)
(* standing for themselves.                                                *)
WithOwn(d) ==
  [n \in DOMAIN d \cup Own |-> IF n \in Own THEN OwnHeaders(Len(body_))[n] ELSE d[n]]

(* any_cast<std::string> succeeds                                          *)
Castable(v) == v.type = "string"

(* to_string(): one line for each entry, whatever the order of the map.    *)
ToText(d) == {<<n, d[n].value>> : n \in DOMAIN d}

(* write(): a cast that fails throws before anything is sent.              *)
Write ==
  LET d == WithOwn(datas_)
  IN /\ pc = "open"
     /\ datas_' = d
     /\ IF \A n \in DOMAIN d : Castable(d[n])
        THEN pc' = "sent" /\ sent' = [headers |-> ToText(d), body |-> body_]
        ELSE pc' = "thrown" /\ UNCHANGED sent
     /\ UNCHANGED <<body_, ops>>

Next ==
  \/ \E n \in Names : LookUp(n) \/ \E v \in Values \ {Empty} : Assign(n, v)
  \/ \E b \in Bodies : SetBody(b)
  \/ Write

Spec == Init /\ [][Next]_vars

-----------------------------------------------------------------------------
(* The variables have their types, and write() has set its headers.        *)
TypeOK ==
  /\ DOMAIN datas_ \subseteq Names
  /\ \A n \in DOMAIN datas_ : datas_[n].type \in {"empty", "string", "number"}
  /\ body_ \in Bodies \cup {<<>>}
  /\ pc \in {"open", "sent", "thrown"}
  /\ pc # "open" => Own \subseteq DOMAIN datas_

(* The headers the middlewares have mentioned.                             *)
Mentioned == {ops[i].name : i \in DOMAIN ops} \ {"body"}

(* The operations that give header n a value, and those that set the body. *)
Assignments(n) == {i \in DOMAIN ops : ops[i].name = n /\ ops[i].value # Empty}
BodySets == {i \in DOMAIN ops : ops[i].name = "body"}
LastOf(I) == CHOOSE i \in I : \A j \in I : j <= i

(* What the last of the assignments to n gave it, if any.                  *)
Final(n) == IF Assignments(n) = {} THEN Empty ELSE ops[LastOf(Assignments(n))].value
FinalBody == IF BodySets = {} THEN <<>> ELSE ops[LastOf(BodySets)].value

(* A header but those write() sets that is left a number, or was only ever *)
(* looked up, makes write() throw (header.cc:3-5, 12), which nobody        *)
(* catches; a look-up before or after an assignment does not, nor does     *)
(* anything done to Server, Date or Content-Length.                        *)
ThrowsCause ==
  pc # "open" =>
    (pc = "thrown" <=> \E n \in Mentioned \ Own : Final(n).type # "string")

(* What is sent: every header once, each with the last value it was given, *)
(* and the three of write() with its own (response.cc:22-24, 30).          *)
HeadersTrue ==
  pc = "sent" =>
    sent.headers =
      {<<n, Final(n).value>> : n \in Mentioned \ Own}
      \cup {<<n, OwnHeaders(Len(sent.body))[n].value>> : n \in Own}

(* Content-Length is the length of the body that goes out, the last one    *)
(* set, whatever length a middleware wrote; a second length goes out only  *)
(* if one spelt the name in another way, which the map takes for another   *)
(* header (header.cc:4, response.cc:24).                                   *)
LengthTrue ==
  pc = "sent" =>
    LET lengths == {h \in sent.headers : Lower(h[1]) = "content-length"}
    IN /\ sent.body = FinalBody
       /\ \E h \in lengths : h[2] = Decimal(Len(sent.body))
       /\ (\E g, h \in lengths : g # h) =>
            \E n \in Mentioned \ Own : Lower(n) = "content-length"

=============================================================================
