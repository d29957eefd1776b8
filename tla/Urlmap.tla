------------------------------- MODULE Urlmap -------------------------------
(***************************************************************************)
(* lhs::middleware::urlmap (src/middleware/urlmap.cc): remap() builds the  *)
(* vector mapping_ from a std::map of locations, find_app() returns the    *)
(* first entry whose regular expression matches the URI.  A location and a *)
(* URI are sequences of characters; "http://" stands for one character of  *)
(* SchemeSize.                                                             *)
(***************************************************************************)
EXTENDS Integers, Sequences, Sums

CONSTANTS
  Chars,      (* the characters of keys and URIs                           *)
  Maps,       (* the maps given to the constructor, each the sequence of   *)
              (* its keys in their order                                   *)
  Uris,       (* the URIs requested                                        *)
  SchemeSize  (* the length of "http://"                                   *)

Scheme == "http://"
NoApp == <<"NULL">>

ASSUME UrlmapAssumption ==
  /\ SchemeSize \in Nat \ {0}
  /\ Scheme \notin Chars /\ "NULL" \notin Chars
  /\ \A keys \in Maps : /\ keys \in Seq(Seq(Chars \cup {Scheme}))
                        /\ \A i, j \in DOMAIN keys : keys[i] = keys[j] => i = j
  /\ Uris \subseteq Seq(Chars) \ {<<>>}

VARIABLES
  maps,      (* the keys remap() was called with                           *)
  visited,   (* how many of them its loop has visited                      *)
  mapping_,  (* entries [host, location, app], an app known by its key     *)
  uri,       (* the URI find_app() looks for, <<>> when it is not called   *)
  it,        (* the entry it looks at                                      *)
  found      (* what it has returned: {} while it runs, or {key}, {NoApp}  *)

vars == <<maps, visited, mapping_, uri, it, found>>

-----------------------------------------------------------------------------
Elements(s) == {s[i] : i \in DOMAIN s}

Sizes(location) ==
  [i \in 1 .. Len(location) |-> IF location[i] = Scheme THEN SchemeSize ELSE 1]

Size(location) == SumTo(Sizes(location), Len(location))

(* The slashes of a key after its scheme.                                  *)
Slashes(key) == {i \in 2 .. Len(key) : key[i] = "/"}

(* The first of the two groups of remap()'s expression is greedy: the host *)
(* is what follows the scheme, up to the last slash; the location is the   *)
(* rest.                                                                   *)
Mapping(key) ==
  IF key # <<>> /\ key[1] = Scheme /\ Slashes(key) # {}
  THEN LET last == CHOOSE i \in Slashes(key) : \A j \in Slashes(key) : j <= i
       IN [host |-> SubSeq(key, 2, last - 1),
           location |-> SubSeq(key, last, Len(key)), app |-> key]
  ELSE [host |-> <<>>, location |-> key, app |-> key]

(* Faulty variant: the shorter location comes first.                       *)
ShortestFirst(a, b) == Size(a.location) < Size(b.location)

(* sortmapping()                                                           *)
Before(a, b) == Size(a.location) > Size(b.location)

Sorted(s) == \A i, j \in DOMAIN s : i < j => ~Before(s[j], s[i])

(* What std::sort() may make of s: it need not be stable.                  *)
Sort(s) ==
  {r \in [DOMAIN s -> Elements(s)] : Elements(r) = Elements(s) /\ Sorted(r)}

(* Faulty variant: a slash stands for one slash only.                      *)
MatchesExactly(location, u) ==
  Len(location) <= Len(u) /\ SubSeq(u, 1, Len(location)) = location

(* find(u) with each "/" of the location made "/+", anchored on the left:  *)
(* what matches the i-th character begins at from[i].                      *)
Matches(location, u) ==
  \E from \in [1 .. Len(location) + 1 -> 1 .. Len(u) + 1] :
    /\ from[1] = 1
    /\ \A i \in 1 .. Len(location) :
         /\ from[i] < from[i + 1]
         /\ \A k \in from[i] .. from[i + 1] - 1 : u[k] = location[i]
         /\ location[i] # "/" => from[i + 1] = from[i] + 1

-----------------------------------------------------------------------------
Init ==
  /\ maps \in Maps
  /\ visited = 0
  /\ mapping_ = <<>>
  /\ uri = <<>>
  /\ it = 1
  /\ found = {}

(* Faulty variant: an entry that is as long as one there replaces it.      *)
RemapReplaces ==
  /\ visited < Len(maps)
  /\ LET m == Mapping(maps[visited + 1])
         kept == SelectSeq(mapping_, LAMBDA o : o.location # m.location)
     IN mapping_' \in Sort(Append(kept, m))
  /\ visited' = visited + 1
  /\ UNCHANGED <<maps, uri, it, found>>

(* One round of the loop of remap(): an entry is added and all are sorted. *)
Remap ==
  /\ visited < Len(maps)
  /\ mapping_' \in Sort(Append(mapping_, Mapping(maps[visited + 1])))
  /\ visited' = visited + 1
  /\ UNCHANGED <<maps, uri, it, found>>

(* get_response() calls find_app() for some request.                       *)
Call ==
  /\ visited = Len(maps)
  /\ uri = <<>>
  /\ uri' \in Uris
  /\ it' = 1
  /\ found' = {}
  /\ UNCHANGED <<maps, visited, mapping_>>

(* One round of the loop of find_app() that goes on.                       *)
Skip ==
  /\ uri # <<>> /\ found = {}
  /\ it <= Len(mapping_)
  /\ ~Matches(mapping_[it].location, uri)
  /\ it' = it + 1
  /\ UNCHANGED <<maps, visited, mapping_, uri, found>>

(* The round that returns.                                                 *)
Find ==
  /\ uri # <<>> /\ found = {}
  /\ it <= Len(mapping_)
  /\ Matches(mapping_[it].location, uri)
  /\ found' = {mapping_[it].app}
  /\ UNCHANGED <<maps, visited, mapping_, uri, it>>

(* return NULL                                                             *)
FindNone ==
  /\ uri # <<>> /\ found = {}
  /\ it > Len(mapping_)
  /\ found' = {NoApp}
  /\ UNCHANGED <<maps, visited, mapping_, uri, it>>

(* The application found has been called, or env.response returned.        *)
Respond ==
  /\ uri # <<>> /\ found # {}
  /\ uri' = <<>>
  /\ UNCHANGED <<maps, visited, mapping_, it, found>>

Next == Remap \/ Call \/ Skip \/ Find \/ FindNone \/ Respond

Spec == Init /\ [][Next]_vars

-----------------------------------------------------------------------------
(* What is kept of u when each run of slashes is made one.                 *)
Kept(u) ==
  [i \in 1 .. Len(u) |-> IF i > 1 /\ u[i] = "/" /\ u[i - 1] = "/" THEN 0 ELSE 1]

Rank(u, i) == SumTo(Kept(u), i)

Squeezed(u) ==
  [k \in 1 .. Rank(u, Len(u)) |->
     u[CHOOSE i \in 1 .. Len(u) : Kept(u)[i] = 1 /\ Rank(u, i) = k]]

StartsWith(u, location) ==
  Len(location) <= Len(u) /\ \A i \in 1 .. Len(location) : u[i] = location[i]

Locations == {Mapping(maps[i]).location : i \in DOMAIN maps}

(* remap() loses no entry and keeps none twice, and leaves mapping_ sorted *)
(* after each round, as find_app() needs it (urlmap.cc:53-54).             *)
MappingKept ==
  /\ {m.app : m \in Elements(mapping_)} = {maps[i] : i \in 1 .. visited}
  /\ Len(mapping_) = visited
  /\ \A i, j \in DOMAIN mapping_ :
       i < j => Size(mapping_[i].location) >= Size(mapping_[j].location)

(* For a map whose locations have no run of slashes, find_app() returns an *)
(* application whose location the URI, its runs of slashes made one,       *)
(* starts with, and no location that it starts with is longer or another   *)
(* one of the same length: the order of the keys, and what std::sort()     *)
(* makes of ties, decide only between hosts.  It returns NULL only if      *)
(* there is none (urlmap.cc:28-36).                                        *)
LongestFound ==
  (\A l \in Locations : Squeezed(l) = l) =>
    \A key \in found \ {NoApp} : uri # <<>> =>
      LET mine == Mapping(key).location
      IN /\ StartsWith(Squeezed(uri), mine)
         /\ \A l \in Locations : StartsWith(Squeezed(uri), l) /\ l # mine =>
              Size(l) < Size(mine)

NoneFound ==
  (\A l \in Locations : Squeezed(l) = l) /\ uri # <<>> /\ found = {NoApp} =>
    \A l \in Locations : ~StartsWith(Squeezed(uri), l)

=============================================================================
