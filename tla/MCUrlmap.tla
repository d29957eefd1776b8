------------------------------ MODULE MCUrlmap ------------------------------
(* Maps of up to three keys and URIs of up to four characters, for TLC.    *)
EXTENDS Urlmap, SequencesExt, FiniteSets

(* "/", "/a", "/a/", "/a/b", "/b", "http://b/a", "http://b", and           *)
(* "http://a/b/a", whose location is "/a" too.                             *)
Keys == {<<"/">>, <<"/", "a">>, <<"/", "a", "/">>, <<"/", "a", "/", "b">>,
         <<"/", "b">>, <<Scheme, "b", "/", "a">>, <<Scheme, "b">>,
         <<Scheme, "a", "/", "b", "/", "a">>}

(* The order of the keys decides nothing: any will do.                     *)
SmallMaps == {SetToSeq(ks) : ks \in {s \in SUBSET Keys : Cardinality(s) <= 3}}

SmallUris == {<<"/">> \o u : u \in BoundedSeq({"/", "a", "b"}, 3)}
=============================================================================
