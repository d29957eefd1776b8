------------------------------ MODULE MCServer ------------------------------
(* Instances of ServerProperties for TLC. *)
EXTENDS ServerProperties, TLC

CONSTANTS c1, c2, c3

(* Lengths of the requests.  A read() returns at most BufferSize = 2 bytes: *)
(* a request of one byte is one short read; one of two fills a read(), and  *)
(* the loop goes on; one of three ends in a short read, or is cut earlier.  *)
Lengths32 == c1 :> 3 @@ c2 :> 2
Lengths31 == c1 :> 3 @@ c2 :> 1
Lengths21 == c1 :> 2 @@ c2 :> 1
Lengths111 == c1 :> 1 @@ c2 :> 1 @@ c3 :> 1

Symmetry == Permutations(Threads) \cup Permutations(Fds)
ConnSymmetry == Symmetry \cup Permutations(Conns)

(* Bound: states in which a hand-off has raced are checked, not explored.  *)
BeforeRace == ~raced
=============================================================================
