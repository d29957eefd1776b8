---------------------------- MODULE MCMiddleware ----------------------------
(* Chains, paths and what they may name, for TLC.                          *)
EXTENDS Middleware

(* The chain lhs-server builds, and others the constructors allow.         *)
Bundled == {<<"static_file", "error_404", "urlmap">>}
Built ==
  Bundled \cup
  {<<>>, <<"about">>, <<"urlmap">>, <<"static_file">>, <<"error_404", "static_file">>,
   <<"static_file", "urlmap">>, <<"about", "error_404">>, <<"about", "static_file">>}

Nothing  == [kind |-> "none", readable |-> TRUE, content |-> <<>>, entries |-> {}]
(* Byte i of version v is <<v, i>>.                                        *)
File(v, n) == [Nothing EXCEPT !.kind = "file",
                              !.content = [i \in 1 .. n |-> <<v, i>>]]
Directory(es) == [Nothing EXCEPT !.kind = "directory", !.entries = es]
Locked(n) == [n EXCEPT !.readable = FALSE]

(* With Block = 2: a file of no bytes, of one block exactly, of a block    *)
(* and a half in two versions.                                             *)
Files == {Nothing, File(1, 0), File(1, 2), File(1, 3), File(2, 3), Locked(File(1, 3)),
          Directory({})}

(* l is a dangling link.                                                   *)
Directories == {Nothing, File(1, 3), Directory({}), Directory({"a"}),
                Directory({"a", "b"}), Directory({"b", "l"}),
                Locked(Directory({"a"}))}

All == Files \cup Directories

Few == {Nothing, File(1, 2), File(2, 3), Directory({}), Directory({"a"})}
=============================================================================
