----------------------------- MODULE MCResponse -----------------------------
(* Headers and bodies for TLC.                                             *)
EXTENDS Response, TLC

MCNames == {"Content-Length", "Content-Type", "Date", "Server", "content-length"}
MCLower(n) == IF n = "Content-Length" THEN "content-length" ELSE n
MCDecimal(n) == ToString(n)
MCBodies == {<<>>, <<1>>, <<1, 2>>}
=============================================================================
