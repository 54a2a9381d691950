--------------------------- MODULE MCProxyServer ---------------------------
(***************************************************************************)
(* ProxyServer for TLC. With a cap of one unit the bodies are: empty, one  *)
(* that fills the cap in each encoding and one in two encodings, one that  *)
(* breaks off within the cap, and two that exceed the cap, one of which    *)
(* breaks off behind it.                                                   *)
(***************************************************************************)
EXTENDS ProxyServer

OfSize(size, fails, encoding) ==
  [size |-> size, fails |-> fails, encoding |-> encoding, layered |-> FALSE]

Layered(b) == [b EXCEPT !.layered = TRUE]

SampleBodies ==
  {OfSize(0, FALSE, "identity"), OfSize(1, FALSE, "identity"),
   OfSize(1, FALSE, "compressed"), Layered(OfSize(1, FALSE, "compressed")),
   OfSize(1, FALSE, "unsupported"), OfSize(1, TRUE, "identity"),
   OfSize(2, FALSE, "identity"), OfSize(2, TRUE, "compressed")}
=============================================================================
