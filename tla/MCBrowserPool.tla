--------------------------- MODULE MCBrowserPool ---------------------------
(* A request, the health check, the background recreation and the rebuild  *)
(* of the pool over two browsers. What several requests do to each other   *)
(* beyond that (CountsRight, NeverForgotten) is proved in BrowserPoolProofs *)
(* for any number of them.                                                 *)
EXTENDS BrowserPool

CONSTANTS r1, s1
=============================================================================
