---------------------------- MODULE MCRequestPool ----------------------------
(* RequestPool with the default of three connections, which a write and    *)
(* two polls can keep, and two statements of a request at a time.          *)
EXTENDS RequestPool

CONSTANTS w1, g1, g2, one, two
=============================================================================
