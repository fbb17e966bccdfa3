---------------------------- MODULE MCHttpResponse ----------------------------
(* Instances of HttpResponse for TLC: the sockets can be exchanged for one    *)
(* another.                                                                   *)
EXTENDS HttpResponse, TLC

SocketSymmetry == Permutations(Conns)
===============================================================================
