--------------------------- MODULE MCSparseResources --------------------------
(* A small instance: a buffer whose memory is larger than the application     *)
(* asked for, and an image.                                                   *)
EXTENDS SparseResources

CONSTANTS t1, h1, h2

MCRequests ==
    {[kind |-> "buffer", size |-> 1, required |-> 2],
     [kind |-> "image", size |-> 0, required |-> 3]}
===============================================================================
