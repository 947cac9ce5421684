------------------------------- MODULE MCSparse -------------------------------
(* The sparse resources, vkQueueBindSparse and the block shapes, which share  *)
(* no variable, in one instance: a behaviour is one of the part chosen at its *)
(* start.                                                                     *)
EXTENDS SparseResources, BindSparse, BlockShapes

CONSTANTS t1, t2, h1, h2, h3, s1, i1, i2, m1, m2

VARIABLE part

sparseVars == <<part, vars, bindVars, shapeVars>>

\* A buffer whose memory is larger than the application asked for, and an
\* image.
MCRequests ==
    {[kind |-> "buffer", size |-> 1, required |-> 2],
     [kind |-> "image", size |-> 0, required |-> 3]}

\* The bound buffer has three bytes in two pages of two: the second page reaches
\* past the end of the buffer.
Bind(memory, offset, size) ==
    [tracked |-> TRUE, metadata |-> FALSE, offset |-> offset, size |-> size,
     memory |-> memory, memoryOffset |-> 0]

Info1(binds) == [waits |-> {}, signals |-> {}, bufferBinds |-> binds, imageBinds |-> <<>>]

MCCalls == {
    \* nothing
    [infos |-> <<>>, fence |-> TRUE],
    \* the whole buffer in two binds, of which the second reaches past its end, and
    \* an unknown buffer, in one info
    [infos |-> <<Info1({Bind(NoMemory, 0, 2), Bind(m2, 2, 2),
                        [Bind(m2, 0, 2) EXCEPT !.tracked = FALSE]})>>, fence |-> TRUE],
    \* from another offset of the memory; a metadata bind, which has no effect; and
    \* the image
    [infos |-> <<[Info1({[Bind(m1, 0, 2) EXCEPT !.memoryOffset = 2],
                         [Bind(m2, 2, 1) EXCEPT !.metadata = TRUE]})
                     EXCEPT !.imageBinds = <<m1>>]>>, fence |-> FALSE],
    \* three infos that overwrite each other, with the application's semaphore
    [infos |-> <<[Info1({Bind(m1, 0, 3)}) EXCEPT !.waits = {s1}],
                 Info1({Bind(NoMemory, 0, 2)}),
                 Info1({Bind(m2, 2, 1)})>>, fence |-> TRUE],
    \* two infos chained by the application, and image binds
    [infos |-> <<[Info1({}) EXCEPT !.signals = {s1}, !.imageBinds = <<NoMemory, m1>>],
                 [Info1({}) EXCEPT !.waits = {s1}, !.imageBinds = <<m1, NoMemory>>]>>,
     fence |-> TRUE]}

\* R10X6_UNORM_PACK16, R10X6G10X6B10X6A10X6_UNORM_4PACK16, A8_UNORM and PVRTC1_2BPP.
MCExtensionFormats == {1000156007, 1000156009, 1000470001, 1000054000}

SparseInit ==
    /\ part \in {"resources", "binds", "shapes"}
    /\ Init
    /\ BindInit
    /\ ShapesInit

SparseNext ==
    /\ UNCHANGED part
    /\ \/ part = "resources" /\ Next /\ UNCHANGED <<bindVars, shapeVars>>
       \/ part = "binds" /\ BindNext /\ UNCHANGED <<vars, shapeVars>>
       \/ part = "shapes" /\ ShapesNext /\ UNCHANGED <<vars, bindVars>>

SparseSpec == SparseInit /\ [][SparseNext]_sparseVars /\ Fairness
===============================================================================
