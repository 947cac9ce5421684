--------------------------- MODULE MCNullDescriptors ---------------------------
(***************************************************************************)
(* Two parts that share no state, in one instance: a behaviour is one of   *)
(* the part chosen at its start.                                           *)
(*                                                                         *)
(* fixups: one thread makes calls of every form with one or two writes or  *)
(* entries; the other makes calls that race with it for the views.  Two    *)
(* sets have layouts of their own and one is not tracked.                  *)
(*                                                                         *)
(* hints: two threads create and destroy set layouts, pipeline layouts,    *)
(* shader modules and pipelines.                                           *)
(***************************************************************************)
EXTENDS NullDescriptors, LayoutHints, TLC

CONSTANTS t1, t2, l1, l2, s1, s2, s3, h1, h2, p1, m1

VARIABLE part

MCLayoutOf == s1 :> l1 @@ s2 :> l2 @@ s3 :> NoLayout

\* Two formats that need views of their own, one of them default for buffers.
MCPipelines ==
    {<<l1, 1, <<"2D", "R16">>>>, <<l2, 1, <<"Cube", "R32_UINT">>>>}

Write(s, b, type, nulls) ==
    [set |-> s, binding |-> b, type |-> type, nulls |-> nulls, seen |-> "own"]

\* A write with an ignored pointer left set.
Stray(write, seen) == [write EXCEPT !.seen = seen]

\* Writes for the sets whose hints differ, in either order of the layouts' use.
Updates ==
    LET First == {Write(s1, 1, "combined", {"imageView"}), Write(s1, 1, "buffer", {"buffer"}),
                  Write(s1, 2, "image", {"imageView"}), Write(s1, 1, "other", {}),
                  Write(s3, 1, "combined", {"imageView", "sampler"})}
        Second == {Write(s2, 1, "combined", {"sampler"}), Write(s2, 1, "combined", {}),
                   Write(s2, 1, "texel", {"bufferView"}),
                   Stray(Write(s2, 1, "texel", {"bufferView"}), "other"),
                   Stray(Write(s2, 1, "image", {}), "null")}
    IN  {<<w>> : w \in First} \cup (First \X Second)

\* A template or a push is for one set.
Templates ==
    LET First == {Write(s1, 1, "combined", {"imageView"}), Write(s1, 1, "other", {})}
        Second == {Write(s1, 1, "texel", {"bufferView"}), Write(s1, 1, "other", {}),
                   Write(s1, 2, "sampler", {"sampler"})}
    IN  First \X Second

\* Vertex buffers belong to no set.
VertexBuffers ==
    {<<Write(s3, 1, "vertex", x), Write(s3, 1, "vertex", y)>> :
       x \in {{}, {"buffer"}}, y \in {{}, {"buffer"}}}

Call(layout, template, items) ==
    [layout |-> layout, template |-> template, items |-> items]

MCCalls ==
    t1 :> {Call(NoLayout, FALSE, w) : w \in Updates \cup VertexBuffers}
            \cup {Call(l1, TRUE, w) : w \in Templates}
            \cup {Call(l1, FALSE, <<Write(s2, 1, "image", {"imageView"})>>)}
    @@ t2 :> {Call(NoLayout, FALSE, <<Write(s1, 1, "texel", {"bufferView"})>>)}

\* One shader shows bindings of two sets, one of a set the shorter lists lack.
MCCodes ==
    LET Binding(s, x) == [set |-> s, binding |-> 1, hint |-> x]
    IN  {{Binding(0, "2D"), Binding(1, "Cube")}, {Binding(0, "Cube")}, Unreadable}
MCSetLayoutLists == {0 :> h1, 0 :> h2 @@ 1 :> h1}
MCStageLists == {<<<<"module", m1>>>>}

MCInit ==
    /\ part \in {"fixups", "hints"}
    /\ Init
    /\ HintsInit

MCNext ==
    /\ UNCHANGED part
    /\ \/ part = "fixups" /\ Next /\ UNCHANGED layoutHintVars
       \/ part = "hints" /\ HintsNext /\ UNCHANGED vars

MCSpec == MCInit /\ [][MCNext]_<<part, vars, layoutHintVars>>
===============================================================================
