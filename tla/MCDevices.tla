------------------------------- MODULE MCDevices ------------------------------
(* Three parts of the device's life that share no state, in one instance: a   *)
(* behaviour is one of the part chosen at its start.                          *)
EXTENDS DeviceSetup, DeviceLife, Samplers

CONSTANTS d1, d2, a1, a2, k1, k2, k3, s1, s2, s3, s4

VARIABLE part

vars == <<part, setupVars, deviceLifeVars, samplerVars>>

Old == [apiVersion |-> 11,
        features |-> {"textureCompressionETC2", "geometryShader", "descriptorIndexing",
                      "robustImageAccess"},
        extensions |-> {"swapchain", "descriptor_indexing", "image_robustness"}]
New == [apiVersion |-> 13,
        features |-> {"textureCompressionETC2", "robustBufferAccess", "sparseBinding",
                      "descriptorIndexing", "dynamicRendering",
                      "robustImageAccess", "nullDescriptor", "deviceFault"},
        extensions |-> {"swapchain", "robustness2", "device_fault"}]
Bare == [apiVersion |-> 11, features |-> {"textureCompressionETC2"}, extensions |-> {"swapchain"}]
\* A process with one or two of these devices, with and without forced emulation.
MCEnvironments ==
    [devices : {<<Old, New>>, <<New, Old>>, <<New, Bare>>},
     emulate_null : {"auto", "on"}, emulate_sparse : {FALSE}, force_masking : {FALSE}]
    \cup {[devices |-> <<New, Old>>, emulate_null |-> "off", emulate_sparse |-> TRUE, force_masking |-> TRUE],
          [devices |-> <<Old>>, emulate_null |-> "auto", emulate_sparse |-> TRUE, force_masking |-> FALSE]}

Ask(s) == CASE s = "f2" -> {"geometryShader", "sparseBinding"}
            [] s = "v12" -> {"descriptorIndexing"}
            [] s = "v13" -> {"dynamicRendering"}
            [] s = "rob2" -> {"nullDescriptor"}
            [] OTHER -> {}
\* Chains with and without the structures that are unlinked, at both ends.
MCCompositions ==
    {[chain |-> c, on |-> [s \in {c[i] : i \in DOMAIN c} |-> Ask(s)],
      core |-> IF \E i \in DOMAIN c : c[i] = "f2" THEN None
               ELSE {"textureCompressionETC2", "geometryShader", "robustBufferAccess"},
      names |-> n] :
        c \in {<<>>, <<"v12", "v13">>, <<"f2", "v12", "rob", "v13", "rob2">>,
               <<"fault", "f2", "v13">>, <<"rob2", "v12">>, <<"v12", "rob", "v13">>},
        n \in {{"swapchain"}, {"swapchain", "robustness2"}, {"descriptor_indexing"}}}

Init ==
    /\ part \in {"setup", "life", "samplers"}
    /\ IF part = "setup" THEN SetupInit ELSE SetupInit /\ env = CHOOSE e \in Environments : TRUE
    /\ LifeInit
    /\ SamplersInit

Next ==
    /\ UNCHANGED part
    /\ \/ part = "setup" /\ SetupNext /\ UNCHANGED <<deviceLifeVars, samplerVars>>
       \/ part = "life" /\ LifeNext /\ UNCHANGED <<setupVars, samplerVars>>
       \/ part = "samplers" /\ SamplersNext /\ UNCHANGED <<setupVars, deviceLifeVars>>

Spec == Init /\ [][Next]_vars
===============================================================================
