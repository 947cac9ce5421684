------------------------------ MODULE BlockShapes ------------------------------
(***************************************************************************)
(* The block of a sparse image that one bind covers (sparse_binding.cpp),  *)
(* which the layer tells for every format on its own.  A format is its     *)
(* VkFormat number; the names of the sets are those of their first parts.  *)
(***************************************************************************)
EXTENDS Integers, Sequences, FiniteSets

CONSTANTS
    ExtensionFormats    \* formats of extensions, but for ASTC SFLOAT

VARIABLES
    asked,              \* the format the application asked for last; 0: none
    imageGranularity    \* what it was told

shapeVars == <<asked, imageGranularity>>

\* VK_FORMAT_ASTC_12x12_SFLOAT_BLOCK and the 13 before it are an extension's.
AstcSfloat == 1000066000

\* The blocks of ASTC in the order of their formats.
AstcBlocks ==
    <<<<4, 4>>, <<5, 4>>, <<5, 5>>, <<6, 5>>, <<6, 6>>, <<8, 5>>, <<8, 6>>, <<8, 8>>,
      <<10, 5>>, <<10, 6>>, <<10, 8>>, <<10, 10>>, <<12, 10>>, <<12, 12>>>>

\* VkFormat numbers the formats of extensions from a thousand million on.
ASSUME FormatsAssumption ==
    /\ ExtensionFormats \subseteq Int
    /\ ExtensionFormats \cap (0..184 \cup AstcSfloat..(AstcSfloat + 13)) = {}

Astc == 157..184 \cup AstcSfloat..(AstcSfloat + 13)

\* Blocks of four by four: BC1 to BC7, ETC2 and EAC.
FourByFour == 131..146 \cup 147..156

\* Faulty variant: ETC2 and EAC are forgotten.
GetBlockDimensionsMutant(format) ==
    CASE format \in 157..184 -> AstcBlocks[((format - 157) \div 2) + 1]
      [] format \in AstcSfloat..(AstcSfloat + 13) -> AstcBlocks[(format - AstcSfloat) + 1]
      [] format \in 131..146 -> <<4, 4>>
      [] OTHER -> <<1, 1>>

\* Width and height of a block of texels.
GetBlockDimensions(format) ==
    CASE format \in 157..184 -> AstcBlocks[((format - 157) \div 2) + 1]
      [] format \in AstcSfloat..(AstcSfloat + 13) -> AstcBlocks[(format - AstcSfloat) + 1]
      [] format \in FourByFour -> <<4, 4>>
      [] OTHER -> <<1, 1>>

\* The formats of GetTexelBytes, by size, but for those of four bytes.
Listed ==
    [one     |-> 9..15 \cup {127},                          \* R8, S8
     two     |-> 16..22 \cup 70..76 \cup {124},             \* R8G8, R16, D16
     eight   |-> 91..97 \cup 101..103 \cup 110..112         \* R16G16B16A16, R32G32
                   \cup 131..134 \cup 139..140              \* BC1, BC4
                   \cup 147..150 \cup 153..154,             \* ETC2 RGB, EAC R11
     sixteen |-> 107..109 \cup 113..115                     \* R32G32B32A32, R64G64
                   \cup 135..138 \cup 141..146              \* BC2, BC3, BC5 to BC7
                   \cup 151..152 \cup 155..156 \cup Astc]   \* ETC2 RGBA, EAC R11G11

\* Bytes of a texel, or of a block of texels; four, too, if a format is unknown.
GetTexelBytes(format) ==
    CASE format \in Listed.one -> 1
      [] format \in Listed.two -> 2
      [] format \in Listed.eight -> 8
      [] format \in Listed.sixteen -> 16
      [] OTHER -> 4

GetBlockShape(format) ==
    LET shape == CASE GetTexelBytes(format) = 1 -> <<256, 256>>
                   [] GetTexelBytes(format) = 2 -> <<256, 128>>
                   [] GetTexelBytes(format) = 4 -> <<128, 128>>
                   [] GetTexelBytes(format) = 8 -> <<128, 64>>
                   [] GetTexelBytes(format) = 16 -> <<64, 64>>
        block == GetBlockDimensions(format)
    IN  <<shape[1] * block[1], shape[2] * block[2]>>

Formats == 1..184 \cup Astc \cup ExtensionFormats

ShapesInit == asked = 0 /\ imageGranularity = <<0, 0>>

\* For images of two dimensions and one sample, the only ones the layer answers
\* for; the driver answers for others.
GetPhysicalDeviceSparseImageFormatProperties2(format) ==
    /\ asked' = format
    /\ imageGranularity' = GetBlockShape(format)

ShapesNext == \E f \in Formats : GetPhysicalDeviceSparseImageFormatProperties2(f)

ShapesSpec == ShapesInit /\ [][ShapesNext]_shapeVars

-------------------------------------------------------------------------------
(***************************************************************************)
(* What Vulkan says of the formats: bits of a texel or block, and blocks.  *)
(* Formats of other sizes, such as three bytes, have no standard shape.    *)
(***************************************************************************)

\* Runs of formats of one size: the first and last of each, and their bytes.
Sizes ==
    {<<1, 1, 1>>, <<2, 8, 2>>, <<9, 15, 1>>, <<16, 22, 2>>, <<37, 69, 4>>, <<70, 76, 2>>,
     <<77, 83, 4>>, <<91, 97, 8>>, <<98, 100, 4>>, <<101, 103, 8>>, <<107, 109, 16>>,
     <<110, 112, 8>>, <<113, 115, 16>>, <<122, 123, 4>>, <<124, 124, 2>>, <<125, 126, 4>>,
     <<127, 127, 1>>, <<129, 129, 4>>, <<131, 134, 8>>, <<135, 138, 16>>, <<139, 140, 8>>,
     <<141, 146, 16>>, <<147, 150, 8>>, <<151, 152, 16>>, <<153, 154, 8>>, <<155, 184, 16>>,
     <<AstcSfloat, AstcSfloat + 13, 16>>}

Compressed == 131..184 \cup Astc

\* Blocks are 64 KiB, square or twice as wide as high.
IsStandard(shape, format, bytes) ==
    LET block == IF format \in Compressed THEN GetBlockDimensions(format) ELSE <<1, 1>>
        wide == shape[1] \div block[1]
        high == shape[2] \div block[2]
    IN  /\ wide * high * bytes = 65536
        /\ wide \in {high, 2 * high}
        /\ wide * block[1] = shape[1] /\ high * block[2] = shape[2]
        /\ format \in Compressed => block[1] >= 4 /\ block[2] >= 4

\* The packed formats of one and two bytes, of which GetTexelBytes logs that
\* they are "not found" (so it does of those of four, with no effect).
Unlisted == 1..8

\* A format whose standard shape the layer knows is told it, so that binds of
\* whole blocks stay within their 64 KiB of memory, though sizes, blocks and
\* shapes come from three tables.  Any other is told the shape of four bytes:
\* the packed formats of one and two bytes and formats of extensions, be they of
\* one byte (A8_UNORM), of eight (R10X6G10X6B10X6A10X6) or compressed (PVRTC),
\* for which it is wrong, and formats of other sizes, which have no such shape.
ShapesStandard ==
    asked # 0 =>
        \/ \E s \in Sizes : /\ asked \in s[1]..s[2] /\ asked \notin Unlisted
                            /\ IsStandard(imageGranularity, asked, s[3])
        \/ /\ \A s \in Sizes : asked \in s[1]..s[2] => asked \in Unlisted
           /\ imageGranularity = <<128, 128>>
===============================================================================
