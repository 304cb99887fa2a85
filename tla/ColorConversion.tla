--------------------------- MODULE ColorConversion ---------------------------
(***************************************************************************)
(* The choice of pixel converters in ColorConversions.c.  FFusion keeps a  *)
(* ColorConversionFuncs record, a clear and a convert function, that       *)
(* ColorConversionFindFor fills from the decoder's pixel format and, for   *)
(* planar 4:2:0 video, from the alignment of the destination.              *)
(***************************************************************************)
EXTENDS Libavcodec

(* Converters, by the name of the C function *)
Clears   == {"ClearY422", "ClearRGB24", "ClearRGB32", "ClearV408"}
Converts == {"Y420toY422_x86_scalar", "Y420toY422_sse2", "Y420_10toY422_8",
             "Y420_10toY422_8_sse2", "Y422toY422", "YA420toV408",
             "BGR24toRGB24", "RGB24toRGB24", "RGB32toRGB32Copy",
             "RGB32toARGB", "RGB32toRGB32Swap"}
SSE2     == {"Y420toY422_sse2", "Y420_10toY422_8_sse2"}

ColorConversionFuncs == [clear : Clears \cup {NULL}, convert : Converts \cup {NULL}]

NoFuncs == [clear |-> NULL, convert |-> NULL]

(* The formats FindFor has no case for: it returns paramErr on them. *)
Unconvertible == {"NONE", "GRAY8"}

ClearFor(pf) ==
  CASE pf \in {"YUV420P", "YUV420P10LE", "YUV422P"} -> "ClearY422"
    [] pf = "YUVA420P"                              -> "ClearV408"
    [] pf \in {"RGB24", "BGR24"}                    -> "ClearRGB24"
    [] OTHER                                        -> "ClearRGB32"

(* The converter for a picture of format pf; aligned says that the         *)
(* destination address, its row bytes and the picture's line size are all  *)
(* multiples of 16.                                                        *)
ConvertFor(pf, aligned) ==
  CASE pf = "YUV420P"     -> IF aligned THEN "Y420toY422_sse2"
                             ELSE "Y420toY422_x86_scalar"
    [] pf = "YUV420P10LE" -> IF aligned THEN "Y420_10toY422_8_sse2"
                             ELSE "Y420_10toY422_8"
    [] pf = "YUV422P"     -> "Y422toY422"
    [] pf = "YUVA420P"    -> "YA420toV408"
    [] pf = "BGR24"       -> "BGR24toRGB24"
    [] pf = "RGB24"       -> "RGB24toRGB24"
    [] pf = "ARGB"        -> "RGB32toRGB32Copy"
    [] pf = "RGBA"        -> "RGB32toARGB"
    [] OTHER              -> "RGB32toRGB32Swap"

(* A faulty choice: video of a format not known yet is taken for RGB.      *)
FindForUnknown(funcs, pf, havePicture, aligned) ==
  IF pf = "GRAY8" THEN funcs
  ELSE [clear   |-> ClearFor(pf),
        convert |-> ConvertFor(pf, havePicture /\ aligned)]

(***************************************************************************)
(* ColorConversionFindFor.  havePicture is FALSE when only a black frame   *)
(* is to be drawn: 8-bit 4:2:0 video then gets no convert function yet,    *)
(* 10-bit video gets the scalar one.                                       *)
(***************************************************************************)
ColorConversionFindFor(funcs, pf, havePicture, aligned) ==
  IF pf \in Unconvertible THEN funcs
  ELSE [clear   |-> ClearFor(pf),
        convert |-> IF havePicture \/ pf # "YUV420P"
                    THEN ConvertFor(pf, havePicture /\ aligned)
                    ELSE funcs.convert]

(* A faulty guess for video of a format not known yet.                     *)
DstUnknownIsRGB(pf) == IF pf = "NONE" THEN "k32ARGB" ELSE "k2vuy"

(* ColorConversionDstForPixFmt: the destination format asked of QuickTime. *)
ColorConversionDstForPixFmt(pf) ==
  CASE pf \in {"RGB24", "BGR24"}         -> "k24RGB"
    [] pf \in {"ARGB", "RGBA", "BGRA"}   -> "k32ARGB"
    [] pf = "YUVA420P"                   -> "k4444YpCbCrA8"
    [] OTHER                             -> "k2vuy"

(* The functions that convert pictures of format pf *)
ConvertersOf(pf) == {ConvertFor(pf, aligned) : aligned \in BOOLEAN}

=============================================================================
