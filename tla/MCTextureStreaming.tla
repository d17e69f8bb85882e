------------------------- MODULE MCTextureStreaming -------------------------
(***************************************************************************)
(* The instance of TextureStreaming: two textures of two mips, of which    *)
(* one may fail to be read and the other one is never demoted once a draw  *)
(* needed it at once; a staging ring of two mips, one texture ready for    *)
(* upload at a time, one reload.                                           *)
(***************************************************************************)
EXTENDS TextureStreaming
==============================================================================
