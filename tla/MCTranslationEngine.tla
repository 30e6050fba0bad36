------------------------ MODULE MCTranslationEngine ------------------------
(* Instances of TranslationEngine for TLC.                                 *)
EXTENDS TranslationEngine
=============================================================================
