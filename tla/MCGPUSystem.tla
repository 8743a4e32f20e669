---------------------------- MODULE MCGPUSystem ----------------------------
(* Small instances of GPUSystem for TLC: one service of one container and  *)
(* one of two, as llm and ocr in EngineManager.SERVICES.                   *)
EXTENDS GPUSystem, TLC

CONSTANTS llm, ocr, ai_llm, ai_ocr_vlm, ai_ocr_api

MCComponents ==
  [s \in Services |-> IF s = ocr THEN <<ai_ocr_vlm, ai_ocr_api>> ELSE <<ai_llm>>]

MCManaged ==
  IF ocr \in Services THEN <<ai_llm, ai_ocr_vlm, ai_ocr_api>> ELSE <<ai_llm>>

\* Request ids are interchangeable: they are only compared for equality.
RequestSymmetry == Permutations(Requests)

=============================================================================
