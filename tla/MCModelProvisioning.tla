------------------------ MODULE MCModelProvisioning ------------------------
(* Small instances of ModelProvisioning for TLC.                           *)
EXTENDS ModelProvisioning

MCOrder == <<"llm", "stt", "tts">>

MCLocked ==
  [g \in Groups |->
     CASE g = "llm" -> <<"gguf">>
       [] g = "stt" -> <<"bin", "vocabulary">>
       [] g = "tts" -> <<"model", "config">>]

MCWay == [g \in Groups |-> IF g = "llm" THEN "hf" ELSE g]

=============================================================================
