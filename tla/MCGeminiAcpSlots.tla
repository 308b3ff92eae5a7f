-------------------------- MODULE MCGeminiAcpSlots --------------------------
(* Values of the constants of GeminiAcpSlots for TLC: four requests, the last  *)
(* two of them streamed.                                                       *)
EXTENDS GeminiAcpSlots

MCRequests == 11..14
MCStreams == {13, 14}
=============================================================================
