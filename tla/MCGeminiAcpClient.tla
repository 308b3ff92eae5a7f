------------------------- MODULE MCGeminiAcpClient -------------------------
EXTENDS GeminiAcpClient
CONSTANTS m1, m2
MCModels == {m1, m2}
MCAsks == << {<<"stream", m1>>}, {"chat", "stream"} \X {m1, m2}, {<<"chat", m1>>} >>
=============================================================================
