----------------------------- MODULE MCWcmPhase -----------------------------
EXTENDS WcmPhase

AllBuilds == {{"SDK_PORT"}, {"SDK_BUILD_ARM"}, Macros}
=============================================================================
