----------------------------- MODULE MCSandbox -----------------------------
EXTENDS Sandbox

\* Candidate runs that are twice as fast as the baseline, and equally fast.
MCWidth == <<1, 2>>
=============================================================================
