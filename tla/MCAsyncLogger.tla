---------------------------- MODULE MCAsyncLogger ----------------------------
\* Instances of AsyncLogger for TLC.
EXTENDS AsyncLogger

\* The second entry is one that json.Marshal refuses.
OneUnencodable == {2}
=============================================================================
