---------------------------- MODULE MCJSONServer ----------------------------
(* Instances of JSONServer for TLC.                                          *)
EXTENDS JSONServer

MCRequest(id, len, nul) == [id |-> id, len |-> len, nul |-> nul]

\* A long and a short request, closed by a NUL as the sample client's is, or not.
MCTerminated == {MCRequest(1, 2, TRUE), MCRequest(2, 1, TRUE)}
MCUnterminated == {MCRequest(1, 2, FALSE), MCRequest(2, 1, FALSE)}
MCSameLength == {MCRequest(1, 2, TRUE), MCRequest(2, 2, TRUE)}
=============================================================================
