------------------------------- MODULE MCService -------------------------------
(* TLC instance of the command service: a writable and a read-only register *)
(* that main polls, and one that it does not.                              *)
EXTENDS Service

CONSTANTS r0, r1, r2

MCRegister == {r0, r1, r2}
MCWritable == {r0, r1}
MCScan     == <<r1, r2>>

\* One kind of lapse in one behaviour, as often as it likes.
MCLapses == {{k} : k \in LapseKind}

\* A host that reads several registers in one frame.
MCMulti == {{"multi"}}

\* The same, or a host that reads a register it has just written.
MCReadLapses == {{"multi"}, {"unsettled"}}
=============================================================================
