------------------------- MODULE MCDiagnosticWriter -------------------------
(***************************************************************************)
(* stderr is a pipe, another pipe, a socket, a file, or a descriptor that  *)
(* cannot be written to.                                                   *)
(***************************************************************************)
EXTENDS DiagnosticWriter

MCFile(k, a, i) == [kind |-> k, access |-> a, id |-> i]

MCFiles ==
    {MCFile("fifo", "write", 1), MCFile("fifo", "write", 2),
     MCFile("fifo", "read", 1), MCFile("socket", "write", 3),
     MCFile("other", "write", 4), MCFile("other", "path", 5)}
=============================================================================
