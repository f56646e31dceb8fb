--------------------------------- MODULE MCExec ---------------------------------
(***************************************************************************)
(* Small instances of Exec.                                                *)
(***************************************************************************)
EXTENDS Exec

CONSTANTS c1, c2, h1, h2, stdout, stderr, x, nl

CallStreams == Calls \X Streams

\* On one stream two lines, one of them empty, and an unfinished one, which may
\* come in one write or in many; on the others nothing.
Lines == [w \in CallStreams |-> IF w = <<c1, stdout>> THEN {<<x, nl, nl>>} ELSE {<<>>}]

===============================================================================
