----------------------------- MODULE MCCopyCode -----------------------------
(* Layouts for CopyCode.  The reach of a 32-bit displacement is scaled to  *)
(* 1000; the function is at 2000.                                          *)
EXTENDS CopyCode

FunctionAt == 2000

\* Inside the function's short reach, and elsewhere in its module.
ModuleTargets == {1980, 2080, 2600}

\* One buffer out of reach of a 32-bit displacement, one in its reach, one so
\* near that jumps between it and the function are short.
AllBuffers == {1900, 2300, 5000}

\* The reach of a 32-bit displacement is 1000.
FarBuffers == {5000}

Lengths == {1, 3, 7, 15}

\* The layouts are those the theorems on where control leaves a buffer speak
\* of, but for the one whose jump to the rest goes 130 bytes.
ASSUME LayoutsApart == Buffers = {1870} \/ Apart
=============================================================================
