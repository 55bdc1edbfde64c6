-------------------------- MODULE MCWinsockProgram --------------------------
(* Two modules and two functions; one extension function with a replacement *)
(* and one without, as TransmitFile; two providers.                         *)
EXTENDS WinsockProgram

ThreeOriginals == {[x |-> "ConnectEx", p |-> "tcp"], [x |-> "ConnectEx", p |-> "layered"],
                   [x |-> "TransmitFile", p |-> "tcp"]}
=============================================================================
