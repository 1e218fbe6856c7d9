------------------------------ MODULE MCAcpConn ------------------------------
(* Model-checking instance of AcpConn.                                     *)
EXTENDS AcpConn
=============================================================================
