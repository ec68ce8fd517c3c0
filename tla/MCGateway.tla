------------------------------ MODULE MCGateway ------------------------------
(* A small instance of Gateway for TLC.                                    *)
EXTENDS Gateway

CONSTANTS c1, c2
=============================================================================
