------------------------------ MODULE MCLedger ------------------------------
(* Two commands and those that come later, and a spool with room for two    *)
(* events, so that one is full while the other command still writes.        *)
EXTENDS Ledger
=============================================================================
