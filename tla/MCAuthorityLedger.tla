--------------------------- MODULE MCAuthorityLedger ---------------------------
(* AuthorityLedger on a small instance, for TLC: MCAuthorityLedger.cfg.      *)
EXTENDS AuthorityLedger
================================================================================
