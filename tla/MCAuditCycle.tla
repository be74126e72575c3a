---------------------------- MODULE MCAuditCycle ----------------------------
(* Small instances of AuditCycle.  Sessions, contents and departments are    *)
(* interchangeable; dates and file ids are ordered.                          *)
EXTENDS AuditCycle, TLC

Interchangeable ==
  Permutations(Session) \cup Permutations(Sha) \cup Permutations(Dept)
=============================================================================
