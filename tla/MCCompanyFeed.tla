--------------------------- MODULE MCCompanyFeed ---------------------------
(* Small instances of CompanyFeed: attachments, feeds and calls are alike. *)
EXTENDS CompanyFeed, TLC

Symmetry == Permutations(Feeds) \cup Permutations(Attachments) \cup Permutations(Calls)
=============================================================================
