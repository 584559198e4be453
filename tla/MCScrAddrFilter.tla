-------------------------- MODULE MCScrAddrFilter --------------------------
EXTENDS ScrAddrFilter

NonEmpty == (SUBSET Addr) \ {{}}

(* Every request may be for any addresses. *)
AnySets == [Req -> NonEmpty]
=============================================================================
