---------------------------- MODULE MCMdnsSearch ----------------------------
(* A caller of mdns_query that wants one result and an asynchronous search *)
(* that wants all there are, for a service or for an address.              *)
EXTENDS MdnsSearch, TLC

MCMaxResults == [s \in Searches |-> IF s \in Blocking THEN 1 ELSE 0]
=============================================================================
