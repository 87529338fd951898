-------------------------- MODULE MCMdnsResponder --------------------------
(* Two interfaces on what may be one network. *)
EXTENDS MdnsResponder

MCTwin == [p \in Pcbs |-> CHOOSE q \in Pcbs : q # p]
=============================================================================
