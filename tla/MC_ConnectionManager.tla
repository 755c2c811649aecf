------------------------ MODULE MC_ConnectionManager ------------------------
(***************************************************************************)
(* Instances of ConnectionManager for TLC.                                 *)
(***************************************************************************)
EXTENDS ConnectionManager, TLC

(* All servers, any of them, at least one of them: configured, or able to   *)
(* be given a connection object.                                            *)
AllServers == {Id}
AnyServers == SUBSET Id
SomeServers == (SUBSET Id) \ {{}}

(* Servers of one kind are interchangeable. *)
Symmetry == Permutations(Id)
=============================================================================
