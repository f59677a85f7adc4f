--------------------------- MODULE MCConfigStore ---------------------------
(* ConfigStore with one factory key and one user key. *)
EXTENDS ConfigStore

CONSTANTS f, u
MCKeys == {f, u}
MCFactory == <<[key |-> f, val |-> 0]>>
=============================================================================
