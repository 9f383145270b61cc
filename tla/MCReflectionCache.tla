-------------------------- MODULE MCReflectionCache --------------------------
(* Two requests and a checker; the upgrade renames one of two services. *)
EXTENDS ReflectionCache
MCListed == <<{"a", "b"}, {"a", "c"}>>
MCHealth == {"c"}
=============================================================================
