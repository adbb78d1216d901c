---------------------------- MODULE MCCoaBuilder ----------------------------
(* The builder run on the file's own body.                                 *)
EXTENDS CoaCatalog

MCProgram == Catalog

=============================================================================
