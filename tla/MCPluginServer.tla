--------------------------- MODULE MCPluginServer ---------------------------
(* Model-checking instance of PluginServer: Clients and OutputFiles are    *)
(* sets of model values given in the .cfg files.                           *)
EXTENDS PluginServer, TLC

\* Request contexts and output paths are interchangeable (safety runs only).
Symmetry == Permutations(Clients) \cup Permutations(OutputFiles)
=============================================================================
