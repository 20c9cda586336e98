-------------------------------- MODULE MCScene --------------------------------
(* The scene graph for TLC.                                                *)
EXTENDS Scene

CONSTANTS i1

\* Meshes are empty or have two quads, the last one without an image.
Meshes == {<<>>, <<i1, Null>>}
Areas == {{}, {0}}
Offsets == {0, 1}
Symmetry == Permutations(Region) \cup Permutations(Texture)
===============================================================================
