-------------------------- MODULE MCSplitRendering --------------------------
(***************************************************************************)
(* Model checking of SplitRendering: a grid of two rows, and grids of one  *)
(* row, which sort-last can have too, for two and for three renderers,     *)
(* whose fractions are rounded; canvases that divide evenly, that do not,  *)
(* and whose parts may become empty; two rounds, so that the canvas may    *)
(* change; scenes of two meshes with triangles at two depths or out of     *)
(* sight.  The canvas away from the origin is displaced by the composer to *)
(* the left and up, and some of its parts end at a negative edge.          *)
(***************************************************************************)
EXTENDS SplitRendering

TestSizes == {<<3, 2>>, <<6, 4>>}
TestOrigins == {<<0, 0>>, <<-2, 1>>}
TestMeshes == <<1, 3>>
TestGrids == {<<2, 1>>, <<3, 1>>, <<2, 2>>}
=============================================================================
