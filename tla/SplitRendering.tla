--------------------------- MODULE SplitRendering ---------------------------
(***************************************************************************)
(* Parallel rendering as in the tests sort-first and sort-last.  In every  *)
(* round the main thread hands each renderer a part of the work: a         *)
(* rectangle of the canvas (GLScreenSplitter, sort-first) or a range of    *)
(* the triangles (GLDataRangeSplitter, sort-last); the renderers draw      *)
(* their frames in threads of their own; GLFrameComposer puts the frames   *)
(* together, by position or by depth.                                      *)
(*                                                                         *)
(* A fraction x/n of a double is multiplied by a number of pixels or       *)
(* triangles and truncated.  When n is no power of 2, x/n is rounded, and  *)
(* the product may fall just below the whole number it should be: the      *)
(* variable low holds the products for which it does.  The small numbers   *)
(* of a run stand for larger ones here, such as 49 * (1/49.0).             *)
(*                                                                         *)
(* A pixel shows the nearest triangle and the point of the scene that was  *)
(* looked up for it.  All triangles are opaque and reach over the whole    *)
(* scene.                                                                  *)
(*                                                                         *)
(* A viewport's position is two ints, its size two unsigneds.  Their sum   *)
(* is an unsigned, and a negative one wraps around.                        *)
(***************************************************************************)
EXTENDS Integers, Sequences

CONSTANTS
    Sizes,    \* the canvas sizes, pairs of width and height
    Origins,  \* the canvas positions, pairs of x and y
    Grids,    \* makeGrid's arguments (sort-first), <<n, 1>> is also used for
              \* makeEvenSplit(n) (sort-last)
    Meshes,   \* the number of triangles in each mesh of the scene
    Far,      \* the depth a cleared frame has; a triangle there is not drawn
    Word,     \* 2^32, the number of values of an unsigned
    Rounds    \* bounds a run

ASSUME SplitRenderingAssumption ==
    /\ Sizes \subseteq (Nat \ {0}) \X (Nat \ {0})
    /\ Origins \subseteq Int \X Int
    /\ Grids \subseteq (Nat \ {0}) \X (Nat \ {0})
    /\ Meshes \in Seq(Nat) /\ {Far, Word, Rounds} \subseteq Nat
    \* the edges of a canvas are ints
    /\ \A o \in Origins, s \in Sizes :
         \A e \in {o[1], o[1] + s[1], o[2], o[2] + s[2]} : -Word <= 2 * e /\ 2 * e < Word

VARIABLES
    mode,      \* "first": sort-first, "last": sort-last
    grid,      \* the arguments of makeGrid
    scene,     \* the depth of each triangle
    low,       \* products that are truncated to one less
    phase,     \* what the main thread does: "split", "compose", "overlay",
               \* "display"
    round,     \* rounds completed
    canvas,    \* the canvas viewport of this round
    viewports, \* the viewport each renderer is given
    ranges,    \* the range each renderer is given
    frames,    \* the frame each renderer has sent, a texture
    failed,    \* renderers whose threads have ended by an exception
    composed,  \* frames the composer has drawn over its output
    output     \* the composer's output texture

program == <<mode, grid, scene, low>>
work == <<canvas, viewports, ranges>>
vars == <<program, work, phase, round, frames, failed, composed, output>>

\* The triangles, pairs of a mesh and a number.
Faces == UNION {{m} \X (1..Meshes[m]) : m \in DOMAIN Meshes}

\* The renderers, in the order of the composer's inputs.
NumRenderers == grid[1] * grid[2]
Renderers == 1..NumRenderers

----------------------------------------------------------------------------
(* Arithmetic on doubles *)

PowersOfTwo == {1, 2, 4, 8, 16}

\* The products a * (p / q) that may be truncated to one less than they are.
Inexact ==
    LET amounts == UNION {{s[1], s[2]} : s \in Sizes} \cup {Meshes[m] : m \in DOMAIN Meshes}
        parts == UNION {{g[1], g[2]} : g \in Grids} \ PowersOfTwo
        shares == UNION {1..(q - 1) : q \in parts}
    IN  {t \in amounts \X shares \X parts :
            t[1] > 0 /\ t[2] < t[3] /\ (t[1] * t[2]) % t[3] = 0}

\* (fault) p / q without the conversion to double.
TruncEarly(a, p, q) == a * (p \div q)

\* a * (double(p) / q), converted to an integer
Trunc(a, p, q) == (a * p) \div q - IF <<a, p, q>> \in low THEN 1 ELSE 0

----------------------------------------------------------------------------
(* Viewports and frames *)

Viewport(x, y, width, height, left, right, bottom, top) ==
    [x |-> x, y |-> y, width |-> width, height |-> height,
     left |-> left, right |-> right, bottom |-> bottom, top |-> top]

\* The canvas viewports a program may have.  The projection is counted in units
\* that make the parts' edges whole numbers.
Canvases ==
    {Viewport(o[1], o[2], s[1], s[2], 0, s[1] * grid[1], 0, s[2] * grid[2])
       : o \in Origins, s \in Sizes}

\* (fault) The projection is split at the fractions themselves, not at the
\* pixels that they are truncated to.
SplitNominal(input, column, row) ==
    LET leftP == Trunc(input.width, column, grid[1])
        rightP == Trunc(input.width, column + 1, grid[1])
        bottomP == Trunc(input.height, row, grid[2])
        topP == Trunc(input.height, row + 1, grid[2])
    IN  Viewport(input.x + leftP, input.y + bottomP, rightP - leftP, topP - bottomP,
                 input.width * column, input.width * (column + 1),
                 input.height * row, input.height * (row + 1))

\* (fault) The right edge is taken for the width.
SplitWide(input, column, row) ==
    LET leftP == Trunc(input.width, column, grid[1])
        rightP == Trunc(input.width, column + 1, grid[1])
    IN  Viewport(input.x + leftP, input.y, rightP, input.height,
                 input.left, input.right, input.bottom, input.top)

\* GLScreenSplitter::split for one part of the grid.
Split(input, column, row) ==
    LET leftP == Trunc(input.width, column, grid[1])
        rightP == Trunc(input.width, column + 1, grid[1])
        bottomP == Trunc(input.height, row, grid[2])
        topP == Trunc(input.height, row + 1, grid[2])
        widthD == input.right - input.left
        heightD == input.top - input.bottom
    IN  Viewport(input.x + leftP, input.y + bottomP, rightP - leftP, topP - bottomP,
                 input.left + (widthD * leftP) \div input.width,
                 input.left + (widthD * rightP) \div input.width,
                 input.bottom + (heightD * bottomP) \div input.height,
                 input.bottom + (heightD * topP) \div input.height)

\* The i-th part of makeGrid, row by row.
Part(i) == [column |-> (i - 1) % grid[1], row |-> (i - 1) \div grid[1]]

\* A pixel on which nothing has been drawn.
Clear == [face |-> <<0, 0>>, at |-> <<0, 0>>, depth |-> Far]

Pixels(width, height) == (0..(width - 1)) \X (0..(height - 1))

Texture(width, height, pixels) == [width |-> width, height |-> height, pixels |-> pixels]

\* f is not drawn after g: mesh by mesh, in the order of a mesh's triangles.
Before(f, g) == f[1] < g[1] \/ (f[1] = g[1] /\ f[2] <= g[2])

\* What drawing the triangles of a set, with the depth test, leaves at a point
\* of the scene: of the nearest ones the first.
Nearest(set, at) ==
    LET visible == {f \in set : scene[f] < Far} IN
    IF visible = {} THEN Clear
    ELSE LET f == CHOOSE f \in visible : \A g \in visible :
                      scene[f] < scene[g] \/ (scene[f] = scene[g] /\ Before(f, g))
         IN [face |-> f, at |-> at, depth |-> scene[f]]

\* The triangles that are drawn for a range, which cuts every mesh.
Drawn(range) ==
    UNION {{m} \X ((Trunc(Meshes[m], range.start, grid[1]) + 1)
                       ..Trunc(Meshes[m], range.end, grid[1])) : m \in DOMAIN Meshes}

\* The point of the scene that a viewport's projection shows at a pixel.
Point(v, p) ==
    <<v.left + ((v.right - v.left) * p[1]) \div v.width,
      v.bottom + ((v.top - v.bottom) * p[2]) \div v.height>>

\* What a renderer draws.
Rendered(v, set) ==
    Texture(v.width, v.height,
            [p \in Pixels(v.width, v.height) |-> Nearest(set, Point(v, p))])

NoFrame == Texture(0, 0, <<>>)

----------------------------------------------------------------------------

Init ==
    /\ mode \in {"first", "last"}
    /\ grid \in IF mode = "first" THEN Grids ELSE {g \in Grids : g[2] = 1}
    /\ scene \in [Faces -> 1..Far]
    /\ low \in SUBSET Inexact
    /\ phase = "split"
    /\ round = 0
    /\ canvas \in Canvases
    /\ viewports = <<>> /\ ranges = <<>>
    /\ frames = <<>>
    /\ failed = {}
    /\ composed = 0
    /\ output = NoFrame

\* The sources' and the splitter's execute.  In sort-first every renderer has
\* the full range, in sort-last the full canvas.
Distribute ==
    /\ phase = "split" /\ round < Rounds
    /\ canvas' \in Canvases
    /\ viewports' = [i \in Renderers |->
            IF mode = "first" THEN Split(canvas', Part(i).column, Part(i).row) ELSE canvas']
    /\ ranges' = [i \in Renderers |->
            IF mode = "first" THEN [start |-> 0, end |-> grid[1]]
            ELSE [start |-> i - 1, end |-> i]]
    /\ frames' = [i \in Renderers |-> NoFrame]
    /\ phase' = "compose"
    /\ UNCHANGED <<program, round, failed, composed, output>>

\* A renderer's execute, with the transfer of the frame to the composer.
Render(i) ==
    /\ phase = "compose" /\ i \notin failed
    /\ frames[i] = NoFrame
    /\ viewports[i].width > 0 /\ viewports[i].height > 0
    /\ frames' = [frames EXCEPT ![i] = Rendered(viewports[i], Drawn(ranges[i]))]
    /\ UNCHANGED <<program, work, phase, round, failed, composed, output>>

\* glFrustum refuses an empty viewport, and the renderer's thread ends.
RenderFails(i) ==
    /\ phase = "compose" /\ i \notin failed
    /\ frames[i] = NoFrame
    /\ viewports[i].width = 0 \/ viewports[i].height = 0
    /\ failed' = failed \cup {i}
    /\ UNCHANGED <<program, work, phase, round, frames, composed, output>>

\* The composer's execute: it fetches all frames and clears its output.
Compose ==
    /\ phase = "compose"
    /\ \A i \in Renderers : frames[i] # NoFrame
    /\ output' = Texture(canvas.width, canvas.height,
                         [p \in Pixels(canvas.width, canvas.height) |-> Clear])
    /\ composed' = 0
    /\ phase' = "overlay"
    /\ UNCHANGED <<program, work, round, frames, failed>>

\* The right edge of the quad that a frame is drawn on, or the upper one.
Edge(start, length) == (start + length) % Word

\* The pixels of that quad, counted from its corner.
Quad(v) == Pixels(Edge(v.x, v.width) - v.x, Edge(v.y, v.height) - v.y)

\* Where in the quad a pixel of the output lies: the quad is drawn at the frame's
\* position, and glViewport moves it by the canvas' x and y.
Place(v, p) == <<p[1] - (canvas.x + v.x), p[2] - (canvas.y + v.y)>>

\* glOrtho clips everything to the canvas' size.
Unclipped(p) == <<p[1] - canvas.x, p[2] - canvas.y>> \in Pixels(canvas.width, canvas.height)

\* The texel at a place in a quad, over which the frame is stretched.
Texel(frame, v, q) ==
    frame.pixels[<<(q[1] * frame.width) \div (Edge(v.x, v.width) - v.x),
                   (q[2] * frame.height) \div (Edge(v.y, v.height) - v.y)>>]

\* A frame drawn over what is there; in sort-last where it is nearer.
Overlay(target, frame, v) ==
    LET Hides(p) ==
            /\ Place(v, p) \in Quad(v) /\ Unclipped(p)
            /\ mode = "last" => Texel(frame, v, Place(v, p)).depth < target.pixels[p].depth
    IN  Texture(target.width, target.height,
                [p \in Pixels(target.width, target.height) |->
                    IF Hides(p) THEN Texel(frame, v, Place(v, p)) ELSE target.pixels[p]])

\* One turn of the composer's loop over its inputs.
DrawFrame ==
    /\ phase = "overlay"
    /\ output' = Overlay(output, frames[composed + 1], viewports[composed + 1])
    /\ composed' = composed + 1
    /\ phase' = IF composed + 1 = NumRenderers THEN "display" ELSE "overlay"
    /\ UNCHANGED <<program, work, round, frames, failed>>

\* The displayer's execute: the end of the round.
Display ==
    /\ phase = "display"
    /\ round' = round + 1
    /\ phase' = "split"
    /\ UNCHANGED <<program, work, frames, failed, composed, output>>

Next ==
    \/ Distribute \/ Compose \/ DrawFrame \/ Display
    \/ \E i \in Renderers : Render(i) \/ RenderFails(i)

Spec == Init /\ [][Next]_vars

----------------------------------------------------------------------------
(* Properties. *)

\* Besides the types: parts lie on the canvas, ranges draw triangles of the
\* scene, frames are as large as the viewports they were drawn for.
TypeOK ==
    /\ phase \in {"split", "compose", "overlay", "display"} /\ round \in 0..Rounds
    /\ canvas \in Canvases
    /\ failed \subseteq Renderers
    /\ \A i \in DOMAIN viewports :
         LET v == viewports[i] IN
         /\ {v.x, v.y} \subseteq Int /\ {v.width, v.height} \subseteq Nat
         /\ canvas.x <= v.x /\ v.x + v.width <= canvas.x + canvas.width
         /\ canvas.y <= v.y /\ v.y + v.height <= canvas.y + canvas.height
         /\ Drawn(ranges[i]) \subseteq Faces
         /\ frames[i] # NoFrame =>
              frames[i].width = v.width /\ frames[i].height = v.height

\* A picture moved to the right and up, cut off where it leaves its texture.
Displaced(picture, dx, dy) ==
    Texture(picture.width, picture.height,
            [p \in Pixels(picture.width, picture.height) |->
                IF <<p[1] - dx, p[2] - dy>> \in Pixels(picture.width, picture.height)
                THEN picture.pixels[<<p[1] - dx, p[2] - dy>>] ELSE Clear])

\* A pixel shows what another does, in sort-last perhaps another triangle that
\* is as near, but of a later mesh.
Like(shown, wanted) ==
    \/ shown = wanted
    \/ /\ mode = "last" /\ wanted # Clear
       /\ \E f \in Faces :
            /\ shown = [wanted EXCEPT !.face = f]
            /\ scene[f] = wanted.depth /\ wanted.face[1] < f[1]

\* The right or upper edge is negative, and wraps around.
Stretched(v) == v.x + v.width < 0 \/ v.y + v.height < 0

\* However the work is split and the products are truncated, the composed
\* picture is the one a single renderer draws: every pixel is painted, shows
\* the point of the scene that belongs there, and on it the nearest triangle.
\* But in sort-last a triangle in an earlier part comes before one that is as
\* near in an earlier mesh; the picture is displaced by twice the canvas' x and
\* y, as the frames' positions contain them, and the composer's own viewport
\* adds them again; and a frame whose right or upper edge is negative is spread
\* over everything.
PictureComplete ==
    phase = "display" =>
        LET wanted == Displaced(Rendered(canvas, Faces), 2 * canvas.x, 2 * canvas.y) IN
        /\ output.width = canvas.width /\ output.height = canvas.height
        /\ (\A i \in Renderers : ~Stretched(viewports[i])) =>
             \A p \in Pixels(canvas.width, canvas.height) :
                Like(output.pixels[p], wanted.pixels[p])

\* A renderer fails only for a canvas with less than two pixels per column and
\* row of the grid.
FailsOnlyTiny ==
    failed # {} => canvas.width < 2 * grid[1] \/ canvas.height < 2 * grid[2]
=============================================================================
