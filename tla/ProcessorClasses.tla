-------------------------- MODULE ProcessorClasses --------------------------
(***************************************************************************)
(* The processors of GLStreamer's core and gl plugins as a program sees    *)
(* them: the slots each constructor declares, in the order in which        *)
(* fetchArgs and pushArgs go through them, and the type each slot carries. *)
(* Links join slots by name; the module also says which sets of links are  *)
(* accepted by the links' constructors and leave no slot without a link.   *)
(*                                                                         *)
(* A slot's name is a base and, where the constructor numbers it, an       *)
(* index: genName.                                                         *)
(***************************************************************************)
EXTENDS Integers, Sequences, FiniteSets

Named(base, type) == [name |-> <<base>>, type |-> type]

\* genName(base, 0), ..., genName(base, n - 1)
Numbered(base, n, type) ==
    [i \in 1..n |-> [name |-> <<base, i - 1>>, type |-> type]]

\* What a constructor passes to inputArgs and outputArgs.
Class(inputs, outputs) == [inputs |-> inputs, outputs |-> outputs]

\* A constructor of a derived class adds input slots after its base's.
AddInputs(class, slots) == [class EXCEPT !.inputs = @ \o slots]

----------------------------------------------------------------------------
(* core *)

ConstProcessor(type, count) == Class(<<>>, Numbered("output", count, type))

VariableProcessor(type, numOutputs) ==
    Class(<<>>, Numbered("output", numOutputs, type))

FakeSink(type) == Class(Numbered("sink", 1, type), <<>>)

----------------------------------------------------------------------------
(* gl *)

GLScreenSplitter(nParts) ==
    Class(<<Named("inputViewport", "Viewport")>>,
          Numbered("outputViewport", nParts, "Viewport"))

GLDataRangeSplitter(nParts) ==
    Class(<<Named("inputRange", "Range")>>, Numbered("outputRange", nParts, "Range"))

GLGenericRenderer(inColor, inDepth, outColor, outDepth) ==
    Class(<<Named("viewport_in", "Viewport"), Named("range", "Range")>>
              \o Numbered("color_in", inColor, "Color")
              \o Numbered("depth_in", inDepth, "Depth"),
          <<Named("viewport_out", "Viewport")>>
              \o Numbered("color_out", outColor, "Color")
              \o Numbered("depth_out", outDepth, "Depth"))

GLFBORenderer(inColor, inDepth, hasColor, hasDepth) ==
    GLGenericRenderer(inColor, inDepth,
                      IF hasColor THEN 1 ELSE 0, IF hasDepth THEN 1 ELSE 0)

GLObjectRenderer ==
    AddInputs(GLFBORenderer(0, 0, TRUE, TRUE), <<Named("state", "State")>>)

GLSimpleShadowRenderer(nLights) ==
    AddInputs(GLFBORenderer(0, nLights, TRUE, TRUE),
              <<Named("state", "State")>> \o Numbered("shadow_matrix", nLights, "Matrix"))

GLShadowMapGenerator(numLightSources) ==
    Class(Numbered("state", numLightSources, "State")
              \o Numbered("viewport_in", numLightSources, "Viewport")
              \o Numbered("range", numLightSources, "Range"),
          Numbered("depth", numLightSources, "Depth")
              \o Numbered("viewport_out", numLightSources, "Viewport"))

GLShadowCoordCalc ==
    Class(<<Named("state", "State"), Named("viewport", "Viewport")>>,
          <<Named("matrix", "Matrix")>>)

\* colorFrames = nFrames; depthFrames = 0 for ColorOnly.
GLFrameComposer(nFrames, depthFrames) ==
    Class(<<Named("canvas_viewport_in", "Viewport")>>
              \o Numbered("frame_viewport", nFrames, "Viewport")
              \o Numbered("color_in", nFrames, "Color")
              \o Numbered("depth_in", depthFrames, "Depth"),
          <<Named("canvas_viewport_out", "Viewport"), Named("color_out", "Color"),
            Named("depth_out", "Depth")>>)

GLFrameDisplayer == Class(<<Named("input", "Color")>>, <<>>)

----------------------------------------------------------------------------
(* Links: a wire is the output slot and the input slot its constructor     *)
(* gets, the number of frames it holds and the thread that makes it.       *)

Wire(source, out, dest, in, capacity, maker) ==
    [from |-> <<source, out>>, to |-> <<dest, in>>,
     capacity |-> capacity, maker |-> maker]

\* The slots of a program's processors, by processor and name.
SlotsOf(classes, side) ==
    UNION {{<<p, classes[p][side][k].name>> : k \in 1..Len(classes[p][side])}
             : p \in DOMAIN classes}

TypeOf(classes, side, slot) ==
    LET slots == classes[slot[1]][side]
    IN  slots[CHOOSE k \in 1..Len(slots) : slots[k].name = slot[2]].type

\* No slot name is declared twice (DefinitionConflict) and every wire joins
\* slots that exist (NotFound); no slot is linked twice and the types agree,
\* else a link's constructor throws; none stays without a link, whose fetch or
\* push execute would call.
Accepted(classes, wires) ==
    /\ \A p \in DOMAIN classes : \A side \in {"inputs", "outputs"} :
         \A j, k \in 1..Len(classes[p][side]) :
            classes[p][side][j].name = classes[p][side][k].name => j = k
    /\ {w.from : w \in wires} = SlotsOf(classes, "outputs")
    /\ {w.to : w \in wires} = SlotsOf(classes, "inputs")
    /\ \A v, w \in wires : v.from = w.from \/ v.to = w.to => v = w
    /\ \A w \in wires :
         TypeOf(classes, "outputs", w.from) = TypeOf(classes, "inputs", w.to)

\* The program as Pipeline and Program take it.  A link is known by the input
\* slot it ends in.
Network(glThreads, block, opens, classes, wires) ==
    LET At(l) == CHOOSE w \in wires : w.to = l
        links == {w.to : w \in wires}
        ending(p) == [k \in 1..Len(classes[p].inputs) |->
                        <<p, classes[p].inputs[k].name>>]
        starting(p) == [k \in 1..Len(classes[p].outputs) |->
                          (CHOOSE w \in wires :
                             w.from = <<p, classes[p].outputs[k].name>>).to]
    IN  [glThreads |-> glThreads, block |-> block, opens |-> opens,
         inputs |-> [p \in DOMAIN classes |-> ending(p)],
         outputs |-> [p \in DOMAIN classes |-> starting(p)],
         capacity |-> [l \in links |-> At(l).capacity],
         maker |-> [l \in links |-> At(l).maker]]
=============================================================================
