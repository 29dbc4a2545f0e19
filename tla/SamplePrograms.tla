--------------------------- MODULE SamplePrograms ----------------------------
(***************************************************************************)
(* Programs of the repository's tests, as Program takes them: processors,  *)
(* threads and links as the tests' main functions declare them.  A         *)
(* ProcessLink holds as many frames as it has buffers, a ThreadedLink of   *)
(* queue size 3 one.                                                       *)
(***************************************************************************)
EXTENDS ProcessorClasses

----------------------------------------------------------------------------
(* Programs of processes *)

\* case2-test.cpp: four processes, two paths of different lengths between
\* caster and printer.
Case2 ==
    [glThreads |-> FALSE,
     block |-> <<<<"reader">>, <<"caster">>, <<"processor">>, <<"printer">>>>,
     opens |-> <<<<"link0">>, <<"link0", "link1", "link2">>,
                 <<"link1", "link3">>, <<"link3", "link2">>>>,
     inputs |-> [reader |-> <<>>, caster |-> <<"link0">>, processor |-> <<"link1">>,
                 printer |-> <<"link3", "link2">>],
     outputs |-> [reader |-> <<"link0">>, caster |-> <<"link1", "link2">>,
                  processor |-> <<"link3">>, printer |-> <<>>],
     capacity |-> [link0 |-> 2, link1 |-> 2, link2 |-> 2, link3 |-> 2],
     maker |-> [link0 |-> 1, link1 |-> 2, link2 |-> 2, link3 |-> 3]]

\* processlink_provider.cpp and processlink_consumer.cpp, with two of the
\* three parallel links.
Provider ==
    [glThreads |-> FALSE,
     block |-> <<<<"provider">>, <<"p", "printer">>>>,
     opens |-> <<<<"link0", "link1">>, <<"link0", "link1">>>>,
     inputs |-> [provider |-> <<>>, p |-> <<"link0", "link1">>,
                 printer |-> <<"out0", "out1">>],
     outputs |-> [provider |-> <<"link0", "link1">>, p |-> <<"out0", "out1">>,
                  printer |-> <<>>],
     capacity |-> [link0 |-> 3, link1 |-> 3, out0 |-> 0, out1 |-> 0],
     maker |-> [link0 |-> 1, link1 |-> 1, out0 |-> 2, out1 |-> 2]]

\* deadlock.cpp: the two processes open their links in opposite orders.  It does
\* no more than that: the rounds after it are what its processors would run.
Deadlock ==
    [glThreads |-> FALSE,
     block |-> <<<<"a">>, <<"b">>>>,
     opens |-> <<<<"link0", "link1">>, <<"link1", "link0">>>>,
     inputs |-> [a |-> <<>>, b |-> <<"link1", "link0">>],
     outputs |-> [a |-> <<"link0", "link1">>, b |-> <<>>],
     capacity |-> [link0 |-> 2, link1 |-> 2],
     maker |-> [link0 |-> 1, link1 |-> 1]]

----------------------------------------------------------------------------
(* Programs of GLThreads *)

Only(name) == <<name>>
Nth(base, i) == <<base, i>>

\* An InternalSingleLink of thread t and of the main thread, and a ThreadedLink,
\* which the main thread makes.
InternalLink(source, out, dest, in, t) == Wire(source, out, dest, in, 0, t)
MainLink(source, out, dest, in) == InternalLink(source, out, dest, in, 1)
ThreadLink(source, out, dest, in) == Wire(source, out, dest, in, 1, 1)

\* sort-first-simple.cpp: the main thread splits the screen among two
\* renderers' threads and composes what they render.
SortFirstClasses ==
    [viewport |-> ConstProcessor("Viewport", 2), range |-> ConstProcessor("Range", 2),
     state |-> VariableProcessor("State", 2), splitter |-> GLScreenSplitter(2),
     composer |-> GLFrameComposer(2, 0), displayer |-> GLFrameDisplayer,
     depth_display |-> FakeSink("Depth"), viewport_sink |-> FakeSink("Viewport"),
     renderer0 |-> GLObjectRenderer, depth_sink0 |-> FakeSink("Depth"),
     renderer1 |-> GLObjectRenderer, depth_sink1 |-> FakeSink("Depth")]

SortFirstWires ==
    {MainLink("viewport", Nth("output", 0), "splitter", Only("inputViewport")),
     MainLink("viewport", Nth("output", 1), "composer", Only("canvas_viewport_in")),
     MainLink("composer", Only("color_out"), "displayer", Only("input")),
     MainLink("composer", Only("depth_out"), "depth_display", Nth("sink", 0)),
     MainLink("composer", Only("canvas_viewport_out"), "viewport_sink", Nth("sink", 0))}
    \cup UNION {
      {ThreadLink("splitter", Nth("outputViewport", i), r, Only("viewport_in")),
       ThreadLink("range", Nth("output", i), r, Only("range")),
       ThreadLink("state", Nth("output", i), r, Only("state")),
       ThreadLink(r, Nth("color_out", 0), "composer", Nth("color_in", i)),
       ThreadLink(r, Only("viewport_out"), "composer", Nth("frame_viewport", i)),
       InternalLink(r, Nth("depth_out", 0), IF i = 0 THEN "depth_sink0" ELSE "depth_sink1",
                    Nth("sink", 0), i + 2)}
      : <<i, r>> \in {<<0, "renderer0">>, <<1, "renderer1">>}}

SortFirst ==
    Network(TRUE,
            <<<<"viewport", "range", "state", "splitter", "composer", "displayer",
                "depth_display", "viewport_sink">>,
              <<"renderer0", "depth_sink0">>, <<"renderer1", "depth_sink1">>>>,
            <<<<>>, <<>>, <<>>>>, SortFirstClasses, SortFirstWires)

\* sort-last.cpp: the renderers render parts of the data, and the composer
\* gets their depths too.
SortLastClasses ==
    [viewport |-> ConstProcessor("Viewport", 3), range |-> ConstProcessor("Range", 1),
     state |-> VariableProcessor("State", 2), splitter |-> GLDataRangeSplitter(2),
     composer |-> GLFrameComposer(2, 2), displayer |-> GLFrameDisplayer,
     depthDisplayer |-> FakeSink("Depth"), viewportFakeSink |-> FakeSink("Viewport"),
     renderer0 |-> GLObjectRenderer, renderer1 |-> GLObjectRenderer]

SortLastWires ==
    {MainLink("viewport", Nth("output", 2), "composer", Only("canvas_viewport_in")),
     MainLink("range", Nth("output", 0), "splitter", Only("inputRange")),
     MainLink("composer", Only("color_out"), "displayer", Only("input")),
     MainLink("composer", Only("depth_out"), "depthDisplayer", Nth("sink", 0)),
     MainLink("composer", Only("canvas_viewport_out"), "viewportFakeSink", Nth("sink", 0))}
    \cup UNION {
      {ThreadLink("viewport", Nth("output", i), r, Only("viewport_in")),
       ThreadLink("splitter", Nth("outputRange", i), r, Only("range")),
       ThreadLink("state", Nth("output", i), r, Only("state")),
       ThreadLink(r, Only("viewport_out"), "composer", Nth("frame_viewport", i)),
       ThreadLink(r, Nth("color_out", 0), "composer", Nth("color_in", i)),
       ThreadLink(r, Nth("depth_out", 0), "composer", Nth("depth_in", i))}
      : <<i, r>> \in {<<0, "renderer0">>, <<1, "renderer1">>}}

SortLast ==
    Network(TRUE,
            <<<<"viewport", "range", "state", "splitter", "composer", "displayer",
                "depthDisplayer", "viewportFakeSink">>,
              <<"renderer0">>, <<"renderer1">>>>,
            <<<<>>, <<>>, <<>>>>, SortLastClasses, SortLastWires)

\* shadow.cpp: another thread renders what the light sees; the main thread
\* renders the scene with it.
ShadowClasses ==
    [state |-> VariableProcessor("State", 2), viewport |-> ConstProcessor("Viewport", 2),
     obj_state |-> VariableProcessor("State", 1), obj_viewport |-> ConstProcessor("Viewport", 1),
     range |-> ConstProcessor("Range", 2), matrix |-> GLShadowCoordCalc,
     shadower |-> GLSimpleShadowRenderer(1), display |-> GLFrameDisplayer,
     depth_sink |-> FakeSink("Depth"), viewport_sink |-> FakeSink("Viewport"),
     shadow_map |-> GLShadowMapGenerator(1), map_viewport_sink |-> FakeSink("Viewport")]

ShadowWires ==
    {InternalLink("shadow_map", Nth("viewport_out", 0), "map_viewport_sink", Nth("sink", 0), 2),
     MainLink("state", Nth("output", 0), "matrix", Only("state")),
     MainLink("viewport", Nth("output", 0), "matrix", Only("viewport")),
     ThreadLink("state", Nth("output", 1), "shadow_map", Nth("state", 0)),
     ThreadLink("viewport", Nth("output", 1), "shadow_map", Nth("viewport_in", 0)),
     MainLink("range", Nth("output", 0), "shadower", Only("range")),
     ThreadLink("range", Nth("output", 1), "shadow_map", Nth("range", 0)),
     MainLink("matrix", Only("matrix"), "shadower", Nth("shadow_matrix", 0)),
     ThreadLink("shadow_map", Nth("depth", 0), "shadower", Nth("depth_in", 0)),
     MainLink("obj_state", Nth("output", 0), "shadower", Only("state")),
     MainLink("obj_viewport", Nth("output", 0), "shadower", Only("viewport_in")),
     MainLink("shadower", Nth("color_out", 0), "display", Only("input")),
     MainLink("shadower", Nth("depth_out", 0), "depth_sink", Nth("sink", 0)),
     MainLink("shadower", Only("viewport_out"), "viewport_sink", Nth("sink", 0))}

Shadow ==
    Network(TRUE,
            <<<<"state", "viewport", "obj_state", "obj_viewport", "range", "matrix",
                "shadower", "display", "depth_sink", "viewport_sink">>,
              <<"shadow_map", "map_viewport_sink">>>>,
            <<<<>>, <<>>>>, ShadowClasses, ShadowWires)

\* The constructors of the links accept what the programs make of them.
ASSUME LinksAccepted ==
    /\ Accepted(SortFirstClasses, SortFirstWires)
    /\ Accepted(SortLastClasses, SortLastWires)
    /\ Accepted(ShadowClasses, ShadowWires)

TestPrograms ==
    [case2 |-> Case2, provider |-> Provider, deadlock |-> Deadlock,
     sort_first |-> SortFirst, sort_last |-> SortLast, shadow |-> Shadow]
=============================================================================
