---------------------------- MODULE MCFrameGraph ----------------------------
(* Graphs for FrameGraph: over media that grow with steady clips, over      *)
(* finished media with all arguments that do not play a clip backwards.     *)
(* Those that do, and clips that are not steady, are graphs of their own.   *)
EXTENDS FrameGraph

Node(kind, slots, args) == [kind |-> kind, slots |-> slots, args |-> args]
Media == Node("media", <<>>, <<>>)
Built(nodes, lengths, grows, parts, edits) ==
  [nodes |-> nodes, grows |-> grows, parts |-> parts, edits |-> edits,
   length |-> [n \in DOMAIN nodes |-> IF n <= Len(lengths) THEN lengths[n] ELSE 0]]

\* a montage of a file that is being recorded and a finished one
Montage == Built(<<Media, Media,
  Node("clip", <<1>>, <<1, -1>>), Node("playlist", <<3, 0, 2>>, <<>>),
  Node("hold", <<4>>, <<1, 2>>), Node("offset", <<5>>, <<1>>)>>, <<2, 2>>, {1}, {1, 3}, {})

\* a clip that ends some frames before what is recorded, repeated
Behind == Built(<<Media,
  Node("clip", <<1>>, <<0, -3>>), Node("repeat", <<2>>, <<-1, 2>>),
  Node("playlist", <<3, 1>>, <<>>)>>, <<1>>, {1}, {1, 2}, {})

\* both media growing, under a step
Stepped == Built(<<Media, Media,
  Node("loop", <<1>>, <<>>), Node("frame_list", <<2>>, <<1, 0, 0>>),
  Node("playlist", <<3, 4, 1, 0>>, <<>>), Node("step", <<5>>, <<2>>)>>, <<1, 2>>, {1, 2}, {1, 2, 3, 4}, {})

\* a clip of the newest frames, which nobody else may sync, and one of a range
\* that has not been recorded yet
Newest == Built(<<Media, Media,
  Node("clip", <<1>>, <<-3, -1>>), Node("clip", <<2>>, <<1, 3>>),
  Node("playlist", <<4, 3>>, <<>>), Node("hold", <<5>>, <<0, 1>>)>>,
  <<1, 1>>, {1, 2}, {1, 2}, {})

\* alternating, backwards and from the end; inputs are exchanged
Turns == Built(<<Media, Media,
  Node("clip", <<1>>, <<-3, 3>>), Node("repeat", <<3>>, <<1, 3>>),
  Node("repeat", <<2>>, <<0, 2>>), Node("playlist", <<4, 5>>, <<>>),
  Node("step", <<6>>, <<2>>)>>, <<4, 1>>, {}, {3, 5, 6},
  {<<4, 1, 2>>, <<4, 1, 3>>, <<5, 1, 1>>, <<6, 2, 0>>, <<6, 2, 3>>})

\* out of reach on purpose
Beyond == Built(<<Media, Media,
  Node("hold", <<1>>, <<-2, 1>>), Node("clip", <<3>>, <<-9, -2>>),
  Node("frame_list", <<1>>, <<2, 7, 0>>), Node("clip", <<2>>, <<-3, 9>>),
  Node("playlist", <<4, 5, 6>>, <<>>), Node("step", <<7>>, <<0>>)>>, <<3, 2>>, {}, {1, 3, 4, 7},
  {<<4, 1, 2>>, <<4, 1, 1>>, <<7, 1, 6>>, <<6, 1, 5>>, <<7, 3, 3>>})

MCSetups == {Montage, Behind, Stepped, Newest, Turns, Beyond}

\* clips that play backwards
Backwards == Built(<<Media, Media,
  Node("clip", <<1>>, <<-1, 0>>), Node("clip", <<2>>, <<2, 1>>),
  Node("playlist", <<3, 4>>, <<>>)>>, <<4, 3>>, {}, {3}, {})
MCBackwards == {Backwards}

\* clips whose in is behind all that has been recorded, or moves towards a
\* fixed out
Moving(in, out) == Built(<<Media, Node("clip", <<1>>, <<in, out>>)>>, <<1>>, {1}, {1}, {})
MCMoving == {Moving(9, 1), Moving(-3, 1)}
=============================================================================
