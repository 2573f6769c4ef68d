------------------------------ MODULE MCVision ------------------------------
(***************************************************************************)
(* Small instances of VisionKv for TLC: conversations that go on behind an *)
(* image, swap the image, change its size, or add a second one.            *)
(***************************************************************************)
EXTENDS VisionKv

Text(t) == [id |-> "", text |-> t, cells |-> 0, span |-> 0]
Image(id, n, p) == [id |-> id, text |-> <<>>, cells |-> n, span |-> p]

Talks ==
  {<<Text(<<1>>), Image("a", 3, 2), Text(<<2>>)>>,
   <<Text(<<1>>), Image("b", 3, 2), Text(<<2>>)>>,
   <<Text(<<1>>), Image("a", 3, 2), Text(<<2, 4, 3>>)>>,
   <<Text(<<1>>), Image("a", 3, 2)>>,
   <<Text(<<1>>), Image("a", 3, 2), Text(<<2, 3>>), Image("b", 2, 1), Text(<<1>>)>>,
   <<Text(<<1, 1>>), Image("a", 4, 2), Text(<<2>>)>>,
   <<Text(<<1>>), Image("a", 3, 2), Text(<<2, 3, 3, 1, 1, 1, 1>>)>>}

Chats == {<<1, 3>>}

VisionSpec == VisionInit /\ [][VisionNext]_visionVars
=============================================================================
