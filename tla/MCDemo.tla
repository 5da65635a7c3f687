------------------------------- MODULE MCDemo -------------------------------
(* The demos, instantiated for TLC: one source per way to end or to loop.  *)
EXTENDS DemoPipeline

S(type, len, bad, loop, initial, limit) ==
    [type |-> type, len |-> len, bad |-> bad, loop |-> loop,
     initial |-> initial, limit |-> limit]

MCSources == {S("image", 1, {}, FALSE, 0, 9), S("image", 1, {}, TRUE, 0, 9),
              S("dir", 5, {0, 2}, FALSE, 0, 9), S("dir", 5, {1}, TRUE, 1, 2),
              S("dir", 2, {0, 1}, FALSE, 0, 9), S("dir", 3, {0}, TRUE, 0, 9),
              S("video", 3, {}, FALSE, 0, 9), S("video", 3, {}, TRUE, 1, 9),
              S("video", 4, {}, TRUE, 1, 2), S("video", 1, {}, FALSE, 2, 9),
              S("camera", 1, {}, FALSE, 0, 2), S("camera", 1, {}, TRUE, 0, 2)}
=============================================================================
