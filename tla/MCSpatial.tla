------------------------------ MODULE MCSpatial ------------------------------
(* The spatial hosts, instantiated for TLC.                                *)
EXTENDS SpatialHost

G(w, l, s) == [w |-> w, l |-> l, s |-> s]
F(b, a, n) == [bank |-> b, addr |-> a, beats |-> n, aligned |-> TRUE]

Base == [backend |-> "ofs", client |-> "plugin", files |-> <<F(1, 0, 6), F(0, 2, 3)>>,
         gin |-> G(16, 3, 11), gout |-> G(16, 8, 3), tensors |-> 1,
         reqs |-> {"r1", "r2"}]

OfsScenarios ==
    {Base,
     [Base EXCEPT !.gin = G(24, 5, 9), !.gout = G(10, 7, 15), !.client = "bench", !.reqs = {"r1"}],
     [Base EXCEPT !.gin = G(16, 32, 2), !.gout = G(17, 30, 3), !.reqs = {"r1"}],
     [Base EXCEPT !.gin = G(24, 20, 2), !.gout = G(33, 15, 3), !.files = <<>>, !.reqs = {"r1"},
                  !.tensors = 2],
     [Base EXCEPT !.client = "bench", !.files = <<>>, !.reqs = {"r1"}],
     [Base EXCEPT !.gin = G(63, 8, 7), !.files = <<>>, !.reqs = {"r1"}],
     [Base EXCEPT !.files = <<[F(0, 0, 3) EXCEPT !.aligned = FALSE]>>]}
DemoScenarios ==
    {[Base EXCEPT !.backend = "demo", !.client = "demo", !.reqs = {"r1"}, !.gin = G(32, 5, 8)]}
JtagScenarios ==
    {[Base EXCEPT !.backend = "jtag", !.files = <<F(1, 6, 5), F(0, 2, 3)>>],
     [Base EXCEPT !.backend = "jtag", !.files = <<F(1, 5, 2)>>, !.client = "bench",
                  !.gin = G(10, 7, 4), !.gout = G(24, 10, 2), !.tensors = 2, !.reqs = {"r1"}],
     [Base EXCEPT !.backend = "jtag", !.files = <<F(0, 6, 3)>>, !.reqs = {"r1"}],
     [Base EXCEPT !.backend = "jtag", !.files = <<>>, !.gin = G(33, 9, 2), !.reqs = {"r1"}],
     [Base EXCEPT !.backend = "jtag", !.files = <<>>, !.gout = G(16, 10, 6), !.reqs = {"r1"}]}

MCScenarios == OfsScenarios \cup DemoScenarios \cup JtagScenarios
=============================================================================
