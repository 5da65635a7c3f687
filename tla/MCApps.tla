------------------------------- MODULE MCApps -------------------------------
(* The streaming applications, instantiated for TLC.                       *)
EXTENDS StreamingApps

Bmp(w, h, bits) == [kind |-> "bmp", header |-> TRUE, w |-> w, h |-> h, topDown |-> FALSE,
                    bits |-> bits, sized |-> TRUE, colors |-> 0, missing |-> 0]
Other == [Bmp(4, 2, 24) EXCEPT !.kind = "txt"]
Damaged == [Bmp(4, 2, 24) EXCEPT !.header = FALSE]
Short == [Bmp(4, 2, 32) EXCEPT !.missing = 3]

Base == [files |-> <<Bmp(4, 2, 24), Other, Bmp(3, 3, 32)>>, single |-> FALSE,
         send |-> 3, disable |-> FALSE, cv |-> 4]

\* One behaviour per way of choosing the images and per format; the folder
\* with two pictures carries the interleavings.  The lines of these files have
\* no padding, and the 8-bit picture only uses colors of the quarter of its
\* palette that is read.
MCScenarios ==
    {Base,
     [Base EXCEPT !.files = <<Damaged, Bmp(2, 3, 16), Short>>, !.send = 2],
     [Base EXCEPT !.files = <<[Bmp(8, 3, 24) EXCEPT !.topDown = TRUE], Bmp(4, 3, 8)>>,
                  !.disable = TRUE, !.send = 0, !.cv = 3],
     [Base EXCEPT !.files = <<Bmp(4, 2, 24)>>, !.single = TRUE, !.send = 0],
     [Base EXCEPT !.files = <<Short>>, !.single = TRUE, !.send = 0],
     [Base EXCEPT !.files = <<Bmp(4, 2, 24), [Other EXCEPT !.kind = "lt"]>>, !.send = 2]}

Folder(f) == {[Base EXCEPT !.files = <<f>>]}

\* A palette of which more than the first quarter is used.
PaletteScenarios == Folder([Bmp(4, 2, 8) EXCEPT !.colors = 4])

=============================================================================
