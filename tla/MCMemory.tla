------------------------------ MODULE MCMemory ------------------------------
(***************************************************************************)
(* The memory of a board, instantiated for TLC: its allocation to graph    *)
(* jobs, and the transfers that fill it, side by side: a behaviour belongs *)
(* to one of them and the other stays where it starts.                     *)
(***************************************************************************)
EXTENDS GraphJobs, Transfers
CONSTANTS t1, t2

VARIABLE part

\* Graphs.  Sizes are bytes of a memory whose word is 2 bytes and whose burst
\* is 4.
Shape(intermediate, input, output, config, istream, ostream, pipelines) ==
    [intermediate |-> intermediate, input |-> input, output |-> output,
     config |-> config, istream |-> istream, ostream |-> ostream,
     pipelines |-> pipelines]

\* Graphs in DDR, a graph that streams both ways and one that streams its input
\* only, some without on-chip parameters, one whose intermediate buffer is large.
LoadedGraphs ==
    {Shape(3, 3, 5, 6, FALSE, FALSE, 2), Shape(8, 4, 1, 0, FALSE, FALSE, 1),
     Shape(0, 2, 2, 4, TRUE, TRUE, 2), Shape(29, 1, 1, 2, FALSE, FALSE, 2),
     Shape(0, 3, 2, 2, TRUE, FALSE, 1)}


\* Transfers.
C(dir, at, len) == [dir |-> dir, at |-> at, len |-> len]
Two(b, one, cs, ds, f) ==
    [backend |-> b, oneFile |-> one, calls |-> (t1 :> cs @@ t2 :> ds), faults |-> f]
One(b, cs, f) == Two(b, TRUE, cs, <<>>, f)

Backends == {"pac", "bbb", "ofs", "hps", "de10"}
\* One thread, every alignment, lengths around each boundary.
Lengths == 1 .. 10 \cup {15, 16, 17, 24, 25, 32, 39, 48, 54}
Shapes == {One(b, <<C(d, a, n)>>, 0) :
              b \in Backends, d \in Dirs, a \in 0 .. 7, n \in Lengths}
\* One access may fail.
Faulty == {One(b, <<C("write", a, n), C(d, a, n)>>, 1) :
              b \in Backends, d \in Dirs, a \in {0, 6}, n \in {12, 34}}
\* Two threads: neighbours that share a word on ofs and the DE10, whole lines on pac.
Pairs == {Two(b, TRUE, <<C(d, 0, 10)>>, <<C(e, 10, 7)>>, 0) :
             b \in {"ofs", "de10"}, d \in Dirs, e \in Dirs}
         \cup {Two("pac", TRUE, <<C(d, 0, 24)>>, <<C(e, 24, 16)>>, 0) : d \in Dirs, e \in Dirs}
\* Two callers of the HPS, of one process and of two: a position that moves on
\* between chunks, a channel that both configure.
HpsCallers == {Two("hps", one, <<C(d, 4, 20)>>, <<C(e, 32, 8), C("read", 32, 8)>>, f) :
                    one \in BOOLEAN, d \in Dirs, e \in Dirs, f \in 0 .. 1}
\* One thread writes a block, another reads one in another page of the PAC;
\* both end inside a line.
PacThreads == {Two("pac", TRUE, <<C("write", 0, 12)>>, <<C("read", 32, 12)>>, 0)}
\* Two threads of a process on the HPS read back what they wrote, elsewhere.
HpsThreads == {Two("hps", TRUE, <<C("write", 0, 8), C("read", 0, 8)>>,
                                <<C("write", 32, 8), C("read", 32, 8)>>, 0)}
Nothing == Two("ofs", TRUE, <<>>, <<>>, 0)
MCScenarios == Shapes \cup Faulty \cup Pairs \cup HpsCallers \cup PacThreads
               \cup {Nothing}
MCThreads == {t1, t2}

MCInit ==
    /\ GInit /\ Init
    /\ part \in {"graphs", "transfers"}
    /\ part = "graphs" => calls = Nothing.calls
MCNext ==
    /\ \/ part = "graphs" /\ GNext /\ UNCHANGED vars
       \/ part = "transfers" /\ Next /\ UNCHANGED gvars
    /\ UNCHANGED part

\* Threads are scheduled and the DMA engines run (Spec of Transfers).
MCSpec ==
    /\ MCInit /\ [][MCNext]_<<part, gvars, vars>>
    /\ TransferFairness
=============================================================================
