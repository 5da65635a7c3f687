------------------------------- MODULE MCDe10 -------------------------------
(***************************************************************************)
(* The DE10 board package, instantiated for TLC: the board with its        *)
(* programming, and the DMA engine with the host channels, side by side.   *)
(* A behaviour belongs to one of them and the other stays where it starts. *)
(***************************************************************************)
EXTENDS De10Board, PcieDma

VARIABLE part

Pkg == [opens |-> TRUE, rbf |-> TRUE, qver |-> TRUE, hash |-> TRUE,
        aligned |-> TRUE, sof |-> TRUE, fast |-> FALSE]
Base == [os |-> "linux", mode |-> "sof", skip |-> FALSE, usable |-> TRUE,
         env |-> FALSE, alone |-> TRUE, pkg |-> Pkg]

Systems == {"linux", "windows"}

SofScenarios == {[Base EXCEPT !.os = os, !.skip = skip] :
                    os \in Systems, skip \in BOOLEAN}

Packages == {Pkg, [Pkg EXCEPT !.opens = FALSE], [Pkg EXCEPT !.rbf = FALSE],
             [Pkg EXCEPT !.qver = FALSE], [Pkg EXCEPT !.aligned = FALSE],
             [Pkg EXCEPT !.hash = FALSE, !.fast = TRUE],
             [Pkg EXCEPT !.rbf = FALSE, !.sof = FALSE],
             [Pkg EXCEPT !.qver = FALSE, !.aligned = FALSE, !.fast = TRUE]}

ProgramScenarios == {[Base EXCEPT !.os = os, !.mode = mode, !.usable = u, !.pkg = p] :
                        os \in Systems, mode \in {"pr", "jtag"}, u \in BOOLEAN,
                        p \in Packages}
JtagScenarios == {[Base EXCEPT !.mode = "jtag", !.env = TRUE,
                               !.pkg = [Pkg EXCEPT !.fast = fast]] : fast \in BOOLEAN}

SeveralBoards == {[Base EXCEPT !.mode = "jtag", !.alone = FALSE, !.pkg = p] :
                     p \in {[Pkg EXCEPT !.rbf = FALSE], [Pkg EXCEPT !.hash = FALSE, !.fast = TRUE]}}

MCScenarios == SofScenarios \cup ProgramScenarios \cup JtagScenarios
               \cup SeveralBoards

Block(at, size) == [at |-> at, size |-> size]
S(bs, chs, n) == [blocks |-> bs, channels |-> chs, opens |-> n]
\* Every alignment and every length up to three tables and a bit, alone.
Alone == {S(<<Block(a, n)>>, {}, 0) : a \in 0 .. PageSize - 1, n \in 1 .. 3 * MaxPinned + 2}
\* Transfers with an open channel, and channels that are opened again.
Mixed == {S(<<Block(1, MaxPinned + 2)>>, {"pull"}, 1)}
         \cup {S(<<>>, {c}, 2) : c \in Channels}
         \cup {S(<<Block(0, 1), Block(1, 1)>>, {"push"}, 1), S(<<>>, Channels, 1)}
Nothing == S(<<>>, {}, 0)
MCDmaScenarios == Alone \cup Mixed \cup {Nothing}

MCInit ==
    /\ Init /\ DmaInit
    /\ \/ part = "board" /\ scenario = Nothing
       \/ part = "dma" /\ sc = Base
MCNext ==
    /\ \/ part = "board" /\ Next /\ UNCHANGED pcieVars
       \/ part = "dma" /\ DmaNext /\ UNCHANGED vars
    /\ UNCHANGED part

\* FairSpec of the board and DmaSpec.
OfBoard(A) == part = "board" /\ A /\ UNCHANGED pcieVars
MCSpec ==
    /\ MCInit /\ [][MCNext]_<<part, pcieVars, vars>>
    /\ WF_vars(OfBoard(MainStep)) /\ WF_vars(OfBoard(Raise))
    /\ WF_vars(OfBoard(ServiceBegin)) /\ WF_vars(OfBoard(ServiceEnd))
    /\ DmaFairness
=============================================================================
