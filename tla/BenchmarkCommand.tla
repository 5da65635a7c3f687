--------------------------- MODULE BenchmarkCommand ---------------------------
(***************************************************************************)
(* Steps 1 to 7 of dla_benchmark's main: what the command line c, the      *)
(* environment and the models it names make of the run.  Every step is a   *)
(* list of checks in the order of the code, each with the exit code it     *)
(* leads to (3 for an exception, which main catches), and what the step    *)
(* decides when all of them pass.                                          *)
(*                                                                         *)
(* A device is [hetero, list]; a model is [name, exists, aot, device,      *)
(* batch, yolo, quantized, inputs], an input [image, channels, hasBatch,   *)
(* batch, dynamic]; a model's name is the sequence of its parts between    *)
(* underscores.                                                            *)
(***************************************************************************)
EXTENDS Integers, Sequences, SequencesExt, FiniteSets

GoOn == -1

FirstOf(checks) ==
    LET hits == SelectSeq(checks, LAMBDA k : k[1])
    IN  IF hits = <<>> THEN GoOn ELSE hits[1][2]

-----------------------------------------------------------------------------
(* Step 1: the arguments.  An argument is a "word", or begins with a dash: *)
(* a "switch" takes no value, a "pair" carries its own, a "flag" takes the *)
(* next argument, and "reconfig" may take it.                              *)

Dashed(args, i) == i > Len(args) \/ args[i] # "word"

\* Is argument i read as the value of the one before?
IsValue(args) ==
    LET f[i \in 0 .. Len(args)] ==
            i > 1 /\ ~f[i - 1]
            /\ \/ args[i - 1] = "flag"
               \/ args[i - 1] = "reconfig" /\ ~Dashed(args, i)
    IN  f

DashMissing(args) == \E i \in DOMAIN args : args[i] = "word" /\ ~IsValue(args)[i]

\* ParseCommandLine gives a bare -online-reconfig an empty value, so that it
\* does not swallow the flag that follows.
OnlineReconfig(args) ==
    LET at == {i \in DOMAIN args : args[i] = "reconfig" /\ ~IsValue(args)[i]}
        last == CHOOSE i \in at : \A j \in at : j <= i
    IN  IF at = {} THEN "none" ELSE IF Dashed(args, last + 1) THEN "" ELSE "folder"

\* CheckAndSetPluginsPath: the default file, a file that was given, or the
\* word emulation for one of two places.
PluginsFound(c) ==
    \/ c.plugins = "" /\ c.defaultPlugins
    \/ c.plugins = "file"
    \/ c.plugins = "emulation" /\ c.emulation \cap {"deployed", "developer"} # {}

\* The models come from -cm, or else from exactly one of -m and
\* -network_file; every file must exist, a compiled one end in .aot.
ModelChecks(c) ==
    IF "cm" \in c.from
    THEN <<<<\E i \in DOMAIN c.models : ~c.models[i].exists \/ ~c.models[i].aot, 3>>>>
    ELSE <<<<{"m", "network_file"} \subseteq c.from \/ c.from = {}, 3>>,
           <<\E i \in DOMAIN c.models : ~c.models[i].exists, 3>>>>

ParseAndCheckCommandLine(c) ==
    FirstOf(<<<<DashMissing(c.args), 3>>, <<c.help, 0>>>>
        \o ModelChecks(c)
        \o <<<<c.api \notin {"sync", "async"}, 3>>,
             <<c.niter <= 0 /\ OnlineReconfig(c.args) = "none", 3>>,
             <<~c.root, 3>>,
             <<~PluginsFound(c), 3>>,
             <<c.ap /\ ~c.yoloKnown, 3>>,
             <<c.outputDir = "uncreatable", 3>>,
             <<c.additionalPerfEst /\ ~c.perfEst, 3>>,
             <<c.profiler /\ ~c.profilerBuilt, 3>>>>)

-----------------------------------------------------------------------------
(* Where the process may run.                                              *)

\* MidrPartPerformanceScore: known parts in ascending order, others 0.
Score(part) ==
    LET known == <<"A53", "A55", "A510", "A520", "A57", "A72", "A73", "A75", "A76", "A77",
                   "A78", "A710", "A720", "X1", "X2", "X3">>
    IN  IF \E i \in DOMAIN known : known[i] = part
        THEN CHOOSE i \in DOMAIN known : known[i] = part ELSE 0

\* DetectHighestCapacityCpus.  A CPU is [part, capacity], "none" and -1 where
\* sysfs has no such file.  The capacities decide; cores of different parts
\* whose capacities are missing or flat are ranked by their part.
DetectHighestCapacityCpus(cpus) ==
    LET parts == {cpus[i].part : i \in DOMAIN cpus} \ {"none"}
        caps == {cpus[i].capacity : i \in DOMAIN cpus} \ {-1}
        mixed == Cardinality(parts) > 1
        byPart == mixed /\ Cardinality(caps) <= 1
        metric == [i \in DOMAIN cpus |-> IF byPart THEN Score(cpus[i].part) ELSE cpus[i].capacity]
        best == {i \in DOMAIN cpus : \A j \in DOMAIN cpus : metric[j] <= metric[i]}
    IN  IF \/ best = {} \/ (\E i \in best : metric[i] <= 0)
           \/ ~mixed /\ Cardinality(caps) = 1
        THEN {} ELSE best

\* ConfigureCpuAffinity: auto pins on ARM only; a refusal is a warning.
PinnedCpus(c) ==
    IF c.affinity = "big" \/ (c.affinity = "auto" /\ c.arm)
    THEN DetectHighestCapacityCpus(c.cpus) ELSE {}

-----------------------------------------------------------------------------
(* The rest of step 1, and steps 2 and 3: inputs and devices.              *)

BatchSize(c) == IF c.b # c.defaultBatch THEN c.b ELSE c.batchSize

\* SplitMultiInputFilesArguments: one list of paths for all graphs, or one for
\* each; no -i at all is one empty list, for random data.
SplitMultiInputFilesArguments(c) ==
    IF c.images = <<>> THEN <<<<>>>>
    ELSE IF Len(c.images) \notin {1, Len(c.models)} THEN <<>>
    ELSE [i \in DOMAIN c.images |-> <<c.images[i]>>]

ConfigureChecks(c) ==
    FirstOf(<<<<c.affinity \notin {"auto", "big", "off"}, 3>>,
              <<c.arch # "" /\ c.archFile # "", 3>>,
              <<c.b # c.defaultBatch /\ c.batchSize # c.defaultBatch, 3>>,
              <<BatchSize(c) > 10000 \/ BatchSize(c) <= 0, 3>>,
              <<{"m", "network_file"} \subseteq c.from, 3>>,
              <<c.summary /\ c.pcsort \notin {"", "simple_sort", "sort", "no_sort"}, 1>>,
              <<\E i \in DOMAIN SplitMultiInputFilesArguments(c) :
                    "missing" \in ToSet(SplitMultiInputFilesArguments(c)[i]), 3>>,
              <<SplitMultiInputFilesArguments(c) = <<>>, 1>>,
              <<~c.jitBuilt /\ c.from \cap {"m", "network_file"} # {}, 1>>>>)

NoDevice == [hetero |-> FALSE, list |-> <<>>]
Compiled(c) == "cm" \in c.from

\* Compiled graphs carry their device; -d, or the first graph's, must be that
\* of all of them.  Otherwise the default is the CPU.
DeviceName(c) ==
    IF c.device # NoDevice THEN c.device
    ELSE IF Compiled(c) THEN c.models[1].device
    ELSE [hetero |-> TRUE, list |-> <<"CPU">>]

Uses(c, name) == name \in ToSet(DeviceName(c).list)

\* ParseNStreamsValuePerDevice: "dev:n" for one device of the list, "n" for
\* all; an entry that is empty says nothing.
NStreamsError(c) ==
    \E i \in DOMAIN c.nstreams :
        \/ Len(c.nstreams[i]) > 2
        \/ Len(c.nstreams[i]) = 2 /\ ~Uses(c, c.nstreams[i][1])

ParseNStreamsValuePerDevice(c) ==
    LET set(result, e) ==
            IF Len(e) = 2 THEN [d \in DOMAIN result \cup {e[1]} |->
                                    IF d = e[1] THEN e[2] ELSE result[d]]
            ELSE IF Len(e) = 1 THEN [d \in ToSet(DeviceName(c).list) |-> e[1]]
            ELSE result
    IN  FoldLeft(set, [d \in {} |-> 0], c.nstreams)

DeviceChecks(c) ==
    FirstOf(<<<<c.device # NoDevice /\ ~c.device.hetero, 3>>,
              <<Compiled(c) /\ \E i \in DOMAIN c.models : c.models[i].device # DeviceName(c), 3>>,
              <<Uses(c, "FPGA") /\ "missing" \in {c.arch, c.archFile} /\ ~Compiled(c), 3>>,
              <<Uses(c, "FPGA") /\ c.minSubgraphLayers < 1, 1>>,
              <<NStreamsError(c), 3>>,
              <<~NStreamsError(c) /\
                ~(DOMAIN ParseNStreamsValuePerDevice(c) \subseteq c.streamDevices), 3>>>>)

-----------------------------------------------------------------------------
(* Steps 4 to 7: the models.                                               *)

\* ParseScaleOrMeanValues.  arg is the list of [name, values] before whatever
\* does not parse; a list without a name is for all images and ends the parse.
ParseScaleOrMeanValues(arg, inputs) ==
    LET nameless == {i \in DOMAIN arg.list : arg.list[i].name = 0}
        end == IF nameless = {} THEN Len(arg.list)
               ELSE CHOOSE i \in nameless : \A j \in nameless : i <= j
        forInput(k) == {i \in 1 .. end : \/ arg.list[i].name = k
                                         \/ arg.list[i].name = 0 /\ inputs[k].image}
    IN  [error |-> arg.rest /\ nameless = {},
         values |-> [k \in {k \in DOMAIN inputs : forInput(k) # {}} |->
                        arg.list[CHOOSE i \in forInput(k) :
                                    \A j \in forInput(k) : j <= i].values]]

\* GetInputsInfo: shapes must be static and one input must have the batch
\* dimension if there is a batch; images get a scale and a mean per channel.
InputsError(c, inputs) ==
    \/ \E k \in DOMAIN inputs : inputs[k].dynamic
    \/ BatchSize(c) > 1 /\ \A k \in DOMAIN inputs : ~inputs[k].hasBatch
    \/ ParseScaleOrMeanValues(c.scale, inputs).error
    \/ ParseScaleOrMeanValues(c.mean, inputs).error

GetInputsInfo(c, inputs) ==
    LET per(arg, k, v) ==
            LET given == ParseScaleOrMeanValues(arg, inputs).values
            IN  IF ~inputs[k].image THEN <<>>
                ELSE IF k \in DOMAIN given THEN given[k]
                ELSE [i \in 1 .. inputs[k].channels |-> v]
    IN  [k \in DOMAIN inputs |->
            [batch |-> IF inputs[k].hasBatch THEN BatchSize(c) ELSE inputs[k].batch,
             scale |-> per(c.scale, k, 1), mean |-> per(c.mean, k, 0)]]

\* The directory of the i-th graph: its name, with the number of graphs of that
\* name before it when there are any.
DirectoryName(names, i) ==
    LET before == Cardinality({j \in 1 .. i - 1 : names[j] = names[i]})
    IN  IF before = 0 THEN names[i] ELSE Append(names[i], before)

NetworkDirectories(c) ==
    LET names == [i \in DOMAIN c.models |->
                    IF Compiled(c) THEN <<"Graph", i - 1>> ELSE c.models[i].name]
    IN  [i \in DOMAIN names |-> DirectoryName(names, i)]

\* Models that are compiled now are reshaped to the batch; those that were
\* compiled before must have been compiled for it (exit code 5).
LoadChecks(c) ==
    LET M == c.models
        jit(i) == <<<<Uses(c, "CPU") /\ Uses(c, "FPGA") /\ M[i].quantized, 3>>,
                    <<c.ap /\ ~M[i].yolo, 3>>>>
        aot(i) == <<<<c.ap /\ ~M[i].yolo, 3>>,
                    <<\E k \in DOMAIN M[i].inputs : M[i].inputs[k].batch # BatchSize(c), 5>>,
                    <<InputsError(c, M[i].inputs), 3>>>>
    IN  IF Compiled(c) THEN FirstOf(FlattenSeq([i \in DOMAIN M |-> aot(i)]))
        ELSE FirstOf(<<<<\E i \in DOMAIN M : InputsError(c, M[i].inputs), 3>>>>
                     \o FlattenSeq([i \in DOMAIN M |-> jit(i)]))

-----------------------------------------------------------------------------
(* -spatial replaces all of this by one inference of one image.  p is what *)
(* the flags and files of that mode are; failed is the call of the spatial *)
(* MMD that fails, if any.                                                 *)

SpatialCalls == {"connect", "reset", "load_weights", "run_inference"}

SpatialChecks(p, failed) ==
    FirstOf(<<<<~p.input \/ ~p.resize \/ ~p.config \/ ~p.readable, 1>>,
              <<p.inputWidth \notin {16, 32}, 3>>,
              <<failed = "connect", 1>>,
              <<p.weights /\ failed \in {"reset", "load_weights"}, 1>>,
              <<failed \in {"reset", "run_inference"}, 1>>,
              <<p.outputWidth \notin {16, 32}, 1>>,
              <<p.output = "uncreatable" \/ ~p.writable, 1>>,
              <<p.golden = "unreadable", 1>>>>)
=============================================================================
