------------------------------- MODULE MCBench -------------------------------
(***************************************************************************)
(* Bounds for Bench.tla: two batch sizes, measurements of two values, and  *)
(* command lines that between them reach every branch.                     *)
(***************************************************************************)
EXTENDS Bench

MCBatches == <<1, 8>>

Row(r, b, p) == [runtime |-> r, batch |-> b, of |-> <<r, b>>, n |-> 1, p99 |-> p,
                 tput |-> 1, mem |-> 1, source |-> "device", oom |-> FALSE]

\* What an earlier run has saved: one pair that is run again, one that is not.
Saved == [there |-> TRUE,
          results |-> <<Row("onnxruntime", 1, 10), Row("torchscript", 1, 10)>>]

Disk == [a |-> Saved, b |-> Missing]

Line(format, named, installed, optimize, save, compare) ==
  [format |-> format, named |-> named, installed |-> installed, mac |-> FALSE,
   gpu |-> FALSE, optimize |-> optimize, save |-> save, compare |-> compare, disk |-> Disk]

OnMac(line) == [line EXCEPT !.mac = TRUE]
WithGpu(line) == [line EXCEPT !.gpu = TRUE]

MCCommands == {
  \* Nothing named; TensorRT is not installed.
  Line("onnx", {}, {"onnxruntime"}, "latency", "b", "a"),
  Line("onnx", {}, {"onnxruntime"}, "latency", "a", "a"),
  Line("onnx", {"onnxruntime"}, {"onnxruntime"}, "throughput", "none", "b"),
  WithGpu(Line("gguf", {}, {"llamacpp", "onnxruntime"}, "memory", "b", "none")),
  OnMac(Line("hf", {"transformers", Kernel}, {"transformers", Kernel}, "latency", "none", "none")),
  OnMac(Line("safetensors", {Kernel}, {Kernel}, "throughput", "none", "none")),
  Line("onnx", {Kernel}, {}, "latency", "none", "none"),
  Line("unknown", {}, {"onnxruntime"}, "latency", "none", "none")}

ASSUME Unrepeated == DistinctBatches /\ DistinctReports
==============================================================================
