---------------------------- MODULE LivePipeline ----------------------------
(***************************************************************************)
(* The threaded pipeline under `render --live`: the source is an SDR on    *)
(* stdin (cli/cli_util.cpp, stream_real_stdin), which has no end.          *)
(*                                                                         *)
(* NBlocks only bounds the numbering: block numbers are reused after it,   *)
(* and no property of this module looks at them.  MaxChains bounds the chains*)
(* in flight: once a stage has failed they hold no buffer, so no pool does.*)
(***************************************************************************)
EXTENDS Pipeline

CONSTANT MaxChains

(* fread always returns another block.                                     *)
LiveSourceNext ==
  /\ src = "emit" /\ active < MaxChains
  /\ src' = "acquire"
  /\ next' = IF next = NBlocks THEN 0 ELSE next
  /\ UNCHANGED <<srcBuf, srcErr, result, workerVars, poolVars, funnelVars,
                 ghostVars, queue, active>>

LiveCaller == LiveSourceNext \/ SourceAcquire \/ SourcePop \/ SourceSpawn

LiveNext == LiveCaller \/ \E s \in Stages : Worker(s)

LiveSpec ==
  /\ Init /\ [][LiveNext]_vars
  /\ WF_vars(LiveCaller) /\ \A s \in Stages : WF_vars(Worker(s))

(* "A worker exception is captured, winds the pipeline down, and is        *)
(* rethrown on the calling thread after a clean drain"                     *)
(* (pipeline_run.hpp, header comment): once a stage has failed, run()      *)
(* leaves.  Nothing tells the source, so while it has blocks run() stays.  *)
ExceptionIsRethrown == stopped ~> (src = "done")
=============================================================================
