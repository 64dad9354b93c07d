---------------------------- MODULE PipelineLoad ----------------------------
(***************************************************************************)
(* Loading the publisher pipeline (publisher/pipeline/module.go):          *)
(* Load / LoadWithSettings build the output group with loadOutput and then *)
(* the pipeline.  The state that outlives one call is the "output" child   *)
(* registry of the Metrics and of the Telemetry monitoring registries,     *)
(* which a later Load (a reload, another pipeline in the same process)     *)
(* finds again: loadOutput clears it when it exists and creates it        *)
(* otherwise, then registers the output's variables in it.                 *)
(*                                                                         *)
(* The monitoring library is not in this repository; its behaviour is     *)
(* taken as: a registry is a map from names to variables, adding a name    *)
(* that is already there panics, Clear empties it and fails (always) for a *)
(* registry that publishes expvar.  outputs.NewStats is abstracted to one  *)
(* variable "events".  makeOutput and pipeline.New may fail.  One Load is  *)
(* one step: the code is sequential and runs on the caller's goroutine.    *)
(***************************************************************************)
EXTENDS Naturals, TLC

CONSTANTS
  Outputs,            \* output names makeOutput may return
  PublishDisabled,    \* the -N flag, set once before any Load
  MaxLoads,           \* bound: Load calls
  Absent,             \* no "output" child registry
  NoOutput            \* outputs.Group{}: no output

ASSUME PublishDisabled \in BOOLEAN /\ MaxLoads \in Nat

VARIABLES
  metricsOut,     \* Metrics' "output" registry: Absent or name -> value
  telemetryOut,   \* Telemetry's "output" registry
  result,         \* outcome of the last Load: "none", "ok", "err", "panic"
  loaded,         \* output of the pipeline the last successful Load built
  call,           \* inputs of the last Load: which monitors were given
  loads,          \* Load calls so far
  metricsExpvar,  \* the Metrics registry publishes expvar: Clear fails
  telemetryExpvar \* the same for Telemetry

vars == <<metricsOut, telemetryOut, result, loaded, call, loads,
          metricsExpvar, telemetryExpvar>>

\* The outcome of a step of loadOutput: registries, error or panic, output.
Outcome(m, t, res, out) == [m |-> m, t |-> t, res |-> res, out |-> out]

\* monitoring.NewString / NewInt / NewStats: add a name, panicking on a
\* name that is already registered.
Registers(reg, names) == \E n \in names : n \in DOMAIN reg

AddVars(reg, names, v) == reg @@ [n \in names |-> v]

\* Mutant: a found registry is reused without Clear.
OpenOutputRegistryNoClear(reg, clearFails) ==
  IF reg = Absent THEN [err |-> FALSE, reg |-> <<>>]
  ELSE [err |-> FALSE, reg |-> reg]

\* GetRegistry("output"): a found registry is cleared (which may fail);
\* otherwise NewRegistry("output") creates an empty one.
OpenOutputRegistry(reg, clearFails) ==
  IF reg = Absent THEN [err |-> FALSE, reg |-> <<>>]
  ELSE IF clearFails THEN [err |-> TRUE, reg |-> reg]
  ELSE [err |-> FALSE, reg |-> <<>>]

\* The telemetry half of loadOutput, once makeOutput has returned `out`.
Telemetry(m, useT, out) ==
  LET tr == OpenOutputRegistry(telemetryOut, telemetryExpvar)
      names == {"name", "batch_size", "clients"}
  IN CASE ~useT -> Outcome(m, telemetryOut, "ok", out)
       [] tr.err -> Outcome(m, telemetryOut, "err", NoOutput)
       [] Registers(tr.reg, names) -> Outcome(m, tr.reg, "panic", NoOutput)
       [] OTHER -> Outcome(m, AddVars(tr.reg, names, out), "ok", out)

\* loadOutput with the given monitors and makeOutput's answer (mk: an
\* output name, "fail", or "nil" for a nil makeOutput).
LoadOutput(useM, useT, mk) ==
  LET mr == OpenOutputRegistry(metricsOut, metricsExpvar)
      stats == AddVars(mr.reg, {"events"}, "stats")
  IN CASE PublishDisabled \/ mk = "nil" ->
            Outcome(metricsOut, telemetryOut, "ok", NoOutput)
       [] useM /\ mr.err -> Outcome(metricsOut, telemetryOut, "err", NoOutput)
       [] useM /\ Registers(mr.reg, {"events"}) ->
            Outcome(mr.reg, telemetryOut, "panic", NoOutput)
       [] mk = "fail" ->
            Outcome(IF useM THEN stats ELSE metricsOut, telemetryOut, "err",
                    NoOutput)
       [] useM /\ Registers(stats, {"type"}) ->
            Outcome(stats, telemetryOut, "panic", NoOutput)
       [] useM -> Telemetry(AddVars(stats, {"type"}, mk), useT, mk)
       [] OTHER -> Telemetry(metricsOut, useT, mk)

\* LoadWithSettings: loadOutput, then pipeline.New, which may fail.
Load ==
  /\ loads < MaxLoads
  /\ result # "panic"
  /\ \E useM, useT, newOK \in BOOLEAN, mk \in Outputs \cup {"fail", "nil"} :
       LET o == LoadOutput(useM, useT, mk)
           res == IF o.res = "ok" /\ ~newOK THEN "err" ELSE o.res
       IN /\ metricsOut' = o.m
          /\ telemetryOut' = o.t
          /\ result' = res
          /\ loaded' = IF res = "ok" THEN o.out ELSE loaded
          /\ call' = [metrics |-> useM, telemetry |-> useT]
  /\ loads' = loads + 1
  /\ UNCHANGED <<metricsExpvar, telemetryExpvar>>

Init ==
  /\ metricsOut = Absent
  /\ telemetryOut = Absent
  /\ result = "none"
  /\ loaded = NoOutput
  /\ call = [metrics |-> FALSE, telemetry |-> FALSE]
  /\ loads = 0
  /\ metricsExpvar \in BOOLEAN
  /\ telemetryExpvar \in BOOLEAN

Next == Load

Spec == Init /\ [][Next]_vars

-----------------------------------------------------------------------------
(* Properties *)

\* Loading the pipeline again in the same process (after a success, an
\* error of makeOutput, of Clear or of pipeline.New) never registers a
\* monitoring variable twice, which would panic.
LoadNeverPanics == result # "panic"

=============================================================================
