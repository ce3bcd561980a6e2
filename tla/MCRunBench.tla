----------------------------- MODULE MCRunBench -----------------------------
(* Constants of the model-checking run of RunBench.                         *)
EXTENDS RunBench

\* Shutdown.
TwoBenches == <<"bench 1", "bench 2">>
AllKinds == [Procs -> {"normal", "hung", "stuck"}]

\* Outputs: both compilers, one of them; plots on and off; one kind of reports
\* off.
With(compilers, threads, plots, comparison_pdf) ==
  [compilers |-> compilers, threads |-> threads, plots |-> plots, pdf |-> TRUE,
   comparison_pdf |-> comparison_pdf]
SmallConfigs ==
  {With(<<"gcc", "clang">>, <<1, 2>>, TRUE, TRUE), With(<<"gcc">>, <<1>>, TRUE, FALSE),
   With(<<"gcc", "clang">>, <<2>>, FALSE, TRUE)}
TwoScatter == <<"elapsed_time", "net_energy">>
OneComparison == <<"elapsed">>
=============================================================================
