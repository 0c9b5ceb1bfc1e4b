---------------------------- MODULE MCLoadRunner ----------------------------
(* Small instances of LoadRunner: every kind of bound a run may have, alone *)
(* and together, and plans that start at, leave and return to rate 0.       *)
EXTENDS LoadRunner

Plain == [total |-> 0, timed |-> FALSE, hasty |-> FALSE, model |-> "uniform",
          rate |-> 1, plan |-> <<>>]

MCOptions ==
    { [Plain EXCEPT !.total = 2],
      [Plain EXCEPT !.timed = TRUE],
      [Plain EXCEPT !.total = 1, !.timed = TRUE, !.rate = 0, !.hasty = TRUE],
      [Plain EXCEPT !.plan = <<0, 1>>],
      [Plain EXCEPT !.plan = <<1, 0>>, !.model = "poisson", !.timed = TRUE] }

\* A ramp from 0 requests per second, as in main_test.go, and nothing else that
\* could end the run early.
RampFromZero == { [Plain EXCEPT !.plan = <<0, 1>>] }
=============================================================================
