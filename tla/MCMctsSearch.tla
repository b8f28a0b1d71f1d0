---------------------------- MODULE MCMctsSearch ----------------------------
(* Option records of MctsSearch for TLC. *)
EXTENDS MctsSearch

Opts(switch, multi, opt, sim, cap, depth) ==
  [switch |-> switch, multi |-> multi, opt |-> opt, sim |-> sim, cap |-> cap,
   depth |-> depth]

\* Simulations with the memory cap and with --enable-simulation-opt, in programs
\* that split states in two only, and, one level less deep, in three or with
\* switches; the memory cap without simulations.
MixedOptions == { Opts(FALSE, FALSE, FALSE, TRUE, TRUE, 3),
                  Opts(FALSE, FALSE, TRUE, TRUE, FALSE, 2),
                  Opts(FALSE, TRUE, FALSE, TRUE, TRUE, 2),
                  Opts(FALSE, TRUE, TRUE, TRUE, TRUE, 2),
                  Opts(TRUE, TRUE, FALSE, TRUE, FALSE, 2),
                  Opts(FALSE, TRUE, FALSE, FALSE, TRUE, 3),
                  Opts(TRUE, FALSE, FALSE, FALSE, TRUE, 2) }
SwitchOptions == { Opts(TRUE, FALSE, FALSE, TRUE, FALSE, 2) }
=============================================================================
