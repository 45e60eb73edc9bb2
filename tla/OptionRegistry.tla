--------------------------- MODULE OptionRegistry ---------------------------
(***************************************************************************)
(* The options of the solver (cmd_option_base.c): which there are, the     *)
(* type of each, and the value each starts with.  An option is a pair of   *)
(* the section it belongs to and its member in the options structure; its  *)
(* command-line and ini names are other spellings of that pair.  Decimals  *)
(* are counted in hundredths, file names are reduced to one word each.     *)
(***************************************************************************)
EXTENDS Integers

CONSTANTS
  IntMax,    \* the largest int; the largest unsigned is 2 * IntMax + 1
  NaN        \* the decimal that is not a number

ASSUME WidthAssumption == IntMax \in Nat /\ NaN \in Int \ (0 .. 100)

UintMax == 2 * IntMax + 1

Strings  == {"config_file", "plots_path", "input_file", "load_file", "save_file",
             "plot_file", "cost_file", "heuristic_name"}
Bools    == {"help", "plots_enable", "enable"}
Ints     == {"mode", "seed", "x_square", "y_square", "k"}
Udoubles == {"time_limit", "probability", "mutation_rate", "init_grasp_prob", "fixing_rate",
             "heuristic_ratio", "time_slice_factor", "min_time_slice"}

RANDOM == 0
FILE   == 1

NoText == "NULL"     \* the text of a string option that is a null pointer

Algorithm(limit) == [enable |-> FALSE, time_limit |-> limit,
                     plot_file |-> "plot.png", cost_file |-> "costs.png"]

With(p, q) == [f \in DOMAIN p \cup DOMAIN q |-> IF f \in DOMAIN p THEN p[f] ELSE q[f]]

GeneralDefaults == [verbosity |-> 1, plots_path |-> NoText, plots_enable |-> TRUE, num_threads |-> 1]
InstDefaults    == [mode |-> RANDOM, input_file |-> NoText, number_of_nodes |-> 100, seed |-> 0,
                    x_square |-> 0, y_square |-> 0, square_side |-> 1000]
SolDefaults     == [load_file |-> NoText, save_file |-> NoText]
NnDefaults      == With([num_threads |-> 1], Algorithm(1000))
VnsDefaults     == With([min_k |-> 3, max_k |-> 5, kick_repetitions |-> 1, max_stagnation |-> 200],
                        Algorithm(1000))
TabuDefaults    == With([min_tenure |-> 5, max_tenure |-> 30, max_stagnation |-> 200], Algorithm(1000))
GraspDefaults   == With([rcl_size |-> 10, probability |-> 30, max_stagnation |-> 200], Algorithm(1000))
GeneticDefaults == With([population_size |-> 1000, elite_count |-> 1, mutation_rate |-> 10,
                         crossover_cut_min_ratio |-> 25, crossover_cut_max_ratio |-> 75,
                         tournament_size |-> 5, init_grasp_rcl_size |-> 5,
                         init_grasp_prob |-> 20, init_grasp_percent |-> 90], Algorithm(2000))
BendersDefaults == With([max_iterations |-> 200], Algorithm(6000))
BcDefaults      == With([num_threads |-> 0], Algorithm(6000))
HfDefaults      == With([fixing_rate |-> 90, heuristic_ratio |-> 20, time_slice_factor |-> 10,
                         min_time_slice |-> 500, heuristic_name |-> "vns"], Algorithm(6000))
LbDefaults      == With([k |-> 20, heuristic_ratio |-> 20, heuristic_name |-> "vns"], Algorithm(6000))

\* The whole structure; "cli" holds the two members that are no options of the
\* registry: the help switch and the path of the ini file.
Defaults ==
  [cli     |-> [help |-> FALSE, config_file |-> NoText],
   general |-> GeneralDefaults, inst  |-> InstDefaults,  sol |-> SolDefaults,
   nn      |-> NnDefaults,      vns   |-> VnsDefaults,   tabu |-> TabuDefaults,
   grasp   |-> GraspDefaults,   em    |-> Algorithm(1000),
   genetic |-> GeneticDefaults, benders |-> BendersDefaults, bc |-> BcDefaults,
   hf      |-> HfDefaults,      lb    |-> LbDefaults]

Flags    == UNION {{<<s, f>> : f \in DOMAIN Defaults[s]} : s \in DOMAIN Defaults}
Registry == {o \in Flags : o[1] # "cli"}

Get(opts, o) == opts[o[1]][o[2]]
Type(o) == CASE o[2] \in Strings  -> "string"
             [] o[2] \in Bools    -> "bool"
             [] o[2] \in Ints     -> "int"
             [] o[2] \in Udoubles -> "udouble"
             [] OTHER             -> "uint"
StringOptions == {o \in Flags : Type(o) = "string"}
==============================================================================
