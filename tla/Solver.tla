------------------------------- MODULE Solver -------------------------------
(***************************************************************************)
(* The program (main.c, algorithm_runner.c): load the options, create or   *)
(* load the instance, run the enabled algorithms one after the other with  *)
(* the parameters the options give them, clean up.  A run of an algorithm  *)
(* is one entry of `launched'; what it does is the subject of the modules  *)
(* of the algorithms.                                                      *)
(***************************************************************************)
EXTENDS CmdOptions, InstanceFile

CONSTANTS
  TspPaths,       \* the words that are paths ending in .tsp
  InstanceFiles   \* the contents a TSPLIB file may have

ASSUME InstanceAssumption == TspPaths \subseteq Tokens /\ InstanceFiles \subseteq Seq(STRING)

VARIABLES
  stage,      \* "load", "create", "run", "exited", or "undefined" after a double free
  instance,   \* the instance, NoInstance if there is none
  file,       \* the words of the instance file that was read
  turn,       \* the place of the next algorithm in Order
  launched,   \* the algorithms that were run and their parameters
  exitCode

programVars == <<loadVars, stage, instance, file, turn, launched, exitCode>>

Order == <<"nn", "vns", "tabu", "grasp", "em", "genetic", "benders", "bc", "hf", "lb">>
NoInstance == <<>>
Drawn == <<>>           \* the nodes of an instance drawn at random
NoHeuristic == "none"

ProgramInit ==
  /\ LoadInit
  /\ stage = "load" /\ instance = NoInstance /\ file = <<>>
  /\ turn = 1 /\ launched = <<>> /\ exitCode = -1

Load ==
  /\ stage = "load" /\ LoadNext
  /\ UNCHANGED <<stage, instance, file, turn, launched, exitCode>>

\* The variables of the load that cleaning up leaves alone.
settled == <<argv, defined, visited, options, failures, parsed, ini, lines, section, prevName, status>>

(* cmd_options_destroy frees every string; freeing the block of a field whose copy failed,
   which was freed before, is a double free. *)
CleanUp(code) ==
  /\ stage' = IF Owned(options) \subseteq DOMAIN heap THEN "exited" ELSE "undefined"
  /\ heap' = Freed(heap, Owned(options))
  /\ instance' = NoInstance
  /\ exitCode' = code
  /\ UNCHANGED settled

Refused ==
  /\ stage = "load" /\ status \notin {"loading", "SUCCESS"}
  /\ CleanUp(IF status = "HELP" THEN 0 ELSE 1)
  /\ UNCHANGED <<file, turn, launched>>

\* A conversion of an unsigned to an int.
AsInt(u) == IF u > IntMax THEN u - (UintMax + 1) ELSE u

Proceeds == stage = "load" /\ status = "SUCCESS"
Creates(i) ==
  /\ instance' = i /\ stage' = "run"
  /\ UNCHANGED <<loadVars, turn, launched, exitCode>>
Failed ==
  /\ CleanUp(1)
  /\ UNCHANGED <<turn, launched>>

CreateRandom ==
  /\ Proceeds /\ options.inst.mode = RANDOM
  /\ Creates([n |-> AsInt(options.inst.number_of_nodes), nodes |-> Drawn])
  /\ UNCHANGED file

\* A file of another type or one that cannot be opened.
InstanceUnreadable == Proceeds /\ options.inst.mode = FILE /\ Failed /\ UNCHANGED file

LoadInstance ==
  /\ Proceeds /\ options.inst.mode = FILE /\ heap[options.inst.input_file] \in TspPaths
  /\ \E f \in InstanceFiles :
       /\ file' = f
       /\ IF Parse(f).expects = "parsed"
          THEN Creates([n |-> Parse(f).n, nodes |-> Parse(f).nodes])
          ELSE Failed

\* A mode that is neither: no instance, and no message.
NoMode == Proceeds /\ options.inst.mode \notin {RANDOM, FILE} /\ Failed /\ UNCHANGED file

-----------------------------------------------------------------------------
\* The parameters of an algorithm as run_selected_algorithms passes them.
Parameters(a) ==
  LET P == DOMAIN options[a] \ (Bools \cup Strings)
  IN [f \in P |-> IF Type(<<a, f>>) = "uint" THEN AsInt(options[a][f]) ELSE options[a][f]]

\* parse_warm_start_heuristic; names are compared regardless of case, so a word stands for all
\* its spellings.
Heuristic(name) ==
  CASE name = "nn"                      -> "nn"
    [] name \in {"em", "extra_mileage"} -> "em"
    [] name = "tabu"                    -> "tabu"
    [] name = "grasp"                   -> "grasp"
    [] name \in {"ga", "genetic"}       -> "genetic"
    [] OTHER                            -> "vns"

WarmStart(a) ==
  IF a \notin {"hf", "lb"} THEN NoHeuristic
  ELSE IF options[a].heuristic_name = Null THEN "vns"
  ELSE Heuristic(heap[options[a].heuristic_name])

(* create_heuristic_config: the parameters of a warm start are those of the algorithm's own
   options, its time limit apart; nearest neighbour and extra mileage get none. *)
NoParameters == <<>>
HeuristicConfig(h) ==
  IF h \in {"nn", "em", NoHeuristic} THEN NoParameters
  ELSE [f \in DOMAIN Parameters(h) \ {"time_limit"} |-> Parameters(h)[f]]

\* The algorithms that are enabled run in the order of the calls.
Enabled == {i \in turn..Len(Order) : options[Order[i]].enable}

Launch ==
  /\ stage = "run"
  /\ \E i \in Enabled :
       LET a == Order[i] IN
       /\ \A j \in Enabled : i <= j
       /\ launched' = Append(launched,
            [algorithm |-> a, config |-> Parameters(a), heuristic |-> WarmStart(a),
             start |-> HeuristicConfig(WarmStart(a))])
       /\ turn' = i + 1
  /\ UNCHANGED <<loadVars, stage, instance, file, exitCode>>

Finish ==
  /\ stage = "run" /\ Enabled = {}
  /\ CleanUp(0)
  /\ UNCHANGED <<file, turn, launched>>

ProgramNext ==
  \/ Load \/ Refused \/ CreateRandom \/ InstanceUnreadable \/ LoadInstance \/ NoMode
  \/ Launch \/ Finish

ProgramSpec == ProgramInit /\ [][ProgramNext]_programVars

-----------------------------------------------------------------------------
(* What the lines L of an ini file set, told from all of them at once: an indented line
   continues the name of the last pair, unless a section line or a pair without a name stands
   at the margin between them, and the last setting that can be converted counts. *)
Before(i, S) == {j \in S : j < i}

EndsName(l) == l.form = "section" \/ (l.form = "pair" /\ l.name = "")
Continued(L) == {i \in DOMAIN L :
  /\ L[i].indented /\ L[i].form # "comment"
  /\ \E j \in 1..(i - 1) :
       /\ L[j].form = "pair" /\ L[j].name # ""
       /\ \A m \in (j + 1)..(i - 1) : EndsName(L[m]) => L[m].indented}
Openers(L)  == {i \in DOMAIN L : L[i].form = "pair"} \ Continued(L)
Headings(L) == {i \in DOMAIN L : L[i].form = "section"} \ Continued(L)

SectionAt(L, i) ==
  LET above == Before(i, Headings(L)) IN IF above = {} THEN "" ELSE L[Greatest(above)].section
NameAt(L, i) == IF i \in Continued(L) THEN L[Greatest(Before(i, Openers(L)))].name ELSE L[i].name
TextAt(L, i) == IF i \in Continued(L) THEN L[i].text ELSE L[i].value

Convertible(o, t) == Type(o) \in {"string", "bool"} \/ o[2] = "mode" \/ Stores(Type(o), t)
Converted(o, t) == CASE Type(o) = "string" -> t
                     [] Type(o) = "bool" -> t \in {"true", "1"}
                     [] o[2] = "mode" -> IniMode(t)
                     [] OTHER -> Value(Type(o), t)

Settings(L) == {[at |-> i, option |-> <<SectionAt(L, i), NameAt(L, i)>>, text |-> TextAt(L, i)] :
                  i \in Openers(L) \cup Continued(L)}
FromIni(o, settings) ==
  LET S == {x \in settings : x.option = o /\ Convertible(o, x.text)}
  IN IF S = {} THEN Get(Defaults, o)
     ELSE Converted(o, (CHOOSE x \in S : \A y \in S : y.at <= x.at).text)

Given(o) == {i \in DOMAIN argv : Known(argv[i]) /\ Names[argv[i]] = o}
FromArguments(o) ==
  IF Type(o) = "bool" THEN TRUE
  ELSE LET v == argv[Greatest(Given(o)) + 1] IN IF Type(o) = "string" THEN v ELSE Value(Type(o), v)

Shown(o) == IF Type(o) # "string" THEN Get(options, o)
            ELSE IF Get(options, o) = Null THEN NoText ELSE heap[Get(options, o)]

(* When the options are loaded and no allocation failed, every option has the value of the
   command line if it is given there under any of its names, else the value of the last line
   of the ini file that sets it, else its default; no threads means all of them.  Parser,
   ini reader, handler, merge and validation each write a part of this. *)
SourcesInOrder ==
  (stage = "load" /\ status \notin {"loading", "HELP"} /\ parsed = "SUCCESS" /\ failures = 0) =>
     LET settings == Settings(lines) IN
     \A o \in Registry :
        LET v == IF Given(o) # {} THEN FromArguments(o) ELSE FromIni(o, settings)
        IN Shown(o) = IF o = <<"general", "num_threads">> /\ v = 0 THEN MaxThreads ELSE v

Holders(opts) == IF opts = NoOptions THEN {} ELSE {o \in StringOptions : Get(opts, o) # Null}
Held == Owned(options) \cup (IF ini = NoOptions THEN {} ELSE Owned(ini))

(* Every live string belongs to exactly one field of the two structures and every field that
   is not null holds a live string, the one excepted whose copy the flag parser could not
   make (flag_parser.c frees first and copies then); at the exit nothing is left, and only
   that field makes the clean-up free a block twice. *)
OneOwnerPerString ==
  /\ Cardinality(Held) = Cardinality(Holders(options)) + Cardinality(Holders(ini))
  /\ stage \in {"load", "run"} =>
       /\ DOMAIN heap \subseteq Held
       /\ Cardinality(Held \ DOMAIN heap) <= (IF parsed = "INTERNAL_ERROR" THEN 1 ELSE 0)
  /\ stage \in {"exited", "undefined"} => heap = <<>>
  /\ stage = "undefined" => parsed = "INTERNAL_ERROR" /\ failures > 0

(* The ranges the parameters p of an algorithm are meant to have, asked of those in `seen': by
   the messages of validate_options, and for what it does not look at by the code that uses
   it (constructive.c, genetic.c).  A relation of two parameters is asked of both. *)
Percent(p, f, seen)     == f \in seen => p[f] \in 0..100
AtLeast(n, p, f, seen)  == f \in seen => p[f] >= n
NotAbove(p, f, g, seen)  == {f, g} \subseteq seen => p[f] <= p[g]
Sound(a, p, seen) ==
  /\ AtLeast(0, p, "time_limit", seen)
  /\ a = "vns" =>
       /\ AtLeast(2, p, "min_k", seen) /\ NotAbove(p, "min_k", "max_k", seen)
       /\ \A f \in {"kick_repetitions", "max_stagnation"} : AtLeast(1, p, f, seen)
  /\ a = "tabu" =>
       /\ \A f \in {"min_tenure", "max_stagnation"} : AtLeast(1, p, f, seen)
       /\ NotAbove(p, "min_tenure", "max_tenure", seen)
  /\ a = "grasp" =>
       /\ \A f \in {"rcl_size", "max_stagnation"} : AtLeast(1, p, f, seen)
       /\ Percent(p, "probability", seen)
  /\ a = "genetic" =>
       /\ AtLeast(2, p, "population_size", seen) /\ AtLeast(0, p, "elite_count", seen)
       /\ {"elite_count", "population_size"} \subseteq seen => p.elite_count < p.population_size
       /\ \A f \in {"mutation_rate", "crossover_cut_min_ratio", "crossover_cut_max_ratio",
                    "init_grasp_prob", "init_grasp_percent"} : Percent(p, f, seen)
       /\ NotAbove(p, "crossover_cut_min_ratio", "crossover_cut_max_ratio", seen)
       /\ \A f \in {"tournament_size", "init_grasp_rcl_size"} : AtLeast(1, p, f, seen)
  /\ a = "benders" => AtLeast(1, p, "max_iterations", seen)
  /\ a = "hf" =>
       /\ \A f \in {"fixing_rate", "heuristic_ratio", "time_slice_factor"} : Percent(p, f, seen)
       /\ AtLeast(0, p, "min_time_slice", seen)
  /\ a = "lb" => AtLeast(1, p, "k", seen) /\ Percent(p, "heuristic_ratio", seen)

(* What validate_options does not see of an enabled algorithm: the five parameters it never
   looks at, the sign of local branching's k, a decimal that is not a number, which passes
   every comparison, and that an unsigned value beyond int is cast to int afterwards. *)
Unvalidated ==
  {<<"vns", "time_limit">>, <<"genetic", "tournament_size">>, <<"genetic", "init_grasp_rcl_size">>,
   <<"genetic", "init_grasp_prob">>, <<"genetic", "init_grasp_percent">>}
Unseen(a, f) ==
  \/ <<a, f>> \in Unvalidated
  \/ <<a, f>> = <<"lb", "k">> /\ options[a][f] < 0
  \/ Type(<<a, f>>) = "udouble" /\ options[a][f] = NaN
  \/ Type(<<a, f>>) = "uint" /\ options[a][f] > IntMax
Seen(a) == {f \in DOMAIN options[a] : ~Unseen(a, f)}

(* Whatever the arguments, the lines of the ini file and the merge made of the options, every
   parameter an algorithm is run with is in its range as far as validate_options sees it, and
   so is every parameter of a warm start whose algorithm is itself enabled.  (The options of
   one that is not enabled are not validated.) *)
OnlyCheckedConfigurationsRun ==
  \A i \in DOMAIN launched :
     LET r == launched[i]
         a == r.algorithm
         h == r.heuristic
     IN /\ Sound(a, r.config, Seen(a))
        /\ r.start # NoParameters /\ options[h].enable => Sound(h, r.start, Seen(h) \cap DOMAIN r.start)

(* An instance that is run is the one its file states, coordinates the file does not list
   being left as malloc found them; one drawn at random has at least the two nodes validation
   asks for, which a file need not have. *)
InstanceIsTheFile ==
  instance # NoInstance =>
     \/ instance.nodes # Drawn /\ Says(file, instance.n, instance.nodes)
     \/ instance.nodes = Drawn /\ (instance.n >= 2 \/ options.inst.number_of_nodes > IntMax)
==============================================================================
