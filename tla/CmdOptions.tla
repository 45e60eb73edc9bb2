----------------------------- MODULE CmdOptions -----------------------------
(***************************************************************************)
(* Loading the options (cmd_options.c, cmd_option_ini.c, ini.c): parse the *)
(* command line, read the ini file it names into a second structure of     *)
(* defaults, take from there what the command line did not set, validate.  *)
(* The lines of the ini file are chosen while it is read.                  *)
(***************************************************************************)
EXTENDS FlagParser

CONSTANTS
  IniLines,    \* the lines an ini file may have
  MaxInput,    \* bound: words on the command line and lines of the ini file together
  MaxThreads   \* get_max_threads()

ASSUME IniAssumption ==
  /\ \A l \in IniLines : DOMAIN l = {"form", "indented", "section", "name", "value", "text"}
  /\ MaxInput \in Nat /\ MaxThreads \in Nat \ {0}

VARIABLES
  ini,       \* the structure the ini file is read into, NoOptions if there is none
  lines,     \* the lines read so far
  section,   \* section: the section of the last section line, "" before it
  prevName,  \* prev_name: the last name read in the section, "" if none
  status     \* "loading", then the result of cmd_options_load

loadVars == <<parserVars, ini, lines, section, prevName, status>>

NoOptions == <<>>

LoadInit ==
  /\ ParserInit
  /\ ini = NoOptions /\ lines = <<>> /\ section = "" /\ prevName = "" /\ status = "loading"

ParserUnavailable ==
  /\ parsed = "new" /\ status = "loading" /\ failures < MaxFailures
  /\ failures' = failures + 1 /\ status' = "INTERNAL_ERROR"
  /\ UNCHANGED <<argv, defined, visited, options, heap, parsed, ini, lines, section, prevName>>

ReadArguments ==
  /\ status = "loading"
  /\ BuildParser \/ ParserNext
  /\ UNCHANGED <<ini, lines, section, prevName, status>>

\* Help wins over an error that was met after it; an error ends the load.
Returned == status = "loading" /\ ini = NoOptions /\ parsed \notin {"new", "reading"}
ArgumentsFail ==
  /\ Returned
  /\ \/ options.cli.help /\ status' = "HELP"
     \/ ~options.cli.help /\ parsed # "SUCCESS" /\ status' = parsed
  /\ UNCHANGED <<parserVars, ini, lines, section, prevName>>

OpenIni ==
  /\ Returned /\ parsed = "SUCCESS" /\ ~options.cli.help /\ options.cli.config_file # Null
  /\ \E lost \in Losses(WithText) :
       /\ ini' = Created("ini", lost)
       /\ heap' = [b \in DOMAIN heap \cup Owned(Created("ini", lost)) |->
                     IF b \in DOMAIN heap THEN heap[b] ELSE CreatedTexts("ini", lost)[b]]
       /\ failures' = failures + Cardinality(lost)
  /\ UNCHANGED <<argv, defined, visited, options, parsed, lines, section, prevName, status>>

-----------------------------------------------------------------------------
(* config_ini_handler: the value of the option that the section and the name select.  What
   cannot be converted is ignored, and so is an unknown name. *)
IniMode(text) == IF text \in {"file", "FILE", "1"} THEN FILE ELSE RANDOM

SetNumber(o, text) ==
  /\ ini' = IF o[2] = "mode" THEN [ini EXCEPT ![o[1]][o[2]] = IniMode(text)]
            ELSE IF Type(o) = "bool" THEN [ini EXCEPT ![o[1]][o[2]] = text \in {"true", "1"}]
            ELSE IF Stores(Type(o), text) THEN [ini EXCEPT ![o[1]][o[2]] = Value(Type(o), text)]
            ELSE ini
  /\ UNCHANGED <<heap, failures>>

SetString(o, text) ==
  LET rest == Freed(heap, {Get(ini, o)})
      block == <<"file", o[1], o[2]>>
  IN \/ /\ heap' = Allocated(rest, block, text)
        /\ ini' = [ini EXCEPT ![o[1]][o[2]] = block]
        /\ UNCHANGED failures
     \/ /\ o \in Fallible /\ failures < MaxFailures
        /\ failures' = failures + 1 /\ heap' = rest
        /\ ini' = [ini EXCEPT ![o[1]][o[2]] = Null]

Handle(name, text) ==
  LET o == <<section, name>> IN
  \/ o \in Registry /\ Type(o) = "string" /\ SetString(o, text)
  \/ o \in Registry /\ Type(o) # "string" /\ SetNumber(o, text)
  \/ o \notin Registry /\ UNCHANGED <<ini, heap, failures>>

\* Wrong: a section line does not end the name before it.
WrongContinues(l) == l.indented /\ (\E i \in DOMAIN lines : lines[i].form = "pair")

(* ini_parse_stream: an indented line below a name of its section continues that name,
   whatever else it looks like: the handler gets its whole text as a new value. *)
Continues(l) == prevName # "" /\ l.indented

Comment(l) == l.form = "comment" /\ UNCHANGED <<ini, heap, failures, section, prevName>>
Continuation(l) ==
  /\ l.form # "comment" /\ Continues(l)
  /\ Handle(prevName, l.text)
  /\ UNCHANGED <<section, prevName>>
SectionLine(l) ==
  /\ l.form = "section" /\ ~Continues(l)
  /\ section' = l.section /\ prevName' = ""
  /\ UNCHANGED <<ini, heap, failures>>
PairLine(l) ==
  /\ l.form = "pair" /\ ~Continues(l)
  /\ Handle(l.name, l.value)
  /\ prevName' = l.name
  /\ UNCHANGED section
\* Neither a section nor a pair: an error is noted and the reading goes on.
Malformed(l) == l.form = "bare" /\ ~Continues(l) /\ UNCHANGED <<ini, heap, failures, section, prevName>>

Reading == status = "loading" /\ ini # NoOptions
ReadLine ==
  /\ Reading /\ Len(argv) + Len(lines) < MaxInput
  /\ \E l \in IniLines :
       /\ Comment(l) \/ Continuation(l) \/ SectionLine(l) \/ PairLine(l) \/ Malformed(l)
       /\ lines' = Append(lines, l)
  /\ UNCHANGED <<argv, defined, visited, options, parsed, status>>

-----------------------------------------------------------------------------
Less(x, y) == x # NaN /\ y # NaN /\ x < y
\* Wrong: the lower bound is left to the command line.
WrongInUnit(x) == ~Less(100, x)

InUnit(x) == ~Less(x, 0) /\ ~Less(100, x)

ValidNn(p)      == ~Less(p.time_limit, 0)
ValidVns(p)     == /\ p.min_k >= 2 /\ p.max_k >= 2 /\ p.min_k <= p.max_k
                   /\ p.kick_repetitions # 0 /\ p.max_stagnation # 0
ValidTabu(p)    == /\ p.min_tenure # 0 /\ p.max_tenure # 0 /\ p.min_tenure <= p.max_tenure
                   /\ p.max_stagnation # 0 /\ ~Less(p.time_limit, 0)
ValidGrasp(p)   == /\ p.rcl_size >= 1 /\ InUnit(p.probability)
                   /\ p.max_stagnation > 0 /\ ~Less(p.time_limit, 0)
ValidEm(p)      == ~Less(p.time_limit, 0)
ValidGenetic(p) == /\ p.population_size >= 2 /\ p.elite_count < p.population_size
                   /\ InUnit(p.mutation_rate)
                   /\ p.crossover_cut_min_ratio <= p.crossover_cut_max_ratio
                   /\ p.crossover_cut_max_ratio <= 100 /\ ~Less(p.time_limit, 0)
ValidBenders(p) == ~Less(p.time_limit, 0) /\ p.max_iterations # 0
ValidBc(p)      == ~Less(p.time_limit, 0)
ValidHf(p)      == /\ ~Less(p.time_limit, 0) /\ InUnit(p.fixing_rate) /\ InUnit(p.heuristic_ratio)
                   /\ InUnit(p.time_slice_factor) /\ ~Less(p.min_time_slice, 0)
ValidLb(p)      == ~Less(p.time_limit, 0) /\ p.k # 0 /\ InUnit(p.heuristic_ratio)

AlgorithmsValid(opts) ==
  /\ opts.nn.enable      => ValidNn(opts.nn)
  /\ opts.vns.enable     => ValidVns(opts.vns)
  /\ opts.tabu.enable    => ValidTabu(opts.tabu)
  /\ opts.grasp.enable   => ValidGrasp(opts.grasp)
  /\ opts.em.enable      => ValidEm(opts.em)
  /\ opts.genetic.enable => ValidGenetic(opts.genetic)
  /\ opts.benders.enable => ValidBenders(opts.benders)
  /\ opts.bc.enable      => ValidBc(opts.bc)
  /\ opts.hf.enable      => ValidHf(opts.hf)
  /\ opts.lb.enable      => ValidLb(opts.lb)

\* validate_options on the options, the number of threads having been filled in.
Verdict(opts) ==
  LET i == opts.inst
      noFile == i.mode = FILE /\ (IF i.input_file = Null THEN TRUE ELSE heap'[i.input_file] = "")
      badArea == i.mode # FILE /\ (i.number_of_nodes < 2 \/ i.square_side = 0)
  IN CASE noFile -> "MISSING_MANDATORY_FLAG"
       [] badArea \/ (~noFile /\ ~AlgorithmsValid(opts)) -> "WRONG_VALUE_TYPE"
       [] OTHER -> "SUCCESS"

WithThreads(opts) ==
  [opts EXCEPT !.general.num_threads = IF @ = 0 THEN MaxThreads ELSE @]

(* The end of cmd_options_load without an ini file, and with one: every option that the
   command line did not visit is copied from the ini structure, which is then destroyed. *)
Validate ==
  /\ Returned /\ parsed = "SUCCESS" /\ ~options.cli.help /\ options.cli.config_file = Null
  /\ options' = WithThreads(options) /\ heap' = heap
  /\ status' = Verdict(options')
  /\ UNCHANGED <<argv, defined, visited, failures, parsed, ini, lines, section, prevName>>

Unvisited == Registry \ visited
\* Wrong: the merge copies the pointer instead of the string.
WrongMerged(lost) ==
  [s \in DOMAIN options |-> [f \in DOMAIN options[s] |->
     IF <<s, f>> \notin Unvisited THEN options[s][f] ELSE ini[s][f]]]

Merged(lost) ==
  [s \in DOMAIN options |-> [f \in DOMAIN options[s] |->
     IF <<s, f>> \notin Unvisited THEN options[s][f]
     ELSE IF f \notin Strings THEN ini[s][f]
     ELSE IF ini[s][f] = Null \/ <<s, f>> \in lost THEN Null
     ELSE <<"copy", s, f>>]]

MergeIni ==
  /\ Reading
  /\ \E lost \in Losses({o \in Unvisited \cap StringOptions : Get(ini, o) # Null}) :
       LET replaced == {Get(options, o) : o \in Unvisited \cap StringOptions}
           rest == DOMAIN heap \ (replaced \cup Owned(ini))
       IN /\ options' = WithThreads(Merged(lost))
          /\ heap' = [b \in rest \cup (Owned(Merged(lost)) \ DOMAIN heap) |->
                        IF b \in rest THEN heap[b] ELSE heap[ini[b[2]][b[3]]]]
          /\ failures' = failures + Cardinality(lost)
  /\ ini' = NoOptions
  /\ status' = Verdict(options')
  /\ UNCHANGED <<argv, defined, visited, parsed, lines, section, prevName>>

LoadNext ==
  ParserUnavailable \/ ReadArguments \/ ArgumentsFail \/ OpenIni \/ ReadLine \/ MergeIni \/ Validate
==============================================================================
