------------------------------ MODULE MCSolver ------------------------------
(***************************************************************************)
(* The solver on a few words: flags of every type, one of them with a      *)
(* short name, and values that are numbers, negative, too large for an     *)
(* int, a path and the name of a heuristic.  Local branching and the       *)
(* genetic algorithm that may warm start it are enabled by flags or lines. *)
(***************************************************************************)
EXTENDS Solver, TLC

MCNames ==
  "--help" :> <<"cli", "help">> @@ "-h" :> <<"cli", "help">> @@ "-c" :> <<"cli", "config_file">> @@
  "--mode" :> <<"inst", "mode">> @@ "--file" :> <<"inst", "input_file">> @@
  "--ga" :> <<"genetic", "enable">> @@ "--ga-tournament" :> <<"genetic", "tournament_size">> @@
  "--lb" :> <<"lb", "enable">> @@ "--lb-ratio" :> <<"lb", "heuristic_ratio">> @@
  "--lb-heuristic" :> <<"lb", "heuristic_name">>

MCNumber  == "0" :> 0 @@ "1" :> 1 @@ "-1" :> -1 @@ "40000" :> 40000
MCDecimal == "0" :> 0 @@ "1" :> 100 @@ "-1" :> -100 @@ "40000" :> 4000000
MCDashed  == DOMAIN MCNames \cup {"--", "-1"}
MCTokens  == MCDashed \cup {"1", "ga", "a.tsp"}
MCFallible == {<<"lb", "heuristic_name">>}

Line(form, indented, sec, name, value, text) ==
  [form |-> form, indented |-> indented, section |-> sec, name |-> name, value |-> value, text |-> text]
Setting(indented, name, value) == Line("pair", indented, "", name, value, "text")

MCIniLines ==
  {Line("section", FALSE, "lb", "", "", ""), Line("section", TRUE, "genetic", "", "", "text"),
   Line("section", FALSE, "inst", "", "", ""),
   Line("comment", TRUE, "", "", "", ""), Line("bare", TRUE, "", "", "", "1"),
   Setting(FALSE, "enable", "true"), Setting(FALSE, "heuristic_name", "ga"),
   Setting(FALSE, "mode", "file"), Setting(TRUE, "input_file", "a.tsp"), Setting(FALSE, "", "1"),
   Setting(FALSE, "heuristic_ratio", "-1"), Setting(FALSE, "population_size", "40000"),
   Setting(FALSE, "k", "-1"), Setting(FALSE, "k", "0")}

\* Files of a header and a body of at most MaxBody words, and of two whole triples.
MaxBody == 3
Header  == <<"DIMENSION:", "1", ":", "DIMENSION", ":", "2", "NODE_COORD_SECTION">>
Bodies  == UNION {[1..m -> {"1", "2", "x", "EOF"}] : m \in 0..MaxBody}
Triples == {<<i, "1", "2", j, "2", "1">> : i, j \in {"1", "2"}}
MCInstanceFiles ==
  {Header \o b : b \in Bodies \cup Triples}
  \cup {Header \o <<":">> \o t \o <<w>> : t \in Triples, w \in {"EOF", "1", ":"}}
  \cup {<<"NODE_COORD_SECTION">>, <<"DIMENSION", "x">>, <<"DIMENSION">>, <<"NAME", "1", "EOF">>}
MCWholeNumber == "1" :> 1 @@ "2" :> 2
MCUncoloned == "DIMENSION:" :> "DIMENSION" @@ ":" :> ""
==============================================================================
