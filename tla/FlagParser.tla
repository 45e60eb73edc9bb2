----------------------------- MODULE FlagParser -----------------------------
(***************************************************************************)
(* The command-line parser of cflaglib (flag_parser.c) as the solver uses  *)
(* it: one flag per option, unknown arguments refused.  The argument       *)
(* vector is chosen while it is read, one flag and its value at a step;    *)
(* `argv' keeps the part that was read.  A string option owns a block of   *)
(* the heap: its field holds the block, the heap maps live blocks to their *)
(* text.  Copying a string can fail, which at most MaxFailures times and   *)
(* for the options in Fallible it does here.                               *)
(***************************************************************************)
EXTENDS OptionRegistry, Sequences, FiniteSets

CONSTANTS
  Tokens,      \* the words that can stand on the command line
  Dashed,      \* those that begin with a dash
  Names,       \* Names[t]: the flag whose long or short name t is
  Number,      \* Number[t]: the integer t spells, if it spells one
  Decimal,     \* Decimal[t]: the decimal t spells, if it spells one
  MaxArgs,     \* bound: words on the command line
  MaxFailures, \* bound: allocations that fail
  Fallible     \* bound: the options whose allocations may fail

ASSUME TokenAssumption ==
  /\ Dashed \subseteq Tokens
  /\ DOMAIN Names \subseteq Dashed \ {"--"}
  /\ \A t \in DOMAIN Names : Names[t] \in Flags
  /\ \A t \in DOMAIN Number : Number[t] \in Int
  /\ \A t \in DOMAIN Decimal : Decimal[t] \in Int
  /\ Fallible \subseteq Flags /\ IsFiniteSet(Fallible)
  /\ MaxArgs \in Nat /\ MaxFailures \in Nat

VARIABLES
  argv,      \* the words read so far
  defined,   \* the flags whose definitions were added
  visited,   \* visited_flags
  options,   \* the options structure
  heap,      \* the live strings and their texts
  failures,  \* allocations that failed so far
  parsed     \* "new", "reading", then the result of flag_parser_parse

parserVars == <<argv, defined, visited, options, heap, failures, parsed>>

Null == <<>>

Losses(S) == {L \in SUBSET (S \cap Fallible) : failures + Cardinality(L) <= MaxFailures}

(* A structure of default options of the owner `who', the copies of the strings in `lost'
   having failed, and the blocks it allocates. *)
Created(who, lost) ==
  [s \in DOMAIN Defaults |-> [f \in DOMAIN Defaults[s] |->
     IF f \notin Strings THEN Defaults[s][f]
     ELSE IF Defaults[s][f] = NoText \/ <<s, f>> \in lost THEN Null
     ELSE <<who, s, f>>]]

WithText == {o \in StringOptions : Get(Defaults, o) # NoText}
Owned(opts) == {Get(opts, o) : o \in StringOptions} \ {Null}
CreatedTexts(who, lost) == [b \in Owned(Created(who, lost)) |-> Defaults[b[2]][b[3]]]

Freed(h, B) == [b \in DOMAIN h \ B |-> h[b]]
Allocated(h, b, text) == [x \in DOMAIN h \cup {b} |-> IF x = b THEN text ELSE h[x]]

\* find_flag_by_name
Known(t) == t \in DOMAIN Names /\ Names[t] \in defined

(* parse_int, parse_uint and parse_udouble: the value stored, if any, and whether the word
   is accepted.  A negative decimal is stored first and refused afterwards; its rounding to
   float is left aside. *)
Stores(type, t) ==
  CASE type = "int"     -> t \in DOMAIN Number /\ Number[t] \in -(IntMax + 1)..IntMax
    [] type = "uint"    -> t \in DOMAIN Number /\ t \notin Dashed /\ Number[t] \in 0..UintMax
    [] type = "udouble" -> t \in DOMAIN Decimal
Value(type, t) == IF type = "udouble" THEN Decimal[t] ELSE Number[t]
Negative(x) == x # NaN /\ x < 0
Accepts(type, t) == Stores(type, t) /\ ~(type = "udouble" /\ Negative(Decimal[t]))

Put(o, v) == options' = [options EXCEPT ![o[1]][o[2]] = v]
Returns(r) == parsed' = r

ParserInit ==
  /\ argv = <<>> /\ visited = {} /\ defined = {} /\ parsed = "new"
  /\ \E lost \in {L \in SUBSET (WithText \cap Fallible) : Cardinality(L) <= MaxFailures} :
       /\ options = Created("cli", lost)
       /\ heap = CreatedTexts("cli", lost)
       /\ failures = Cardinality(lost)

(* flag_parser_new and one flag_parser_add_* per option: a definition that cannot be
   allocated is left out.  (One that only loses the copy of a name would keep its other name;
   that case is left aside.) *)
BuildParser ==
  /\ parsed = "new" /\ Returns("reading")
  /\ \E lost \in Losses(Flags) :
       /\ defined' = Flags \ lost
       /\ failures' = failures + Cardinality(lost)
  /\ UNCHANGED <<argv, visited, options, heap>>

Parsing == parsed = "reading"
Reads(words) == Len(argv) + Len(words) <= MaxArgs /\ argv' = argv \o words

\* The end of the argument vector.
ArgsEnd ==
  /\ Parsing /\ Returns("SUCCESS")
  /\ UNCHANGED <<argv, defined, visited, options, heap, failures>>

\* "--": the words behind it are not looked at.
Terminator ==
  /\ Parsing /\ Reads(<<"--">>) /\ Returns("SUCCESS")
  /\ UNCHANGED <<defined, visited, options, heap, failures>>

\* A word that is not a flag, or that names none, where a flag is expected.
Unknown ==
  /\ Parsing
  /\ \E t \in Tokens \ {"--"} : ~Known(t) /\ Reads(<<t>>)
  /\ Returns("UNKNOWN_ARG")
  /\ UNCHANGED <<defined, visited, options, heap, failures>>

Repeated ==
  /\ Parsing
  /\ \E t \in Tokens : Known(t) /\ Names[t] \in visited /\ Reads(<<t>>)
  /\ Returns("USAGE_ERROR")
  /\ UNCHANGED <<defined, visited, options, heap, failures>>

\* Wrong: the flag is not marked.
WrongVisits(t, o) == Known(t) /\ o = Names[t] /\ o \notin visited /\ visited' = visited

\* The flag o is met for the first time, written t.
Visits(t, o) == Known(t) /\ o = Names[t] /\ o \notin visited /\ visited' = visited \cup {o}

Switch ==
  /\ Parsing
  /\ \E t \in Tokens :
       Visits(t, Names[t]) /\ Type(Names[t]) = "bool" /\ Reads(<<t>>) /\ Put(Names[t], TRUE)
  /\ UNCHANGED <<defined, heap, failures, parsed>>

\* A flag that needs a value stands last, or before another known flag.
ValueMissing ==
  /\ Parsing
  /\ \E t \in Tokens :
       /\ Visits(t, Names[t]) /\ Type(Names[t]) # "bool"
       /\ Reads(<<t>>) \/ \E v \in Tokens : Known(v) /\ Reads(<<t, v>>)
  /\ Returns("MISSING_VALUE")
  /\ UNCHANGED <<defined, options, heap, failures>>

TakeNumber ==
  /\ Parsing
  /\ \E t, v \in Tokens :
       LET o == Names[t] IN
       /\ Visits(t, o) /\ Type(o) \notin {"bool", "string"} /\ ~Known(v) /\ Reads(<<t, v>>)
       /\ IF Stores(Type(o), v) THEN Put(o, Value(Type(o), v)) ELSE UNCHANGED options
       /\ IF Accepts(Type(o), v) THEN UNCHANGED parsed ELSE Returns("WRONG_VALUE_TYPE")
  /\ UNCHANGED <<defined, heap, failures>>

\* STRING_OWNED: the old string is freed before the new one is copied.
TakeString ==
  /\ Parsing
  /\ \E t, v \in Tokens :
       LET o == Names[t]
           rest == Freed(heap, {Get(options, o)})
       IN /\ Visits(t, o) /\ Type(o) = "string" /\ ~Known(v) /\ Reads(<<t, v>>)
          /\ \/ /\ heap' = Allocated(rest, <<"arg", o[1], o[2]>>, v)
                /\ Put(o, <<"arg", o[1], o[2]>>)
                /\ UNCHANGED <<failures, parsed>>
             \/ /\ o \in Fallible /\ failures < MaxFailures
                /\ failures' = failures + 1
                /\ heap' = rest /\ Returns("INTERNAL_ERROR")
                /\ UNCHANGED options
  /\ UNCHANGED defined

ParserNext ==
  ArgsEnd \/ Terminator \/ Unknown \/ Repeated \/ Switch \/ ValueMissing \/ TakeNumber \/ TakeString

(* A command line is well formed when some of its positions F are flags, all different, and
   every other position is the value of the flag before it; "--" may close it. *)
WellFormedAt(F) ==
  LET Last == IF argv # <<>> /\ argv[Len(argv)] = "--" /\ Len(argv) \in F
              THEN Len(argv) - 1 ELSE Len(argv)
      Flag(i) == Names[argv[i]]
  IN /\ \A i \in F \cap (1..Last) : Known(argv[i])
     /\ \A i, j \in F \cap (1..Last) : i # j => Flag(i) # Flag(j)
     /\ \A i \in F \cap (1..Last) :
          IF Type(Flag(i)) = "bool" THEN i + 1 \in F \/ i = Len(argv)
          ELSE /\ i + 1 \in 1..Len(argv) /\ i + 1 \notin F /\ ~Known(argv[i + 1])
               /\ Type(Flag(i)) # "string" => Accepts(Type(Flag(i)), argv[i + 1])
     /\ \A i \in (1..Len(argv)) \ F : i - 1 \in F

(* The parser accepts exactly the well-formed command lines, a line on which a string could
   not be copied apart: a value that begins with a dash, a "--" taken as a value, a flag that
   is repeated under its short name and one in place of a value are all decided the same way
   by the grammar and by the loop of flag_parser_parse. *)
AcceptedIffWellFormed ==
  parsed \notin {"new", "reading", "INTERNAL_ERROR"} =>
     (parsed = "SUCCESS" <=> \E F \in SUBSET (1..Len(argv)) : WellFormedAt(F))
==============================================================================
