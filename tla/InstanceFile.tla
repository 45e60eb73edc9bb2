---------------------------- MODULE InstanceFile ----------------------------
(***************************************************************************)
(* Reading a TSPLIB file (tsp_parser_tsplib.c), one word at a time:        *)
(* the header is searched for DIMENSION and NODE_COORD_SECTION, then come  *)
(* triples of an id and two coordinates.  A coordinate keeps the word that *)
(* spells it; one that is never written stays Unset, memory as malloc left *)
(* it.                                                                     *)
(***************************************************************************)
EXTENDS Integers, Sequences

CONSTANTS
  WholeNumber,  \* WholeNumber[t]: the int the word t spells, if it spells one
  Coordinates,  \* the words that spell a decimal
  Uncoloned     \* Uncoloned[t]: the word t without the colon it ends with

Unset == "unset"

\* The word at the head of the loop of parse_instance_tsplib, its last colon cut off.
Cut(t) == IF t \in DOMAIN Uncoloned THEN Uncoloned[t] ELSE t

\* A number is neither a bare colon nor the keyword.
ASSUME FileAssumption ==
  /\ \A t \in DOMAIN WholeNumber : WholeNumber[t] \in Int /\ Cut(t) \notin {"", "DIMENSION"}
  /\ \A t \in Coordinates : Cut(t) # ""
  /\ Cut(":") = ""

(* The reader: what it expects next, the dimension, the id under way and the nodes.
   "keyword" is the loop before the section, "id" the loop in it; "parsed" and the errors are
   where it stops. *)
Start == [expects |-> "keyword", n |-> 0, id |-> 0, nodes |-> <<>>]
Ends(r, status) == [r EXCEPT !.expects = status]

Dimension(r, t) ==
  IF t \in DOMAIN WholeNumber /\ WholeNumber[t] > 0
  THEN [r EXCEPT !.n = WholeNumber[t], !.expects = "keyword"]
  ELSE Ends(r, "PARSE_ERR_FORMAT")

Keyword(r, t) ==
  CASE t = "DIMENSION" -> [r EXCEPT !.expects = "dimension"]
    [] t = "NODE_COORD_SECTION" /\ r.n > 0 ->
         [r EXCEPT !.expects = "id", !.nodes = [i \in 1..r.n |-> [x |-> Unset, y |-> Unset]]]
    [] t = "NODE_COORD_SECTION" /\ r.n = 0 -> Ends(r, "PARSE_ERR_FORMAT")
    [] t = "EOF" -> Ends(r, "PARSE_ERR_FORMAT")
    [] OTHER -> r

Id(r, t) ==
  IF t = "EOF" THEN Ends(r, "parsed")
  ELSE IF t \in DOMAIN WholeNumber /\ WholeNumber[t] \in 1..r.n
  THEN [r EXCEPT !.id = WholeNumber[t], !.expects = "x"]
  ELSE Ends(r, "PARSE_ERR_INV")

Coordinate(r, t, axis, next) ==
  IF t \in Coordinates
  THEN [r EXCEPT !.nodes[r.id][axis] = t, !.expects = next]
  ELSE Ends(r, "PARSE_ERR_INV")

NextToken(r, t) ==
  CASE r.expects = "keyword" -> IF Cut(t) = "" THEN r ELSE Keyword(r, Cut(t))
    [] r.expects = "dimension" -> IF t = ":" THEN [r EXCEPT !.expects = "colon"] ELSE Dimension(r, t)
    [] r.expects = "colon" -> Dimension(r, t)
    [] r.expects = "id" -> IF Cut(t) = "" THEN r ELSE Id(r, Cut(t))
    [] r.expects = "x" -> Coordinate(r, t, "x", "y")
    [] r.expects = "y" -> Coordinate(r, t, "y", "id")
    [] OTHER -> r

\* Wrong: a triple the file ends in is accepted.
WrongEndOfFile(r) == IF r.expects \in {"id", "x", "y"} THEN Ends(r, "parsed") ELSE r

\* The file ends: fine between two triples, an error elsewhere.
EndOfFile(r) ==
  CASE r.expects = "id" -> Ends(r, "parsed")
    [] r.expects \in {"x", "y"} -> Ends(r, "PARSE_ERR_INV")
    [] r.expects \in {"keyword", "dimension", "colon"} -> Ends(r, "PARSE_ERR_FORMAT")
    [] OTHER -> r

Parse(file) ==
  LET read[i \in 0..Len(file)] == IF i = 0 THEN Start ELSE NextToken(read[i - 1], file[i])
  IN EndOfFile(read[Len(file)])

-----------------------------------------------------------------------------
Greatest(S) == CHOOSE i \in S : \A j \in S : j <= i

\* What a file says, without reading it word by word: the number behind a DIMENSION, ...
Dimensions(file, p) == {d \in 1..(p - 1) : Cut(file[d]) = "DIMENSION"}
NumberBehind(file, d) == WholeNumber[IF file[d + 1] = ":" THEN file[d + 2] ELSE file[d + 1]]

\* ... the words behind a position, bare colons apart, up to each later one, ...
Joined(words, t) == IF Cut(t) = "" THEN words ELSE Append(words, t)
WordsBehind(file, p) ==
  LET words[q \in 0..Len(file)] == IF q <= p THEN <<>> ELSE Joined(words[q - 1], file[q])
  IN words

\* ... and the nodes that `count' triples of words list: of those with a given id the last counts.
Ids(n) == {t \in DOMAIN WholeNumber : WholeNumber[t] \in 1..n}
Listed(words, count, i) == {k \in 0..(count - 1) : WholeNumber[Cut(words[3 * k + 1])] = i}
Listing(words, count, n) ==
  [i \in 1..n |->
     LET K == Listed(words, count, i) IN
     IF K = {} THEN [x |-> Unset, y |-> Unset]
     ELSE [x |-> words[3 * Greatest(K) + 2], y |-> words[3 * Greatest(K) + 3]]]

(* `n' is the number behind the last DIMENSION before the section at position p, and the
   words behind the section are the triples that list the nodes, up to the end or an EOF. *)
Says(file, n, nodes) ==
  \E p \in DOMAIN file :
     LET dims == Dimensions(file, p)
         body == WordsBehind(file, p)[Len(file)]
     IN /\ Cut(file[p]) = "NODE_COORD_SECTION"
        /\ dims # {} /\ n = NumberBehind(file, Greatest(dims))
        /\ \E count \in 0..Len(body) :
             /\ IF 3 * count = Len(body) THEN TRUE
                ELSE 3 * count < Len(body) /\ Cut(body[3 * count + 1]) = "EOF"
             /\ \A k \in 0..(count - 1) : Cut(body[3 * k + 1]) \in Ids(n)
             /\ nodes = Listing(body, count, n)
==============================================================================
