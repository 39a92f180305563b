----------------------------- MODULE ArgvParser -----------------------------
(***************************************************************************)
(* The command line parser argvparser.cpp as a value: the options a        *)
(* program defines, what one turn of the loop of parse() does with them,   *)
(* and the usage text.                                                     *)
(*                                                                         *)
(* An element of argv is the string `raw' with its parts: the number of    *)
(* its leading dashes (two at most) and the text after them, as a string   *)
(* and letter by letter.                                                   *)
(***************************************************************************)
EXTENDS Integers, Sequences, SequencesExt

NoOptions == [n \in {} |-> 0]

(* What the constructor and reset() leave. *)
reset ==
  [option2key |-> NoOptions, option2attribute |-> <<>>, option2value |-> NoOptions,
   arguments |-> <<>>, help_option |-> 0, error_option |-> {},
   i |-> 1, finished_options |-> FALSE, result |-> "parsing"]

----------------------------------------------------------------------------
(* Options. *)

Digits == {"0", "1", "2", "3", "4", "5", "6", "7", "8", "9"}

isDefinedOption(p, name) == name \in DOMAIN p.option2key

optionKey(p, name) == IF isDefinedOption(p, name) THEN p.option2key[name] ELSE 0 - 1

foundOption(p, name) ==
  isDefinedOption(p, name) /\ optionKey(p, name) \in DOMAIN p.option2value

(* Of an option that was found: the map is not asked whether it was. *)
optionValue(p, name) ==
  IF isDefinedOption(p, name) THEN p.option2value[optionKey(p, name)] ELSE ""

getAllOptionAlternatives(p, key) ==
  {name \in DOMAIN p.option2key : p.option2key[name] = key}

(* A name in use and a digit are refused, which leaves the parser as it is. *)
defineOption(p, name, attributes) ==
  IF isDefinedOption(p, name) \/ name \in Digits THEN p
  ELSE [p EXCEPT !.option2key = (name :> Len(p.option2attribute) + 1) @@ @,
                 !.option2attribute = Append(@, attributes)]

defineOptionAlternative(p, original, alternative) ==
  IF ~ isDefinedOption(p, original) \/ alternative \in Digits
       \/ isDefinedOption(p, alternative)
  THEN p
  ELSE [p EXCEPT !.option2key = (alternative :> @[original]) @@ @]

setHelpOption(p, short, long) ==
  IF isDefinedOption(p, short) \/ isDefinedOption(p, long) THEN p
  ELSE LET q == defineOptionAlternative(defineOption(p, short, {}), short, long)
       IN  [q EXCEPT !.help_option = Len(q.option2attribute)]

----------------------------------------------------------------------------
(* The form of an element. *)

isValidOptionString(e) ==
  /\ e.dashes > 0 /\ e.letters # <<>>
  /\ e.dashes = 1 => e.letters[1] \notin Digits

isValidLongOptionString(e) == e.dashes = 2 /\ Len(e.letters) >= 2

(* The tokens between delimiters; there are no empty ones. *)
splitString(in, delimiter) ==
  LET Read(tokens, k) ==
        CASE in[k] = delimiter -> tokens
          [] in[k] # delimiter /\ k > 1 /\ in[k - 1] # delimiter ->
               [tokens EXCEPT ![Len(tokens)] = @ \o in[k]]
          [] OTHER -> Append(tokens, in[k])
  IN  FoldLeft(Read, <<>>, [k \in DOMAIN in |-> k])

(* With two tokens or more, the first is the option and the others, without *)
(* the `=' between them, its value.                                         *)
splitOptionAndValue(e) ==
  LET tokens == splitString(e.letters, "=")
  IN  IF Len(tokens) < 2
      THEN [option |-> e.text, value |-> "", split |-> FALSE]
      ELSE [option |-> tokens[1], split |-> TRUE,
            value |-> FoldLeft(LAMBDA a, b : a \o b, "", Tail(tokens))]

----------------------------------------------------------------------------
(* One turn of the loop over argv. *)

Stop(p, result, culprit) ==
  [p EXCEPT !.result = result, !.error_option = culprit]

Take(p, key, value, elements) ==
  [p EXCEPT !.option2value = (key :> value) @@ @, !.i = @ + elements]

RequiresValue(p, key) == "RequiresValue" \in p.option2attribute[key]

argument_found(p, argv) ==
  [p EXCEPT !.finished_options = TRUE, !.i = @ + 1,
            !.arguments = Append(@, argv[p.i].raw)]

NextIsValue_Unchecked(p, argv, option) ==
  IF p.i = Len(argv) THEN Stop(p, "MissingValue", {option})
  ELSE Take(p, optionKey(p, option), argv[p.i + 1].raw, 2)

(* The value is the next element, unless that is an option. *)
NextIsValue(p, argv, option) ==
  IF p.i = Len(argv) \/ isValidOptionString(argv[p.i + 1])
  THEN Stop(p, "MissingValue", {option})
  ELSE Take(p, optionKey(p, option), argv[p.i + 1].raw, 2)

long_option(p, argv) ==
  LET s == splitOptionAndValue(argv[p.i])
      key == optionKey(p, s.option)
  IN  IF key = 0 - 1 THEN Stop(p, "UnknownOption", {s.option})
      ELSE IF key = p.help_option THEN Stop(p, "HelpRequested", p.error_option)
      ELSE IF RequiresValue(p, key) /\ s.value = "" THEN NextIsValue(p, argv, s.option)
      ELSE Take(p, key, s.value, 1)

short_with_value(p, s) ==
  LET key == optionKey(p, s.option)
  IN  IF Len(s.option) > 1 THEN Stop(p, "MalformedMultipleShortOption", {s.option})
      ELSE IF key = 0 - 1 THEN Stop(p, "UnknownOption", {s.option})
      ELSE IF key = p.help_option THEN Stop(p, "HelpRequested", p.error_option)
      ELSE Take(p, key, s.value, 1)

single_short(p, argv, option) ==
  LET key == optionKey(p, option)
  IN  IF key = 0 - 1 THEN Stop(p, "UnknownOption", {option})
      ELSE IF key = p.help_option THEN Stop(p, "HelpRequested", p.error_option)
      ELSE IF RequiresValue(p, key) THEN NextIsValue(p, argv, option)
      ELSE Take(p, key, "", 1)

(* The letters of a cluster get no value, whatever their options require. *)
cluster_letter(p, option) ==
  LET key == optionKey(p, option)
  IN  IF p.result # "parsing" THEN p
      ELSE IF key = 0 - 1 THEN Stop(p, "UnknownOption", {option})
      ELSE IF key = p.help_option THEN Stop(p, "HelpRequested", p.error_option)
      ELSE Take(p, key, "", 0)

short_cluster(p, letters) ==
  LET q == FoldLeft(cluster_letter, p, letters)
  IN  IF q.result = "parsing" THEN [q EXCEPT !.i = @ + 1] ELSE q

(* Only one dash is taken off what is too short to be a long option. *)
short_option(p, argv) ==
  LET e == argv[p.i]
      s == splitOptionAndValue(e)
  IN  IF e.dashes = 2 THEN short_cluster(p, <<"-">> \o e.letters)
      ELSE IF s.split THEN short_with_value(p, s)
      ELSE IF Len(e.letters) = 1 THEN single_short(p, argv, e.letters[1])
      ELSE short_cluster(p, e.letters)

parse_element(p, argv) ==
  LET e == argv[p.i]
  IN  IF ~ isValidOptionString(e) THEN argument_found(p, argv)
      ELSE IF p.finished_options THEN Stop(p, "OptionAfterArgument", {e.raw})
      ELSE IF isValidLongOptionString(e) THEN long_option(p, argv)
      ELSE short_option(p, argv)

(* The arguments, counted from 0. *)
argument(p, id) == IF id >= Len(p.arguments) THEN "" ELSE p.arguments[id + 1]

(* After the loop: the first required option that was not found. *)
check_required(p) ==
  LET missing == {key \in DOMAIN p.option2attribute :
                    "Required" \in p.option2attribute[key]
                    /\ key \notin DOMAIN p.option2value}
  IN  IF missing = {} THEN [p EXCEPT !.result = "NoParserError"]
      ELSE Stop(p, "RequiredOptionMissing", p.error_option \cup
             getAllOptionAlternatives(p, CHOOSE k \in missing : \A l \in missing : k <= l))

----------------------------------------------------------------------------
(* The usage text, its lines and not its wording. *)

usageDescription(p) ==
  [key \in DOMAIN p.option2attribute |->
     [names    |-> getAllOptionAlternatives(p, key),
      value    |-> RequiresValue(p, key),
      required |-> "Required" \in p.option2attribute[key]]]

Whitespace == {" ", "\n"}

(* The positions of the first and of the last whitespace, 0 for none. *)
find_first_of(s, chars) == SelectInSeq(s, LAMBDA c : c \in chars)
find_last_of(s, chars)  == SelectLastInSeq(s, LAMBDA c : c \in chars)

trimmedString(s) ==
  LET ink == {k \in DOMAIN s : s[k] \notin Whitespace}
  IN  IF ink = {} THEN <<>>
      ELSE SubSeq(s, CHOOSE k \in ink : \A l \in ink : k <= l,
                     CHOOSE k \in ink : \A l \in ink : k >= l)

next_position_SkipsOne(pos, line, white, full, w) ==
  IF white # 0 THEN pos + white + 1 ELSE IF full THEN pos + w ELSE pos + Len(line) + 1

(* Where the next line starts; after a break by the length of the trimmed  *)
(* line, and one for the newline.                                          *)
next_position(pos, line, white, full, w) ==
  IF white # 0 THEN pos + white ELSE IF full THEN pos + w ELSE pos + Len(line) + 1

(* The lines from a position of the text on. *)
formatString(s, width, indent) ==
  LET w == width - indent
      lines[pos \in 0 .. Len(s) + w] ==
        IF pos >= Len(s) THEN <<>>
        ELSE LET extract == SubSeq(s, pos + 1, IF pos + w < Len(s) THEN pos + w ELSE Len(s))
                 newline == find_first_of(extract, {"\n"})
                 cut     == IF newline = 0 THEN extract ELSE SubSeq(extract, 1, newline - 1)
                 line    == trimmedString(cut)
                 full    == Len(cut) >= w
                 white   == IF full THEN find_last_of(line, Whitespace) ELSE 0
                 kept    == IF white = 0 THEN line ELSE SubSeq(line, 1, white - 1)
             IN  (IF kept = <<>> THEN <<>> ELSE <<kept>>)
                   \o lines[next_position(pos, line, white, full, w)]
  IN  IF indent >= width THEN <<s>> ELSE lines[0]
=============================================================================
