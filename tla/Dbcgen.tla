------------------------------- MODULE Dbcgen -------------------------------
(***************************************************************************)
(* dbcgen, the program that writes the C++ header of a CAN data base, from *)
(* its command line to the header; and any other program that defines      *)
(* options and parses a command line, up to the usage text.                *)
(*                                                                         *)
(* Message and signal names are numbers, in their alphabetical order.  The *)
(* code of the accessors is in SignalCodec.                                *)
(***************************************************************************)
EXTENDS ArgvParser, FiniteSets

CONSTANTS
  Programs,    \* the parsers of the other programs, their options defined
  CommandLines,\* argv, without the name of the program
  Databases,   \* the messages a data base may have
  Texts,       \* texts to format for the usage
  Widths       \* and the widths to format them to

VARIABLES
  program, \* "dbcgen" or "other"
  argv,
  parser,
  pc,
  usage,   \* the options the usage lists, and a text of it with its lines
  names,   \* in, out and ecu, "" for NULL
  out,     \* the output: not opened, or what it holds
  dbc,     \* the messages that were read
  whole,   \* whether they are all that the input file holds
  left,    \* those the generator has not seen
  maps,    \* can_msg_map, can_sgn_map, can_snd_msg_list and can_rcv_msg_list
  ret      \* the exit code

vars == <<program, argv, parser, pc, usage, names, out, dbc, whole, left, maps, ret>>

NoMaps == [msg |-> NoOptions, sgn |-> NoOptions, snd |-> <<>>, rcv |-> <<>>]

dbcgen_options ==
  LET RV == {"RequiresValue"}
      n  == defineOptionAlternative(defineOption(reset, "name", RV), "name", "n")
      o  == defineOptionAlternative(defineOption(n, "output", RV), "output", "o")
  IN  defineOptionAlternative(defineOption(o, "ecu", RV), "ecu", "e")

Init ==
  /\ \/ program = "dbcgen" /\ parser = dbcgen_options
     \/ program = "other" /\ parser \in Programs
  /\ argv \in CommandLines
  /\ pc = "parse"
  /\ usage = [text |-> <<>>, width |-> 0, lines |-> <<>>, options |-> <<>>]
  /\ names = [in |-> "", out |-> "", ecu |-> ""]
  /\ out = "unopened"
  /\ dbc = <<>>
  /\ whole = FALSE
  /\ left = <<>>
  /\ maps = NoMaps
  /\ ret = "success"

----------------------------------------------------------------------------
(* The command line. *)

ParseElement ==
  /\ pc = "parse"
  /\ parser.result = "parsing"
  /\ parser.i <= Len(argv)
  /\ parser' = parse_element(parser, argv)
  /\ UNCHANGED <<program, argv, pc, usage, names, out, dbc, whole, left, maps, ret>>

EndOfArguments ==
  /\ pc = "parse"
  /\ parser.result = "parsing"
  /\ parser.i > Len(argv)
  /\ parser' = check_required(parser)
  /\ UNCHANGED <<program, argv, pc, usage, names, out, dbc, whole, left, maps, ret>>

(* dbcgen ends without a word. *)
ParserError ==
  /\ pc = "parse"
  /\ program = "dbcgen"
  /\ parser.result \notin {"parsing", "NoParserError"}
  /\ pc' = "done"
  /\ ret' = "failure"
  /\ UNCHANGED <<program, argv, parser, usage, names, out, dbc, whole, left, maps>>

(* parseErrorDescription(ParserHelpRequested) formats one text after the other. *)
Describe(text, width) ==
  /\ pc = "parse"
  /\ program = "other"
  /\ parser.result = "HelpRequested"
  /\ usage' = [text |-> text, width |-> width, lines |-> formatString(text, width, 0),
                options |-> usageDescription(parser)]
  /\ pc' = "done"
  /\ UNCHANGED <<program, argv, parser, names, out, dbc, whole, left, maps, ret>>

(* Without an argument and a name the component is to be named after NULL. *)
Options ==
  /\ pc = "parse"
  /\ program = "dbcgen"
  /\ parser.result = "NoParserError"
  /\ names' = [in  |-> argument(parser, 0),
               out |-> IF foundOption(parser, "output")
                       THEN optionValue(parser, "output") ELSE "stdout",
               ecu |-> IF foundOption(parser, "ecu")
                       THEN optionValue(parser, "ecu") ELSE "Vector__XXX"]
  /\ pc' = IF parser.arguments = <<>> /\ ~ foundOption(parser, "name")
           THEN "crashed" ELSE "open"
  /\ UNCHANGED <<program, argv, parser, usage, out, dbc, whole, left, maps, ret>>

----------------------------------------------------------------------------
(* The files. *)

OpenOutput ==
  /\ pc = "open"
  /\ pc' = "read"
  /\ out' = "empty"
  /\ names.out # ""
  /\ UNCHANGED <<program, argv, parser, usage, names, dbc, whole, left, maps, ret>>

NoOutput ==
  /\ pc = "open"
  /\ names.out # "stdout"
  /\ pc' = "done"
  /\ ret' = "failure"
  /\ UNCHANGED <<program, argv, parser, usage, names, out, dbc, whole, left, maps>>

(* dbc_read_file; without an argument it reads the standard input. *)
ReadInput ==
  /\ pc = "read"
  /\ names.in # names.out
  /\ dbc' \in Databases
  /\ left' = dbc'
  /\ whole' = TRUE
  /\ pc' = "classify"
  /\ UNCHANGED <<program, argv, parser, usage, names, out, maps, ret>>

(* A syntax error is not reported: the messages are those before it, if    *)
(* there were any, and otherwise whatever the memory held.  An input that  *)
(* is also the output has just been emptied.                               *)
ReadBroken ==
  /\ pc = "read"
  /\ IF names.in = names.out THEN dbc' = <<>> ELSE dbc' \in Databases
  /\ left' = dbc'
  /\ \/ pc' = "classify"
     \/ pc' = "crashed"
  /\ UNCHANGED <<program, argv, parser, usage, names, out, whole, maps, ret>>

(* dbc_free works on memory that was never written. *)
NoInput ==
  /\ pc = "read"
  /\ names.in \notin {"", names.out}
  /\ \/ pc' = "done" /\ ret' = "failure"
     \/ pc' = "crashed" /\ UNCHANGED ret
  /\ UNCHANGED <<program, argv, parser, usage, names, out, dbc, whole, left, maps>>

----------------------------------------------------------------------------
(* The generator. *)

(* The last start value that is an integer. *)
StartRawValue(attributes) ==
  FoldLeft(LAMBDA v, a : IF a.name = "GenSigStartValue" /\ a.type = "integer"
                         THEN a.value ELSE v, 0, attributes)

received_signal(s, ecu) == ecu \in ToSet(s.receivers)

can_signal_info_First(s, ecu) ==
  [start |-> StartRawValue(s.attributes),
   recv |-> s.receivers # <<>> /\ s.receivers[1] = ecu]

can_signal_info(s, ecu) ==
  [start |-> StartRawValue(s.attributes), recv |-> received_signal(s, ecu)]

received_message(m, ecu) == \E j \in DOMAIN m.signals : received_signal(m.signals[j], ecu)

(* Messages of one name share an entry of each map: the last one names its *)
(* id, the signals are those of all.                                       *)
can_msg_map(map, m, ecu) ==
  (m.name :> [id |-> m.id, dlt |-> m.len, send |-> m.sender = ecu,
              recv |-> received_message(m, ecu)]) @@ map

can_sgn_map(map, m, ecu) ==
  LET old == IF m.name \in DOMAIN map THEN map[m.name] ELSE NoOptions
      new == FoldLeft(LAMBDA f, s : (s.name :> can_signal_info(s, ecu)) @@ f, old, m.signals)
  IN  IF m.signals = <<>> THEN map ELSE (m.name :> new) @@ map

push_back(list, m, wanted) == IF wanted THEN Append(list, <<m.id, m.name>>) ELSE list

ClassifyMessage ==
  /\ pc = "classify"
  /\ left # <<>>
  /\ LET m == Head(left)
     IN  maps' = [msg |-> can_msg_map(maps.msg, m, names.ecu),
                  sgn |-> can_sgn_map(maps.sgn, m, names.ecu),
                  snd |-> push_back(maps.snd, m, m.sender = names.ecu),
                  rcv |-> push_back(maps.rcv, m, received_message(m, names.ecu))]
  /\ left' = Tail(left)
  /\ UNCHANGED <<program, argv, parser, pc, usage, names, out, dbc, whole, ret>>

(* dbc_free and the sort of the two lists.  What a syntax error left unset *)
(* is freed here.                                                          *)
SortLists ==
  /\ pc = "classify"
  /\ left = <<>>
  /\ LET before(x, y) == x[1] < y[1] \/ (x[1] = y[1] /\ x[2] < y[2])
     IN  maps' = [maps EXCEPT !.snd = SortSeq(@, before), !.rcv = SortSeq(@, before)]
  /\ \/ pc' = "write"
     \/ ~ whole /\ pc' = "crashed"
  /\ UNCHANGED <<program, argv, parser, usage, names, out, dbc, whole, left, ret>>

WriteHeader ==
  /\ pc = "write"
  /\ out' = "header"
  /\ pc' = "done"
  /\ UNCHANGED <<program, argv, parser, usage, names, dbc, whole, left, maps, ret>>

Next ==
  \/ ParseElement \/ EndOfArguments \/ ParserError \/ Options
  \/ \E text \in Texts, width \in Widths : Describe(text, width)
  \/ OpenOutput \/ NoOutput \/ ReadInput \/ ReadBroken \/ NoInput
  \/ ClassifyMessage \/ SortLists \/ WriteHeader

Spec == Init /\ [][Next]_vars
----------------------------------------------------------------------------
(* The header. *)

(* The conditional around a message that the ECU neither sends nor receives *)
(* is opened with #ifdef; its end lacks the #, so that the #endif of the    *)
(* include guard closes it and nothing closes the guard.                    *)
struct(name) ==
  [name |-> name, id |-> maps.msg[name].id, dlt |-> maps.msg[name].dlt,
   ifdef |-> ~ maps.msg[name].send /\ ~ maps.msg[name].recv, endif |-> FALSE,
   getters |-> {s \in DOMAIN maps.sgn[name] : maps.sgn[name][s].recv},
   defaults |-> [s \in DOMAIN maps.sgn[name] |-> maps.sgn[name][s].start]]

structs == [name \in DOMAIN maps.sgn |-> struct(name)]

(* What a compiler asks of the members and the case labels of one list. *)
CompilesList(list) ==
  /\ \A k \in DOMAIN list : list[k][2] \in DOMAIN structs
  /\ \A k, l \in DOMAIN list :
       list[k][1] = list[l][1] \/ list[k][2] = list[l][2] => k = l

Compiles ==
  /\ \A name \in DOMAIN structs : structs[name].ifdef = structs[name].endif
  /\ CompilesList(maps.snd)
  /\ CompilesList(maps.rcv)

(* The length getCanMessageBuffer(id) reports; 0 with a NULL buffer. *)
getCanMessageBuffer(list, id) ==
  LET k == SelectInSeq(list, LAMBDA x : x[1] = id)
  IN  IF k = 0 THEN 0 ELSE structs[list[k][2]].dlt

----------------------------------------------------------------------------
(* What the command line means, without the loop: a required value is the  *)
(* plain element after the last letter or long name that asks for it.      *)

Plain(k) == ~ isValidOptionString(argv[k])

Assigned(k) == splitOptionAndValue(argv[k]).split

Single(k) ==
  \/ isValidLongOptionString(argv[k])
  \/ argv[k].dashes = 1 /\ Len(argv[k].letters) = 1
  \/ argv[k].dashes = 1 /\ Assigned(k)

OptionsOf(k) ==
  IF Single(k) THEN {splitOptionAndValue(argv[k]).option}
  ELSE ToSet(argv[k].letters) \cup (IF argv[k].dashes = 2 THEN {"-"} ELSE {})

AsksForNext(k) ==
  /\ ~ Plain(k) /\ Single(k) /\ ~ Assigned(k)
  /\ \A o \in OptionsOf(k) : isDefinedOption(parser, o) /\ RequiresValue(parser, optionKey(parser, o))

IsValue(k) == Plain(k) /\ k > 1 /\ AsksForNext(k - 1)

IsArgument(k) == Plain(k) /\ ~ IsValue(k)

WellFormedLine ==
  /\ \A k \in DOMAIN argv : ~ Plain(k) =>
       /\ \A o \in OptionsOf(k) :
            isDefinedOption(parser, o) /\ optionKey(parser, o) # parser.help_option
       /\ AsksForNext(k) => k < Len(argv) /\ Plain(k + 1)
       /\ argv[k].dashes = 1 /\ Assigned(k) => argv[k].letters[2] = "="
       /\ \A l \in 1 .. k : ~ IsArgument(l)
  /\ \A key \in DOMAIN parser.option2attribute :
       "Required" \in parser.option2attribute[key] =>
         \E k \in DOMAIN argv : ~ Plain(k)
           /\ OptionsOf(k) \cap getAllOptionAlternatives(parser, key) # {}

LastValue(key) ==
  LET given == {k \in DOMAIN argv : ~ Plain(k)
                  /\ OptionsOf(k) \cap getAllOptionAlternatives(parser, key) # {}}
      last  == CHOOSE k \in given : \A l \in given : l <= k
  IN  IF AsksForNext(last) THEN argv[last + 1].raw
      ELSE IF Single(last) THEN splitOptionAndValue(argv[last]).value
      ELSE ""

(* The loop accepts exactly the lines whose elements each have one role:    *)
(* options the program knows, none of them after the first argument, and a  *)
(* plain element after each that asks for one.  The last value of an option *)
(* counts, whichever of its names was used, and the arguments are the rest. *)
ParseAgrees ==
  parser.result # "parsing" =>
    /\ parser.result = "NoParserError" <=> WellFormedLine
    /\ parser.result = "NoParserError" =>
         /\ parser.arguments =
              [n \in DOMAIN SelectSeq([k \in DOMAIN argv |-> k], IsArgument) |->
                 argv[SelectSeq([k \in DOMAIN argv |-> k], IsArgument)[n]].raw]
         /\ \A key \in DOMAIN parser.option2value :
              parser.option2value[key] = LastValue(key)

(* The words of a text, each a sequence of letters. *)
WordsOf(s) ==
  LET step(acc, c) ==
        IF c \in Whitespace THEN [acc EXCEPT !.open = FALSE]
        ELSE IF acc.open THEN [acc EXCEPT !.words[Len(acc.words)] = Append(@, c)]
        ELSE [open |-> TRUE, words |-> Append(acc.words, <<c>>)]
  IN  FoldLeft(step, [open |-> FALSE, words |-> <<>>], s).words

(* formatString breaks a text between its words and loses, repeats or cuts *)
(* none of them, when its words are shorter than the width and no two      *)
(* blanks follow each other; no line is wider than the terminal.           *)
FormatKeepsWords ==
  /\ \A k \in DOMAIN usage.lines : Len(usage.lines[k]) <= usage.width
  /\ (/\ \A word \in ToSet(WordsOf(usage.text)) : Len(word) < usage.width
      /\ \A k \in DOMAIN usage.text : usage.text[k] \in Whitespace =>
           k > 1 /\ usage.text[k - 1] \notin Whitespace)
     => FlattenSeq([k \in DOMAIN usage.lines |-> WordsOf(usage.lines[k])])
          = WordsOf(usage.text)

Written == pc = "done" /\ out = "header" /\ whole

NamesDiffer == \A k, l \in DOMAIN dbc : dbc[k].name = dbc[l].name => k = l

Sent(m) == m.sender = names.ecu

(* A header compiles if and only if the ECU sends or receives every message *)
(* that has signals, none of those it sends is without, and no two it sends *)
(* and no two it receives have the same identifier.                         *)
CompilesWhenMeant ==
  Compiles <=>
    /\ \A m \in ToSet(dbc) :
         m.signals # <<>> <=> Sent(m) \/ received_message(m, names.ecu)
    /\ \A k, l \in DOMAIN dbc : k # l /\ dbc[k].id = dbc[l].id =>
         /\ ~ (Sent(dbc[k]) /\ Sent(dbc[l]))
         /\ ~ (received_message(dbc[k], names.ecu) /\ received_message(dbc[l], names.ecu))

(* The buffer of an identifier is the one of the message the ECU sends, or  *)
(* receives, under it, and there is none for the others; the accessors of   *)
(* a received signal are not hidden, and a message starts with the start    *)
(* values of its own signals.                                               *)
Serves(m) ==
  /\ Sent(m) => getCanMessageBuffer(maps.snd, m.id) = m.len
  /\ received_message(m, names.ecu) => getCanMessageBuffer(maps.rcv, m.id) = m.len
  /\ (\A o \in ToSet(dbc) : o.id = m.id => ~ Sent(o)) =>
       getCanMessageBuffer(maps.snd, m.id) = 0
  /\ \A j \in DOMAIN m.signals :
       received_signal(m.signals[j], names.ecu) =>
         /\ m.signals[j].name \in structs[m.name].getters
         /\ structs[m.name].defaults[m.signals[j].name] = StartRawValue(m.signals[j].attributes)

(* The header of an input that was read to its end, whose messages have     *)
(* names of their own, compiles exactly when the author may expect it to,   *)
(* and then every message of the input is found under its identifier, with  *)
(* its length, its accessors and its start values.                          *)
HeaderIsRight ==
  Written /\ NamesDiffer =>
    CompilesWhenMeant /\ (Compiles => \A m \in ToSet(dbc) : Serves(m))
=============================================================================
