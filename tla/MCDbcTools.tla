---------------------------- MODULE MCDbcTools ----------------------------
EXTENDS DbcTools

Sig(name, num, unit) ==
  [name |-> name, mux |-> "signal", num |-> num, unit |-> unit, recv |-> <<"N1">>]

(* The sections every file begins with. *)
Start(words) == << <<"VERSION", words>>, <<"NS_">>, <<"BS_">> >>

BU == <<"BU_", <<"N1", "N2", "N1">>>>
M1 == <<"BO_", 1, "N1", <<Sig("S1", "exact", <<"h">>)>> >>
M2 == <<"BO_", 1, "N2", <<Sig("S1", "tail", <<>>), Sig("S2", "NAN", <<"km">>)>> >>

(* Two messages may have the same identifier, two nodes the same name. *)
FileHeaders ==
  {Start(<<>>) \o <<BU, M1>>,
   Start(<<"w1">>) \o <<BU, <<"VAL_TABLE_", "T1", <<[index |-> 0, text |-> <<>>]>>>>, M1, M2>>}

(* Statements about what the header declares, about what it does not, of   *)
(* the type of the definition and of another one.                          *)
FileStatements ==
  {<<"BO_TX_BU_", 1, <<"N1">>>>, <<"BO_TX_BU_", 1, <<"N2", "N1">>>>,
   <<"EV_", "E1", 0>>, <<"EV_", "E1", 4>>, <<"ENVVAR_DATA_", "E1">>,
   <<"CM_", <<"net">>, <<"w1">>>>, <<"CM_", <<"EV_", "E1">>, <<"w1">>>>,
   <<"CM_", <<"BU_", "N1">>, <<"w1">>>>, <<"CM_", <<"BU_", "N3">>, <<"w1">>>>,
   <<"CM_", <<"BO_", 1>>, <<"w1">>>>, <<"CM_", <<"SG_", 1, "S2">>, <<"w1">>>>,
   <<"BA_DEF_", "network", "A", "float", "tail">>,
   <<"BA_DEF_", "node", "A", "float", "NAN">>,
   <<"BA_DEF_", "message", "A", "integer", "exact">>,
   <<"BA_DEF_", "signal", "A", "hex", "exact">>,
   <<"BA_DEF_", "envvar", "A", "integer", "exact">>,
   <<"BA_DEF_", "node_signal", "A", "string", "exact">>,
   <<"BA_DEF_", "signal", "A", "enum", "exact">>,
   <<"BA_DEF_DEF_", "object", "A", IntLit(3)>>,
   <<"BA_DEF_DEF_", "object", "A", IntLit(0 - 1)>>,
   <<"BA_DEF_DEF_", "object", "A", DblLit(3, TRUE)>>,
   <<"BA_DEF_DEF_", "object", "A", StrLit(<<"w2">>)>>,
   <<"BA_DEF_DEF_", "relation", "A", StrLit(<<"w2">>)>>,
   <<"BA_", <<"net">>, "A", DblLit(4, FALSE)>>,
   <<"BA_", <<"BU_", "N1">>, "A", DblLit(3, TRUE)>>,
   <<"BA_", <<"BO_", 1>>, "A", IntLit(5)>>,
   <<"BA_", <<"SG_", 1, "S1">>, "A", IntLit(0 - 1)>>,
   <<"BA_", <<"SG_", 1, "S2">>, "A", StrLit(<<"w2">>)>>,
   <<"BA_REL_", "A", "N2", 1, "S1", DblLit(4, FALSE)>>,
   <<"BA_REL_", "A", "N3", 1, "S1", IntLit(5)>>,
   <<"VAL_", <<"SG_", 1, "S1">>, <<[index |-> 0, text |-> <<>>]>>>>,
   <<"VAL_", <<"SG_", 1, "S1">>, <<[index |-> 1, text |-> <<"w1">>]>>>>,
   <<"VAL_", <<"EV_", "E1">>, <<[index |-> 0, text |-> <<"w1">>]>>>>,
   <<"SIG_VALTYPE_", 1, "S1", 1>>, <<"SIG_VALTYPE_", 1, "S2", 2>>,
   <<"SIG_GROUP_", 1, "G1", <<"S1", "S2">>>>}

(* One for bus 1 and one for every bus. *)
TwoBuses == <<"bus1", "every bus">>

(* The lines of a log. *)
Word(first, arg, words) == [ended |-> TRUE, first |-> first, arg |-> arg, words |-> words]

Frame(id, dir, words, frac, bytes) ==
  [ended |-> TRUE, first |-> "time", arg |-> "", words |-> words, sec |-> 1,
   frac |-> frac, bus |-> 1, id |-> id, dir |-> dir, dlc |-> 2, bytes |-> bytes]

Numeric == [last |-> "digit", parts |-> <<<<1, 2>>>>]
J1939   == [last |-> "x", parts |-> <<<<1, 2, 3, 4>>>>]
Hinted  == [last |-> "h", parts |-> <<<<99>>, <<6, 4>>>>]
TwoBars == [last |-> "h", parts |-> <<<<99>>, <<1>>, <<6, 4>>>>]
NoName  == [last |-> "h", parts |-> <<<<6, 4>>>>]

LogLines ==
  {Word("date", "Mon", 5), Word("base", "dec", 4), Word("base", "hex", 4),
   Word("base", "hex", 2), Word("base", "", 1), Word("//", "", 3),
   Frame(Numeric, "Rx", 8, <<0, 1>>, <<<<1, 10>>, <<0, 7>>>>),
   Frame(J1939, "Rx", 8, <<9, 8, 7, 6, 5, 4, 3, 2, 1>>, <<<<3, 2>>, <<1>>>>),
   Frame(Hinted, "Rx", 7, <<5>>, <<<<0, 9>>>>),
   Frame(TwoBars, "Rx", 8, <<5>>, <<<<0, 9>>, <<1>>>>),
   Frame(NoName, "Rx", 8, <<5>>, <<<<0, 9>>, <<1>>>>),
   Frame(Numeric, "Tx", 8, <<0, 1>>, <<<<1>>, <<7>>>>),
   Frame(Numeric, "Rx", 5, <<0, 1>>, <<>>),
   [Frame(Numeric, "Rx", 8, <<0, 1>>, <<<<1>>, <<7>>>>) EXCEPT !.ended = FALSE]}
=============================================================================
