------------------------------ MODULE DbcFile ------------------------------
(***************************************************************************)
(* The DBC model of libcandbc as a value: how the parser's actions (dbc.y) *)
(* build it statement by statement, how dbcWriter.c turns it back into     *)
(* statements and what showDbc.c lists of it.                              *)
(*                                                                         *)
(* A string is the sequence of its words; the scanner makes no difference  *)
(* between "" and NULL, both are <<>>.  A double counts halves, and `tail' *)
(* says that it has more digits than a printf keeps.                       *)
(***************************************************************************)
EXTENDS Integers, Sequences, SequencesExt

CONSTANT MaxLong   \* the largest long: an unsigned long ends at 2 * MaxLong + 1

ASSUME MaxLongAssumption == MaxLong \in Nat \ {0}

----------------------------------------------------------------------------
(* Literals of the file and values of the model. *)

IntLit(n)          == [t |-> "int", n |-> n, tail |-> FALSE, s |-> <<>>]
DblLit(halves, tl) == [t |-> "dbl", n |-> halves, tail |-> tl, s |-> <<>>]
StrLit(words)      == [t |-> "str", n |-> 0, tail |-> FALSE, s |-> words]

(* atoll stops at the largest long. *)
T_INT_VAL(n) == IF n > MaxLong THEN MaxLong ELSE n

(* (uint32) of a long. *)
Unsigned(n) == n % (2 * MaxLong + 2)

(* lrint: to the nearest, and to the even one of two. *)
lrint(halves, tl) ==
  IF halves % 2 = 0 THEN halves \div 2
  ELSE IF tl \/ ((halves - 1) \div 2) % 2 # 0 THEN (halves + 1) \div 2
  ELSE (halves - 1) \div 2

attribute_value(lit) ==
  CASE lit.t = "int" -> [lit EXCEPT !.t = "integer", !.n = T_INT_VAL(@)]
    [] lit.t = "dbl" -> [lit EXCEPT !.t = "float"]
    [] lit.t = "str" -> [lit EXCEPT !.t = "string"]

----------------------------------------------------------------------------
(* The model, and the look-ups of the parser's actions. *)

EmptyDbc ==
  [version |-> <<>>, nodes |-> <<>>, tables |-> <<>>, msgs |-> <<>>, envs |-> <<>>, defs |-> <<>>,
   rels |-> <<>>, groups |-> <<>>, comment |-> <<>>, attrs |-> <<>>]

ObjectClass(on) ==
  CASE on \in {"network", "node", "message", "signal"} -> "object"
    [] on \in {"node_signal", "node_message"}          -> "relation"
    [] OTHER                                           -> "undefined"

attribute_definition_find(d, name, class) ==
  SelectInSeq(d.defs, LAMBDA x : x.name = name /\ ObjectClass(x.on) = class)

node_find(d, name)   == SelectInSeq(d.nodes, LAMBDA x : x.name = name)
message_find(d, id)  == SelectInSeq(d.msgs, LAMBDA x : x.id = id)
envvar_find(d, name) == SelectInSeq(d.envs, LAMBDA x : x.name = name)

(* All messages with the id are searched, not only the first one. *)
signal_find(d, id, name) ==
  LET i == SelectInSeq(d.msgs, LAMBDA x :
             x.id = id /\ \E j \in DOMAIN x.sigs : x.sigs[j].name = name)
  IN  IF i = 0 THEN <<0, 0>>
      ELSE <<i, SelectInSeq(d.msgs[i].sigs, LAMBDA x : x.name = name)>>

string_merge(in, app) == in \o app

----------------------------------------------------------------------------
(* The object a statement is about, by the kind of its target:             *)
(* <<"net">>, <<"BU_", node>>, <<"BO_", id>>, <<"SG_", id, signal>> or     *)
(* <<"EV_", variable>>.                                                    *)

Known(d, target) ==
  CASE target[1] = "net" -> TRUE
    [] target[1] = "BU_" -> node_find(d, target[2]) # 0
    [] target[1] = "BO_" -> message_find(d, target[2]) # 0
    [] target[1] = "SG_" -> signal_find(d, target[2], target[3]) # <<0, 0>>
    [] target[1] = "EV_" -> envvar_find(d, target[2]) # 0

comment(d, target, text) ==
  IF ~ Known(d, target) THEN d
  ELSE CASE target[1] = "net" -> [d EXCEPT !.comment = string_merge(@, text)]
         [] target[1] = "BU_" ->
              [d EXCEPT !.nodes[node_find(d, target[2])].comment
                          = string_merge(@, text)]
         [] target[1] = "BO_" ->
              [d EXCEPT !.msgs[message_find(d, target[2])].comment
                          = string_merge(@, text)]
         [] target[1] = "SG_" ->
              LET at == signal_find(d, target[2], target[3])
              IN  [d EXCEPT !.msgs[at[1]].sigs[at[2]].comment
                              = string_merge(@, text)]
         [] target[1] = "EV_" ->
              [d EXCEPT !.envs[envvar_find(d, target[2])].comment
                          = string_merge(@, text)]

(* The dynamic cast of a value to the type of its definition. *)
DynamicCast(v, type) ==
  CASE v.t = "integer" /\ type = "float" ->
         [v EXCEPT !.t = "float", !.n = 2 * @]
    [] v.t = "float" /\ type = "integer" ->
         [v EXCEPT !.t = "integer", !.n = lrint(v.n, v.tail), !.tail = FALSE]
    [] v.t = "integer" /\ type = "hex" ->
         [v EXCEPT !.t = "hex", !.n = Unsigned(@)]
    [] OTHER -> v

attribute_append(d, al, name, v) ==
  LET i == attribute_definition_find(d, name, "object")
  IN  Append(al, [name |-> name,
                  value |-> IF i = 0 THEN v ELSE DynamicCast(v, d.defs[i].type)])

attribute(d, target, name, lit) ==
  LET v == attribute_value(lit)
  IN  IF ~ Known(d, target) THEN d
      ELSE CASE target[1] = "net" ->
                  [d EXCEPT !.attrs = attribute_append(d, @, name, v)]
             [] target[1] = "BU_" ->
                  [d EXCEPT !.nodes[node_find(d, target[2])].attrs
                              = attribute_append(d, @, name, v)]
             [] target[1] = "BO_" ->
                  [d EXCEPT !.msgs[message_find(d, target[2])].attrs
                              = attribute_append(d, @, name, v)]
             [] target[1] = "SG_" ->
                  LET at == signal_find(d, target[2], target[3])
                  IN  [d EXCEPT !.msgs[at[1]].sigs[at[2]].attrs
                                  = attribute_append(d, @, name, v)]

(* A relation of which a part is missing leaves a NULL in the list; the    *)
(* value is not cast.                                                      *)
attribute_rel(d, name, node, id, sig, lit) ==
  LET complete == /\ node_find(d, node) # 0
                  /\ message_find(d, id) # 0
                  /\ signal_find(d, id, sig) # <<0, 0>>
  IN  [d EXCEPT !.rels = Append(@,
         [null |-> ~ complete, name |-> name, node |-> node, id |-> id,
          sig |-> sig, value |-> attribute_value(lit)])]

(* The default of a definition starts as 0 or NULL. *)
attribute_definition(d, on, name, type, range) ==
  [d EXCEPT !.defs = Append(@,
     [on |-> on, name |-> name, type |-> type, range |-> range,
      default |-> [t |-> type, n |-> 0, tail |-> FALSE, s |-> <<>>]])]

attribute_definition_default(d, class, name, lit) ==
  LET i == attribute_definition_find(d, name, class)
      v == attribute_value(lit)
  IN  IF i = 0 THEN d
      ELSE LET type == d.defs[i].type
               fits == \/ lit.t = "int" /\ type \in {"integer", "hex", "float"}
                       \/ lit.t = "dbl" /\ type = "float"
                       \/ lit.t = "str" /\ type \in {"string", "enum"}
           IN  IF ~ fits THEN d
               ELSE [d EXCEPT !.defs[i].default =
                       [DynamicCast(v, type) EXCEPT !.t = type]]

(* A second map for the same signal or variable is dropped. *)
val(d, target, map) ==
  IF ~ Known(d, target) THEN d
  ELSE CASE target[1] = "SG_" ->
              LET at == signal_find(d, target[2], target[3])
              IN  [d EXCEPT !.msgs[at[1]].sigs[at[2]].vals
                              = IF @ = <<>> THEN map ELSE @]
         [] target[1] = "EV_" ->
              [d EXCEPT !.envs[envvar_find(d, target[2])].vals
                          = IF @ = <<>> THEN map ELSE @]

sig_valtype(d, id, name, n) ==
  LET at == signal_find(d, id, name)
  IN  IF at = <<0, 0>> \/ n \notin {1, 2} THEN d
      ELSE [d EXCEPT !.msgs[at[1]].sigs[at[2]].type
                       = IF n = 1 THEN "float" ELSE "double"]

(* The new transmitters of a message replace the old ones. *)
message_transmitters(d, id, names) ==
  LET i == message_find(d, id)
  IN  IF i = 0 THEN d ELSE [d EXCEPT !.msgs[i].tx = names]

signal(s) ==
  [name |-> s.name, mux |-> s.mux, num |-> s.num, unit |-> s.unit, recv |-> s.recv,
   type |-> "integer", comment |-> <<>>, attrs |-> <<>>, vals |-> <<>>]

message(d, id, sender, sigs) ==
  [d EXCEPT !.msgs = Append(@,
     [id |-> id, sender |-> sender, sigs |-> [j \in DOMAIN sigs |-> signal(sigs[j])],
      comment |-> <<>>, attrs |-> <<>>, tx |-> <<>>])]

(* Stored with the last section, like the relations and the groups. *)
version(d, text) == [d EXCEPT !.version = text]

node_list(d, names) ==
  [d EXCEPT !.nodes = [i \in DOMAIN names |->
     [name |-> names[i], comment |-> <<>>, attrs |-> <<>>]]]

valtable(d, name, map) ==
  [d EXCEPT !.tables = Append(@, [name |-> name, vals |-> map])]

(* max is overwritten by the initial value, initial is never assigned. *)
envvar(d, name, type) ==
  [d EXCEPT !.envs = Append(@,
     [name |-> name, type |-> type, comment |-> <<>>, vals |-> <<>>])]

signal_group(d, id, name, sigs) ==
  [d EXCEPT !.groups = Append(@, [id |-> id, name |-> name, sigs |-> sigs])]

----------------------------------------------------------------------------
(* The sections of a file, in the only order the grammar takes. *)

Section(stmt) ==
  CASE stmt[1] = "VERSION"      -> 1  [] stmt[1] = "NS_"          -> 2
    [] stmt[1] = "BS_"          -> 3  [] stmt[1] = "BU_"          -> 4
    [] stmt[1] = "VAL_TABLE_"   -> 5  [] stmt[1] = "BO_"          -> 6
    [] stmt[1] = "BO_TX_BU_"    -> 7  [] stmt[1] = "EV_"          -> 8
    [] stmt[1] = "ENVVAR_DATA_" -> 9  [] stmt[1] = "CM_"          -> 10
    [] stmt[1] = "BA_DEF_"      -> 11 [] stmt[1] = "BA_DEF_DEF_"  -> 12
    [] stmt[1] = "BA_"          -> 13 [] stmt[1] = "BA_REL_"      -> 14
    [] stmt[1] = "VAL_"         -> 15 [] stmt[1] = "SIG_VALTYPE_" -> 16
    [] stmt[1] = "SIG_GROUP_"   -> 17

EndOfSections == 18

(* The scanner knows NAN, which %G prints, but not the nan of %lg. *)
Readable(stmt) == stmt[1] = "BA_DEF_" => stmt[5] # "nan"

Apply(d, stmt) ==
  CASE stmt[1] = "VERSION"      -> version(d, stmt[2])
    [] stmt[1] \in {"NS_", "BS_"} -> d
    [] stmt[1] = "BU_"          -> node_list(d, stmt[2])
    [] stmt[1] = "VAL_TABLE_"   -> valtable(d, stmt[2], stmt[3])
    [] stmt[1] = "BO_"          -> message(d, stmt[2], stmt[3], stmt[4])
    [] stmt[1] = "BO_TX_BU_"    -> message_transmitters(d, stmt[2], stmt[3])
    [] stmt[1] = "EV_"          -> envvar(d, stmt[2], stmt[3])
    [] stmt[1] = "ENVVAR_DATA_" -> d
    [] stmt[1] = "CM_"          -> comment(d, stmt[2], stmt[3])
    [] stmt[1] = "BA_DEF_"      ->
         attribute_definition(d, stmt[2], stmt[3], stmt[4], stmt[5])
    [] stmt[1] = "BA_DEF_DEF_"  ->
         attribute_definition_default(d, stmt[2], stmt[3], stmt[4])
    [] stmt[1] = "BA_"          -> attribute(d, stmt[2], stmt[3], stmt[4])
    [] stmt[1] = "BA_REL_"      ->
         attribute_rel(d, stmt[2], stmt[3], stmt[4], stmt[5], stmt[6])
    [] stmt[1] = "VAL_"         -> val(d, stmt[2], stmt[3])
    [] stmt[1] = "SIG_VALTYPE_" -> sig_valtype(d, stmt[2], stmt[3], stmt[4])
    [] stmt[1] = "SIG_GROUP_"   -> signal_group(d, stmt[2], stmt[3], stmt[4])

(* What a file that the parser accepts to the end leaves in memory. *)
ReadAll(stmts) == FoldLeft(Apply, EmptyDbc, stmts)
=============================================================================
