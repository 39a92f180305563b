----------------------------- MODULE DbcWriter -----------------------------
(***************************************************************************)
(* dbcWriter.c: the statements dbc_write puts in a file for a DBC model,   *)
(* and showDbc.c: what dbcls lists of one.  Environment variables, their   *)
(* maps and data, the value types of signals and the comments of value     *)
(* tables have no writer.                                                  *)
(***************************************************************************)
EXTENDS DbcFile

(* printf's %s of a NULL pointer. *)
NullText == <<"(null)">>

version_write(d) == << <<"VERSION", d.version>> >>

(* The symbols the scanner knows, the same for every file. *)
symbol_write          == << <<"NS_">> >>
message_section_write == << <<"BS_">> >>

(* %ld, %lu, %lg and %s of a value: %lg keeps six digits and prints no     *)
(* fraction when there is none.                                            *)
value_write(v) ==
  CASE v.t \in {"integer", "hex"} -> IntLit(v.n)
    [] v.t = "float" -> IF v.n % 2 = 0 THEN IntLit(v.n \div 2) ELSE DblLit(v.n, FALSE)
    [] v.t \in {"string", "enum"} -> StrLit(v.s)

(* An empty text of a value map is printed without a test for NULL. *)
val_map_entry_write(e) ==
  [e EXCEPT !.text = IF @ = <<>> THEN NullText ELSE @]

val_map_write(map) == [i \in DOMAIN map |-> val_map_entry_write(map[i])]

node_list_write(d) ==
  << <<"BU_", [i \in DOMAIN d.nodes |-> d.nodes[i].name]>> >>

valtable_list_write(d) ==
  [i \in DOMAIN d.tables |->
     <<"VAL_TABLE_", d.tables[i].name, val_map_write(d.tables[i].vals)>>]

signal_write_NoUnit(s) ==
  [name |-> s.name, mux |-> s.mux, unit |-> <<>>, recv |-> s.recv,
   num |-> IF s.num = "tail" THEN "exact" ELSE s.num]

(* %.11G keeps eleven digits and prints NAN the way the scanner reads it. *)
signal_write(s) ==
  [name |-> s.name, mux |-> s.mux, unit |-> s.unit, recv |-> s.recv,
   num |-> IF s.num = "tail" THEN "exact" ELSE s.num]

message_list_write(d) ==
  [i \in DOMAIN d.msgs |->
     <<"BO_", d.msgs[i].id, d.msgs[i].sender,
       [j \in DOMAIN d.msgs[i].sigs |-> signal_write(d.msgs[i].sigs[j])]>>]

message_transmitter_list_write(d) ==
  SelectSeq([i \in DOMAIN d.msgs |-> <<"BO_TX_BU_", d.msgs[i].id, d.msgs[i].tx>>],
            LAMBDA x : x[3] # <<>>)

(* The objects with a comment: network, variables, nodes, messages and     *)
(* then the signals of all messages.                                       *)
signal_comment_write(m) ==
  [j \in DOMAIN m.sigs |-> <<"CM_", <<"SG_", m.id, m.sigs[j].name>>, m.sigs[j].comment>>]

comment_list_write_NoSignals(d) ==
  SelectSeq(
    << <<"CM_", <<"net">>, d.comment>> >>
    \o [i \in DOMAIN d.envs |-> <<"CM_", <<"EV_", d.envs[i].name>>, d.envs[i].comment>>]
    \o [i \in DOMAIN d.nodes |-> <<"CM_", <<"BU_", d.nodes[i].name>>, d.nodes[i].comment>>]
    \o [i \in DOMAIN d.msgs |-> <<"CM_", <<"BO_", d.msgs[i].id>>, d.msgs[i].comment>>],
    LAMBDA x : x[3] # <<>>)

comment_list_write(d) ==
  SelectSeq(
    << <<"CM_", <<"net">>, d.comment>> >>
    \o [i \in DOMAIN d.envs |-> <<"CM_", <<"EV_", d.envs[i].name>>, d.envs[i].comment>>]
    \o [i \in DOMAIN d.nodes |-> <<"CM_", <<"BU_", d.nodes[i].name>>, d.nodes[i].comment>>]
    \o [i \in DOMAIN d.msgs |-> <<"CM_", <<"BO_", d.msgs[i].id>>, d.msgs[i].comment>>]
    \o FlattenSeq([i \in DOMAIN d.msgs |-> signal_comment_write(d.msgs[i])]),
    LAMBDA x : x[3] # <<>>)

attribute_definition_write(x) ==
  <<"BA_DEF_", x.on, x.name, x.type,
    IF x.type # "float" THEN x.range
    ELSE CASE x.range = "tail" -> "exact"
           [] x.range = "NAN"  -> "nan"
           [] OTHER            -> x.range>>

attribute_definition_list_write(d) ==
  [i \in DOMAIN d.defs |-> attribute_definition_write(d.defs[i])]

attribute_definition_default_write(x, aoc) ==
  <<"BA_DEF_DEF_", aoc, x.name, value_write(x.default)>>

attribute_definition_default_list_write(d, aoc) ==
  LET mine == SelectSeq(d.defs, LAMBDA x : ObjectClass(x.on) = aoc)
  IN  [i \in DOMAIN mine |-> attribute_definition_default_write(mine[i], aoc)]

attribute_list_write(al, target) ==
  [i \in DOMAIN al |-> <<"BA_", target, al[i].name, value_write(al[i].value)>>]

node_attribute_list_write(d) ==
  FlattenSeq([i \in DOMAIN d.nodes |->
    attribute_list_write(d.nodes[i].attrs, <<"BU_", d.nodes[i].name>>)])

message_attribute_list_write(d) ==
  FlattenSeq([i \in DOMAIN d.msgs |->
    attribute_list_write(d.msgs[i].attrs, <<"BO_", d.msgs[i].id>>)])

signal_attribute_list_write(d) ==
  FlattenSeq([i \in DOMAIN d.msgs |->
    FlattenSeq([j \in DOMAIN d.msgs[i].sigs |->
      attribute_list_write(d.msgs[i].sigs[j].attrs,
                           <<"SG_", d.msgs[i].id, d.msgs[i].sigs[j].name>>)])])

(* The list holds a NULL for a relation the parser could not resolve, and  *)
(* the writer follows it.                                                  *)
Dangling(d) == \E i \in DOMAIN d.rels : d.rels[i].null

attribute_rel_list_write(d) ==
  [i \in DOMAIN d.rels |->
     <<"BA_REL_", d.rels[i].name, d.rels[i].node, d.rels[i].id, d.rels[i].sig,
       value_write(d.rels[i].value)>>]

signal_val_map_write(d) ==
  SelectSeq(
    FlattenSeq([i \in DOMAIN d.msgs |->
      [j \in DOMAIN d.msgs[i].sigs |->
         <<"VAL_", <<"SG_", d.msgs[i].id, d.msgs[i].sigs[j].name>>,
           val_map_write(d.msgs[i].sigs[j].vals)>>]]),
    LAMBDA x : x[3] # <<>>)

signal_group_list_write(d) ==
  [i \in DOMAIN d.groups |->
     <<"SIG_GROUP_", d.groups[i].id, d.groups[i].name, d.groups[i].sigs>>]

dbc_write_DefaultsFirst(d) ==
  version_write(d) \o symbol_write \o message_section_write
  \o node_list_write(d) \o valtable_list_write(d) \o message_list_write(d)
  \o message_transmitter_list_write(d) \o comment_list_write(d)
  \o attribute_definition_default_list_write(d, "object")
  \o attribute_definition_list_write(d)

dbc_write(d) ==
  version_write(d) \o symbol_write \o message_section_write
  \o node_list_write(d) \o valtable_list_write(d) \o message_list_write(d)
  \o message_transmitter_list_write(d) \o comment_list_write(d)
  \o attribute_definition_list_write(d)
  \o attribute_definition_default_list_write(d, "object")
  \o attribute_definition_default_list_write(d, "relation")
  \o attribute_list_write(d.attrs, <<"net">>)
  \o node_attribute_list_write(d) \o message_attribute_list_write(d)
  \o signal_attribute_list_write(d) \o attribute_rel_list_write(d)
  \o signal_val_map_write(d) \o signal_group_list_write(d)

----------------------------------------------------------------------------
(* The rows dbcls prints.  The name of the network is that of the file. *)

(* A string that is NULL is printed without a test. *)
show_attribute(a) ==
  <<a.name, a.value.t, a.value.n,
    IF a.value.t \in {"string", "enum"} /\ a.value.s = <<>> THEN NullText
    ELSE a.value.s>>

show_attribute_list(al) == [i \in DOMAIN al |-> show_attribute(al[i])]

show_val_map(map) == val_map_write(map)

show_dbc_valtable_list(d) ==
  [i \in DOMAIN d.tables |-> <<d.tables[i].name, show_val_map(d.tables[i].vals)>>]

show_dbc_network(d) == <<d.comment, show_attribute_list(d.attrs)>>

show_message(m) == <<m.id, m.sender, m.comment, show_attribute_list(m.attrs), m.tx>>

show_signal(s) ==
  <<s.name, s.mux, s.num, s.type, s.unit, s.recv, s.comment,
    show_attribute_list(s.attrs), show_val_map(s.vals)>>

show_dbc_message_list(d) == [i \in DOMAIN d.msgs |-> show_message(d.msgs[i])]

show_dbc_signals(d) ==
  FlattenSeq([i \in DOMAIN d.msgs |->
    [j \in DOMAIN d.msgs[i].sigs |->
       <<show_message(d.msgs[i]), show_signal(d.msgs[i].sigs[j])>>]])

show_dbc_nodes(d) ==
  [i \in DOMAIN d.nodes |-> <<d.nodes[i].name, d.nodes[i].comment,
                              show_attribute_list(d.nodes[i].attrs)>>]

Listing(d) ==
  <<show_dbc_network(d), show_dbc_message_list(d), show_dbc_signals(d),
    show_dbc_nodes(d), show_dbc_valtable_list(d)>>

(* commspy: the start value and the unit of every signal of a file, under  *)
(* the names of its message and the signal.  Of messages with one name,    *)
(* which here is one with one identifier, a hash that never grew gives the *)
(* latest first; a signal callback clears what the attributes of an        *)
(* earlier one set.  Only an integer is a start value, cut to the bits of  *)
(* a signal as wide as a word.  All attributes are named GenSigStartValue. *)

sgn_cb(data, m, s) ==
  (<<m.id, s.name>> :> [start |-> 0, num |-> s.num, unit |-> s.unit]) @@ data

sgn_att_cb(data, m, s, a) ==
  IF a.value.t # "integer" THEN data
  ELSE [data EXCEPT ![<<m.id, s.name>>].start = Unsigned(a.value.n)]

AnalogMap(d) ==
  LET OfSignal(data, e) ==
        FoldLeft(LAMBDA acc, a : sgn_att_cb(acc, e[1], e[2], a),
                 sgn_cb(data, e[1], e[2]), e[2].attrs)
      OfMessage(m) == [j \in DOMAIN m.sigs |-> <<m, m.sigs[j]>>]
  IN  FoldLeft(OfSignal, [n \in {} |-> 0],
               FlattenSeq(Reverse([i \in DOMAIN d.msgs |-> OfMessage(d.msgs[i])])))

(* The names of the types of a variable are four: a larger type of the     *)
(* file is read behind the table.                                          *)
show_dbc_envvars(d) == \A i \in DOMAIN d.envs : d.envs[i].type \in 0 .. 3
=============================================================================
