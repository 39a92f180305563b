------------------------------ MODULE DbcHeap ------------------------------
(***************************************************************************)
(* The memory of a DBC model: which cells its objects own, what the copy   *)
(* constructors of dbcModel.c allocate and what its destructors release.   *)
(* A cell stands for all the memory behind one field of one object: its    *)
(* name is the owner of the model, the kind of the object, its place and   *)
(* the field.                                                              *)
(***************************************************************************)
EXTENDS DbcFile

Cell(o, kind, i, j, field) == <<o, kind, i, j, field>>

(* A field that is NULL owns nothing. *)
Own(o, kind, i, j, field, present) ==
  IF present THEN {Cell(o, kind, i, j, field)} ELSE {}

(* The same fields, in the memory of another owner. *)
Dup(o, cells) == {[c EXCEPT ![1] = o] : c \in cells}

----------------------------------------------------------------------------
(* Signals and messages: each field names the cells it points to. *)

signal_new(o, i, j, s) ==
  [self       |-> Own(o, "signal", i, j, "self", TRUE),
   name       |-> Own(o, "signal", i, j, "name", TRUE),
   unit       |-> Own(o, "signal", i, j, "unit", s.unit # <<>>),
   receivers  |-> Own(o, "signal", i, j, "receivers", TRUE),
   comment    |-> Own(o, "signal", i, j, "comment", s.comment # <<>>),
   attributes |-> Own(o, "signal", i, j, "attributes", s.attrs # <<>>),
   val_map    |-> Own(o, "signal", i, j, "val_map", s.vals # <<>>)]

signal_dup_SharedAttributes(o, s) ==
  [self       |-> Dup(o, s.self),
   name       |-> Dup(o, s.name),
   unit       |-> Dup(o, s.unit),
   receivers  |-> Dup(o, s.receivers),
   comment    |-> Dup(o, s.comment),
   attributes |-> s.attributes,
   val_map    |-> Dup(o, s.val_map)]

signal_dup(o, s) ==
  [self       |-> Dup(o, s.self),
   name       |-> Dup(o, s.name),
   unit       |-> Dup(o, s.unit),
   receivers  |-> Dup(o, s.receivers),
   comment    |-> Dup(o, s.comment),
   attributes |-> Dup(o, s.attributes),
   val_map    |-> Dup(o, s.val_map)]

signal_free(s) ==
  s.name \cup s.unit \cup s.receivers \cup s.comment \cup s.attributes
  \cup s.val_map \cup s.self

message_new(o, i, m) ==
  [self         |-> Own(o, "message", i, 0, "self", TRUE),
   name         |-> Own(o, "message", i, 0, "name", TRUE),
   sender       |-> Own(o, "message", i, 0, "sender", TRUE),
   signals      |-> [j \in DOMAIN m.sigs |-> signal_new(o, i, j, m.sigs[j])],
   comment      |-> Own(o, "message", i, 0, "comment", m.comment # <<>>),
   attributes   |-> Own(o, "message", i, 0, "attributes", m.attrs # <<>>),
   transmitters |-> Own(o, "message", i, 0, "transmitters", m.tx # <<>>)]

message_dup(o, m) ==
  [self         |-> Dup(o, m.self),
   name         |-> Dup(o, m.name),
   sender       |-> Dup(o, m.sender),
   signals      |-> [j \in DOMAIN m.signals |-> signal_dup(o, m.signals[j])],
   comment      |-> Dup(o, m.comment),
   attributes   |-> Dup(o, m.attributes),
   transmitters |-> Dup(o, m.transmitters)]

message_free(m) ==
  m.name \cup m.sender \cup UNION {signal_free(m.signals[j]) : j \in DOMAIN m.signals}
  \cup m.comment \cup m.attributes \cup m.transmitters \cup m.self

(* What busAssignment_iterate and the decoder read of a message. *)
MessageReads(m) ==
  m.self \cup m.name \cup UNION {m.signals[j].self \cup m.signals[j].name
                                 \cup m.signals[j].attributes
                                 : j \in DOMAIN m.signals}

----------------------------------------------------------------------------
(* The whole model.  Nodes, variables, definitions and groups have one     *)
(* cell each; a relation and a value table have one for the structure and  *)
(* one for what it points to.                                              *)

EachOwns(o, kind, n, field) ==
  UNION {Own(o, kind, i, 0, field, TRUE) : i \in 1 .. n}

dbc_new(o, d) ==
  [self     |-> Own(o, "dbc", 0, 0, "self", TRUE),
   filename |-> Own(o, "dbc", 0, 0, "filename", TRUE),
   nodes    |-> EachOwns(o, "node", Len(d.nodes), "all"),
   tables   |-> [struct |-> EachOwns(o, "valtable", Len(d.tables), "self"),
                 inside |-> EachOwns(o, "valtable", Len(d.tables), "inside")],
   messages |-> [i \in DOMAIN d.msgs |-> message_new(o, i, d.msgs[i])],
   envvars  |-> EachOwns(o, "envvar", Len(d.envs), "all"),
   rels     |-> [struct |-> EachOwns(o, "rel", Len(d.rels), "self"),
                 inside |-> EachOwns(o, "rel", Len(d.rels), "inside")],
   defs     |-> EachOwns(o, "definition", Len(d.defs), "all"),
   groups   |-> EachOwns(o, "group", Len(d.groups), "all"),
   network  |-> Own(o, "dbc", 0, 0, "network", TRUE)]

(* valtable_free and attribute_rel_free release what the structure points  *)
(* to and not the structure.                                               *)
valtable_list_free(tables)    == tables.inside
attribute_rel_list_free(rels) == rels.inside

dbc_free(x) ==
  x.filename \cup x.nodes \cup valtable_list_free(x.tables)
  \cup UNION {message_free(x.messages[i]) : i \in DOMAIN x.messages}
  \cup x.envvars \cup attribute_rel_list_free(x.rels) \cup x.defs \cup x.groups
  \cup x.network \cup x.self

AllCells(x) == dbc_free(x) \cup x.tables.struct \cup x.rels.struct

(* What no destructor ever releases. *)
NeverReleased(x) == x.tables.struct \cup x.rels.struct
=============================================================================
