------------------------------ MODULE DbcTools -----------------------------
(***************************************************************************)
(* The programs that read a DBC file with libcandbc: dbccopy writes it     *)
(* again, dbcls lists it, and commspy and the intercom keep the messages   *)
(* of every bus in a hash (busAssignment.c, messageHash.c).                *)
(*                                                                         *)
(* The author of the file puts the statements one after the other; the     *)
(* file may stop being a DBC file at any point, and any fopen may fail.    *)
(*                                                                         *)
(* A user of the library may also have a log of received messages read     *)
(* (ascReader.c, which none of the programs above calls).                  *)
(***************************************************************************)
EXTENDS DbcWriter, AscReader, FiniteSets

H == INSTANCE DbcHeap

CONSTANTS
  Headers,       \* the statements every file of the instance starts with
  Statements,    \* those its author may add
  MaxStatements, \* how many
  Buses,         \* the CAN buses a bus assignment associates with the file
  Lines,         \* the lines a log is made of
  MaxLines       \* how many

VARIABLES
  tool,    \* the program that runs
  pc,      \* where it is
  input,   \* what is left of the file, or of the copy, to be read
  added,   \* the statements the author added
  section, \* the section the parser has reached
  dbc,     \* the model being read
  orig,    \* the model the copy was made from
  live,    \* the allocated cells
  hashes,  \* for each bus that was parsed, the messages in its hash
  invalid, \* whether a cell was read or freed that is not allocated
  log      \* the lines of the log that were read, and what its reader keeps

vars == <<tool, pc, input, added, section, dbc, orig, live, hashes, invalid, log>>

Tools == {"dbccopy", "dbcls", "commspy", "asc"}

Init ==
  /\ tool \in Tools
  /\ pc = IF tool = "asc" THEN "log" ELSE "open"
  /\ input \in IF tool = "asc" THEN {<<>>} ELSE Headers
  /\ added = 0
  /\ section = 1
  /\ dbc = EmptyDbc
  /\ orig = EmptyDbc
  /\ live = {}
  /\ hashes = <<>>
  /\ invalid = FALSE
  /\ log = [lines |-> <<>>, reader |-> StartOfLog]

----------------------------------------------------------------------------
(* Memory: a program that reads or frees what is not allocated is flagged. *)

Heap(d) == H!dbc_new("dbc", d)

Releases(cells) ==
  /\ live' = live \ cells
  /\ invalid' = (invalid \/ ~ (cells \subseteq live))

----------------------------------------------------------------------------
(* dbc_read_file and the parser.                                           *)

Open ==
  /\ pc = "open"
  /\ pc' = "reading"
  /\ UNCHANGED <<tool, input, added, section, dbc, orig, live, hashes, invalid, log>>

(* No file: dbc_free is called on memory that nothing has been written to, *)
(* which ends the program or, if the memory happens to be zero, does not.  *)
OpenFails ==
  /\ pc = "open"
  /\ pc' \in {"crashed", IF tool = "commspy" THEN "assigned" ELSE "no file"}
  /\ UNCHANGED <<tool, input, added, section, dbc, orig, live, hashes, invalid, log>>

(* The next statement: one of the file's, or one more of the author's that *)
(* the grammar takes at this point.                                        *)
Statement(stmt) ==
  /\ pc \in {"reading", "rereading"}
  /\ Section(stmt) >= section
  /\ Readable(stmt)
  /\ \/ /\ input # <<>>
        /\ stmt = Head(input)
        /\ input' = Tail(input)
        /\ UNCHANGED added
     \/ /\ pc = "reading"
        /\ input = <<>>
        /\ added < MaxStatements
        /\ added' = added + 1
        /\ UNCHANGED input
  /\ dbc' = Apply(dbc, stmt)
  /\ section' = Section(stmt)
  /\ UNCHANGED <<tool, pc, orig, live, hashes, invalid, log>>

(* The mid-rule actions of the sections that were not reached have not     *)
(* run: their fields of the model keep what malloc returned.               *)
SyntaxError ==
  /\ \/ pc = "reading"
     \/ pc = "rereading" /\ input # <<>>
        /\ (~ Readable(Head(input)) \/ Section(Head(input)) < section)
  /\ pc' = "unset"
  /\ UNCHANGED <<tool, input, added, section, dbc, orig, live, hashes, invalid, log>>

EndOfFile ==
  /\ pc \in {"reading", "rereading"}
  /\ input = <<>>
  /\ section' = EndOfSections
  /\ IF pc = "reading"
     THEN pc' = "parsed" /\ live' = live \cup H!AllCells(Heap(dbc))
     ELSE pc' = "copied" /\ UNCHANGED live
  /\ UNCHANGED <<tool, input, added, dbc, orig, hashes, invalid, log>>

(* A syntax error is no error for the callers of dbc_read_file: they use   *)
(* the model, and meet a field that was never set.                         *)
UseUnset ==
  /\ pc = "unset"
  /\ pc' \in {"crashed", "done"}
  /\ UNCHANGED <<tool, input, added, section, dbc, orig, live, hashes, invalid, log>>

----------------------------------------------------------------------------
(* dbccopy. *)

(* The output file is written, or cannot be opened; dbc_free follows. *)
Copy ==
  /\ tool = "dbccopy"
  /\ pc = "parsed"
  /\ IF Dangling(dbc)
     THEN /\ pc' = "crashed"
          /\ UNCHANGED <<input, section, dbc, orig, live, invalid>>
     ELSE /\ Releases(H!dbc_free(Heap(dbc)))
          /\ \/ /\ pc' = "done"
                /\ UNCHANGED <<input, section, dbc, orig>>
             \/ /\ pc' = "rereading"
                /\ input' = dbc_write(dbc)
                /\ orig' = dbc
                /\ dbc' = EmptyDbc
                /\ section' = 1
  /\ UNCHANGED <<tool, added, hashes, log>>

(* dbcls. *)
List ==
  /\ tool = "dbcls"
  /\ pc = "parsed"
  /\ IF Dangling(dbc)
     THEN pc' = "crashed" /\ UNCHANGED <<live, invalid>>
     ELSE /\ pc' \in {"done"} \cup (IF show_dbc_envvars(dbc) THEN {} ELSE {"crashed"})
          /\ Releases(H!dbc_free(Heap(dbc)))
  /\ UNCHANGED <<tool, input, added, section, dbc, orig, hashes, log>>

----------------------------------------------------------------------------
(* busAssignment_parseDBC, one bus after the other.                        *)

(* messageHash_create: a copy of every message, under its identifier. *)
Hash(b) ==
  [i \in DOMAIN dbc.msgs |-> H!message_dup(b, H!message_new("dbc", i, dbc.msgs[i]))]

HashCells(h) == UNION {H!message_free(h[i]) : i \in DOMAIN h}

MakeHash ==
  /\ tool = "commspy"
  /\ pc = "parsed"
  /\ Len(hashes) < Len(Buses)
  /\ LET h == Hash(Buses[Len(hashes) + 1])
     IN  /\ hashes' = Append(hashes, h)
         /\ live' = live \cup HashCells(h)
  /\ pc' = "hashed"
  /\ UNCHANGED <<tool, input, added, section, dbc, orig, invalid, log>>

(* create_hashtable returns NULL: the loop ends with the model allocated. *)
NoHash ==
  /\ tool = "commspy"
  /\ pc = "parsed"
  /\ pc' = "assigned"
  /\ UNCHANGED <<tool, input, added, section, dbc, orig, live, hashes, invalid, log>>

FreeDbc ==
  /\ pc = "hashed"
  /\ IF Dangling(dbc)
     THEN pc' = "crashed" /\ UNCHANGED <<live, invalid>>
     ELSE /\ Releases(H!dbc_free(Heap(dbc)))
          /\ pc' = IF Len(hashes) = Len(Buses) THEN "assigned" ELSE "next"
  /\ UNCHANGED <<tool, input, added, section, dbc, orig, hashes, log>>

(* The file of the next bus: the same one, or one that cannot be opened. *)
NextFile ==
  /\ pc = "next"
  /\ \/ /\ pc' = "parsed"
        /\ live' = live \cup H!AllCells(Heap(dbc))
     \/ /\ pc' \in {"assigned", "crashed"}
        /\ UNCHANGED live
  /\ UNCHANGED <<tool, input, added, section, dbc, orig, hashes, invalid, log>>

(* busAssignment_iterate and canMessage_decode read the copies; the        *)
(* iterator over each hash that has entries is not freed.                  *)
Iterator(b) == <<Buses[b], "iterator", 0, 0, "self">>

Iterate ==
  /\ pc = "assigned"
  /\ LET used == {b \in DOMAIN hashes : hashes[b] # <<>>}
         read == UNION {UNION {H!MessageReads(hashes[b][i]) : i \in DOMAIN hashes[b]}
                        : b \in used}
     IN  /\ invalid' = (invalid \/ ~ (read \subseteq live))
         /\ live' = live \cup {Iterator(b) : b \in used}
  /\ UNCHANGED <<tool, pc, input, added, section, dbc, orig, hashes, log>>

(* commspy receives a CAN message: the buses that match are asked one      *)
(* after the other, and a bus whose file was not parsed has no hash.  Of   *)
(* two messages with the identifier a hash that never grew finds the       *)
(* latest.                                                                 *)
processCanMessage(bus, id) ==
  /\ tool = "commspy"
  /\ pc = "assigned"
  /\ LET asked == {b \in DOMAIN Buses : Buses[b] \in {"every bus", bus}}
         known == {i \in DOMAIN dbc.msgs : dbc.msgs[i].id = id}
         hash  == CHOOSE b \in asked : \A c \in asked : b <= c
         last  == CHOOSE i \in known : \A j \in known : j <= i
         tried == IF known = {} THEN asked ELSE {hash}
         read  == IF known = {} THEN {} ELSE H!MessageReads(hashes[hash][last])
     IN  IF tried \subseteq DOMAIN hashes
         THEN UNCHANGED pc /\ invalid' = (invalid \/ ~ (read \subseteq live))
         ELSE pc' = "crashed" /\ UNCHANGED invalid
  /\ UNCHANGED <<tool, input, added, section, dbc, orig, live, hashes, log>>

rcv_loop ==
  \E bus \in {Buses[b] : b \in DOMAIN Buses}, id \in {1, 2} : processCanMessage(bus, id)

(* busAssignment_free, message by message of the last hash that is left. *)
FreeAssignment ==
  /\ pc \in {"assigned", "freeing"}
  /\ pc' = IF hashes = <<>> THEN "done" ELSE "freeing"
  /\ IF hashes = <<>>
     THEN UNCHANGED <<live, hashes, invalid>>
     ELSE LET h == hashes[Len(hashes)]
          IN  IF h = <<>>
              THEN /\ hashes' = SubSeq(hashes, 1, Len(hashes) - 1)
                   /\ UNCHANGED <<live, invalid>>
              ELSE /\ Releases(H!message_free(h[Len(h)]))
                   /\ hashes' = [hashes EXCEPT ![Len(hashes)] =
                                   SubSeq(@, 1, Len(@) - 1)]
  /\ UNCHANGED <<tool, input, added, section, dbc, orig, log>>

----------------------------------------------------------------------------
(* ascReader_processFile reads the next line of the log. *)
ReadLine(l) ==
  /\ pc = "log"
  /\ Len(log.lines) < MaxLines
  /\ LET r == process_line(log.reader, l)
     IN  /\ log' = [lines |-> Append(log.lines, l), reader |-> r]
         /\ pc' = IF r.state = "reading" THEN "log"
                  ELSE IF r.state = "crashed" THEN "crashed" ELSE "logged"
  /\ UNCHANGED <<tool, input, added, section, dbc, orig, live, hashes, invalid>>

EndOfLog ==
  /\ pc = "log"
  /\ pc' = "logged"
  /\ UNCHANGED <<tool, input, added, section, dbc, orig, live, hashes, invalid, log>>

----------------------------------------------------------------------------
Reading ==
  \/ Open \/ OpenFails \/ SyntaxError \/ EndOfFile \/ UseUnset
  \/ input # <<>> /\ Statement(Head(input))
  \/ \E stmt \in Statements : Statement(stmt)

Assignment ==
  MakeHash \/ NoHash \/ FreeDbc \/ NextFile \/ Iterate \/ rcv_loop \/ FreeAssignment

Log == EndOfLog \/ \E l \in Lines : ReadLine(l)

Next == Reading \/ Copy \/ List \/ Assignment \/ Log

Spec == Init /\ [][Next]_vars

----------------------------------------------------------------------------
(* What a copy keeps, field by field.                                      *)

KeptValue(d, name, class, v) ==
  LET i == attribute_definition_find(d, name, class)
      cast == class = "object" /\ i # 0
  IN  CASE v.t = "float" /\ v.n % 2 = 0 /\ ~ (cast /\ d.defs[i].type = "float") ->
             IF cast /\ d.defs[i].type = "hex"
             THEN [v EXCEPT !.t = "hex", !.n = Unsigned(v.n \div 2), !.tail = FALSE]
             ELSE [v EXCEPT !.t = "integer", !.n = v.n \div 2, !.tail = FALSE]
        [] v.t = "hex" -> [v EXCEPT !.n = T_INT_VAL(@)]
        [] OTHER       -> [v EXCEPT !.tail = FALSE]

KeptAttributes(d, al) ==
  [i \in DOMAIN al |-> [al[i] EXCEPT !.value = KeptValue(d, al[i].name, "object", @)]]

KeptMap(map) == [i \in DOMAIN map |->
  IF map[i].text = <<>> THEN [map[i] EXCEPT !.text = NullText] ELSE map[i]]

KeptSignal(d, s) ==
  [s EXCEPT !.num = IF @ = "tail" THEN "exact" ELSE @, !.type = "integer",
            !.attrs = KeptAttributes(d, @), !.vals = KeptMap(@)]

KeptMessage(d, m) ==
  [m EXCEPT !.sigs = [j \in DOMAIN @ |-> KeptSignal(d, @[j])],
            !.attrs = KeptAttributes(d, @)]

KeptDefinition(x) ==
  [x EXCEPT !.range = IF @ = "tail" /\ x.type = "float" THEN "exact" ELSE @,
            !.default.tail = FALSE,
            !.default.n = IF x.type = "hex" THEN T_INT_VAL(@) ELSE @]

Kept(d) ==
  [d EXCEPT
     !.envs   = <<>>,
     !.tables = [i \in DOMAIN @ |-> [@[i] EXCEPT !.vals = KeptMap(@)]],
     !.nodes  = [i \in DOMAIN @ |-> [@[i] EXCEPT !.attrs = KeptAttributes(d, @)]],
     !.msgs   = [i \in DOMAIN @ |-> KeptMessage(d, @[i])],
     !.attrs  = KeptAttributes(d, @),
     !.defs   = [i \in DOMAIN @ |-> KeptDefinition(@[i])],
     !.rels   = [i \in DOMAIN @ |->
                   [@[i] EXCEPT !.value = KeptValue(d, "", "relation", @)]]]

(* One definition per name and class: the look-up by name finds the one    *)
(* that is meant.                                                          *)
NamesAreUnique(d) ==
  \A i, j \in DOMAIN d.defs :
    (/\ d.defs[i].name = d.defs[j].name
     /\ ObjectClass(d.defs[i].on) = ObjectClass(d.defs[j].on)) => i = j

(* The copy of a file that defines every attribute once holds all that the *)
(* writer has a section for: only variables, value types and digits beyond *)
(* the printed ones are lost, an empty text of a value map becomes         *)
(* "(null)", and a whole double without a FLOAT definition an integer.  A  *)
(* copy of the copy is the same again, whatever the first one lost, also   *)
(* with two definitions or two messages of one name.                       *)
CopyKeeps ==
  pc = "copied" =>
    /\ NamesAreUnique(orig) => dbc = Kept(orig)
    /\ ReadAll(dbc_write(dbc)) = dbc

(* Attributes and numbers that dbccopy prints with all their digits, of    *)
(* the type of their definition or of one that needs none.                 *)
PlainValue(v) ==
  ~ v.tail /\ (v.t = "float" => v.n % 2 = 1) /\ (v.t = "hex" => v.n <= MaxLong)

PlainAttributes(al) == \A i \in DOMAIN al : PlainValue(al[i].value)

Plain(d) ==
  /\ PlainAttributes(d.attrs)
  /\ \A i \in DOMAIN d.nodes : PlainAttributes(d.nodes[i].attrs)
  /\ \A i \in DOMAIN d.msgs :
       /\ PlainAttributes(d.msgs[i].attrs)
       /\ \A j \in DOMAIN d.msgs[i].sigs :
            LET s == d.msgs[i].sigs[j]
            IN  PlainAttributes(s.attrs) /\ s.num # "tail" /\ s.type = "integer"

(* dbcls prints for a copy what it prints for the original, and commspy    *)
(* starts from the same values, also where definitions, or messages, share *)
(* a name.                                                                 *)
ListingSurvives ==
  pc = "copied" /\ Plain(orig) =>
    Listing(dbc) = Listing(orig) /\ AnalogMap(dbc) = AnalogMap(orig)

(* A program ends in a crash, and a copy is no DBC file, only after a file *)
(* that did not open or did not parse, with a relation to something the    *)
(* file does not declare, a variable of a fifth type, a NaN in the range   *)
(* of a definition, or a log with a hinted identifier that has no name.    *)
CrashHasCause ==
  /\ pc = "crashed" =>
       \/ tool # "asc" /\ section < EndOfSections
       \/ Dangling(dbc)
       \/ tool = "dbcls" /\ ~ show_dbc_envvars(dbc)
       \/ tool = "commspy" /\ Len(hashes) < Len(Buses)
       \/ tool = "asc" /\ LET l == Last(log.lines)
                          IN  IsFrame(l) /\ l.id.last = "h" /\ Len(l.id.parts) = 1
  /\ pc = "unset" /\ orig # EmptyDbc =>
       \E i \in DOMAIN orig.defs :
         orig.defs[i].type = "float" /\ orig.defs[i].range = "NAN"

(* A log delivers the frames of its received messages, all of them and in  *)
(* their order, each read in the number base that is in force at its line, *)
(* up to a line that has no newline or that comes before any base.         *)
LogIsRead ==
  tool = "asc" =>
    LET f      == log.lines
        r      == log.reader
        order  == SelectSeq([i \in DOMAIN f |-> i], LAMBDA i : IsFrame(f[i]))
        frames == IF r.state = "reading" THEN order
                  ELSE SelectSeq(order, LAMBDA i : i < Len(f))
    IN  /\ Len(r.received) = Len(frames)
        /\ \A k \in DOMAIN frames : Says(f, frames[k], r.received[k])
        /\ (r.state = "stopped") =
             (f # <<>> /\ (~ Last(f).ended \/
                            (BaseAt(f, Len(f)) = 0 /\ ~ IsKeyword(Last(f)))))

(* No cell is read or freed that is not allocated: in particular the       *)
(* messages of a hash do not share memory with the model they were copied  *)
(* from, which is freed before they are used.  And at the end everything   *)
(* is released but the structures no destructor frees, an iterator for     *)
(* each hash that was walked and, when no hash could be made, the model.   *)
MemorySafe ==
  /\ ~ invalid
  /\ pc = "done" /\ section = EndOfSections =>
       LET left == live \ {Iterator(b) : b \in DOMAIN Buses}
       IN  left \in {{}, H!NeverReleased(Heap(dbc)), H!AllCells(Heap(dbc))}
=============================================================================
