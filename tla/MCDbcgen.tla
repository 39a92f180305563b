------------------------------ MODULE MCDbcgen ------------------------------
EXTENDS Dbcgen

(* An element from its parts. *)
Elem(raw, dashes, text, letters) ==
  [raw |-> raw, dashes |-> dashes, text |-> text, letters |-> letters]

PlainElem(text) == Elem(text, 0, text, <<"f">>)

(* -n, -e, -x and -h; -ne, -eo and -oh; -n=v, -n=v=w, -ne=v, -n= and --e;   *)
(* --name and --name=v, --name=, --ecu, --output=in; a negative number.     *)
Elements ==
  {PlainElem("in"), PlainElem("Car"),
   Elem("-5", 1, "5", <<"5">>),
   Elem("-n", 1, "n", <<"n">>),
   Elem("-e", 1, "e", <<"e">>),
   Elem("-o", 1, "o", <<"o">>),
   Elem("-h", 1, "h", <<"h">>),
   Elem("-ne", 1, "ne", <<"n", "e">>),
   Elem("-oh", 1, "oh", <<"o", "h">>),
   Elem("-e=Car", 1, "e=Car", <<"e", "=", "C", "a", "r">>),
   Elem("-o=o=1", 1, "o=o=1", <<"o", "=", "o", "=", "1">>),
   Elem("-ne=v", 1, "ne=v", <<"n", "e", "=", "v">>),
   Elem("-n=", 1, "n=", <<"n", "=">>),
   Elem("--e", 2, "e", <<"e">>),
   Elem("--name", 2, "name", <<"n", "a", "m", "e">>),
   Elem("--name=v", 2, "name=v", <<"n", "a", "m", "e", "=", "v">>),
   Elem("--name=", 2, "name=", <<"n", "a", "m", "e", "=">>),
   Elem("--output=in", 2, "output=in", <<"o", "u", "t", "p", "u", "t", "=", "i", "n">>)}

(* All lines of two elements, and those of three of these. *)
Frequent ==
  {e \in Elements : e.raw \in {"in", "-n", "-h", "-ne", "-e=Car", "--name"}}

Lines ==
  UNION {[1 .. n -> Elements] : n \in 0 .. 2} \cup [1 .. 3 -> Frequent]

(* A parser with a help option, a required one and one without a value. *)
WithHelp ==
  LET h == setHelpOption(reset, "h", "help")
      r == defineOption(defineOption(h, "name", {"RequiresValue", "Required"}), "5", {})
      e == defineOption(defineOptionAlternative(r, "name", "n"), "e", {})
  IN  defineOption(defineOptionAlternative(e, "name", "h"), "o", {})

OtherPrograms == {WithHelp}

SignalOf(name, receivers, attributes) ==
  [name |-> name, receivers |-> receivers, attributes |-> attributes]

Start(type, value) == [name |-> "GenSigStartValue", type |-> type, value |-> value]

SignalLists ==
  {<<>>,
   <<SignalOf(1, <<"Other">>, <<>>)>>,
   <<SignalOf(1, <<"Other", "Car">>, <<Start("integer", 3), Start("float", 4)>>),
     SignalOf(2, <<"Other">>, <<>>)>>}

MessageForms ==
  [id : {1, 2}, name : {1, 2}, len : {8}, sender : {"Car", "Other"}, signals : SignalLists]

(* Messages of different length when they have different names. *)
Messages == {[m EXCEPT !.len = m.name + 3] : m \in MessageForms}

Data == {<<>>} \cup {<<m>> : m \in Messages} \cup (Messages \X Messages)

(* The letters of a word differ from those next to them. *)
ShortTexts ==
  {t \in UNION {[1 .. n -> {"a", "b", " ", "\n"}] : n \in 0 .. 5} :
     \A k \in 2 .. Len(t) : t[k] # t[k - 1]}

TextWidths == {2, 3, 4}
=============================================================================
