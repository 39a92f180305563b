----------------------------- MODULE AscReader -----------------------------
(***************************************************************************)
(* ascReader.c: what ascReader_processFile makes of one line of a log, and *)
(* the messages it hands to its callback.                                  *)
(*                                                                         *)
(* A line is a record: how many words it has, what kind of word the first  *)
(* one is, and the values of the words a message has, in their order: time *)
(* stamp, bus, identifier, direction, a word that is not looked at, DLC    *)
(* and bytes.  The newline belongs to the last word.  A number is the      *)
(* sequence of its digits.  A line has at most eight bytes: there is no    *)
(* room for more, and no test.                                             *)
(***************************************************************************)
EXTENDS Integers, Sequences, SequencesExt, FiniteSetsExt

Keywords == {"date", "base", "internal", "Begin", "Start"}

StartOfLog == [numbase |-> 0, received |-> <<>>, state |-> "reading"]

(* strtol and strtoul: the first digit the base does not have ends the     *)
(* number.                                                                 *)
strtol(digits, base) ==
  LET Add(a, d) == IF a.end \/ d >= base THEN [a EXCEPT !.end = TRUE]
                   ELSE [a EXCEPT !.n = base * @ + d]
  IN  FoldLeft(Add, [n |-> 0, end |-> FALSE], digits).n

keyword(r, l) ==
  CASE l.first = "base" /\ l.arg = "dec" /\ l.words > 2 -> [r EXCEPT !.numbase = 10]
    [] l.first = "base" /\ l.arg = "hex" /\ l.words > 2 -> [r EXCEPT !.numbase = 16]
    [] OTHER -> r

(* Nine digits, the missing ones are zero. *)
tv_nsec(frac) ==
  FoldLeft(LAMBDA n, i : 10 * n + (IF i <= Len(frac) THEN frac[i] ELSE 0), 0,
           [i \in 1 .. 9 |-> i])

(* The parts of a symbolic identifier are those between its underscores;   *)
(* the second one is taken for the number.                                 *)
message_id(id, numbase) ==
  CASE id.last = "h" -> strtol(id.parts[2], 16)
    [] id.last = "x" -> LET n == strtol(id.parts[1], numbase) IN n - (n % 256)
    [] OTHER         -> strtol(id.parts[1], numbase)

(* A mutant: the bytes are always taken for hexadecimal numbers. *)
byte_arr_Hex(l, numbase) ==
  [i \in 1 .. l.dlc |-> IF i <= Len(l.bytes)
                        THEN <<strtol(l.bytes[i], 16) % 256>> ELSE <<>>]

(* Bytes that are missing keep what the memory held: <<>>. *)
byte_arr(l, numbase) ==
  [i \in 1 .. l.dlc |-> IF i <= Len(l.bytes)
                        THEN <<strtol(l.bytes[i], numbase) % 256>> ELSE <<>>]

Received(l, numbase) ==
  [tv_sec |-> l.sec, tv_nsec |-> tv_nsec(l.frac), bus |-> l.bus,
   id |-> message_id(l.id, numbase), bytes |-> byte_arr(l, numbase)]

message_line(r, l) ==
  CASE r.numbase = 0 -> [r EXCEPT !.state = "stopped"]
    [] r.numbase # 0 /\ (l.first # "time" \/ l.words < 6 \/ l.dir # "Rx") -> r
    [] r.numbase # 0 /\ l.first = "time" /\ l.words >= 6 /\ l.dir = "Rx" ->
         IF l.id.last = "h" /\ Len(l.id.parts) < 2
         THEN [r EXCEPT !.state = "crashed"]
         ELSE [r EXCEPT !.received = Append(@, Received(l, r.numbase))]

(* A last line without a newline sets the end of the file and is dropped. *)
process_line(r, l) ==
  CASE ~ l.ended -> [r EXCEPT !.state = "stopped"]
    [] l.ended /\ l.first \in Keywords /\ l.words > 1 -> keyword(r, l)
    [] OTHER -> message_line(r, l)

----------------------------------------------------------------------------
(* What a log says, line by line, without reading it in order.             *)

IsKeyword(l) == l.first \in Keywords /\ l.words > 1

IsFrame(l) == l.ended /\ l.first = "time" /\ l.words >= 6 /\ l.dir = "Rx"

SetsBase(l) == l.first = "base" /\ l.words > 2 /\ l.arg \in {"dec", "hex"}

(* The base in force at line i of the log f. *)
BaseAt(f, i) ==
  LET before == {j \in 1 .. i - 1 : SetsBase(f[j])}
  IN  IF before = {} THEN 0 ELSE IF f[Max(before)].arg = "dec" THEN 10 ELSE 16

(* The value of the digits up to the first the base does not have. *)
ValueOf(digits, base) ==
  LET end == Min({i \in DOMAIN digits : digits[i] >= base} \cup {Len(digits) + 1})
  IN  MapThenSumSet(LAMBDA i : digits[i] * base ^ (end - 1 - i), 1 .. end - 1)

(* What the message of line i must be, where the log says it: a message of *)
(* a symbolic log has a name without an underscore.                        *)
Says(f, i, m) ==
  LET l == f[i]  base == BaseAt(f, i)  n == ValueOf(l.id.parts[1], base)
  IN  /\ m.tv_sec = l.sec
      /\ m.tv_nsec = MapThenSumSet(LAMBDA k : l.frac[k] * 10 ^ (9 - k), DOMAIN l.frac)
      /\ m.bus = l.bus
      /\ l.id.last = "digit" => m.id = n
      /\ l.id.last = "x" => m.id % 256 = 0 /\ m.id \div 256 = n \div 256
      /\ l.id.last = "h" /\ Len(l.id.parts) = 2 => m.id = ValueOf(l.id.parts[2], 16)
      /\ Len(m.bytes) = l.dlc
      /\ \A k \in DOMAIN m.bytes \cap DOMAIN l.bytes :
           m.bytes[k] = <<ValueOf(l.bytes[k], base) % 256>>
=============================================================================
