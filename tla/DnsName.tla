------------------------------- MODULE DnsName -------------------------------
(***************************************************************************)
(* Domain names in DNS messages (driad.rs).  put_dns_name writes the name  *)
(* of a query.  parse_dns_name reads a name that may be compressed, that   *)
(* is, go on at a place a pointer gives; parse_uncompressed_dns_name reads *)
(* the relay's name in an AMTRELAY record, which may not.                  *)
(*                                                                         *)
(* On the wire a name is a row of labels, each after its length, and a     *)
(* zero; in the program it is text, the labels joined by dots.  Octets are *)
(* numbers.  A message grows by one octet at a time, so that every message *)
(* up to a length is met.  Offsets begin at 0, as in the code.             *)
(***************************************************************************)
EXTENDS Integers, Sequences, FiniteSetsExt

CONSTANTS Octets,     \* the octets that messages are made of
          Texts,      \* the names that are written
          Steps,      \* the bound of the parsers' loops, 128
          MaxText,    \* the longest text that is written, 253
          MaxWire,    \* the longest name of a relay, 255
          MaxLength   \* bound on the length of a message

(* 192 and 193 occur in no UTF-8 text, and the octets below 128 are letters. *)
OctetsAssumption == Octets \subseteq 0..127 \cup {192, 193}

VARIABLE message

Dot == 46

(* trim_end_matches('.') *)
Trim(text) ==
  LET kept == {n \in 1..Len(text) : text[n] # Dot}
  IN  IF kept = {} THEN <<>> ELSE SubSeq(text, 1, Max(kept))

(* The length of the label that follows position i of a text. *)
LabelLength(text, i) ==
  Min({j \in i + 1..Len(text) + 1 : j = Len(text) + 1 \/ text[j] = Dot}) - i - 1

(* put_dns_name: {} if it refuses the name.  Every dot gives way to the length *)
(* of the label after it.                                                      *)
PutDnsName(name) ==
  LET text == Trim(name)
      starts == {i \in 0..Len(text) : i = 0 \/ text[i] = Dot}
  IN  IF text = <<>> THEN {<<0>>}
      ELSE IF Len(text) > MaxText \/ \E i \in starts : LabelLength(text, i) \notin 1..63 THEN {}
      ELSE {[n \in 1..Len(text) + 2 |-> IF n = Len(text) + 2 THEN 0
                                        ELSE IF n - 1 \in starts THEN LabelLength(text, n - 1)
                                        ELSE text[n - 1]]}
-----------------------------------------------------------------------------
(* A parser's place in the message, the text so far, and where the name's own *)
(* octets end once a pointer has been followed.                               *)
Begin(offset) == [cursor |-> offset, labels |-> 0, text |-> <<>>, next |-> {}, state |-> "reading"]

Wrong(s) == [s EXCEPT !.state = "error"]
End(s) == [s EXCEPT !.state = "done", !.next = IF @ = {} THEN {s.cursor + 1} ELSE @]

(* A label is in the message and is UTF-8; the labels are joined by dots. *)
ReadLabel(m, s, len) ==
  LET label == SubSeq(m, s.cursor + 2, s.cursor + 1 + len)
  IN  IF s.cursor + 1 + len > Len(m) \/ \E n \in 1..len : label[n] >= 128 THEN Wrong(s)
      ELSE [s EXCEPT !.text = IF s.labels = 0 THEN label ELSE @ \o <<Dot>> \o label,
                     !.labels = @ + 1, !.cursor = @ + 1 + len]

(* The end stays where the first pointer put it. *)
Follow(m, s, pointer) ==
  IF pointer >= Len(m) THEN Wrong(s)
  ELSE [s EXCEPT !.next = IF @ = {} THEN {s.cursor + 2} ELSE @, !.cursor = pointer]

(* One pass of the loop of parse_dns_name. *)
ReadOne(m, s) ==
  LET len == m[s.cursor + 1]
  IN  IF s.cursor >= Len(m) THEN Wrong(s)
      ELSE IF len = 0 THEN End(s)
      ELSE IF len < 64 THEN ReadLabel(m, s, len)
      ELSE IF len < 192 \/ s.cursor + 1 >= Len(m) THEN Wrong(s)
      ELSE Follow(m, s, (len % 64) * 256 + m[s.cursor + 2])

(* What a parser makes of a loop that ended: {} if it fails. *)
Outcome(s) == IF s.state = "done" THEN {[text |-> s.text, next |-> n] : n \in s.next} ELSE {}

ParseDnsName(m, offset) ==
  LET after[n \in 0..Steps] ==
        IF n = 0 THEN Begin(offset)
        ELSE LET s == after[n - 1] IN IF s.state = "reading" THEN ReadOne(m, s) ELSE s
  IN  Outcome(after[Steps])

(* One pass of the loop of parse_uncompressed_dns_name.  A label may not end  *)
(* where the zero would no longer fit, so the later check is always met.      *)
ReadOneUncompressed(m, s) ==
  LET len == m[s.cursor + 1]
      after == ReadLabel(m, s, len)
  IN  IF s.cursor >= Len(m) \/ len >= 64 THEN Wrong(s)
      ELSE IF len = 0 THEN End(s)
      ELSE IF after.cursor >= MaxWire THEN Wrong(s) ELSE after

ParseUncompressedDnsName(m) ==
  LET after[n \in 0..Steps] ==
        IF n = 0 THEN Begin(0)
        ELSE LET s == after[n - 1] IN IF s.state = "reading" THEN ReadOneUncompressed(m, s) ELSE s
  IN  Outcome(after[Steps])
-----------------------------------------------------------------------------
Init == message = <<>>

Grow == Len(message) < MaxLength /\ \E octet \in Octets : message' = Append(message, octet)
Clear == Len(message) = MaxLength /\ message' = <<>>

Next == Grow \/ Clear

Spec == Init /\ [][Next]_message
-----------------------------------------------------------------------------
(* A name that put_dns_name writes is read back by parse_dns_name without its *)
(* last dots, whatever comes before it in the message, and the reader goes on *)
(* right after it.                                                            *)
NamesReadBack ==
  \A text \in Texts : \A wire \in PutDnsName(text) :
    ParseDnsName(message \o wire, Len(message))
      = {[text |-> Trim(text), next |-> Len(message \o wire)]}

(* Whatever the pointers of a message are, forward, backward or in a circle,  *)
(* reading a name with parse_dns_name moves its reader forward and not beyond *)
(* the message, so that parse_dns_response gets through its records.          *)
ReaderMovesOn ==
  \A offset \in 0..Len(message) : \A read \in ParseDnsName(message, offset) :
    offset < read.next /\ read.next <= Len(message)

(* The limits agree: a relay's name that parse_uncompressed_dns_name takes    *)
(* from a record can be asked for, and put_dns_name writes just the octets    *)
(* that were read, if no label had a dot in it.                               *)
RelayNameCanBeAsked ==
  \A read \in ParseUncompressedDnsName(message) :
    (\A n \in 1..read.next : message[n] # Dot)
      => PutDnsName(read.text) = {SubSeq(message, 1, read.next)}
=============================================================================
