------------------------------ MODULE Parsers ------------------------------
(***************************************************************************)
(* The parsers of whole files (collection/parsers.py): the usage file of a *)
(* device's memory and its list of PCI ranges.                             *)
(*                                                                         *)
(* A usage file is the sequence of its tokens, with LineEnd between two    *)
(* lines.  A token is what the parser can tell of it: the key that its     *)
(* letters contain, the number it starts with, the multiplier attached to  *)
(* that number, and the multiplier that it is itself.  A column of a range *)
(* is the integer it spells, or <<>> if it spells none.                    *)
(***************************************************************************)
EXTENDS Integers, SequencesExt

CONSTANTS
  Uint64Max,   \* the largest integer, 2 ^ 64 - 1 in the code
  DecimalMax   \* the largest product of decimals, some 10 ^ 1000000 in Python's context

ASSUME Uint64MaxAssumption == Uint64Max \in Nat \ {0}
ASSUME DecimalMaxAssumption == DecimalMax \in Nat /\ DecimalMax >= Uint64Max

Modulus == Uint64Max + 1
NoValue == -1
Plain == 1      \* the multiplier of no unit
Unknown == 0    \* letters that name no unit

Token == [key : {"used", "total", "none"}, number : Nat \cup {NoValue},
          attached : Nat \cup {NoValue}, unit : Nat]
-----------------------------------------------------------------------------
(* parse_memory_usage. *)

\* What stands for no token: nothing is read of it, and it names the plain unit.
LineEnd == [key |-> "none", number |-> NoValue, attached |-> NoValue, unit |-> Plain]

Or(a, b) == IF a # NoValue THEN a ELSE b

Scaled(token, next) ==
  LET multiplier == CASE token.attached # NoValue -> token.attached
                      [] token.attached = NoValue /\ next.unit # Unknown -> next.unit
                      [] OTHER                    -> Plain
  IN IF token.number = NoValue \/ multiplier = Unknown THEN NoValue
     ELSE token.number * multiplier

\* The product is made outside the try: one that is too large for a decimal is raised as
\* decimal.Overflow, and leaves collect().
Overflows(token, next) == Scaled(token, next) > DecimalMax

\* Faulty variant: the product wraps.
ByteValueWraps(token, next) ==
  LET value == Scaled(token, next) IN IF value = NoValue THEN value ELSE value % Modulus

\* parse_byte_value, when it returns: an attached unit must be known, a separate one need
\* not be, and a product that is too large for the width, but not for a decimal, is none.
ByteValue(token, next) ==
  LET value == Scaled(token, next) IN IF value <= Uint64Max THEN value ELSE NoValue

TokenAt(text, i) == IF i \in DOMAIN text THEN text[i] ELSE LineEnd

\* A key takes the token behind it as its value, and the one behind that as the unit.
ValueOfKey(text, i) == ByteValue(TokenAt(text, i + 1), TokenAt(text, i + 2))

OwnValue(text, i) == ByteValue(TokenAt(text, i), TokenAt(text, i + 1))

\* A turn of the loop below does not end.
UsageRaises(text) ==
  \E i \in DOMAIN text :
     LET first == IF text[i].key = "none" THEN i ELSE i + 1
     IN Overflows(TokenAt(text, first), TokenAt(text, first + 1))

\* One turn of the loop.  The value of a key is not consumed: its turn comes next.
TakeToken(text, usage, i) ==
  LET key == TokenAt(text, i).key
  IN CASE key # "none" -> [usage EXCEPT ![key] = Or(ValueOfKey(text, i), @)]
       [] key = "none" /\ OwnValue(text, i) # NoValue
            -> [usage EXCEPT !.unkeyed = Append(@, OwnValue(text, i))]
       [] OTHER -> usage

TakenTokens(text) ==
  LET usage[i \in 0..Len(text)] ==
        IF i = 0 THEN [used |-> NoValue, total |-> NoValue, unkeyed |-> <<>>]
        ELSE TakeToken(text, usage[i - 1], i)
  IN usage[Len(text)]

\* Faulty variant: values without a key come before keyed ones.
MemoryUsageUnkeyedFirst(text) ==
  LET usage == TakenTokens(text)
      Unkeyed(n) == IF Len(usage.unkeyed) >= n THEN usage.unkeyed[n] ELSE NoValue
  IN [used |-> Or(Unkeyed(1), usage.used), total |-> Or(Unkeyed(2), usage.total)]

\* The first two values without a key fill in for those with one.
MemoryUsage(text) ==
  LET usage == TakenTokens(text)
      Unkeyed(n) == IF Len(usage.unkeyed) >= n THEN usage.unkeyed[n] ELSE NoValue
  IN [used |-> Or(usage.used, Unkeyed(1)), total |-> Or(usage.total, Unkeyed(2))]
-----------------------------------------------------------------------------
(* parse_pci_resources. *)

\* Faulty variant: a number that is too large wraps like a negative one.
Uint64Wraps(column) == IF column = <<>> THEN NoValue ELSE column[1] % Modulus

\* parse_uint64: a negative number wraps, one that is too large saturates.
Uint64(column) ==
  CASE column = <<>>   -> NoValue
    [] column # <<>> /\ column[1] < 0 -> column[1] % Modulus
    [] OTHER           -> Min({column[1], Uint64Max})

PciResource(lines, i) ==
  LET start == Uint64(lines[i][1])  end == Uint64(lines[i][2])
  IN [index |-> i - 1, start |-> start, end |-> end, flags |-> Uint64(lines[i][3]),
      size |-> end - start + 1]

\* Fewer than three columns, no number, an unused range or an inverted one: left out.
IsResource(lines, i) ==
  /\ Len(lines[i]) >= 3
  /\ LET r == PciResource(lines, i)
     IN /\ NoValue \notin {r.start, r.end, r.flags}
        /\ {r.start, r.end, r.flags} # {0}
        /\ r.end >= r.start

PciResources(lines) ==
  LET resources[i \in 0..Len(lines)] ==
        CASE i = 0 -> <<>>
          [] i # 0 /\ IsResource(lines, i) -> Append(resources[i - 1], PciResource(lines, i))
          [] OTHER -> resources[i - 1]
  IN resources[Len(lines)]
=============================================================================
