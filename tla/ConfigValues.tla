------------------------------ MODULE ConfigValues ------------------------------
(***************************************************************************)
(* The values engine/configuration/Repository.hh stores, what castValue    *)
(* and fromString make of them, and the answers a query gives for given    *)
(* contents of the repository.                                             *)
(***************************************************************************)
EXTENDS Integers, FiniteSets

CONSTANTS
    Keys,
    Words,       \* the texts that may be stored
    TrueWords,   \* those fromString<bool> takes for true
    FalseWords,  \* ... and for false
    Number,      \* the integer std::stoll reads, for the words it accepts
    Half,        \* half the range of the integer type asked for: 2^(w - 1)
    Absent       \* no value

\* The type of a std::any, or the one a caller asks for.  A string literal is
\* stored as const char*, which is not std::string.
Types == {"string", "literal", "bool", "int"}

\* A value has a word or a number, according to its type.
Value == [type : Types, word : Words \cup {Absent}, number : Int]

ASSUME ConfigValuesAssumption ==
    /\ Absent \notin Words \cup Value
    /\ TrueWords \cup FalseWords \subseteq Words
    /\ TrueWords \cap FalseWords = {}
    /\ DOMAIN Number \subseteq Words
    /\ \A w \in DOMAIN Number : Number[w] \in Int
    /\ Half \in Nat \ {0}

String(w) == [type |-> "string", word |-> w, number |-> 0]

Literal(w) == [type |-> "literal", word |-> w, number |-> 0]

Bool(b) == [type |-> "bool", word |-> Absent, number |-> IF b THEN 1 ELSE 0]

Integer(n) == [type |-> "int", word |-> Absent, number |-> n]

Contents == [Keys -> Value \cup {Absent}]

Present(c) == {k \in Keys : c[k] # Absent}

\* static_cast of what stoll returns to the narrower type.
Narrow(n) == ((n + Half) % (2 * Half)) - Half

\* fromString: a value of the type, or Absent where it throws.
FromString(type, w) ==
    CASE type = "string" -> String(w)
      [] type = "bool" /\ w \in TrueWords -> Bool(TRUE)
      [] type = "bool" /\ w \in FalseWords -> Bool(FALSE)
      [] type = "int" /\ w \in DOMAIN Number -> Integer(Narrow(Number[w]))
      [] OTHER -> Absent

\* castValue: a value of the type, or Absent where it throws.
Cast(type, value) ==
    CASE value.type = type -> value
      [] value.type # type /\ value.type = "string" -> FromString(type, value.word)
      [] OTHER -> Absent

-------------------------------------------------------------------------------

\* What a caller is told.  get throws (Refused) if there is no such key, or it
\* has no such value; the forms with a default or an optional turn that into
\* their own answer.
NoAnswer == [none |-> TRUE]

Refused == [refused |-> TRUE]

Got(value) == [value |-> value]

GetAnswer(c, type, k) ==
    IF c[k] = Absent \/ Cast(type, c[k]) = Absent
    THEN Refused
    ELSE Got(Cast(type, c[k]))

HasAnswer(c, k) == [has |-> c[k] # Absent]

SizeAnswer(c) == [size |-> Cardinality(Present(c))]

KeysAnswer(keys) == [keys |-> keys]

================================================================================
