------------------------------- MODULE EnvParser -------------------------------
(***************************************************************************)
(* engine/configuration/EnvParser.cc: parseString reads a file line by     *)
(* line.  A line is what parseLine tells apart: the key it assigns, the    *)
(* quotes around the value, the text between them, and what follows.       *)
(*                                                                         *)
(* A text is a sequence of letters, which stand for any literal text, and  *)
(* keys, which stand for the references $KEY and ${KEY}.                   *)
(***************************************************************************)
EXTENDS Integers, Sequences, SequencesExt

CONSTANTS
    Keys,
    Letters,
    Environment,  \* the process environment: key |-> text, for those it has
    Files,        \* the files that may be parsed: sequences of lines
    None          \* no key

\* What stripQuotes may leave in a value besides its text.
Marks == {"quote", "return", "comment"}

Text == Seq(Letters \cup Marks)

\* key is None in a line that assigns nothing: it is blank, a comment, has no
\* "=" or nothing in front of it.  tail is what stands behind the value: a
\* comment, or the carriage return of a line that ends in one.
Line ==
    [key : Keys \cup {None}, quotes : {"none", "single", "double"},
     body : Seq(Letters \cup Keys), tail : {"none", "comment", "return"}]

ASSUME EnvParserAssumption ==
    /\ None \notin Keys
    /\ Keys \cap (Letters \cup Marks) = {}
    /\ DOMAIN Environment \subseteq Keys
    /\ \A k \in DOMAIN Environment : Environment[k] \in Text
    /\ Files \subseteq Seq(Line)

VARIABLES
    lines,  \* the file
    at,     \* the line to read
    result  \* key |-> value, for the keys seen so far

vars == <<lines, at, result>>

Init ==
    /\ lines \in Files
    /\ at = 1
    /\ result = << >>

\* What is left of the tail: a comment is cut off, a carriage return is not.
Rest(line) == IF line.tail = "return" THEN <<"return">> ELSE << >>

\* stripQuotes.  Quotes are removed only if nothing follows them.  A comment is
\* cut off at " #", which an empty value does not have: its spaces are gone.
Stripped(line) ==
    CASE line.quotes # "none" /\ line.tail = "none" -> line.body
      [] line.quotes # "none" /\ line.tail # "none" ->
            <<"quote">> \o line.body \o <<"quote">> \o Rest(line)
      [] line.quotes = "none" /\ line.body = << >> /\ line.tail = "comment" ->
            <<"comment">>
      [] OTHER -> line.body \o Rest(line)

\* A reference is replaced by a value of values, else by one of the process
\* environment, else by nothing.
Substituted(part, values) ==
    IF part \notin Keys THEN <<part>>
    ELSE IF part \in DOMAIN values THEN values[part]
    ELSE IF part \in DOMAIN Environment THEN Environment[part]
    ELSE << >>

Interpolated(text, values) ==
    FlattenSeq([i \in DOMAIN text |-> Substituted(text[i], values)])

ValueOf(line, values) == Interpolated(Stripped(line), values)

-------------------------------------------------------------------------------

Inserted(key, value) ==
    [k \in DOMAIN result \cup {key} |-> IF k = key THEN value ELSE result[k]]

SkipLine ==
    /\ at <= Len(lines)
    /\ lines[at].key = None
    /\ at' = at + 1
    /\ UNCHANGED <<lines, result>>

\* Variant of Emplace: the value is not interpolated.
EmplaceRaw ==
    /\ at <= Len(lines)
    /\ lines[at].key # None
    /\ lines[at].key \notin DOMAIN result
    /\ result' = Inserted(lines[at].key, Stripped(lines[at]))
    /\ at' = at + 1
    /\ UNCHANGED lines

Emplace ==
    /\ at <= Len(lines)
    /\ lines[at].key # None
    /\ lines[at].key \notin DOMAIN result
    /\ result' = Inserted(lines[at].key, ValueOf(lines[at], result))
    /\ at' = at + 1
    /\ UNCHANGED lines

\* Variant of EmplaceRefused: a key that is there gets the new value.
Overwrite ==
    /\ at <= Len(lines)
    /\ lines[at].key # None
    /\ lines[at].key \in DOMAIN result
    /\ result' = [result EXCEPT ![lines[at].key] = ValueOf(lines[at], result)]
    /\ at' = at + 1
    /\ UNCHANGED lines

\* emplace does nothing for a key that is there.
EmplaceRefused ==
    /\ at <= Len(lines)
    /\ lines[at].key # None
    /\ lines[at].key \in DOMAIN result
    /\ at' = at + 1
    /\ UNCHANGED <<lines, result>>

Next == SkipLine \/ Emplace \/ EmplaceRefused

Spec == Init /\ [][Next]_vars

-------------------------------------------------------------------------------

\* The variables have their types; values contain no references any more.
TypeOK ==
    /\ lines \in Seq(Line)
    /\ at \in 1..(Len(lines) + 1)
    /\ DOMAIN result \subseteq Keys
    /\ \A k \in DOMAIN result : result[k] \in Text

DefinedBefore(i, k) == \E j \in 1..(i - 1) : lines[j].key = k

\* Line i is the first that assigns k.
Defines(i, k) == lines[i].key = k /\ ~DefinedBefore(i, k)

\* The result, as seen by line i.
SeenBy(i) == [k \in {m \in Keys : DefinedBefore(i, m)} |-> result[k]]

\* The values form one consistent assignment: each key has the text of its first
\* line, in which each reference is the value the result holds for it, provided
\* it was assigned on an earlier line; no line after these changes anything.
ResultIsConsistent ==
    /\ \A i \in 1..(at - 1), k \in Keys :
          Defines(i, k) => result[k] = ValueOf(lines[i], SeenBy(i))
    /\ DOMAIN result = {k \in Keys : DefinedBefore(at, k)}

\* The inductive invariant: the result is a function, and consistent.
IInv ==
    /\ lines \in Seq(Line)
    /\ at \in 1..(Len(lines) + 1)
    /\ result = [k \in DOMAIN result |-> result[k]]
    /\ ResultIsConsistent

\* EnvParser.cc:91 says of single quotes that the value is taken literally.
SingleQuotesAreLiteral ==
    \A i \in 1..(at - 1), k \in Keys :
        Defines(i, k) /\ lines[i].quotes = "single" /\ lines[i].tail = "none" =>
            result[k] = lines[i].body

================================================================================
