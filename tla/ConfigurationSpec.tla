--------------------------- MODULE ConfigurationSpec ---------------------------
(***************************************************************************)
(* What the configuration repository promises its callers: every call      *)
(* reads or changes all of the contents in one step, setMany and           *)
(* keysWithPrefix included.                                                *)
(***************************************************************************)
EXTENDS ConfigValues

CONSTANTS
    Threads,
    Stored,   \* the values set may be given
    Batches,  \* the maps setMany may be given
    Groups    \* sets of keys with a common prefix

VARIABLES
    contents,  \* what every key holds
    told       \* the last answer each thread was given

Init ==
    /\ contents = [k \in Keys |-> Absent]
    /\ told = [t \in Threads |-> NoAnswer]

Answer(t, answer) ==
    /\ told' = [told EXCEPT ![t] = answer]
    /\ UNCHANGED contents

Query(t) ==
    \/ \E k \in Keys : Answer(t, HasAnswer(contents, k))
    \/ \E k \in Keys, type \in Types : Answer(t, GetAnswer(contents, type, k))
    \/ Answer(t, SizeAnswer(contents))
    \/ \E group \in Groups : Answer(t, KeysAnswer(group \cap Present(contents)))

Change ==
    /\ \/ \E k \in Keys, v \in Stored \cup {Absent} : contents' = [contents EXCEPT ![k] = v]
       \/ \E batch \in Batches :
             contents' = [k \in Keys |-> IF batch[k] # Absent THEN batch[k]
                                         ELSE contents[k]]
       \/ contents' = [k \in Keys |-> Absent]
    /\ UNCHANGED told

Next == Change \/ \E t \in Threads : Query(t)

Spec == Init /\ [][Next]_<<contents, told>>

================================================================================
