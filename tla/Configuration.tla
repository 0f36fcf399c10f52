----------------------------- MODULE Configuration -----------------------------
(***************************************************************************)
(* engine/configuration/Repository.hh: a map behind a std::shared_mutex.   *)
(* setMany and keysWithPrefix go through it element by element while they  *)
(* hold the lock.  The other calls do one thing to the map while they hold *)
(* it, and are one action.                                                 *)
(***************************************************************************)
EXTENDS ConfigValues

CONSTANTS
    Threads,
    Stored,   \* the values set may be given
    Batches,  \* the maps setMany may be given
    Groups,   \* sets of keys with a common prefix
    Nobody    \* no thread

ASSUME ConfigurationAssumption ==
    /\ Nobody \notin Threads
    /\ Stored \subseteq Value
    /\ Batches \subseteq Contents
    /\ \A batch \in Batches, k \in Keys :
          batch[k] # Absent => batch[k].type = "string"
    /\ Groups \subseteq SUBSET Keys

VARIABLES
    data,     \* data_
    writer,   \* the thread that holds mutex_ exclusively, or Nobody
    readers,  \* those that hold it shared
    call,     \* the setMany or keysWithPrefix each thread is in
    told      \* the last answer each thread was given

repository == <<data, writer, readers, call, told>>

NoBatch == [k \in Keys |-> Absent]

\* rest: the keys the loop has not come to.  found: the result so far.
Calls ==
    [op : {"none", "setMany", "keysWithPrefix"}, batch : Batches \cup {NoBatch},
     group : Groups \cup {{}}, rest : SUBSET Keys, found : SUBSET Keys]

Outside ==
    [op |-> "none", batch |-> NoBatch, group |-> {}, rest |-> {}, found |-> {}]

InitRepository ==
    /\ data = [k \in Keys |-> Absent]
    /\ writer = Nobody
    /\ readers = {}
    /\ call = [t \in Threads |-> Outside]
    /\ told = [t \in Threads |-> NoAnswer]

\* A std::unique_lock can be had.
Exclusive(t) ==
    /\ call[t].op = "none"
    /\ writer = Nobody
    /\ readers = {}

\* A std::shared_lock can be had.
Shared(t) ==
    /\ call[t].op = "none"
    /\ writer = Nobody

-------------------------------------------------------------------------------

Set(t, k, v) ==
    /\ Exclusive(t)
    /\ data' = [data EXCEPT ![k] = v]
    /\ UNCHANGED <<writer, readers, call, told>>

Remove(t, k) ==
    /\ Exclusive(t)
    /\ data' = [data EXCEPT ![k] = Absent]
    /\ UNCHANGED <<writer, readers, call, told>>

Clear(t) ==
    /\ Exclusive(t)
    /\ data' = [k \in Keys |-> Absent]
    /\ UNCHANGED <<writer, readers, call, told>>

\* Variant of BeginSetMany: the lock is taken for each element.
BeginSetManyUnlocked(t, batch) ==
    /\ Exclusive(t)
    /\ call' = [call EXCEPT ![t] = [op |-> "setMany", batch |-> batch, group |-> {},
                                    rest |-> Present(batch), found |-> {}]]
    /\ UNCHANGED <<data, writer, readers, told>>

BeginSetMany(t, batch) ==
    /\ Exclusive(t)
    /\ writer' = t
    /\ call' = [call EXCEPT ![t] = [op |-> "setMany", batch |-> batch, group |-> {},
                                    rest |-> Present(batch), found |-> {}]]
    /\ UNCHANGED <<data, readers, told>>

SetNext(t, k) ==
    /\ call[t].op = "setMany"
    /\ k \in call[t].rest
    /\ data' = [data EXCEPT ![k] = call[t].batch[k]]
    /\ call' = [call EXCEPT ![t].rest = @ \ {k}]
    /\ UNCHANGED <<writer, readers, told>>

EndSetMany(t) ==
    /\ call[t].op = "setMany"
    /\ call[t].rest = {}
    /\ writer' = Nobody
    /\ call' = [call EXCEPT ![t] = Outside]
    /\ UNCHANGED <<data, readers, told>>

-------------------------------------------------------------------------------

Answer(t, answer) ==
    /\ Shared(t)
    /\ told' = [told EXCEPT ![t] = answer]
    /\ UNCHANGED <<data, writer, readers, call>>

Has(t, k) == Answer(t, HasAnswer(data, k))

Get(t, type, k) == Answer(t, GetAnswer(data, type, k))

Size(t) == Answer(t, SizeAnswer(data))

BeginKeysWithPrefix(t, group) ==
    /\ Shared(t)
    /\ readers' = readers \cup {t}
    /\ call' = [call EXCEPT ![t] = [op |-> "keysWithPrefix", batch |-> NoBatch,
                                    group |-> group, rest |-> Present(data),
                                    found |-> {}]]
    /\ UNCHANGED <<data, writer, told>>

LookAtNext(t, k) ==
    /\ call[t].op = "keysWithPrefix"
    /\ k \in call[t].rest
    /\ call' = [call EXCEPT ![t].rest = @ \ {k},
                            ![t].found = @ \cup ({k} \cap call[t].group)]
    /\ UNCHANGED <<data, writer, readers, told>>

EndKeysWithPrefix(t) ==
    /\ call[t].op = "keysWithPrefix"
    /\ call[t].rest = {}
    /\ told' = [told EXCEPT ![t] = KeysAnswer(call[t].found)]
    /\ readers' = readers \ {t}
    /\ call' = [call EXCEPT ![t] = Outside]
    /\ UNCHANGED <<data, writer>>

-------------------------------------------------------------------------------

\* The steps that change the contents, as callers know them, and the others.
Write(t) ==
    \/ \E k \in Keys, v \in Stored : Set(t, k, v)
    \/ \E k \in Keys : Remove(t, k)
    \/ Clear(t)
    \/ \E batch \in Batches : BeginSetMany(t, batch)
    \/ \E k \in Keys : SetNext(t, k)

Read(t) ==
    \/ \E k \in Keys : Has(t, k)
    \/ \E k \in Keys, type \in Types : Get(t, type, k)
    \/ Size(t)
    \/ \E group \in Groups : BeginKeysWithPrefix(t, group)
    \/ \E k \in Keys : LookAtNext(t, k)
    \/ EndKeysWithPrefix(t)
    \/ EndSetMany(t)

CallStep(t) == Write(t) \/ Read(t)

-------------------------------------------------------------------------------

RepositoryTypeOK ==
    /\ data \in Contents
    /\ writer \in Threads \cup {Nobody}
    /\ readers \subseteq Threads
    /\ call \in [Threads -> Calls]

\* mutex_ is held exclusively by the thread in setMany, or shared by those in
\* keysWithPrefix, which have found what is there of the keys they looked at.
LockProtects ==
    /\ writer # Nobody => readers = {}
    /\ \A t \in Threads :
          /\ call[t].op = "setMany" <=> writer = t
          /\ call[t].op = "keysWithPrefix" <=> t \in readers
          /\ call[t].op = "setMany" => call[t].rest \subseteq Present(call[t].batch)
          /\ call[t].op = "keysWithPrefix" =>
                /\ call[t].group \in Groups
                /\ call[t].rest \subseteq Present(data)
                /\ call[t].found = call[t].group \cap (Present(data) \ call[t].rest)

RepositoryInv == RepositoryTypeOK /\ LockProtects

\* The contents as callers may know them: setMany has taken effect as soon as
\* it holds the lock.
contents ==
    IF writer = Nobody
    THEN data
    ELSE [k \in Keys |-> IF k \in call[writer].rest THEN call[writer].batch[k]
                         ELSE data[k]]

Abstract == INSTANCE ConfigurationSpec

================================================================================
