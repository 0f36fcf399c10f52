------------------------- MODULE EnvironmentLoadProofs -------------------------
(***************************************************************************)
(* Proofs about the configuration repository and loadEnvironment, for any  *)
(* threads, keys, values and env files.  The first part is about the calls *)
(* of the repository alone.                                                *)
(***************************************************************************)
EXTENDS EnvironmentLoad, TLAPS

LEMMA BatchesAreContents ==
    Batches \cup {NoBatch} \subseteq Contents
BY ConfigurationAssumption DEF NoBatch, Contents

LEMMA OutsideIsCall ==
    Outside \in Calls
BY DEF Outside, Calls

\* Calls that change the contents in one step.
LEMMA ChangeKeeps ==
    ASSUME NEW t \in Threads, RepositoryInv, Exclusive(t), data' \in Contents,
           UNCHANGED <<writer, readers, call>>
    PROVE  RepositoryInv'
<1>1. \A u \in Threads : call[u].op \notin {"setMany", "keysWithPrefix"}
  BY ConfigurationAssumption DEF RepositoryInv, LockProtects, Exclusive
<1>2. RepositoryTypeOK'
  BY DEF RepositoryInv, RepositoryTypeOK
<1> QED
  BY <1>1, <1>2 DEF RepositoryInv, LockProtects, Exclusive

LEMMA BeginSetManyKeeps ==
    ASSUME NEW t \in Threads, RepositoryInv, NEW batch \in Batches,
           BeginSetMany(t, batch)
    PROVE  RepositoryInv'
<1>1. /\ call' = [call EXCEPT ![t] = call'[t]]
      /\ call'[t] = [op |-> "setMany", batch |-> batch, group |-> {},
                     rest |-> Present(batch), found |-> {}]
      /\ writer' = t /\ readers' = {} /\ readers = {} /\ data' = data
      /\ \A u \in Threads : call[u].op # "setMany" /\ call[u].op # "keysWithPrefix"
  BY ConfigurationAssumption
     DEF BeginSetMany, Exclusive, RepositoryInv, RepositoryTypeOK, LockProtects
<1>2. call'[t] \in Calls
  BY <1>1 DEF Calls, Present
<1>3. RepositoryTypeOK'
  BY <1>1, <1>2 DEF RepositoryInv, RepositoryTypeOK
<1>4. \A u \in Threads : u # t => call'[u] = call[u]
  BY <1>1 DEF RepositoryInv, RepositoryTypeOK
<1>5. LockProtects'
  BY <1>1, <1>4 DEF LockProtects
<1> QED
  BY <1>3, <1>5 DEF RepositoryInv

LEMMA SetNextKeeps ==
    ASSUME NEW t \in Threads, RepositoryInv, NEW k \in Keys, SetNext(t, k)
    PROVE  RepositoryInv'
<1>1. call[t] \in Calls /\ call[t].batch \in Contents /\ data \in Contents
  BY BatchesAreContents DEF RepositoryInv, RepositoryTypeOK, Calls
<1>2. /\ writer = t /\ readers = {} /\ t # Nobody
      /\ \A u \in Threads : u # t => call[u].op \notin {"setMany", "keysWithPrefix"}
  BY ConfigurationAssumption DEF RepositoryInv, LockProtects, SetNext, RepositoryTypeOK
<1>3. /\ call' = [call EXCEPT ![t] = call'[t]]
      /\ call'[t] = [call[t] EXCEPT !.rest = @ \ {k}]
      /\ writer' = writer /\ readers' = readers
      /\ data' = [data EXCEPT ![k] = call[t].batch[k]]
  BY DEF SetNext, RepositoryInv, RepositoryTypeOK
<1>4. /\ call'[t] \in Calls
      /\ call'[t].op = "setMany"
      /\ call'[t].batch = call[t].batch
      /\ call'[t].rest = call[t].rest \ {k}
  BY <1>1, <1>3 DEF Calls, SetNext
<1>5. data' \in Contents
  BY <1>1, <1>3 DEF Contents
<1>6. RepositoryTypeOK'
  BY <1>3, <1>4, <1>5 DEF RepositoryInv, RepositoryTypeOK
<1>7. \A u \in Threads : u # t => call'[u] = call[u]
  BY <1>3 DEF RepositoryInv, RepositoryTypeOK
<1>8. call[t].rest \subseteq Present(call[t].batch)
  BY DEF SetNext, RepositoryInv, LockProtects
<1>9. LockProtects'
  BY <1>2, <1>3, <1>4, <1>7, <1>8 DEF LockProtects
<1> QED
  BY <1>6, <1>9 DEF RepositoryInv

LEMMA EndSetManyKeeps ==
    ASSUME NEW t \in Threads, RepositoryInv, EndSetMany(t)
    PROVE  RepositoryInv'
<1>1. /\ call' = [call EXCEPT ![t] = Outside]
      /\ call'[t] = Outside
      /\ \A u \in Threads : u # t => call'[u] = call[u]
      /\ writer = t /\ writer' = Nobody /\ readers' = readers /\ data' = data
  BY DEF EndSetMany, RepositoryInv, RepositoryTypeOK, LockProtects
<1>2. RepositoryTypeOK'
  BY <1>1, OutsideIsCall DEF RepositoryInv, RepositoryTypeOK
<1>3. t \notin readers
  BY <1>1, ConfigurationAssumption DEF RepositoryInv, LockProtects
<1>4. LockProtects'
  BY <1>1, <1>3, ConfigurationAssumption
     DEF RepositoryInv, LockProtects, Outside
<1> QED
  BY <1>2, <1>4 DEF RepositoryInv

LEMMA BeginKeysKeeps ==
    ASSUME NEW t \in Threads, RepositoryInv, NEW group \in Groups,
           BeginKeysWithPrefix(t, group)
    PROVE  RepositoryInv'
<1>1. /\ call' = [call EXCEPT ![t] = call'[t]]
      /\ call'[t] = [op |-> "keysWithPrefix", batch |-> NoBatch, group |-> group,
                     rest |-> Present(data), found |-> {}]
      /\ \A u \in Threads : u # t => call'[u] = call[u]
      /\ writer = Nobody /\ writer' = Nobody /\ readers' = readers \cup {t}
      /\ data' = data
  BY DEF BeginKeysWithPrefix, Shared, RepositoryInv, RepositoryTypeOK
<1>2. call'[t] \in Calls
  BY <1>1 DEF Calls, Present
<1>3. RepositoryTypeOK'
  BY <1>1, <1>2 DEF RepositoryInv, RepositoryTypeOK
<1>4. LockProtects'
  BY <1>1, ConfigurationAssumption DEF RepositoryInv, LockProtects
<1> QED
  BY <1>3, <1>4 DEF RepositoryInv

LEMMA LookAtNextKeeps ==
    ASSUME NEW t \in Threads, RepositoryInv, NEW k \in Keys, LookAtNext(t, k)
    PROVE  RepositoryInv'
<1> DEFINE c == call[t]
<1>1. /\ c \in Calls
      /\ c.op = "keysWithPrefix"
      /\ k \in c.rest
      /\ c.group \in Groups
      /\ c.rest \subseteq Present(data)
      /\ c.found = c.group \cap (Present(data) \ c.rest)
  BY DEF LookAtNext, RepositoryInv, RepositoryTypeOK, LockProtects
<1>2. /\ call' = [call EXCEPT ![t] = call'[t]]
      /\ call'[t] = [c EXCEPT !.rest = @ \ {k}, !.found = @ \cup ({k} \cap c.group)]
      /\ \A u \in Threads : u # t => call'[u] = call[u]
      /\ writer' = writer /\ readers' = readers /\ data' = data
  BY DEF LookAtNext, RepositoryInv, RepositoryTypeOK
<1> HIDE DEF c
<1>3. /\ call'[t].op = "keysWithPrefix"
      /\ call'[t].group = c.group
      /\ call'[t].rest = c.rest \ {k}
      /\ call'[t].found = c.found \cup ({k} \cap c.group)
  BY <1>1, <1>2 DEF Calls
<1>0. call'[t] \in Calls
  <2>1. c.rest \ {k} \in SUBSET Keys /\ c.found \cup ({k} \cap c.group) \in SUBSET Keys
    BY <1>1 DEF Calls
  <2> QED
    BY <1>1, <1>2, <2>1 DEF Calls
<1>4. RepositoryTypeOK'
  BY <1>0, <1>2 DEF RepositoryInv, RepositoryTypeOK
<1>5. Present(data)' = Present(data)
  BY <1>2
<1>6. call'[t].found = call'[t].group \cap (Present(data) \ call'[t].rest)
  BY <1>1, <1>3
<1>8. writer = Nobody /\ t \in readers /\ t # Nobody
  BY ConfigurationAssumption DEF LookAtNext, RepositoryInv, LockProtects
<1>7. LockProtects'
  <2> SUFFICES ASSUME NEW u \in Threads
               PROVE  /\ call'[u].op = "setMany" <=> writer' = u
                      /\ call'[u].op = "keysWithPrefix" <=> u \in readers'
                      /\ call'[u].op = "setMany" =>
                            call'[u].rest \subseteq Present(call'[u].batch)
                      /\ call'[u].op = "keysWithPrefix" =>
                            /\ call'[u].group \in Groups
                            /\ call'[u].rest \subseteq Present(data)'
                            /\ call'[u].found =
                                  call'[u].group \cap (Present(data)' \ call'[u].rest)
    BY <1>2, <1>8 DEF LockProtects
  <2>1. CASE u = t
    BY <1>1, <1>2, <1>3, <1>5, <1>6, <1>8, <2>1
  <2>2. CASE u # t
    BY <1>2, <1>5, <2>2 DEF RepositoryInv, LockProtects
  <2> QED
    BY <2>1, <2>2
<1> QED
  BY <1>4, <1>7 DEF RepositoryInv

LEMMA EndKeysKeeps ==
    ASSUME NEW t \in Threads, RepositoryInv, EndKeysWithPrefix(t)
    PROVE  RepositoryInv'
<1>1. /\ call' = [call EXCEPT ![t] = Outside]
      /\ call'[t] = Outside
      /\ \A u \in Threads : u # t => call'[u] = call[u]
      /\ writer' = writer /\ readers' = readers \ {t} /\ data' = data
      /\ t \in readers /\ writer = Nobody
  BY DEF EndKeysWithPrefix, RepositoryInv, RepositoryTypeOK, LockProtects
<1>2. RepositoryTypeOK'
  BY <1>1, OutsideIsCall DEF RepositoryInv, RepositoryTypeOK
<1>3. LockProtects'
  BY <1>1, ConfigurationAssumption DEF RepositoryInv, LockProtects, Outside
<1> QED
  BY <1>2, <1>3 DEF RepositoryInv

\* Every step of a call of the repository keeps its invariant.
LEMMA CallStepKeeps ==
    ASSUME NEW t \in Threads, RepositoryInv, CallStep(t)
    PROVE  RepositoryInv'
<1> USE ConfigurationAssumption DEF RepositoryInv
<1>1. ASSUME NEW k \in Keys, NEW v \in Stored \cup {Absent}, Exclusive(t),
             data' = [data EXCEPT ![k] = v], UNCHANGED <<writer, readers, call>>
      PROVE  RepositoryInv'
  <2>1. data' \in Contents
    BY <1>1 DEF RepositoryTypeOK, Contents
  <2> QED
    BY <1>1, <2>1, ChangeKeeps
<1>2. CASE \E k \in Keys, v \in Stored : Set(t, k, v)
  BY <1>1, <1>2 DEF Set
<1>3. CASE \E k \in Keys : Remove(t, k)
  BY <1>1, <1>3 DEF Remove
<1>4. CASE Clear(t)
  <2>1. data' \in Contents
    BY <1>4 DEF Clear, Contents
  <2> QED
    BY <1>4, <2>1, ChangeKeeps DEF Clear
<1>5. CASE \E batch \in Batches : BeginSetMany(t, batch)
  BY <1>5, BeginSetManyKeeps
<1>6. CASE \E k \in Keys : SetNext(t, k)
  BY <1>6, SetNextKeeps
<1>7. CASE UNCHANGED <<data, writer, readers, call>>
  BY <1>7 DEF RepositoryTypeOK, LockProtects
<1>8. CASE \E group \in Groups : BeginKeysWithPrefix(t, group)
  BY <1>8, BeginKeysKeeps
<1>9. CASE \E k \in Keys : LookAtNext(t, k)
  BY <1>9, LookAtNextKeeps
<1>10. CASE EndKeysWithPrefix(t)
  BY <1>10, EndKeysKeeps
<1>11. CASE EndSetMany(t)
  BY <1>11, EndSetManyKeeps
<1> QED
  BY <1>2, <1>3, <1>4, <1>5, <1>6, <1>7, <1>8, <1>9, <1>10, <1>11
     DEF CallStep, Write, Read, Has, Get, Size, Answer

-------------------------------------------------------------------------------
(* Every step of a call is a step of the atomic repository, or none. *)

LEMMA SameAnswers ==
    /\ \A c, k : Abstract!HasAnswer(c, k) = HasAnswer(c, k)
    /\ \A c, type, k : Abstract!GetAnswer(c, type, k) = GetAnswer(c, type, k)
    /\ \A c : Abstract!SizeAnswer(c) = SizeAnswer(c)
    /\ \A keys : Abstract!KeysAnswer(keys) = KeysAnswer(keys)
    /\ \A c : Abstract!Present(c) = Present(c)
    /\ Abstract!Types = Types
    /\ Abstract!NoAnswer = NoAnswer
<1>1. /\ \A n : Abstract!Narrow(n) = Narrow(n)
      /\ \A w : Abstract!String(w) = String(w)
      /\ \A b : Abstract!Bool(b) = Bool(b)
      /\ \A n : Abstract!Integer(n) = Integer(n)
  BY DEF Abstract!Narrow, Narrow, Abstract!String, String, Abstract!Bool, Bool,
         Abstract!Integer, Integer
<1>2. \A type, w : Abstract!FromString(type, w) = FromString(type, w)
  BY <1>1 DEF Abstract!FromString, FromString
<1>3. \A type, v : Abstract!Cast(type, v) = Cast(type, v)
  BY <1>2 DEF Abstract!Cast, Cast
<1>4. \A c, type, k : Abstract!GetAnswer(c, type, k) = GetAnswer(c, type, k)
  BY <1>3 DEF Abstract!GetAnswer, GetAnswer, Abstract!Refused, Refused,
              Abstract!Got, Got
<1>5. \A c : Abstract!Present(c) = Present(c)
  BY DEF Abstract!Present, Present
<1>6. \A S : Abstract!Cardinality(S) = Cardinality(S)
  BY DEF Abstract!Cardinality, Cardinality
<1>7. \A c : Abstract!SizeAnswer(c) = SizeAnswer(c)
  BY <1>5, <1>6 DEF Abstract!SizeAnswer, SizeAnswer
<1> QED
  BY <1>4, <1>5, <1>7
     DEF Abstract!HasAnswer, HasAnswer, Abstract!KeysAnswer, KeysAnswer,
         Abstract!Types, Types, Abstract!NoAnswer, NoAnswer

LEMMA AnswerRefines ==
    ASSUME NEW t \in Threads, RepositoryInv, NEW answer, Answer(t, answer)
    PROVE  /\ contents = data
           /\ UNCHANGED contents
           /\ told' = [told EXCEPT ![t] = answer]
BY DEF Answer, Shared, contents

LEMMA ChangeRefines ==
    ASSUME NEW t \in Threads, Exclusive(t), UNCHANGED <<writer, readers, call, told>>
    PROVE  contents = data /\ contents' = data' /\ UNCHANGED told
BY DEF Exclusive, contents

LEMMA WriteRefines ==
    ASSUME NEW t \in Threads, RepositoryInv, Write(t)
    PROVE  Abstract!Change \/ UNCHANGED <<contents, told>>
<1> USE DEF Abstract!Change
<1>1. CASE \E k \in Keys, v \in Stored : Set(t, k, v)
  BY <1>1, ChangeRefines DEF Set
<1>2. CASE \E k \in Keys : Remove(t, k)
  BY <1>2, ChangeRefines DEF Remove
<1>3. CASE Clear(t)
  BY <1>3, ChangeRefines DEF Clear
<1>4. ASSUME NEW batch \in Batches, BeginSetMany(t, batch)
      PROVE  Abstract!Change
  <2>1. /\ contents = data
        /\ writer' = t /\ t # Nobody
        /\ data' = data /\ told' = told
        /\ call'[t] = [op |-> "setMany", batch |-> batch, group |-> {},
                       rest |-> Present(batch), found |-> {}]
    BY <1>4, ConfigurationAssumption
       DEF BeginSetMany, Exclusive, contents, RepositoryInv, RepositoryTypeOK
  <2>2. call'[t].rest = Present(batch) /\ call'[t].batch = batch
    BY <2>1
  <2>3. contents' = [k \in Keys |-> IF k \in Present(batch) THEN batch[k] ELSE data[k]]
    BY <2>1, <2>2 DEF contents
  <2>4. contents' = [k \in Keys |-> IF batch[k] # Absent THEN batch[k] ELSE data[k]]
    BY <2>3 DEF Present
  <2> QED
    BY <2>1, <2>4
<1>5. ASSUME NEW k \in Keys, SetNext(t, k)
      PROVE  UNCHANGED <<contents, told>>
  <2>1. /\ writer = t /\ writer' = t /\ t # Nobody
        /\ call[t] \in Calls
        /\ data \in Contents
        /\ told' = told
    BY <1>5, ConfigurationAssumption
       DEF SetNext, RepositoryInv, RepositoryTypeOK, LockProtects
  <2>2. call'[t].batch = call[t].batch /\ call'[t].rest = call[t].rest \ {k}
    BY <1>5, <2>1 DEF SetNext, Calls, RepositoryInv, RepositoryTypeOK
  <2>3. data' = [data EXCEPT ![k] = call[t].batch[k]] /\ k \in call[t].rest
    BY <1>5 DEF SetNext
  <2>4. \A j \in Keys : (IF j \in call'[t].rest THEN call'[t].batch[j] ELSE data'[j])
                        = (IF j \in call[t].rest THEN call[t].batch[j] ELSE data[j])
    BY <2>1, <2>2, <2>3 DEF Contents
  <2> QED
    BY <2>1, <2>4 DEF contents
<1> QED
  BY <1>1, <1>2, <1>3, <1>4, <1>5 DEF Write

LEMMA ReadRefines ==
    ASSUME NEW t \in Threads, RepositoryInv, Read(t)
    PROVE  Abstract!Query(t) \/ UNCHANGED <<contents, told>>
<1> USE SameAnswers DEF Abstract!Query, Abstract!Answer
<1>1. CASE \E k \in Keys : Has(t, k)
  BY <1>1, AnswerRefines DEF Has
<1>2. CASE \E k \in Keys, type \in Types : Get(t, type, k)
  BY <1>2, AnswerRefines DEF Get
<1>3. CASE Size(t)
  BY <1>3, AnswerRefines DEF Size
<1>4. CASE \E group \in Groups : BeginKeysWithPrefix(t, group)
  BY <1>4 DEF BeginKeysWithPrefix, Shared, contents
<1>5. CASE \E k \in Keys : LookAtNext(t, k)
  <2>1. writer = Nobody
    BY <1>5 DEF LookAtNext, RepositoryInv, LockProtects
  <2> QED
    BY <1>5, <2>1 DEF LookAtNext, contents
<1>6. CASE EndKeysWithPrefix(t)
  <2>1. writer = Nobody /\ writer' = Nobody /\ data' = data
    BY <1>6 DEF EndKeysWithPrefix, RepositoryInv, LockProtects
  <2>2. /\ call[t].rest = {} /\ call[t].group \in Groups
        /\ call[t].found = call[t].group \cap Present(data)
    BY <1>6 DEF EndKeysWithPrefix, RepositoryInv, RepositoryTypeOK, LockProtects, Calls
  <2>3. told' = [told EXCEPT ![t] = KeysAnswer(call[t].group \cap Present(data))]
    BY <1>6, <2>2 DEF EndKeysWithPrefix
  <2>4. contents = data /\ contents' = data
    BY <2>1 DEF contents
  <2> QED
    BY <2>2, <2>3, <2>4
<1>7. CASE EndSetMany(t)
  <2>1. /\ writer = t /\ writer' = Nobody /\ data' = data /\ t # Nobody
        /\ call[t].rest = {} /\ data \in Contents /\ told' = told
    BY <1>7, ConfigurationAssumption
       DEF EndSetMany, RepositoryInv, RepositoryTypeOK, LockProtects
  <2> QED
    BY <2>1 DEF contents, Contents
<1> QED
  BY <1>1, <1>2, <1>3, <1>4, <1>5, <1>6, <1>7 DEF Read

LEMMA CallStepRefines ==
    ASSUME NEW t \in Threads, RepositoryInv, CallStep(t)
    PROVE  [Abstract!Next]_<<contents, told>>
BY WriteRefines, ReadRefines DEF CallStep, Abstract!Next

-------------------------------------------------------------------------------
(* loadEnvironment.  Every step of Spec that concerns the repository is a  *)
(* step of one of its calls.                                               *)

LEMMA InitRepositoryInv ==
    InitRepository => RepositoryInv
BY ConfigurationAssumption, OutsideIsCall
   DEF InitRepository, RepositoryInv, RepositoryTypeOK, LockProtects, Contents, Outside

LEMMA SettingIsKey ==
    ASSUME TypeOK, LoaderCalls, stage = "copy" \/ at <= Len(Settings)
    PROVE  Settings[at] \in Keys /\ at \in 1..Len(Settings)
BY EnvironmentLoadAssumption DEF TypeOK, LoaderCalls

LEMMA StepIsCall ==
    ASSUME TypeOK, LoaderCalls, Next
    PROVE  \/ \E t \in Threads : CallStep(t)
           \/ UNCHANGED repository
<1> USE EnvironmentLoadAssumption
<1>1. CASE Begin
  <2>1. disk[EnvFile] \in Batches
    BY <1>1 DEF Begin, TypeOK
  <2>2. BeginSetMany(Loader, disk[EnvFile])
    BY <1>1 DEF Begin
  <2> QED
    BY <2>1, <2>2 DEF CallStep, Write
<1>2. CASE BeginWithoutFile
  BY <1>2 DEF BeginWithoutFile
<1>3. CASE Store
  BY <1>3 DEF Store, CallStep, Write, Read
<1>4. CASE Check
  <2>1. CASE at > Len(Settings)
    BY <1>4, <2>1 DEF Check
  <2>2. CASE ~(at > Len(Settings))
    <3>1. Settings[at] \in Keys
      BY <2>2, SettingIsKey DEF TypeOK
    <3>2. Has(Loader, Settings[at])
      BY <1>4, <2>2 DEF Check
    <3> QED
      BY <3>1, <3>2 DEF CallStep, Read
  <2> QED
    BY <2>1, <2>2
<1>5. CASE Copy
  <2>1. Get(Loader, TypeOf(Settings[at]), Settings[at])
    BY <1>5 DEF Copy
  <2>2. Settings[at] \in Keys /\ TypeOf(Settings[at]) \in Types
    BY <1>5, SettingIsKey DEF Copy, TypeOf, Types
  <2> QED
    BY <2>1, <2>2 DEF CallStep, Read
<1>6. CASE OthersCall
  BY <1>6 DEF OthersCall
<1> QED
  BY <1>1, <1>2, <1>3, <1>4, <1>5, <1>6 DEF Next

LEMMA RepositoryPart ==
    ASSUME IInv, Next
    PROVE  RepositoryInv' /\ (told = [t \in Threads |-> told[t]])'
<1>1. RepositoryInv /\ told = [t \in Threads |-> told[t]]
  BY DEF IInv, TypeOK, RepositoryInv
<1>2. CASE UNCHANGED repository
  BY <1>1, <1>2 DEF repository, RepositoryInv, RepositoryTypeOK, LockProtects
<1>3. ASSUME NEW t \in Threads, CallStep(t) PROVE RepositoryInv'
  BY <1>1, <1>3, CallStepKeeps
<1>4. ASSUME NEW t \in Threads, CallStep(t)
      PROVE  UNCHANGED told \/ \E answer : told' = [told EXCEPT ![t] = answer]
  BY <1>4 DEF CallStep, Write, Read, Set, Remove, Clear, BeginSetMany, SetNext,
              EndSetMany, Has, Get, Size, Answer, BeginKeysWithPrefix, LookAtNext,
              EndKeysWithPrefix
<1>5. ASSUME NEW t \in Threads, CallStep(t)
      PROVE  (told = [u \in Threads |-> told[u]])'
  BY <1>1, <1>4, <1>5
<1> QED
  BY <1>2, <1>3, <1>5, StepIsCall DEF IInv

\* The loader's call is not touched by the calls of the others.
LEMMA OwnCall ==
    ASSUME IInv, NEW t \in Threads \ {Loader}, CallStep(t)
    PROVE  call'[Loader] = call[Loader]
<1>1. UNCHANGED call \/ \E c : call' = [call EXCEPT ![t] = c]
  BY DEF CallStep, Write, Read, Set, Remove, Clear, BeginSetMany, SetNext,
         EndSetMany, Has, Get, Size, Answer, BeginKeysWithPrefix, LookAtNext,
         EndKeysWithPrefix
<1> QED
  BY <1>1, EnvironmentLoadAssumption DEF IInv, TypeOK, RepositoryTypeOK

LEMMA CastIsValue ==
    ASSUME NEW type \in Types, NEW v \in Value
    PROVE  Cast(type, v) \in Value \cup {Absent}
<1> USE ConfigValuesAssumption
<1>1. \A w \in DOMAIN Number : Narrow(Number[w]) \in Int
  BY DEF Narrow
<1>2. ASSUME NEW w \in Words \cup {Absent}
      PROVE  FromString(type, w) \in Value \cup {Absent}
  <2>1. String(w) \in Value /\ Bool(TRUE) \in Value /\ Bool(FALSE) \in Value
    BY DEF String, Bool, Value, Types
  <2>2. w \in DOMAIN Number => Integer(Narrow(Number[w])) \in Value
    BY <1>1 DEF Integer, Value, Types
  <2> QED
    BY <2>1, <2>2 DEF FromString
<1> QED
  BY <1>2 DEF Cast, Value

LEMMA GetTells ==
    ASSUME NEW c, NEW type, NEW k
    PROVE  /\ GetAnswer(c, type, k) = Refused <=>
                 c[k] = Absent \/ Cast(type, c[k]) = Absent
           /\ GetAnswer(c, type, k) # Refused =>
                 GetAnswer(c, type, k).value = Cast(type, c[k])
<1>1. ASSUME NEW v PROVE Got(v) # Refused /\ Got(v).value = v
  <2>1. DOMAIN Got(v) = {"value"} /\ DOMAIN Refused = {"refused"}
    BY DEF Got, Refused
  <2> QED
    BY <2>1 DEF Got
<1> QED
  BY <1>1 DEF GetAnswer

-------------------------------------------------------------------------------
(* The parts of IInv about loadEnvironment, action by action. *)

LoadTyped ==
    /\ appEnv \in AppEnvs
    /\ disk \in Disks
    /\ stage \in Stages
    /\ at \in 1..(Len(Settings) + 1)
    /\ setting \in [Keys -> Value]
    /\ past \in [Keys -> SUBSET (Value \cup {Absent})]

LoadInv == LoadTyped /\ LoaderCalls /\ SettingsSoFar

\* APP_ENV of the process is taken over before anything else.
LEMMA EnvironmentFirst ==
    ASSUME IInv, stage = "begin", UNCHANGED appEnv,
           setting' = IF appEnv = Absent THEN setting
                      ELSE [setting EXCEPT ![EnvKey] = String(appEnv)]
    PROVE  /\ setting' \in [Keys -> Value]
           /\ \A k \in Keys : setting'[k] = Initially(k)'
<1>1. setting = Default /\ appEnv \in Words \cup {Absent}
  BY EnvironmentLoadAssumption DEF IInv, SettingsSoFar, TypeOK
<1>2. appEnv # Absent => String(appEnv) \in Value
  BY <1>1 DEF String, Value, Types
<1> QED
  BY <1>1, <1>2, EnvironmentLoadAssumption DEF Initially

LEMMA BeginPart ==
    ASSUME IInv, Begin
    PROVE  LoadInv'
<1>1. /\ stage = "begin" /\ stage' = "store"
      /\ UNCHANGED <<appEnv, disk, at, past>>
      /\ BeginSetMany(Loader, disk[EnvFile])
  BY DEF Begin
<1>2. LoadTyped'
  BY <1>1, EnvironmentFirst DEF Begin, IInv, TypeOK, LoadTyped, Stages
<1>3. call'[Loader].op = "setMany" /\ at = 1
  BY <1>1, EnvironmentLoadAssumption
     DEF BeginSetMany, IInv, TypeOK, RepositoryTypeOK, LoaderCalls
<1>4. LoaderCalls'
  BY <1>1, <1>3 DEF LoaderCalls
<1>5. SettingsSoFar'
  BY <1>1, EnvironmentFirst DEF Begin, SettingsSoFar, NothingHeld, IInv
<1> QED
  BY <1>2, <1>4, <1>5 DEF LoadInv

LEMMA BeginWithoutFilePart ==
    ASSUME IInv, BeginWithoutFile
    PROVE  LoadInv'
<1>1. /\ stage = "begin" /\ stage' \in {"threw", "done"}
      /\ UNCHANGED <<repository, appEnv, disk, at, past>>
  BY DEF BeginWithoutFile
<1>2. LoadTyped'
  BY <1>1, EnvironmentFirst DEF BeginWithoutFile, IInv, TypeOK, LoadTyped, Stages
<1>3. LoaderCalls'
  BY <1>1 DEF LoaderCalls, IInv, repository
<1>4. SettingsSoFar'
  BY <1>1 DEF SettingsSoFar
<1> QED
  BY <1>2, <1>3, <1>4 DEF LoadInv

LEMMA StorePart ==
    ASSUME IInv, Store, RepositoryInv'
    PROVE  LoadInv'
<1>1. stage = "store" /\ at = 1 /\ past = NothingHeld /\ LoadTyped
  BY DEF Store, IInv, LoaderCalls, SettingsSoFar, TypeOK, LoadTyped
<1>2. CASE (\E k \in Keys : SetNext(Loader, k)) /\ UNCHANGED <<load, past>>
  <2>1. call'[Loader].op = call[Loader].op
    BY <1>2, EnvironmentLoadAssumption
       DEF SetNext, IInv, TypeOK, RepositoryTypeOK, Calls
  <2>2. LoadTyped'
    BY <1>1, <1>2 DEF LoadTyped, load
  <2>3. LoaderCalls'
    BY <1>1, <1>2, <2>1 DEF LoaderCalls, load, IInv
  <2>4. SettingsSoFar'
    BY <1>2 DEF SettingsSoFar, load, IInv, NothingHeld, Copied, Initially
  <2> QED
    BY <2>2, <2>3, <2>4 DEF LoadInv
<1>3. CASE /\ EndSetMany(Loader)
           /\ Remember
           /\ stage' = "check"
           /\ UNCHANGED <<appEnv, disk, at, setting>>
  <2>1. past' = [k \in Keys |-> past[k] \cup {data'[k]}]
    BY <1>3 DEF Remember
  <2>2. \A k \in Keys : data'[k] \in Value \cup {Absent}
    BY DEF RepositoryInv, RepositoryTypeOK, Contents
  <2>3. past' \in [Keys -> SUBSET (Value \cup {Absent})]
    BY <1>1, <2>1, <2>2 DEF LoadTyped
  <2>4. LoadTyped'
    BY <1>1, <1>3, <2>3 DEF LoadTyped, Stages
  <2>5. call'[Loader].op = "none"
    BY <1>3, EnvironmentLoadAssumption
       DEF EndSetMany, IInv, TypeOK, RepositoryTypeOK, Outside
  <2>6. LoaderCalls'
    BY <1>3, <2>1, <2>5 DEF LoaderCalls
  <2>7. \A k \in Keys : setting[k] = Initially(k)
    BY <1>1 DEF IInv, SettingsSoFar, Copied, NothingHeld
  <2>8. SettingsSoFar'
    BY <1>3, <2>7 DEF SettingsSoFar, Initially
  <2> QED
    BY <2>4, <2>6, <2>8 DEF LoadInv
<1> QED
  BY <1>2, <1>3 DEF Store

LEMMA CheckPart ==
    ASSUME IInv, Check
    PROVE  LoadInv'
<1>1. /\ stage = "check" /\ LoadTyped
      /\ UNCHANGED <<appEnv, disk, setting>>
      /\ at \in Nat /\ Len(Settings) \in Nat
  BY EnvironmentLoadAssumption DEF Check, IInv, TypeOK, LoadTyped
<1>2. CASE at > Len(Settings)
  <2>1. stage' = "done" /\ past' = NothingHeld /\ UNCHANGED <<repository, at>>
    BY <1>2 DEF Check
  <2>2. LoadTyped'
    BY <1>1, <2>1 DEF LoadTyped, Stages, NothingHeld
  <2>3. LoaderCalls'
    BY <1>1, <2>1 DEF LoaderCalls, IInv, repository
  <2>4. SettingsSoFar'
    BY <2>1 DEF SettingsSoFar
  <2> QED
    BY <2>2, <2>3, <2>4 DEF LoadInv
<1>3. CASE ~(at > Len(Settings))
  <2>1. /\ Has(Loader, Settings[at])
        /\ IF data[Settings[at]] # Absent
           THEN stage' = "copy" /\ UNCHANGED at
           ELSE at' = at + 1 /\ UNCHANGED stage
        /\ UNCHANGED past
    BY <1>3 DEF Check
  <2>2. data' = data /\ call' = call
    BY <2>1 DEF Has, Answer
  <2>3. Settings[at] \in Keys
    BY <1>1, <1>3, SettingIsKey DEF IInv
  <2>4. LoadTyped'
    BY <1>1, <1>3, <2>1 DEF LoadTyped, Stages
  <2>5. \A k \in Keys : data[k] \in past[k]
    BY <1>1 DEF IInv, LoaderCalls
  <2>8. ASSUME data[Settings[at]] # Absent PROVE LoaderCalls'
    <3>1. stage' = "copy" /\ at' = at /\ at <= Len(Settings)
      BY <1>1, <1>3, <2>1, <2>8
    <3>2. past[Settings[at]] \ {Absent} # {}
      BY <2>3, <2>5, <2>8
    <3> QED
      BY <1>1, <2>1, <2>2, <2>5, <3>1, <3>2 DEF LoaderCalls, IInv
  <2>9. ASSUME data[Settings[at]] = Absent PROVE LoaderCalls'
    BY <1>1, <2>1, <2>2, <2>5, <2>9 DEF LoaderCalls, IInv
  <2>6. LoaderCalls'
    BY <2>8, <2>9
  <2>7. SettingsSoFar'
    BY <1>1, <2>1 DEF SettingsSoFar, IInv, Copied, Initially
  <2> QED
    BY <2>4, <2>6, <2>7 DEF LoadInv
<1> QED
  BY <1>2, <1>3

LEMMA CopyPart ==
    ASSUME IInv, Copy
    PROVE  LoadInv'
<1>0. PICK k \in Keys : k = Settings[at]
  BY SettingIsKey DEF Copy, IInv
<1>1. /\ stage = "copy" /\ LoadTyped
      /\ UNCHANGED <<appEnv, disk, past>>
      /\ at \in 1..Len(Settings)
      /\ TypeOf(k) \in Types
  BY SettingIsKey DEF Copy, IInv, TypeOK, LoadTyped, TypeOf, Types
<1>2. data' = data /\ call' = call /\ told'[Loader] = GetAnswer(data, TypeOf(k), k)
  BY <1>0, EnvironmentLoadAssumption DEF Copy, Get, Answer, IInv, TypeOK
<1>3. \A j \in Keys : data[j] \in past[j]
  BY <1>1 DEF IInv, LoaderCalls
<1>4. call[Loader].op = "none"
  BY <1>1 DEF IInv, LoaderCalls
<1>5. CASE told'[Loader] = Refused
  <2>1. stage' = "threw" /\ UNCHANGED <<at, setting>>
    BY <1>5 DEF Copy
  <2>2. LoadTyped'
    BY <1>1, <2>1 DEF LoadTyped, Stages
  <2>3. LoaderCalls'
    BY <1>2, <1>4, <2>1 DEF LoaderCalls
  <2>4. SettingsSoFar'
    BY <2>1 DEF SettingsSoFar
  <2> QED
    BY <2>2, <2>3, <2>4 DEF LoadInv
<1>6. CASE told'[Loader] # Refused
  <2>1. /\ setting' = [setting EXCEPT ![k] = told'[Loader].value]
        /\ stage' = "check"
        /\ at' = at + 1
    BY <1>0, <1>6 DEF Copy
  <2>2. data[k] # Absent /\ told'[Loader].value = Cast(TypeOf(k), data[k])
        /\ Cast(TypeOf(k), data[k]) # Absent
    BY <1>2, <1>6, GetTells
  <2>3. data[k] \in Value
    BY <1>1, <2>2 DEF IInv, TypeOK, RepositoryTypeOK, Contents
  <2>4. Cast(TypeOf(k), data[k]) \in Value
    BY <1>1, <2>2, <2>3, CastIsValue
  <2>5. setting' \in [Keys -> Value]
    BY <1>1, <2>1, <2>2, <2>4 DEF LoadTyped
  <2>6. LoadTyped'
    BY <1>1, <2>1, <2>5, EnvironmentLoadAssumption DEF LoadTyped, Stages
  <2>7. LoaderCalls'
    BY <1>1, <1>2, <1>3, <1>4, <2>1 DEF LoaderCalls
  <2>8. \E v \in past[k] \ {Absent} : setting'[k] = Cast(TypeOf(k), v)
    <3>1. setting'[k] = Cast(TypeOf(k), data[k])
      BY <1>1, <2>1, <2>2 DEF LoadTyped
    <3> QED
      BY <1>3, <2>2, <3>1
  <2>9. \A j \in Keys : Copied(j)' \/ setting'[j] = Initially(j)'
    <3>1. \A j : Copied(j)' <=> \E v \in past[j] \ {Absent} : setting'[j] = Cast(TypeOf(j), v)
      BY <1>1 DEF Copied
    <3>2. \A j \in Keys : Copied(j) \/ setting[j] = Initially(j)
      BY <1>1 DEF IInv, SettingsSoFar
    <3>3. \A j \in Keys : j # k => setting'[j] = setting[j]
      BY <1>1, <2>1 DEF LoadTyped
    <3>4. \A j : Initially(j)' = Initially(j)
      BY <1>1 DEF Initially
    <3>5. ASSUME NEW j \in Keys, j # k, Copied(j) PROVE Copied(j)'
      BY <3>1, <3>3, <3>5 DEF Copied
    <3> QED
      BY <2>8, <3>1, <3>2, <3>3, <3>4, <3>5
  <2>10. SettingsSoFar'
    BY <2>1, <2>9 DEF SettingsSoFar
  <2> QED
    BY <2>6, <2>7, <2>10 DEF LoadInv
<1> QED
  BY <1>5, <1>6

LEMMA OthersPart ==
    ASSUME IInv, OthersCall, RepositoryInv'
    PROVE  LoadInv'
<1>1. /\ UNCHANGED <<appEnv, disk, stage, at, setting>>
      /\ IF stage \in {"check", "copy"} THEN Remember ELSE UNCHANGED past
      /\ LoadTyped
  BY DEF OthersCall, load, IInv, TypeOK, LoadTyped
<1>2. call'[Loader] = call[Loader]
  BY OwnCall DEF OthersCall
<1>3. \A k \in Keys : data'[k] \in Value \cup {Absent}
  BY DEF RepositoryInv, RepositoryTypeOK, Contents
<1>4. CASE stage \in {"check", "copy"}
  <2>1. \A k \in Keys : past'[k] = past[k] \cup {data'[k]}
    BY <1>1, <1>4 DEF Remember
  <2>2. past' \in [Keys -> SUBSET (Value \cup {Absent})]
    BY <1>1, <1>3, <1>4 DEF Remember, LoadTyped
  <2>3. LoadTyped'
    BY <1>1, <2>2 DEF LoadTyped
  <2>4. stage = "copy" => past'[Settings[at]] \ {Absent} # {}
    BY <2>1, SettingIsKey DEF IInv, LoaderCalls
  <2>5. LoaderCalls'
    BY <1>1, <1>2, <1>4, <2>1, <2>4 DEF LoaderCalls, IInv
  <2>6. \A k \in Keys : Copied(k) => Copied(k)'
    BY <1>1, <2>1 DEF Copied
  <2>7. SettingsSoFar'
    BY <1>1, <1>4, <2>6 DEF SettingsSoFar, IInv, Initially
  <2> QED
    BY <2>3, <2>5, <2>7 DEF LoadInv
<1>5. CASE stage \notin {"check", "copy"}
  <2>1. UNCHANGED past
    BY <1>1, <1>5
  <2>2. LoadTyped'
    BY <1>1, <2>1 DEF LoadTyped
  <2>3. LoaderCalls'
    BY <1>1, <1>2, <1>5, <2>1 DEF LoaderCalls, IInv
  <2>4. SettingsSoFar'
    BY <1>1, <1>5, <2>1 DEF SettingsSoFar, IInv, Initially, Copied, NothingHeld
  <2> QED
    BY <2>2, <2>3, <2>4 DEF LoadInv
<1> QED
  BY <1>4, <1>5

\* The lock of the repository keeps the loops of setMany and keysWithPrefix from
\* the writers, and loadEnvironment keeps track of what it copied.
THEOREM Invariant == Spec => []IInv
<1>1. Init => IInv
  <2> SUFFICES ASSUME Init PROVE IInv
    OBVIOUS
  <2>1. RepositoryInv
    BY InitRepositoryInv DEF Init
  <2>2. told = [t \in Threads |-> told[t]]
    BY DEF Init, InitRepository
  <2>3. LoadTyped
    BY EnvironmentLoadAssumption DEF Init, LoadTyped, Stages, NothingHeld
  <2>4. LoaderCalls
    BY EnvironmentLoadAssumption DEF Init, InitRepository, LoaderCalls, Outside
  <2>5. SettingsSoFar
    BY DEF Init, SettingsSoFar
  <2> QED
    BY <2>1, <2>2, <2>3, <2>4, <2>5 DEF IInv, TypeOK, LoadTyped, RepositoryInv
<1>2. IInv /\ [Next]_vars => IInv'
  <2> SUFFICES ASSUME IInv, [Next]_vars PROVE IInv'
    OBVIOUS
  <2>1. CASE Next
    <3>1. RepositoryInv' /\ (told = [t \in Threads |-> told[t]])'
      BY <2>1, RepositoryPart
    <3>2. LoadInv'
      BY <2>1, <3>1, BeginPart, BeginWithoutFilePart, StorePart, CheckPart, CopyPart,
         OthersPart DEF Next
    <3> QED
      BY <3>1, <3>2 DEF IInv, TypeOK, LoadInv, LoadTyped, RepositoryInv
  <2>2. CASE UNCHANGED vars
    BY <2>2 DEF vars, repository, load, IInv, TypeOK, RepositoryTypeOK, LockProtects,
                LoaderCalls, SettingsSoFar, Copied, Initially
  <2> QED
    BY <2>1, <2>2
<1> QED
  BY <1>1, <1>2, PTL DEF Spec

\* setMany and keysWithPrefix of Repository.hh go through the map element by
\* element, and yet every call acts on the whole of it at one moment.
THEOREM Atomicity == Spec => RepositoryIsAtomic
<1>1. Init => Abstract!Init
  BY SameAnswers DEF Init, InitRepository, Abstract!Init, contents
<1>2. IInv /\ [Next]_vars => [Abstract!Next]_<<contents, told>>
  <2> SUFFICES ASSUME IInv, [Next]_vars
               PROVE  [Abstract!Next]_<<contents, told>>
    OBVIOUS
  <2>1. CASE \E t \in Threads : CallStep(t)
    BY <2>1, CallStepRefines DEF IInv, TypeOK, RepositoryInv
  <2>2. CASE UNCHANGED repository
    BY <2>2 DEF repository, contents
  <2> QED
    BY <2>1, <2>2, StepIsCall DEF vars, IInv
<1> QED
  BY <1>1, <1>2, Invariant, PTL DEF Spec, RepositoryIsAtomic, Abstract!Spec

\* What loadEnvironment copied was in the repository while it copied.
THEOREM SettingsAreLoaded == Spec => []LoadedSettings
<1>1. Init => LoadedSettings
  BY DEF Init, LoadedSettings
<1>2. IInv /\ IInv' /\ LoadedSettings /\ [Next]_vars => LoadedSettings'
  <2> SUFFICES ASSUME IInv, IInv', LoadedSettings, [Next]_vars,
                      stage' \in {"check", "copy", "threw"}, past' # NothingHeld,
                      NEW i \in 1..(at' - 1)
               PROVE  CopiedOrAbsent(Settings[i])'
    BY DEF LoadedSettings
  <2> USE DEF CopiedOrAbsent
  <2>1. CASE Begin \/ BeginWithoutFile
    <3>1. stage = "begin" /\ UNCHANGED past
      BY <2>1 DEF Begin, BeginWithoutFile
    <3> QED
      BY <3>1 DEF IInv, SettingsSoFar
  <2>2. CASE Store
    <3>1. at' = 1
      BY <2>2 DEF Store, load, IInv, LoaderCalls
    <3> QED
      BY <3>1
  <2>3. CASE Check
    <3>0. stage = "check" /\ UNCHANGED <<appEnv, setting>>
      BY <2>3 DEF Check
    <3>1. ~(at > Len(Settings)) /\ past' = past
      BY <2>3 DEF Check
    <3>2. at \in Nat /\ Len(Settings) \in Nat
      BY EnvironmentLoadAssumption DEF IInv, TypeOK
    <3>3. \A j : Copied(j)' = Copied(j) /\ Initially(j)' = Initially(j)
      BY <3>0, <3>1 DEF Copied, Initially
    <3>4. CASE i \in 1..(at - 1)
      BY <3>0, <3>1, <3>3, <3>4 DEF LoadedSettings
    <3>5. CASE i \notin 1..(at - 1)
      <4>1. i = at /\ data[Settings[at]] = Absent
        BY <2>3, <3>1, <3>2, <3>5 DEF Check
      <4>2. Settings[at] \in Keys
        BY <3>1, <3>2, SettingIsKey DEF IInv
      <4>3. Absent \in past[Settings[at]]
        BY <3>0, <4>1, <4>2 DEF IInv, LoaderCalls
      <4>4. Copied(Settings[at]) \/ setting[Settings[at]] = Initially(Settings[at])
        BY <3>0, <4>2 DEF IInv, SettingsSoFar
      <4> QED
        BY <3>0, <3>1, <3>3, <4>1, <4>3, <4>4
    <3> QED
      BY <3>4, <3>5
  <2>4. CASE Copy
    <3>1. PICK k \in Keys : k = Settings[at]
      BY <2>4, SettingIsKey DEF Copy, IInv
    <3>2. /\ stage = "copy" /\ UNCHANGED <<appEnv, past>>
          /\ at \in Nat
      BY <2>4 DEF Copy, IInv, TypeOK
    <3>3. \A j : Initially(j)' = Initially(j)
      BY <3>2 DEF Initially
    <3>4. CASE stage' = "threw"
      <4>1. UNCHANGED <<at, setting>>
        BY <2>4, <3>4 DEF Copy
      <4> QED
        BY <3>2, <3>3, <4>1 DEF LoadedSettings, Copied
    <3>5. CASE stage' # "threw"
      <4>1. /\ told'[Loader] # Refused /\ at' = at + 1
            /\ setting' = [setting EXCEPT ![k] = told'[Loader].value]
            /\ told'[Loader] = GetAnswer(data, TypeOf(k), k)
        BY <2>4, <3>1, <3>5, EnvironmentLoadAssumption
           DEF Copy, Get, Answer, IInv, TypeOK
      <4>2. data[k] # Absent /\ told'[Loader].value = Cast(TypeOf(k), data[k])
        BY <4>1, GetTells
      <4>3. setting'[k] = Cast(TypeOf(k), data[k]) /\ data[k] \in past[k] \ {Absent}
        BY <3>2, <4>1, <4>2 DEF IInv, TypeOK, LoaderCalls
      <4>4. \A j : Copied(j)' <=>
                      \E v \in past[j] \ {Absent} : setting'[j] = Cast(TypeOf(j), v)
        BY <3>2 DEF Copied
      <4>5. CASE Settings[i] = k
        BY <4>3, <4>4, <4>5
      <4>6. CASE Settings[i] # k
        <5>1. i \in 1..(at - 1) /\ i \in 1..Len(Settings)
          BY <3>1, <3>2, <4>1, <4>6, EnvironmentLoadAssumption DEF IInv, TypeOK
        <5>2. Settings[i] \in Keys
          BY <5>1, EnvironmentLoadAssumption
        <5>3. setting'[Settings[i]] = setting[Settings[i]]
          BY <4>1, <4>6, <5>2 DEF IInv, TypeOK
        <5>4. CopiedOrAbsent(Settings[i])
          BY <3>2, <5>1 DEF LoadedSettings
        <5> QED
          BY <3>2, <3>3, <4>4, <5>3, <5>4 DEF Copied
      <4> QED
        BY <4>5, <4>6
    <3> QED
      BY <3>4, <3>5
  <2>5. CASE OthersCall \/ UNCHANGED vars
    <3>1. UNCHANGED <<appEnv, stage, at, setting>>
      BY <2>5 DEF OthersCall, load, vars
    <3>2. i \in 1..Len(Settings)
      BY <3>1, EnvironmentLoadAssumption DEF IInv, TypeOK
    <3>3. Settings[i] \in Keys
      BY <3>2, EnvironmentLoadAssumption
    <3>4. \A k \in Keys : past[k] \subseteq past'[k]
      BY <2>5 DEF OthersCall, Remember, vars
    <3>5. CASE past # NothingHeld
      <4>1. CopiedOrAbsent(Settings[i])
        BY <3>1, <3>5 DEF LoadedSettings
      <4> QED
        BY <3>1, <3>3, <3>4, <4>1 DEF Copied, Initially
    <3>6. CASE past = NothingHeld
      <4>1. stage \in {"check", "copy"}
        BY <2>5, <3>1, <3>6 DEF OthersCall, vars
      <4>2. data[Settings[i]] \in past[Settings[i]]
        BY <3>3, <4>1 DEF IInv, LoaderCalls
      <4> QED
        BY <3>3, <3>6, <4>2 DEF NothingHeld
    <3> QED
      BY <3>5, <3>6
  <2> QED
    BY <2>1, <2>2, <2>3, <2>4, <2>5 DEF Next
<1> QED
  BY <1>1, <1>2, Invariant, PTL DEF Spec

\* What makes SettingsFromFile hold: no other thread writes while setMany puts the
\* file in, so each key of the file has held what the file says of it.
FileStored ==
    /\ stage = "store" =>
          /\ call[Loader].batch = disk[EnvFile]
          /\ \A k \in Present(disk[EnvFile]) \ call[Loader].rest :
                data[k] = disk[EnvFile][k]
    /\ stage \in {"check", "copy"} \/ (stage = "threw" /\ past # NothingHeld) =>
          \A k \in Present(disk[EnvFile]) : disk[EnvFile][k] \in past[k]

\* The other threads do not write while the loader is in setMany.
LEMMA OnlyLoaderStores ==
    ASSUME IInv, stage = "store", NEW t \in Threads \ {Loader}, CallStep(t)
    PROVE  UNCHANGED data
<1>1. writer = Loader /\ writer # t /\ writer # Nobody
  BY EnvironmentLoadAssumption, ConfigurationAssumption
     DEF IInv, LockProtects, LoaderCalls
<1>2. call[t].op # "setMany"
  BY <1>1 DEF IInv, LockProtects
<1> QED
  BY <1>1, <1>2
     DEF CallStep, Write, Read, Set, Remove, Clear, BeginSetMany, SetNext, EndSetMany,
         Has, Get, Size, Answer, BeginKeysWithPrefix, LookAtNext, EndKeysWithPrefix,
         Exclusive, Shared

LEMMA StoreFile ==
    ASSUME IInv, FileStored, Store
    PROVE  FileStored'
<1>1. /\ stage = "store" /\ UNCHANGED <<appEnv, disk>>
      /\ EnvFile' = EnvFile
      /\ call[Loader].batch = disk[EnvFile]
      /\ call[Loader] \in Calls /\ data \in Contents
      /\ past = NothingHeld
  BY EnvironmentLoadAssumption
     DEF Store, load, EnvFile, FileStored, IInv, TypeOK, RepositoryTypeOK, SettingsSoFar
<1> DEFINE file == disk[EnvFile]
<1>2. file' = file /\ Present(file)' = Present(file) /\ Present(file) \subseteq Keys
  BY <1>1 DEF Present
<1>3. \A k \in Present(file) \ call[Loader].rest : data[k] = file[k]
  BY <1>1 DEF FileStored
<1>4. ASSUME NEW k \in Keys, SetNext(Loader, k), UNCHANGED <<load, past>>
      PROVE  FileStored'
  <2>1. /\ call'[Loader] = [call[Loader] EXCEPT !.rest = @ \ {k}]
        /\ data' = [data EXCEPT ![k] = call[Loader].batch[k]]
    BY <1>4, EnvironmentLoadAssumption DEF SetNext, IInv, TypeOK, RepositoryTypeOK
  <2>2. call'[Loader].batch = file /\ call'[Loader].rest = call[Loader].rest \ {k}
    BY <1>1, <2>1 DEF Calls
  <2>3. \A j \in Present(file) \ call'[Loader].rest : data'[j] = file[j]
    BY <1>1, <1>2, <1>3, <2>1, <2>2 DEF Contents
  <2>4. stage' = "store"
    BY <1>1, <1>4 DEF load
  <2> QED
    BY <1>1, <1>2, <2>2, <2>3, <2>4 DEF FileStored
<1>5. CASE /\ EndSetMany(Loader)
           /\ Remember
           /\ stage' = "check"
           /\ UNCHANGED <<appEnv, disk, at, setting>>
  <2>1. call[Loader].rest = {} /\ data' = data
    BY <1>5 DEF EndSetMany
  <2>2. \A k \in Keys : data[k] \in past'[k]
    BY <1>5, <2>1 DEF Remember
  <2>3. \A k \in Present(file) : file[k] \in past'[k]
    BY <1>2, <1>3, <2>1, <2>2
  <2> QED
    BY <1>1, <1>2, <1>5, <2>3 DEF FileStored
<1> QED
  BY <1>4, <1>5 DEF Store

LEMMA OthersKeepFile ==
    ASSUME IInv, FileStored, OthersCall
    PROVE  FileStored'
<1>1. /\ UNCHANGED <<appEnv, disk, stage>>
      /\ EnvFile' = EnvFile
      /\ Present(disk[EnvFile])' = Present(disk[EnvFile])
      /\ Present(disk[EnvFile]) \subseteq Keys
      /\ call'[Loader] = call[Loader]
  BY OwnCall DEF OthersCall, load, EnvFile, Present
<1>2. CASE stage = "store"
  <2>1. UNCHANGED data
    BY <1>2, OnlyLoaderStores DEF OthersCall
  <2> QED
    BY <1>1, <1>2, <2>1 DEF FileStored
<1>3. CASE stage # "store"
  <2>1. UNCHANGED past \/ (stage \in {"check", "copy"} /\ Remember)
    BY DEF OthersCall
  <2>2. \A k \in Keys : past[k] \subseteq past'[k]
    BY <2>1 DEF Remember
  <2>3. stage' = "threw" /\ past' # NothingHeld => past # NothingHeld
    BY <1>1, <2>1
  <2> QED
    BY <1>1, <1>3, <2>2, <2>3 DEF FileStored
<1> QED
  BY <1>2, <1>3

LEMMA FileKept ==
    IInv /\ FileStored /\ [Next]_vars => FileStored'
<1> SUFFICES ASSUME IInv, FileStored, [Next]_vars PROVE FileStored'
  OBVIOUS
<1>1. CASE Begin
  <2>1. /\ stage' = "store" /\ EnvFile' = EnvFile /\ disk' = disk
        /\ BeginSetMany(Loader, disk[EnvFile])
    BY <1>1 DEF Begin, EnvFile
  <2>2. /\ call'[Loader].batch = disk[EnvFile]
        /\ call'[Loader].rest = Present(disk[EnvFile])
    BY <2>1, EnvironmentLoadAssumption DEF BeginSetMany, IInv, TypeOK, RepositoryTypeOK
  <2> QED
    BY <2>1, <2>2 DEF FileStored, Present
<1>2. CASE BeginWithoutFile
  BY <1>2 DEF BeginWithoutFile, IInv, SettingsSoFar, FileStored
<1>3. CASE Store
  BY <1>3, StoreFile
<1>4. CASE Check
  <2>1. /\ stage = "check" /\ UNCHANGED <<appEnv, disk>>
        /\ EnvFile' = EnvFile
        /\ Present(disk[EnvFile])' = Present(disk[EnvFile])
        /\ stage' = "done" \/ (stage' \in {"check", "copy"} /\ UNCHANGED past)
    BY <1>4 DEF Check, EnvFile, Present
  <2> QED
    BY <2>1 DEF FileStored
<1>5. CASE Copy
  <2>1. /\ stage = "copy" /\ UNCHANGED <<appEnv, disk, past>>
        /\ EnvFile' = EnvFile
        /\ Present(disk[EnvFile])' = Present(disk[EnvFile])
        /\ stage' \in {"check", "threw"}
    BY <1>5 DEF Copy, EnvFile, Present
  <2> QED
    BY <2>1 DEF FileStored
<1>6. CASE OthersCall
  BY <1>6, OthersKeepFile
<1>7. CASE UNCHANGED vars
  <2>1. UNCHANGED <<data, call, appEnv, disk, stage, past>>
    BY <1>7 DEF vars, repository, load
  <2> QED
    BY <2>1 DEF FileStored, EnvFile, Present
<1> QED
  BY <1>1, <1>2, <1>3, <1>4, <1>5, <1>6, <1>7 DEF Next

\* A setting that the chosen file has and no other thread touched is what that file
\* says, whichever file it is and whatever was in the repository before.
THEOREM SettingsAreTheFiles == Spec => []SettingsFromFile
<1>1. Init => FileStored
  BY DEF Init, FileStored
<1>2. IInv /\ FileStored /\ LoadedSettings => SettingsFromFile
  <2> SUFFICES ASSUME IInv, FileStored, LoadedSettings,
                      stage \in {"check", "copy", "threw"}, past # NothingHeld,
                      NEW i \in 1..(at - 1), NEW file \in DOMAIN disk,
                      file = appEnv \/ (file = Base /\ appEnv \notin DOMAIN disk),
                      disk[file][Settings[i]] # Absent, Undisturbed(Settings[i])
               PROVE  setting[Settings[i]]
                        = Cast(TypeOf(Settings[i]), disk[file][Settings[i]])
    BY DEF SettingsFromFile
  <2>1. file = EnvFile
    BY DEF EnvFile
  <2>2. i \in 1..Len(Settings)
    BY EnvironmentLoadAssumption DEF IInv, TypeOK
  <2>3. PICK k \in Keys : k = Settings[i]
    BY <2>2, EnvironmentLoadAssumption
  <2>4. disk[file][k] \in past[k]
    BY <2>1, <2>3 DEF FileStored, Present
  <2>5. past[k] = {disk[file][k]}
    BY <2>3, <2>4 DEF Undisturbed
  <2>6. Copied(k)
    BY <2>3, <2>5 DEF LoadedSettings, CopiedOrAbsent
  <2> QED
    BY <2>3, <2>5, <2>6 DEF Copied
<1> QED
  BY <1>1, <1>2, FileKept, Invariant, SettingsAreLoaded, PTL DEF Spec

\* With the env file in the repository, loadEnvironment throws only for a key
\* that has gone again or holds something else than a bool.
THEOREM ThrowingIsExplained == Spec => []ThrowIsExplained
<1>1. Init => ThrowIsExplained
  BY DEF Init, ThrowIsExplained
<1>2. IInv /\ ThrowIsExplained /\ [Next]_vars => ThrowIsExplained'
  <2> SUFFICES ASSUME IInv, ThrowIsExplained, [Next]_vars,
                      stage' = "threw", past' # NothingHeld
               PROVE  ThrowIsExplained'
    BY DEF ThrowIsExplained
  <2>1. CASE Copy
    <3>1. PICK k \in Keys : k = Settings[at]
      BY <2>1, SettingIsKey DEF Copy, IInv
    <3>2. stage = "copy" /\ UNCHANGED <<past, at>>
      BY <2>1 DEF Copy
    <3>3. GetAnswer(data, TypeOf(k), k) = Refused
      BY <2>1, <3>1, EnvironmentLoadAssumption DEF Copy, Get, Answer, IInv, TypeOK
    <3>4. data[k] = Absent \/ Cast(TypeOf(k), data[k]) = Absent
      BY <3>3, GetTells
    <3>5. data[k] \in past[k] /\ past[k] \ {Absent} # {}
      BY <3>1, <3>2 DEF IInv, LoaderCalls
    <3> QED
      BY <3>1, <3>2, <3>4, <3>5 DEF ThrowIsExplained
  <2>2. CASE Begin \/ BeginWithoutFile
    BY <2>2 DEF Begin, BeginWithoutFile, IInv, SettingsSoFar
  <2>3. CASE Store \/ Check
    BY <2>3 DEF Store, Check, load
  <2>4. CASE OthersCall \/ UNCHANGED vars
    <3>1. UNCHANGED <<stage, at, past>>
      BY <2>4 DEF OthersCall, load, vars
    <3> QED
      BY <3>1 DEF ThrowIsExplained
  <2> QED
    BY <2>1, <2>2, <2>3, <2>4 DEF Next
<1> QED
  BY <1>1, <1>2, Invariant, PTL DEF Spec

================================================================================
