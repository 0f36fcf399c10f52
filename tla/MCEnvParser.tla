------------------------------ MODULE MCEnvParser ------------------------------
(***************************************************************************)
(* TLC instance of EnvParser: every file of up to three lines made of the  *)
(* lines below, two keys, one of which is in the process environment too.  *)
(***************************************************************************)
EXTENDS EnvParser

CONSTANTS A, B, x, y

MCKeys == {A, B}

MCLetters == {x, y}

MCEnvironment == B :> <<y>>

Forms == {<<"none", "none">>, <<"none", "comment">>, <<"none", "return">>,
          <<"single", "none">>, <<"double", "none">>, <<"double", "comment">>}

MCLines ==
    {[key |-> k, quotes |-> f[1], tail |-> f[2], body |-> b] :
        k \in MCKeys, f \in Forms, b \in {<< >>, <<A>>, <<x, B>>}}
    \cup {[key |-> None, quotes |-> "none", tail |-> "none", body |-> << >>]}

MCFiles == UNION {[1..n -> MCLines] : n \in 0..3}

================================================================================
