------------------------------- MODULE MCProgram -------------------------------
(***************************************************************************)
(* TLC instance of Program: the commands and options of main.cc and of the *)
(* tests, lists of up to three arguments, and handlers for classes above   *)
(* and below each other.                                                   *)
(***************************************************************************)
EXTENDS Program

CONSTANTS timeout, verbose, t, v, thirty, word, echo, list

MCLongNames == {timeout, verbose}

MCShortNames == {t, v}

MCValues == {thirty, word}

Timeout(default) ==
    [name |-> timeout, shortName |-> t, hasValue |-> TRUE, defaultValue |-> default]

Verbose ==
    [name |-> verbose, shortName |-> v, hasValue |-> FALSE, defaultValue |-> NoDefault]

MCRegistrations ==
    <<[name |-> echo, options |-> {Timeout(NoDefault)}],
      [name |-> list, options |-> {}],
      [name |-> echo, options |-> {Timeout(thirty), Verbose}]>>

OneRegistration == <<[name |-> echo, options |-> {Timeout(thirty), Verbose}]>>

Answers(class, answer) == [class |-> class, answer |-> answer, throws |-> FALSE]

Throws(class) == [class |-> class, answer |-> Unhandled, throws |-> TRUE]

MCFunctions ==
    {Answers("NetworkException", Fail(2)), Answers("NetworkException", Unhandled),
     Answers("ConnectionException", Ok), Throws("CyberForgeException"),
     Answers("CyberForgeException", Fail(1)), Answers("exception", Fail(99)),
     Answers("exception", Unhandled)}

================================================================================
