-------------------------------- MODULE Workers --------------------------------
(***************************************************************************)
(* The check at start-up that this process is the only one serving the app *)
(* (app/config.py 85-133, called from app/main.py 43-53), against what the *)
(* launcher makes of the same command line.  A token is the flag, the flag *)
(* with its value behind an equals sign, or a word; a word may be read as  *)
(* a count.                                                                *)
(***************************************************************************)
EXTENDS Integers, Sequences

\* A value that is no count, or one that is not there.
NotANumber == 0
Unset == -1

Flag == [kind |-> "flag", value |-> NotANumber]
Inline(value) == [kind |-> "inline", value |-> value]
Word(value) == [kind |-> "word", value |-> value]

\* Mutant: only the flag with a separate value is known.
Names_SpacedOnly(argv, i) == argv[i] = Flag /\ i < Len(argv)

\* The token at i names a count, in itself or in the next one.
Names(argv, i) == (argv[i] = Flag /\ i < Len(argv)) \/ argv[i].kind = "inline"

Candidate(argv, i) ==
    LET token == IF argv[i] = Flag THEN argv[i + 1] ELSE argv[i]
    IN  IF argv[i] = Flag /\ token.kind # "word" THEN NotANumber ELSE token.value

\* _argv_workers: the first flag decides, and nothing else is looked at.
ArgvWorkers(argv) ==
    LET named == {i \in DOMAIN argv : Names(argv, i)}
        first == CHOOSE i \in named : \A j \in named : i <= j
    IN  IF named = {} \/ Candidate(argv, first) = NotANumber
        THEN Unset ELSE Candidate(argv, first)

\* WEB_CONCURRENCY, when the command line names no count.
FromEnvironment(concurrency) ==
    IF concurrency \in {Unset, NotANumber} THEN 1 ELSE concurrency

worker_count(argv, concurrency) ==
    IF ArgvWorkers(argv) = Unset THEN FromEnvironment(concurrency) ELSE ArgvWorkers(argv)

\* assert_single_worker passes.
SingleWorkerAsserted(argv, concurrency) == worker_count(argv, concurrency) <= 1

\* The launcher (external): a flag takes the token behind it, the last flag
\* decides, and a count it cannot read is an error.
Options(argv) ==
    {i \in DOMAIN argv : argv[i].kind \in {"flag", "inline"} /\ ~(i > 1 /\ argv[i - 1] = Flag)}

Starts(argv, concurrency) ==
    /\ \A i \in Options(argv) :
        /\ argv[i] = Flag => i < Len(argv)
        /\ Candidate(argv, i) # NotANumber
    /\ Options(argv) = {} => concurrency # NotANumber

Launched(argv, concurrency) ==
    LET last == CHOOSE i \in Options(argv) : \A j \in Options(argv) : j <= i
    IN  IF Options(argv) # {} THEN Candidate(argv, last)
        ELSE IF concurrency = Unset THEN 1 ELSE concurrency
===============================================================================
