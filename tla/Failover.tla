------------------------------- MODULE Failover -------------------------------
(***************************************************************************)
(* app/llm.py: the chain of models with one circuit breaker per model,     *)
(* shared by every turn and every brief of the process.  A call decides    *)
(* which models to try when it starts and then tries them one by one, each *)
(* attempt in a thread of its own, so other calls open breakers meanwhile. *)
(***************************************************************************)
EXTENDS Integers, Sequences

CONSTANTS
    Chain,         \* model_chain(): the configured models, best first
    Callers,       \* the turns and briefs that call, one call at a time each
    CircuitTicks,  \* CIRCUIT_SECONDS
    MaxTime,       \* bound: the clock stops here
    MaxCalls       \* bound: calls per caller

Models == {Chain[i] : i \in DOMAIN Chain}

ASSUME ChainAssumption == Chain \in Seq(Models)
ASSUME CircuitAssumption ==
    CircuitTicks \in Nat \ {0} /\ MaxTime \in Nat /\ MaxCalls \in Nat

VARIABLES
    now,        \* time.monotonic()
    downUntil,  \* _down_until, 0 for a model that is not in it
    call        \* the last llm_call of every caller

vars == <<now, downUntil, call>>

\* pc, when it began, the candidates fixed then (places in Chain), the one on trial,
\* how it ended, and how many calls the caller made.
NoCall == [pc |-> "over", began |-> 0, candidates |-> {}, at |-> 0,
           result |-> "none", count |-> 0]

Calls ==
    [pc : {"over", "trying"}, began : Nat, candidates : SUBSET DOMAIN Chain,
     at : {0} \cup DOMAIN Chain, result : {"none", "served", "unavailable", "raised"},
     count : 0 .. MaxCalls]

\* The models whose breaker lets them be tried.
Closed == {i \in DOMAIN Chain : now >= downUntil[Chain[i]]}

\* The last rung when there is none.
Candidates == IF Closed # {} \/ Chain = <<>> THEN Closed ELSE {Len(Chain)}

First(places) == CHOOSE i \in places : \A j \in places : i <= j

OnTrial(k) == Chain[call[k].at]

Init ==
    /\ now = 0
    /\ downUntil = [m \in Models |-> 0]
    /\ call = [k \in Callers |-> NoCall]

Begin(k) ==
    /\ call[k].pc = "over"
    /\ call[k].count < MaxCalls
    /\ call' = [call EXCEPT ![k] =
                  IF Candidates = {}
                  THEN [NoCall EXCEPT !.began = now, !.result = "unavailable",
                                      !.count = call[k].count + 1]
                  ELSE [pc |-> "trying", began |-> now, candidates |-> Candidates,
                        at |-> First(Candidates), result |-> "none",
                        count |-> call[k].count + 1]]
    /\ UNCHANGED <<now, downUntil>>

Serve(k) ==
    /\ call[k].pc = "trying"
    /\ call' = [call EXCEPT ![k].pc = "over", ![k].result = "served"]
    /\ UNCHANGED <<now, downUntil>>

\* A 400 or any other exception that is not transient is the caller's.
Reject(k) ==
    /\ call[k].pc = "trying"
    /\ call' = [call EXCEPT ![k].pc = "over", ![k].result = "raised"]
    /\ UNCHANGED <<now, downUntil>>

\* The candidates behind the one on trial.
Behind(c) == {i \in c.candidates : i > c.at}

\* Mutant: the chain is tried again and again.
GoOn_Wraps(c) == [c EXCEPT !.at = First(IF Behind(c) = {} THEN c.candidates ELSE Behind(c))]

\* The next candidate, or the end of the call.
GoOn(c) ==
    IF Behind(c) = {} THEN [c EXCEPT !.pc = "over", !.result = "unavailable"]
    ELSE [c EXCEPT !.at = First(Behind(c))]

\* Mutant: a failed model keeps its breaker closed.
FailOver_BreakerKept(k) ==
    /\ call[k].pc = "trying"
    /\ call' = [call EXCEPT ![k] = GoOn(@)]
    /\ UNCHANGED <<now, downUntil>>

\* 429, 5xx, timeout, no connection: open the breaker and go on.
FailOver(k) ==
    /\ call[k].pc = "trying"
    /\ downUntil' = [downUntil EXCEPT ![OnTrial(k)] = now + CircuitTicks]
    /\ call' = [call EXCEPT ![k] = GoOn(@)]
    /\ UNCHANGED now

Tick ==
    /\ now < MaxTime
    /\ now' = now + 1
    /\ UNCHANGED <<downUntil, call>>

Done ==
    /\ now = MaxTime
    /\ \A k \in Callers : call[k].pc = "over" /\ call[k].count = MaxCalls
    /\ UNCHANGED vars

Attempt(k) == Serve(k) \/ Reject(k) \/ FailOver(k)

Next == (\E k \in Callers : Begin(k) \/ Attempt(k)) \/ Tick \/ Done

\* The client has a timeout: an attempt ends one way or another.
Fairness == \A k \in Callers : WF_vars(Attempt(k))

Spec == Init /\ [][Next]_vars /\ Fairness

-------------------------------------------------------------------------------
(* Properties.                                                             *)

\* The clock, the breakers and the calls have their types.
TypeOK ==
    /\ now \in Nat
    /\ downUntil \in [Models -> Nat]
    /\ call \in [Callers -> Calls]
    /\ \A k \in Callers : call[k].pc = "trying" => call[k].at \in call[k].candidates

\* A reply is served by a worse model only when every better one was down at some
\* moment of this call: open when it began, or failed since (llm.py:102-108, 125).
PreferenceKept ==
    \A k \in Callers : call[k].result = "served" =>
        /\ call[k].at \in DOMAIN Chain
        /\ \A j \in DOMAIN Chain : j < call[k].at => downUntil[Chain[j]] > call[k].began

\* "Every model failed" is true: none is left out that was not down during the call.
UnavailableMeansDown ==
    \A k \in Callers : call[k].result = "unavailable" =>
        \A m \in Models : downUntil[m] > call[k].began

\* However many breakers are open, a call tries something (lines 103-104).
AlwaysTries ==
    \A k \in Callers : call[k].count > 0 /\ Chain # <<>> => call[k].candidates # {}

\* The invariant behind them: whatever a call has behind it, or left out, was down when it began or has failed since.
Passed(k, i) ==
    \/ call[k].pc = "trying" /\ i \notin call[k].candidates
    \/ (call[k].pc = "trying" \/ call[k].result = "served") /\ i < call[k].at
    \/ call[k].result = "unavailable"

OnCourse(k) ==
    /\ call[k].began <= now
    /\ call[k].pc = "trying" => call[k].result = "none"
    /\ call[k].result = "served" => call[k].at \in DOMAIN Chain
    /\ call[k].count > 0 /\ Chain # <<>> => call[k].candidates # {}
    /\ \A i \in DOMAIN Chain : Passed(k, i) => downUntil[Chain[i]] > call[k].began

Inv == TypeOK /\ \A k \in Callers : OnCourse(k)

\* Every call ends.
CallEnds == \A k \in Callers : call[k].pc = "trying" ~> call[k].pc = "over"
===============================================================================
