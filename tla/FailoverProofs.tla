---------------------------- MODULE FailoverProofs ----------------------------
(***************************************************************************)
(* The safety of the failover chain, for any chain, any callers and any    *)
(* time a breaker stays open.                                              *)
(***************************************************************************)
EXTENDS Failover, WellFoundedInduction, TLAPS

\* A set of natural numbers has a least element: the order on Nat is well-founded.
LEMMA LeastExists ==
    ASSUME NEW S, S \subseteq Nat, S # {}
    PROVE  \E x \in S : \A y \in S : x <= y
<1>. DEFINE R == {p \in Nat \X Nat : p[1] < p[2]}
<1>1. IsWellFoundedOn(R, Nat)
  BY NatLessThanWellFounded DEF OpToRel
<1>. HIDE DEF R
<1>2. PICK x \in S : \A y \in S : ~(<<y, x>> \in R)
  BY <1>1, WFMin
<1>3. \A y \in S : ~(y < x)
  BY <1>2 DEF R
<1>. QED
  BY <1>3

\* First is the least of some places in the chain.
LEMMA FirstIsLeast ==
    ASSUME NEW places, places \subseteq DOMAIN Chain, places # {}
    PROVE  First(places) \in places /\ \A j \in places : First(places) <= j
<1>1. places \subseteq Nat
  BY ChainAssumption
<1>. QED
  BY <1>1, LeastExists DEF First

\* What is known of the places of the chain.
LEMMA Places ==
    /\ Len(Chain) \in Nat
    /\ DOMAIN Chain = 1 .. Len(Chain)
    /\ \A i \in DOMAIN Chain : Chain[i] \in Models
    /\ Chain # <<>> => Len(Chain) \in DOMAIN Chain
    /\ \A m \in Models : \E i \in DOMAIN Chain : m = Chain[i]
BY ChainAssumption DEF Models

\* What is known of a call.
LEMMA CallTyped ==
    ASSUME TypeOK, NEW q \in Callers
    PROVE  /\ call[q] \in Calls
           /\ call[q].began \in Nat /\ call[q].count \in Nat
           /\ call[q].candidates \subseteq DOMAIN Chain
           /\ call[q].at \in {0} \cup DOMAIN Chain
           /\ call[q].at \in Nat
<1>1. call[q] \in Calls
  BY DEF TypeOK
<1>. QED
  BY <1>1, Places, CircuitAssumption DEF Calls

\* A call that starts leaves out only models that are down, and tries something.
LEMMA CandidatesAreUp ==
    ASSUME Inv
    PROVE  /\ Candidates \subseteq DOMAIN Chain
           /\ Candidates = {} => Chain = <<>>
           /\ \A i \in DOMAIN Chain : i \notin Candidates => downUntil[Chain[i]] > now
<1>1. \A i \in DOMAIN Chain : downUntil[Chain[i]] \in Nat /\ now \in Nat
  BY Places DEF Inv, TypeOK
<1>2. \A i \in DOMAIN Chain : i \notin Closed => downUntil[Chain[i]] > now
  BY <1>1 DEF Closed
<1>3. CASE Closed # {} \/ Chain = <<>>
  BY <1>2, <1>3, Places DEF Candidates, Closed
<1>4. CASE ~(Closed # {} \/ Chain = <<>>)
  BY <1>2, <1>4, Places DEF Candidates
<1>. QED
  BY <1>3, <1>4

-------------------------------------------------------------------------------
\* A process that has just started satisfies the invariant.
LEMMA InvInit == Init => Inv
<1>. SUFFICES ASSUME Init PROVE Inv
  OBVIOUS
<1>1. NoCall \in Calls
  BY CircuitAssumption DEF NoCall, Calls
<1>2. TypeOK
  BY <1>1, Places DEF Init, NoCall, TypeOK
<1>3. \A k \in Callers : OnCourse(k)
  BY Places DEF Init, NoCall, OnCourse, Passed
<1>. QED
  BY <1>2, <1>3 DEF Inv

\* A call starts: nothing is behind it but what was down at that moment.
LEMMA BeginInv ==
    ASSUME Inv, NEW k \in Callers, Begin(k)
    PROVE  Inv'
<1>. USE DEF Inv
<1>1. /\ UNCHANGED <<now, downUntil>>
      /\ \A q \in Callers : q # k => call'[q] = call[q]
      /\ call' = [call EXCEPT ![k] = call'[k]]
  BY DEF Begin, TypeOK
<1>2. /\ Candidates \subseteq DOMAIN Chain
      /\ Candidates = {} => Chain = <<>>
      /\ \A i \in DOMAIN Chain : i \notin Candidates => downUntil[Chain[i]] > now
  BY CandidatesAreUp
<1>3. call[k].count + 1 \in 0 .. MaxCalls /\ now \in Nat
  BY CallTyped, CircuitAssumption DEF Begin, TypeOK
<1>4. \A q \in Callers : q # k => OnCourse(q)'
  BY <1>1 DEF OnCourse, Passed
<1>5. CASE Candidates = {}
  <2>1. DOMAIN Chain = {}
    BY <1>2, <1>5
  <2>2. call'[k] = [pc |-> "over", began |-> now, candidates |-> {}, at |-> 0,
                    result |-> "unavailable", count |-> call[k].count + 1]
    BY <1>5 DEF Begin, NoCall, TypeOK
  <2>3. call'[k] \in Calls
    BY <1>3, <2>2 DEF Calls
  <2>4. TypeOK'
    <3>1. call' \in [Callers -> Calls]
      BY <1>1, <2>3 DEF TypeOK
    <3>2. \A q \in Callers : call'[q].pc = "trying" => call'[q].at \in call'[q].candidates
      BY <1>1, <2>2 DEF TypeOK
    <3>. QED
      BY <1>1, <3>1, <3>2 DEF TypeOK
  <2>5. OnCourse(k)'
    BY <1>1, <1>2, <1>3, <1>5, <2>1, <2>2 DEF OnCourse
  <2>. QED
    BY <1>4, <2>4, <2>5
<1>6. CASE Candidates # {}
  <2>. DEFINE first == First(Candidates)
  <2>1. first \in Candidates /\ \A j \in Candidates : first <= j
    BY <1>2, <1>6, FirstIsLeast
  <2>2. call'[k] = [pc |-> "trying", began |-> now, candidates |-> Candidates,
                    at |-> first, result |-> "none", count |-> call[k].count + 1]
    BY <1>6 DEF Begin, TypeOK
  <2>. HIDE DEF first
  <2>3. call'[k] \in Calls
    BY <1>2, <1>3, <2>1, <2>2 DEF Calls
  <2>4. TypeOK'
    BY <1>1, <2>1, <2>2, <2>3 DEF TypeOK
  <2>5. \A i \in DOMAIN Chain : i < first => i \notin Candidates
    BY <1>2, <2>1, Places
  <2>6. OnCourse(k)'
    BY <1>1, <1>2, <1>3, <1>6, <2>2, <2>5 DEF OnCourse, Passed
  <2>. QED
    BY <1>4, <2>4, <2>6
<1>. QED
  BY <1>5, <1>6

\* An attempt is served or refused: nothing more is behind the call than before.
LEMMA EndInv ==
    ASSUME Inv, NEW k \in Callers, Serve(k) \/ Reject(k)
    PROVE  Inv'
<1>. USE DEF Inv
<1>1. /\ UNCHANGED <<now, downUntil>>
      /\ \A q \in Callers : q # k => call'[q] = call[q]
      /\ call[k].pc = "trying" /\ call[k].at \in call[k].candidates
  BY DEF Serve, Reject, TypeOK
<1>2. PICK result \in {"served", "raised"} :
        call' = [call EXCEPT ![k].pc = "over", ![k].result = result]
  BY DEF Serve, Reject
<1>3. call[k] \in Calls /\ call[k].candidates \subseteq DOMAIN Chain
  BY CallTyped
<1>4. /\ call'[k].pc = "over" /\ call'[k].result = result
      /\ call'[k].at = call[k].at /\ call'[k].began = call[k].began
      /\ call'[k].candidates = call[k].candidates /\ call'[k].count = call[k].count
      /\ call'[k] \in Calls
  BY <1>2, <1>3 DEF TypeOK, Calls
<1>5. TypeOK'
  BY <1>1, <1>2, <1>4 DEF TypeOK
<1>6. OnCourse(k)'
  BY <1>1, <1>3, <1>4 DEF OnCourse, Passed
<1>7. \A q \in Callers : q # k => OnCourse(q)'
  BY <1>1 DEF OnCourse, Passed
<1>. QED
  BY <1>5, <1>6, <1>7

\* A candidate failed: its breaker is open beyond this moment, so every call that
\* has it behind it, this one or another, has it down.
LEMMA FailOverInv ==
    ASSUME Inv, NEW k \in Callers, FailOver(k)
    PROVE  Inv'
<1>. USE DEF Inv
<1>1. /\ now' = now /\ now \in Nat /\ call[k].pc = "trying"
      /\ \A q \in Callers : q # k => call'[q] = call[q]
      /\ call'[k] = GoOn(call[k])
      /\ call[k].at \in call[k].candidates
      /\ call' = [call EXCEPT ![k] = GoOn(call[k])]
  BY DEF FailOver, TypeOK
<1>2. call[k] \in Calls /\ call[k].candidates \subseteq DOMAIN Chain
  BY CallTyped
<1>3. OnTrial(k) \in Models
  BY <1>1, <1>2, Places DEF OnTrial
<1>4. downUntil' \in [Models -> Nat]
  BY <1>3, CircuitAssumption DEF FailOver, TypeOK
<1>5. \A m \in Models : downUntil'[m] = IF m = OnTrial(k) THEN now + CircuitTicks ELSE downUntil[m]
  BY <1>3 DEF FailOver, TypeOK
<1>6. \A q \in Callers : call[q].began <= now /\ call[q].began \in Nat
  BY CallTyped DEF OnCourse
<1>7. \A q \in Callers, m \in Models :
        downUntil[m] > call[q].began \/ m = OnTrial(k) => downUntil'[m] > call[q].began
  BY <1>1, <1>5, <1>6, CircuitAssumption DEF TypeOK
<1>8. \A q \in Callers : q # k => OnCourse(q)'
  BY <1>1, <1>7, Places DEF OnCourse, Passed
<1>9. CASE Behind(call[k]) = {}
  <2>0. call'[k] = [call[k] EXCEPT !.pc = "over", !.result = "unavailable"]
    BY <1>1, <1>9 DEF GoOn
  <2>1. /\ call'[k].pc = "over" /\ call'[k].result = "unavailable"
        /\ call'[k].at = call[k].at /\ call'[k].began = call[k].began
        /\ call'[k].candidates = call[k].candidates /\ call'[k].count = call[k].count
        /\ call'[k] \in Calls
    BY <1>2, <2>0 DEF Calls
  <2>2. TypeOK'
    BY <1>1, <1>4, <2>1 DEF TypeOK
  <2>3. \A i \in DOMAIN Chain : i < call[k].at \/ i = call[k].at \/ i \notin call[k].candidates
    BY <1>1, <1>2, <1>9, Places DEF Behind
  <2>4. \A i \in DOMAIN Chain : downUntil'[Chain[i]] > call[k].began
    BY <1>1, <1>7, <2>3, Places DEF OnCourse, Passed, OnTrial
  <2>5. OnCourse(k)'
    BY <1>1, <1>6, <2>1, <2>4 DEF OnCourse
  <2>. QED
    BY <1>8, <2>2, <2>5
<1>10. CASE Behind(call[k]) # {}
  <2>. DEFINE next == First(Behind(call[k]))
  <2>1. Behind(call[k]) \subseteq DOMAIN Chain
    BY <1>2 DEF Behind
  <2>2. next \in Behind(call[k]) /\ \A j \in Behind(call[k]) : next <= j
    BY <1>10, <2>1, FirstIsLeast
  <2>3. call'[k] = [call[k] EXCEPT !.at = next]
    BY <1>1, <1>10 DEF GoOn
  <2>. HIDE DEF next
  <2>4. next \in call[k].candidates /\ next \in DOMAIN Chain /\ next \in Nat
    BY <2>1, <2>2, Places DEF Behind
  <2>5. /\ call'[k].pc = "trying" /\ call'[k].result = call[k].result
        /\ call'[k].at = next /\ call'[k].began = call[k].began
        /\ call'[k].candidates = call[k].candidates /\ call'[k].count = call[k].count
        /\ call'[k] \in Calls
    BY <1>1, <1>2, <2>3, <2>4 DEF Calls
  <2>6. TypeOK'
    BY <1>1, <1>4, <2>4, <2>5 DEF TypeOK
  <2>7. \A i \in DOMAIN Chain : i \in call[k].candidates /\ i > call[k].at => next <= i
    BY <2>2 DEF Behind
  <2>8. \A i \in DOMAIN Chain : i < next =>
          i < call[k].at \/ i = call[k].at \/ i \notin call[k].candidates
    BY <1>1, <1>2, <2>4, <2>7, Places
  <2>9. \A i \in DOMAIN Chain : i < next \/ i \notin call[k].candidates =>
          downUntil'[Chain[i]] > call[k].began
    BY <1>1, <1>7, <2>8, Places DEF OnCourse, Passed, OnTrial
  <2>10. OnCourse(k)'
    BY <1>1, <1>6, <2>5, <2>9 DEF OnCourse, Passed
  <2>. QED
    BY <1>8, <2>6, <2>10
<1>. QED
  BY <1>9, <1>10

\* The clock moves, and a breaker opened in the past stays where it was.
LEMMA TickInv ==
    ASSUME Inv, Tick
    PROVE  Inv'
<1>1. now' = now + 1 /\ now \in Nat /\ UNCHANGED <<downUntil, call>> /\ TypeOK'
  BY DEF Inv, Tick, TypeOK
<1>2. \A k \in Callers : OnCourse(k)'
  BY <1>1, CallTyped DEF Inv, OnCourse, Passed
<1>. QED
  BY <1>1, <1>2 DEF Inv

\* Every step keeps the invariant.
LEMMA InvStep == Inv /\ [Next]_vars => Inv'
<1>. SUFFICES ASSUME Inv, [Next]_vars PROVE Inv'
  OBVIOUS
<1>1. CASE \E k \in Callers : Begin(k)
  BY <1>1, BeginInv
<1>2. CASE \E k \in Callers : Attempt(k)
  BY <1>2, EndInv, FailOverInv DEF Attempt
<1>3. CASE Tick
  BY <1>3, TickInv
<1>4. CASE UNCHANGED vars
  BY <1>4 DEF vars, Inv, TypeOK, OnCourse, Passed
<1>. QED
  BY <1>1, <1>2, <1>3, <1>4 DEF Next, Done

-------------------------------------------------------------------------------
\* The invariant of the chain and its breakers holds in every reachable state
\* (llm.py 102-130).
THEOREM FailoverInvariance == Spec => []Inv
<1>. QED
  BY InvInit, InvStep, PTL DEF Spec

\* A worse model serves only when every better one was down during the call, for
\* any number of callers that share the breakers (llm.py 102-108, 125).
THEOREM BetterModelsWereDown == Spec => []PreferenceKept
<1>1. Inv => PreferenceKept
  BY DEF Inv, OnCourse, Passed, PreferenceKept
<1>. QED
  BY <1>1, FailoverInvariance, PTL

\* A call that reports every model unavailable left none out that was not down
\* during it (llm.py 118-130).
THEOREM UnavailableIsTrue == Spec => []UnavailableMeansDown
<1>1. Inv => UnavailableMeansDown
  BY Places DEF Inv, OnCourse, Passed, UnavailableMeansDown
<1>. QED
  BY <1>1, FailoverInvariance, PTL

\* A call tries something whatever breakers are open, as long as a model is
\* configured (llm.py 103-108).
THEOREM SomethingIsTried == Spec => []AlwaysTries
<1>1. Inv => AlwaysTries
  BY DEF Inv, OnCourse, AlwaysTries
<1>. QED
  BY <1>1, FailoverInvariance, PTL

\* The clock, the breakers and the calls keep their types (llm.py 42-43, 111-120).
THEOREM FailoverTyped == Spec => []TypeOK
<1>1. Inv => TypeOK
  BY DEF Inv
<1>. QED
  BY <1>1, FailoverInvariance, PTL
===============================================================================
