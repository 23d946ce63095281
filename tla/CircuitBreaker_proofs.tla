----------------------- MODULE CircuitBreaker_proofs ------------------------
(***************************************************************************)
(* For every number of callers, threshold and timeout: the breaker's       *)
(* counter, clock and state agree, HALF_OPEN always has a request to leave *)
(* it by, and is entered only after a full timeout without a failure.      *)
(*                                                                         *)
(* The four invariants are proved together: each one needs the type        *)
(* invariant, and RecoveryWaited needs CountMatchesState to know that an   *)
(* OPEN breaker has a clock at all.                                        *)
(***************************************************************************)
EXTENDS CircuitBreaker, TLAPS

IInv == TypeOK /\ CountMatchesState /\ ProbeOutstanding /\ RecoveryWaited

\* What the four constants' assumptions give the arithmetic of the proofs.
LEMMA ConstantsOK ==
    /\ Threshold \in Nat /\ Threshold > 0
    /\ Timeout \in Nat
    /\ MaxFailures \in Nat /\ MaxFailures >= Threshold
    /\ NoFailure \notin Nat
BY ThresholdAssumption, TimeoutAssumption, MaxFailuresAssumption,
   NoFailureAssumption

\* The constructor leaves a CLOSED breaker without a recorded failure.
LEMMA InitIInv == Init => IInv
BY ConstantsOK DEF Init, IInv, TypeOK, CountMatchesState, ProbeOutstanding,
   RecoveryWaited, States, Ages, CallStates

\* onSuccess() and reset() end in the constructor's state.
LEMMA CloseCircuitOK ==
    CloseCircuit =>
        /\ state' \in States /\ failureCount' \in 0..MaxFailures
        /\ failureAge' \in Ages
        /\ CountMatchesState' /\ ProbeOutstanding' /\ RecoveryWaited'
BY ConstantsOK DEF CloseCircuit, States, Ages, CountMatchesState,
   ProbeOutstanding, RecoveryWaited

\* Every step of execute(), reset() and the clock preserves the invariant.
LEMMA NextIInv == IInv /\ [Next]_vars => IInv'
<1> USE ConstantsOK
<1> SUFFICES ASSUME IInv, [Next]_vars PROVE IInv'
    OBVIOUS
<1>1. ASSUME NEW c \in Callers, Admit(c) PROVE IInv'
    <2>1. TypeOK'
        BY <1>1 DEF IInv, TypeOK, Admit, Settle, States, CallStates
    <2>2. CountMatchesState'
        BY <1>1 DEF IInv, TypeOK, CountMatchesState, Admit, States
    <2>3. ProbeOutstanding'
        BY <1>1 DEF IInv, TypeOK, ProbeOutstanding, Admit, Settle
    <2>4. RecoveryWaited'
        BY <1>1 DEF IInv, TypeOK, CountMatchesState, RecoveryWaited, Admit,
           ShouldAttemptRecovery, States, Ages
    <2> QED BY <2>1, <2>2, <2>3, <2>4 DEF IInv
<1>2. ASSUME NEW c \in Callers, Reject(c) PROVE IInv'
    <2>1. TypeOK'
        BY <1>2 DEF IInv, TypeOK, Reject, Settle, breaker, CallStates
    <2>2. CountMatchesState' /\ ProbeOutstanding' /\ RecoveryWaited'
        BY <1>2 DEF IInv, CountMatchesState, ProbeOutstanding,
           RecoveryWaited, Reject, breaker
    <2> QED BY <2>1, <2>2 DEF IInv
<1>3. ASSUME NEW c \in Callers, OnSuccess(c) PROVE IInv'
    <2>1. TypeOK'
        BY <1>3, CloseCircuitOK DEF IInv, TypeOK, OnSuccess, Settle, CallStates
    <2> QED BY <1>3, <2>1, CloseCircuitOK DEF IInv, OnSuccess
<1>4. ASSUME NEW c \in Callers, OnFailure(c) PROVE IInv'
    <2>1. failureCount' \in 1..MaxFailures /\ failureAge' = 0
        BY <1>4 DEF IInv, TypeOK, OnFailure, CountFailure
    <2>2. state' \in {"CLOSED", "OPEN"}
        BY <1>4 DEF IInv, TypeOK, OnFailure, States
    <2>3. TypeOK'
        BY <1>4, <2>1, <2>2
        DEF IInv, TypeOK, OnFailure, Settle, States, Ages, CallStates
    <2>4. state' = "CLOSED" <=> failureCount' < Threshold
        BY <1>4, <2>1 DEF IInv, TypeOK, CountMatchesState, OnFailure,
           CountFailure, States
    <2>5. CountMatchesState' /\ ProbeOutstanding' /\ RecoveryWaited'
        BY <2>1, <2>2, <2>4 DEF CountMatchesState, ProbeOutstanding,
           RecoveryWaited
    <2> QED BY <2>3, <2>5 DEF IInv
<1>5. CASE Reset
    <2>1. TypeOK'
        BY <1>5, CloseCircuitOK DEF IInv, TypeOK, Reset
    <2> QED BY <1>5, <2>1, CloseCircuitOK DEF IInv, Reset
<1>6. CASE Tick
    <2>1. TypeOK'
        BY <1>6 DEF IInv, TypeOK, Tick, Ages
    <2>2. CountMatchesState' /\ ProbeOutstanding' /\ RecoveryWaited'
        BY <1>6 DEF IInv, TypeOK, CountMatchesState, ProbeOutstanding,
           RecoveryWaited, Tick
    <2> QED BY <2>1, <2>2 DEF IInv
<1>7. CASE ResourceFlips
    BY <1>7 DEF IInv, TypeOK, CountMatchesState, ProbeOutstanding,
       RecoveryWaited, ResourceFlips, breaker
<1>8. CASE UNCHANGED vars
    BY <1>8 DEF IInv, TypeOK, CountMatchesState, ProbeOutstanding,
       RecoveryWaited, vars
<1> QED
    BY <1>1, <1>2, <1>3, <1>4, <1>5, <1>6, <1>7, <1>8
    DEF Next, Call, Complete

\* Type correctness and the agreement of the breaker's three fields, of
\* HALF_OPEN with the calls in flight, and of HALF_OPEN with the clock.
THEOREM BreakerInvariant == Spec => []IInv
BY InitIInv, NextIInv, PTL DEF Spec

\* The state machine and the failure counter never disagree.
THEOREM CountMatchesStateAlways == Spec => []CountMatchesState
BY BreakerInvariant, PTL DEF IInv

\* HALF_OPEN is never left without a request that can settle it.
THEOREM ProbeOutstandingAlways == Spec => []ProbeOutstanding
BY BreakerInvariant, PTL DEF IInv

\* A recovery attempt always waited the whole timeout after the last failure.
THEOREM RecoveryWaitedAlways == Spec => []RecoveryWaited
BY BreakerInvariant, PTL DEF IInv
=============================================================================
