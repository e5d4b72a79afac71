------------------------- MODULE OperationalCacheProofs -------------------------
(***************************************************************************)
(* The safety properties of OperationalCache, for any number of requests,  *)
(* keys and changes of the cluster.  IInv is inductive: one lemma for each *)
(* step that can disturb it.                                               *)
(***************************************************************************)
EXTENDS OperationalCache, TLAPS

USE OperationalCacheAssumption
USE DEF View, Loading, None, Token, AtLeast, Newest, Answered

\* An empty cache satisfies IInv.
LEMMA InitIInv == Init => IInv
BY DEF Init, IInv, TypeOK, FlightsAreLed, WaitersAreServed, NothingFromTheFuture,
       StoredIsDue, AnswersNeverGoBack

\* A step that changes nothing keeps IInv.
LEMMA StutterStep == IInv /\ UNCHANGED vars => IInv'
BY DEF vars, cache, calls, history, IInv, TypeOK, FlightsAreLed, WaitersAreServed,
       NothingFromTheFuture, StoredIsDue, AnswersNeverGoBack

\* An answer from the cache keeps IInv: the entry is as new as anything due.
LEMMA HitStep ==
    ASSUME IInv, NEW c \in Caller, NEW k \in Key, Hit(c, k)
    PROVE IInv'
<1> USE DEF Hit, Enter, Asks, cache, calls, history
<1>1. TypeOK'
  BY DEF IInv, TypeOK
<1>2. FlightsAreLed'
  BY DEF IInv, TypeOK, FlightsAreLed
<1>3. WaitersAreServed'
  BY DEF IInv, TypeOK, FlightsAreLed, WaitersAreServed
<1>4. NothingFromTheFuture'
  BY DEF IInv, TypeOK, NothingFromTheFuture
<1>5. StoredIsDue'
  BY DEF IInv, TypeOK, FlightsAreLed, NothingFromTheFuture, StoredIsDue
<1>6. AnswersNeverGoBack'
  BY DEF IInv, TypeOK, StoredIsDue, AnswersNeverGoBack
<1> QED BY <1>1, <1>2, <1>3, <1>4, <1>5, <1>6 DEF IInv

\* A request joins a call only while that call is in flight.
LEMMA JoinStep ==
    ASSUME IInv, NEW c \in Caller, NEW k \in Key, Join(c, k)
    PROVE IInv'
<1> USE DEF Join, Enter, Asks, cache, calls, history
<1>1. TypeOK'
  BY DEF IInv, TypeOK
<1>2. FlightsAreLed'
  BY DEF IInv, TypeOK, FlightsAreLed
<1>3. WaitersAreServed'
  BY DEF IInv, TypeOK, FlightsAreLed, WaitersAreServed
<1>4. NothingFromTheFuture'
  BY DEF IInv, TypeOK, NothingFromTheFuture
<1>5. StoredIsDue'
  BY DEF IInv, TypeOK, FlightsAreLed, NothingFromTheFuture, StoredIsDue
<1>6. AnswersNeverGoBack'
  BY DEF IInv, TypeOK, StoredIsDue, AnswersNeverGoBack
<1> QED BY <1>1, <1>2, <1>3, <1>4, <1>5, <1>6 DEF IInv

\* A request leads only a key that nobody is loading.
LEMMA LeadStep ==
    ASSUME IInv, NEW c \in Caller, NEW k \in Key, Lead(c, k)
    PROVE IInv'
<1> USE DEF Lead, Enter, Asks, cache, calls, history
<1>1. TypeOK'
  BY DEF IInv, TypeOK
<1>2. FlightsAreLed'
  BY DEF IInv, TypeOK, FlightsAreLed
<1>3. WaitersAreServed'
  BY DEF IInv, TypeOK, FlightsAreLed, WaitersAreServed
<1>4. NothingFromTheFuture'
  BY DEF IInv, TypeOK, NothingFromTheFuture
<1>5. StoredIsDue'
  BY DEF IInv, TypeOK, FlightsAreLed, NothingFromTheFuture, StoredIsDue
<1>6. AnswersNeverGoBack'
  BY DEF IInv, TypeOK, StoredIsDue, AnswersNeverGoBack
<1> QED BY <1>1, <1>2, <1>3, <1>4, <1>5, <1>6 DEF IInv

\* A loader that returns a value as new as what is due keeps IInv.
LEMMA LoaderReturnsStep ==
    ASSUME IInv, NEW c \in Caller, NEW k \in Key, NEW value \in Nat,
           LoaderReturns(c, k, value), value <= Newest(k), value # None => value >= due[k],
           k # Access => frame[c][Access] \in {"none", "back"}
    PROVE IInv'
<1> USE DEF LoaderReturns, cache, calls, history
<1>1. TypeOK'
  BY DEF IInv, TypeOK
<1>2. FlightsAreLed'
  <2>1. \A d \in Caller, l \in Key :
          frame'[d][l] \in Loading <=> frame[d][l] \in Loading
    BY DEF IInv, TypeOK
  <2>2. flight' = flight
    OBVIOUS
  <2>3. ASSUME NEW d \in Caller, NEW l \in Key, frame'[d][l] \in Loading
        PROVE flight'[l] = d
    <3>1. frame[d][l] \in Loading
      BY <2>1, <2>3
    <3> QED BY <3>1, <2>2 DEF IInv, FlightsAreLed
  <2>4. ASSUME NEW l \in Key, flight'[l] # Nobody
        PROVE frame'[flight'[l]][l] \in Loading
    <3>1. flight[l] \in Caller /\ frame[flight[l]][l] \in Loading
      BY <2>2, <2>4 DEF IInv, TypeOK, FlightsAreLed
    <3> QED BY <3>1, <2>1, <2>2
  <2> QED BY <2>3, <2>4 DEF FlightsAreLed
<1>3. WaitersAreServed'
  BY DEF IInv, TypeOK, FlightsAreLed, WaitersAreServed
<1>4. NothingFromTheFuture'
  BY DEF IInv, TypeOK, NothingFromTheFuture
<1>5. StoredIsDue'
  BY DEF IInv, TypeOK, FlightsAreLed, NothingFromTheFuture, StoredIsDue
<1>6. AnswersNeverGoBack'
  BY DEF IInv, TypeOK, StoredIsDue, AnswersNeverGoBack
<1> QED BY <1>1, <1>2, <1>3, <1>4, <1>5, <1>6 DEF IInv

\* A value that has been read is as new as the cluster, hence as anything due.
LEMMA ObserveStep ==
    ASSUME IInv, NEW c \in Caller, NEW k \in Key, Observe(c, k) PROVE IInv'
<1> DEFINE value == IF k = Access THEN Token ELSE live
<1>1. value \in Nat /\ value <= Newest(k) /\ value >= due[k]
  BY DEF IInv, TypeOK, NothingFromTheFuture
<1>2. LoaderReturns(c, k, value) /\ (k # Access => frame[c][Access] = "back")
  BY DEF Observe
<1> HIDE DEF value
<1> QED BY <1>1, <1>2, LoaderReturnsStep

\* A failed loader has no value, and that is its result.
LEMMA LoaderFailsStep ==
    ASSUME IInv, NEW c \in Caller, NEW k \in Key, LoaderFails(c, k) PROVE IInv'
<1>1. None \in Nat /\ None <= Newest(k)
  BY DEF IInv, TypeOK
<1>2. LoaderReturns(c, k, None)
  BY DEF LoaderFails
<1>3. k # Access => frame[c][Access] \in {"none", "back"}
  BY DEF LoaderFails
<1> QED BY <1>1, <1>2, <1>3, LoaderReturnsStep

\* Storing the result, closing the call and waking the waiters is one step: no waiter
\* is left behind, and each of them gets a value as new as what it asked for.
LEMMA PublishStep ==
    ASSUME IInv, NEW c \in Caller, NEW k \in Key, Publish(c, k)
    PROVE IInv'
<1> USE DEF Publish, cache, calls, history
<1>1. TypeOK'
  BY DEF IInv, TypeOK
<1>2. FlightsAreLed'
  BY DEF IInv, TypeOK, FlightsAreLed
<1>3. WaitersAreServed'
  BY DEF IInv, TypeOK, FlightsAreLed, WaitersAreServed
<1>4. NothingFromTheFuture'
  BY DEF IInv, TypeOK, NothingFromTheFuture
<1>5. StoredIsDue'
  BY DEF IInv, TypeOK, FlightsAreLed, NothingFromTheFuture, StoredIsDue
<1>6. AnswersNeverGoBack'
  BY DEF IInv, TypeOK, StoredIsDue, AnswersNeverGoBack
<1> QED BY <1>1, <1>2, <1>3, <1>4, <1>5, <1>6 DEF IInv

\* A woken waiter goes on with the result it was handed.
LEMMA WakeStep ==
    ASSUME IInv, NEW c \in Caller, NEW k \in Key, Wake(c, k)
    PROVE IInv'
<1> USE DEF Wake, cache, calls, history
<1>1. TypeOK'
  BY DEF IInv, TypeOK
<1>2. FlightsAreLed'
  BY DEF IInv, TypeOK, FlightsAreLed
<1>3. WaitersAreServed'
  BY DEF IInv, TypeOK, FlightsAreLed, WaitersAreServed
<1>4. NothingFromTheFuture'
  BY DEF IInv, TypeOK, NothingFromTheFuture
<1>5. StoredIsDue'
  BY DEF IInv, TypeOK, FlightsAreLed, NothingFromTheFuture, StoredIsDue
<1>6. AnswersNeverGoBack'
  BY DEF IInv, TypeOK, StoredIsDue, AnswersNeverGoBack
<1> QED BY <1>1, <1>2, <1>3, <1>4, <1>5, <1>6 DEF IInv

\* A waiter whose own context is done leaves without a value.
LEMMA GiveUpStep ==
    ASSUME IInv, NEW c \in Caller, NEW k \in Key, GiveUp(c, k)
    PROVE IInv'
<1> USE DEF GiveUp, cache, calls, history
<1>1. TypeOK'
  BY DEF IInv, TypeOK
<1>2. FlightsAreLed'
  BY DEF IInv, TypeOK, FlightsAreLed
<1>3. WaitersAreServed'
  BY DEF IInv, TypeOK, FlightsAreLed, WaitersAreServed
<1>4. NothingFromTheFuture'
  BY DEF IInv, TypeOK, NothingFromTheFuture
<1>5. StoredIsDue'
  BY DEF IInv, TypeOK, FlightsAreLed, NothingFromTheFuture, StoredIsDue
<1>6. AnswersNeverGoBack'
  BY DEF IInv, TypeOK, StoredIsDue, AnswersNeverGoBack
<1> QED BY <1>1, <1>2, <1>3, <1>4, <1>5, <1>6 DEF IInv

\* A finished request leaves no call behind.
LEMMA RespondStep ==
    ASSUME IInv, NEW c \in Caller, NEW v \in View, Respond(c, v)
    PROVE IInv'
<1> USE DEF Respond, cache, calls, history
<1>1. TypeOK'
  BY DEF IInv, TypeOK
<1>2. FlightsAreLed'
  BY DEF IInv, TypeOK, FlightsAreLed
<1>3. WaitersAreServed'
  BY DEF IInv, TypeOK, FlightsAreLed, WaitersAreServed
<1>4. NothingFromTheFuture'
  BY DEF IInv, TypeOK, NothingFromTheFuture
<1>5. StoredIsDue'
  BY DEF IInv, TypeOK, FlightsAreLed, NothingFromTheFuture, StoredIsDue
<1>6. AnswersNeverGoBack'
  BY DEF IInv, TypeOK, StoredIsDue, AnswersNeverGoBack
<1> QED BY <1>1, <1>2, <1>3, <1>4, <1>5, <1>6 DEF IInv

\* A client that goes away changes no call.
LEMMA HangUpStep ==
    ASSUME IInv, NEW c \in Caller, HangUp(c)
    PROVE IInv'
<1> USE DEF HangUp, cache, calls, history
<1>1. TypeOK'
  BY DEF IInv, TypeOK
<1>2. FlightsAreLed'
  BY DEF IInv, TypeOK, FlightsAreLed
<1>3. WaitersAreServed'
  BY DEF IInv, TypeOK, FlightsAreLed, WaitersAreServed
<1>4. NothingFromTheFuture'
  BY DEF IInv, TypeOK, NothingFromTheFuture
<1>5. StoredIsDue'
  BY DEF IInv, TypeOK, FlightsAreLed, NothingFromTheFuture, StoredIsDue
<1>6. AnswersNeverGoBack'
  BY DEF IInv, TypeOK, StoredIsDue, AnswersNeverGoBack
<1> QED BY <1>1, <1>2, <1>3, <1>4, <1>5, <1>6 DEF IInv

\* A change of the cluster makes nothing in the cache newer.
LEMMA ChangeStep ==
    ASSUME IInv, Change
    PROVE IInv'
<1> USE DEF Change, cache, calls, history
<1>1. TypeOK'
  BY DEF IInv, TypeOK
<1>2. FlightsAreLed'
  BY DEF IInv, TypeOK, FlightsAreLed
<1>3. WaitersAreServed'
  BY DEF IInv, TypeOK, FlightsAreLed, WaitersAreServed
<1>4. NothingFromTheFuture'
  BY DEF IInv, TypeOK, NothingFromTheFuture
<1>5. StoredIsDue'
  BY DEF IInv, TypeOK, FlightsAreLed, NothingFromTheFuture, StoredIsDue
<1>6. AnswersNeverGoBack'
  BY DEF IInv, TypeOK, StoredIsDue, AnswersNeverGoBack
<1> QED BY <1>1, <1>2, <1>3, <1>4, <1>5, <1>6 DEF IInv

\* An entry that expires takes nothing from the calls in flight.
LEMMA ExpireStep ==
    ASSUME IInv, NEW k \in Key, Expire(k)
    PROVE IInv'
<1> USE DEF Expire, cache, calls, history
<1>1. TypeOK'
  BY DEF IInv, TypeOK
<1>2. FlightsAreLed'
  BY DEF IInv, TypeOK, FlightsAreLed
<1>3. WaitersAreServed'
  BY DEF IInv, TypeOK, FlightsAreLed, WaitersAreServed
<1>4. NothingFromTheFuture'
  BY DEF IInv, TypeOK, NothingFromTheFuture
<1>5. StoredIsDue'
  BY DEF IInv, TypeOK, FlightsAreLed, NothingFromTheFuture, StoredIsDue
<1>6. AnswersNeverGoBack'
  BY DEF IInv, TypeOK, StoredIsDue, AnswersNeverGoBack
<1> QED BY <1>1, <1>2, <1>3, <1>4, <1>5, <1>6 DEF IInv

\* An invalidation raises what is due only for keys that nobody is loading, and
\* leaves no older entry behind.
LEMMA InvalidateStep ==
    ASSUME IInv, NEW keys \in Resources, Invalidate(keys)
    PROVE IInv'
<1> USE DEF Invalidate, Resources, cache, calls, history
<1>1. TypeOK'
  BY DEF IInv, TypeOK
<1>2. FlightsAreLed'
  BY DEF IInv, TypeOK, FlightsAreLed
<1>3. WaitersAreServed'
  BY DEF IInv, TypeOK, FlightsAreLed, WaitersAreServed
<1>4. NothingFromTheFuture'
  BY DEF IInv, TypeOK, NothingFromTheFuture
<1>5. StoredIsDue'
  BY DEF IInv, TypeOK, FlightsAreLed, NothingFromTheFuture, StoredIsDue
<1>6. AnswersNeverGoBack'
  BY DEF IInv, TypeOK, StoredIsDue, AnswersNeverGoBack
<1> QED BY <1>1, <1>2, <1>3, <1>4, <1>5, <1>6 DEF IInv

\* IInv is inductive.
LEMMA NextIInv == IInv /\ [Next]_vars => IInv'
<1> SUFFICES ASSUME IInv, [Next]_vars PROVE IInv'
  OBVIOUS
<1>1. ASSUME NEW c \in Caller, NEW k \in Key, Call(c, k) PROVE IInv'
  BY <1>1, HitStep, JoinStep, LeadStep, ObserveStep, LoaderFailsStep,
     PublishStep, WakeStep, GiveUpStep DEF Call, Ask, Load
<1>2. ASSUME NEW c \in Caller, NEW v \in View, Respond(c, v) PROVE IInv'
  BY <1>2, RespondStep
<1>3. CASE Work
  BY <1>1, <1>2, <1>3, HangUpStep, ChangeStep, ExpireStep DEF Work
<1>4. CASE \E keys \in Resources : Invalidate(keys)
  BY <1>4, InvalidateStep
<1>5. CASE UNCHANGED vars
  BY <1>5, StutterStep
<1> QED BY <1>3, <1>4, <1>5 DEF Next

\* The invariant holds in every reachable state.
THEOREM Inductive == Spec => []IInv
<1> QED BY InitIInv, NextIInv, PTL DEF Spec

\* Type correctness of the cache for every set of requests and keys.
THEOREM TypeCorrect == Spec => []TypeOK
<1>1. IInv => TypeOK
  BY DEF IInv
<1> QED BY Inductive, <1>1, PTL

\* However many requests ask for however many keys, no loader ever runs twice at
\* the same time, the nested one included.
THEOREM LoadersAreCoalesced == Spec => []SingleFlight
<1>1. IInv => SingleFlight
  BY DEF IInv, FlightsAreLed, SingleFlight
<1> QED BY Inductive, <1>1, PTL

\* A waiting request always has another request's running loader to wait for.
THEOREM NobodyWaitsInVain == Spec => []WaitersAreServed
<1>1. IInv => WaitersAreServed
  BY DEF IInv
<1> QED BY Inductive, <1>1, PTL

\* A request is answered with an observation at least as new as any published, or
\* quietly invalidated, before it asked.
THEOREM TimeDoesNotRunBackwards == Spec => []AnswersNeverGoBack
<1>1. IInv => AnswersNeverGoBack
  BY DEF IInv
<1> QED BY Inductive, <1>1, PTL
===============================================================================
