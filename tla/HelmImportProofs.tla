--------------------------- MODULE HelmImportProofs ---------------------------
(* What HelmImport guarantees for any number of clients, any values of the  *)
(* object and any number of tries.                                          *)
EXTENDS HelmImport, TLAPS

\* The patch of client.go turns an object into an object.
LEMMA HelmPatchType ==
    ASSUME NEW o \in KubeObject PROVE HelmPatch(o) \in KubeObject
BY DEF HelmPatch, KubeObject, Annotations, Labels

\* Leaving the loop resets a client's call to a well-typed one.
LEMMA ReturnType ==
    ASSUME TypeOK, NEW c \in Clients, NEW a \in {"ok", "failed"}, Return(c, a)
    PROVE  client' \in [Clients -> Calls]
<1>1. [pc |-> a, tries |-> 0, request |-> NoRequest, fresh |-> FALSE] \in Calls
  BY ImportAssumption DEF Calls, NoRequest
<1>2. QED
  BY <1>1 DEF Return, TypeOK

\* A write only makes copies stale.
LEMMA WrittenType ==
    ASSUME TypeOK PROVE Written \in [Clients -> Calls]
<1>1. ASSUME NEW d \in Clients PROVE [client[d] EXCEPT !.fresh = FALSE] \in Calls
  BY DEF TypeOK, Calls
<1>2. QED
  BY <1>1 DEF Written

\* Fields of a client have their types throughout the calls of Import...IntoHelm.
THEOREM TypeCorrect == Spec => []TypeOK
<1>1. Init => TypeOK
  <2>1. ASSUME Init PROVE client \in [Clients -> Calls]
    BY <2>1, ImportAssumption DEF Init, Calls, NoRequest
  <2>2. QED
    BY <2>1, ImportAssumption DEF Init, TypeOK
<1>2. TypeOK /\ [Next]_vars => TypeOK'
  <2> SUFFICES ASSUME TypeOK, [Next]_vars PROVE TypeOK'
    OBVIOUS
  <2>1. CASE OtherWrite
    BY <2>1, WrittenType, ImportAssumption DEF OtherWrite, TypeOK
  <2>2. ASSUME NEW c \in Clients, Call(c) PROVE TypeOK'
    <3>1. 1 \in 0..MaxTries
      BY ImportAssumption
    <3>2. [client[c] EXCEPT !.pc = "get", !.tries = 1] \in Calls
      BY <3>1 DEF TypeOK, Calls
    <3>3. QED
      BY <2>2, <3>2 DEF Call, TypeOK
  <2>3. ASSUME NEW c \in Clients, Get(c) PROVE TypeOK'
    <3>1. CASE object = Absent \/ HelmPatch(object) = object
      BY <2>3, <3>1, ReturnType DEF Get, TypeOK
    <3>2. CASE object # Absent /\ HelmPatch(object) # object
      <4>1. HelmPatch(object) \in KubeObject
        BY <3>2, HelmPatchType DEF TypeOK
      <4>2. [client[c] EXCEPT !.pc = "update", !.fresh = TRUE,
                              !.request = HelmPatch(object)] \in Calls
        BY <4>1 DEF TypeOK, Calls
      <4>3. QED
        BY <2>3, <3>2, <4>2 DEF Get, TypeOK
    <3>3. QED
      BY <3>1, <3>2
  <2>4. ASSUME NEW c \in Clients, UpdateConflict(c) PROVE TypeOK'
    <3>1. CASE Exhausted(c)
      BY <2>4, <3>1, ReturnType DEF UpdateConflict, TypeOK
    <3>2. CASE ~Exhausted(c)
      <4>1. client[c].tries + 1 \in 0..MaxTries
        BY <3>2, ImportAssumption DEF TypeOK, Calls, Exhausted
      <4>2. [client[c] EXCEPT !.pc = "get", !.tries = @ + 1,
                              !.request = NoRequest] \in Calls
        BY <4>1 DEF TypeOK, Calls, NoRequest
      <4>3. QED
        BY <2>4, <3>2, <4>2 DEF UpdateConflict, TypeOK
    <3>3. QED
      BY <3>1, <3>2
  <2>5. ASSUME NEW c \in Clients, UpdateRejected(c) PROVE TypeOK'
    <3>1. Return(c, "failed") /\ UNCHANGED object
      BY <2>5 DEF UpdateRejected
    <3>2. client' \in [Clients -> Calls]
      BY <3>1, ReturnType
    <3>3. QED
      BY <3>1, <3>2 DEF TypeOK
  <2>6. ASSUME NEW c \in Clients, UpdateApplied(c) PROVE TypeOK'
    <3>1. PICK answer \in {"ok", "failed"} :
             client' = [Written EXCEPT ![c] =
               [pc |-> answer, tries |-> 0, request |-> NoRequest, fresh |-> FALSE]]
      BY <2>6 DEF UpdateApplied
    <3>2. [pc |-> answer, tries |-> 0, request |-> NoRequest, fresh |-> FALSE] \in Calls
      BY ImportAssumption DEF Calls, NoRequest
    <3>3. client' \in [Clients -> Calls]
      BY <3>1, <3>2, WrittenType
    <3>4. client[c].request \in KubeObject \cup {Absent}
      BY DEF TypeOK, Calls
    <3>5. QED
      BY <2>6, <3>3, <3>4 DEF UpdateApplied, TypeOK
  <2>7. ASSUME NEW c \in Clients, Unavailable(c) PROVE TypeOK'
    BY <2>7, ReturnType DEF Unavailable, TypeOK
  <2>8. CASE UNCHANGED vars
    BY <2>8 DEF vars, TypeOK
  <2>9. QED
    BY <2>1, <2>2, <2>3, <2>4, <2>5, <2>6, <2>7, <2>8 DEF Next, Running
<1>3. QED
  BY <1>1, <1>2, PTL DEF Spec

-----------------------------------------------------------------------------
\* A copy still fresh is the patched object: the server's version check makes
\* it inductive, since every write takes the freshness of all other copies.
THEOREM FreshCopies == Spec => []FreshRequest
<1>1. Init => FreshRequest
  BY DEF Init, FreshRequest
<1>2. TypeOK /\ FreshRequest /\ [Next]_vars => FreshRequest'
  <2> SUFFICES ASSUME TypeOK, FreshRequest, [Next]_vars,
                      NEW d \in Clients, client'[d].fresh
               PROVE  /\ client'[d].pc = "update" /\ object' # Absent
                      /\ client'[d].request = HelmPatch(object')
    BY DEF FreshRequest
  <2> USE DEF TypeOK, FreshRequest, Calls
  <2>1. ~OtherWrite
    BY DEF OtherWrite, Written
  <2>2. ASSUME NEW c \in Clients, Call(c)
        PROVE  client'[d] = client[d] /\ UNCHANGED object
    BY <2>2 DEF Call
  <2>3. ASSUME NEW c \in Clients, Get(c)
        PROVE  \/ client'[d] = client[d] /\ UNCHANGED object
               \/ /\ client'[d].pc = "update" /\ object' # Absent
                  /\ client'[d].request = HelmPatch(object')
    <3>1. CASE d # c
      BY <2>3, <3>1 DEF Get, Return
    <3>2. CASE d = c /\ Return(c, "failed")
      BY <3>2 DEF Return
    <3>3. CASE d = c /\ Return(c, "ok")
      BY <3>3 DEF Return
    <3>4. CASE /\ d = c /\ object # Absent /\ UNCHANGED object
               /\ client' = [client EXCEPT ![c] =
                    [client[c] EXCEPT !.pc = "update", !.fresh = TRUE,
                                      !.request = HelmPatch(object)]]
      BY <3>4
    <3>5. QED
      BY <2>3, <3>1, <3>2, <3>3, <3>4 DEF Get
  <2>4. ASSUME NEW c \in Clients, UpdateConflict(c)
        PROVE  client'[d] = client[d] /\ UNCHANGED object
    <3>1. CASE d # c
      BY <2>4, <3>1 DEF UpdateConflict, Return
    <3>2. CASE d = c /\ Exhausted(c)
      BY <2>4, <3>2 DEF UpdateConflict, Return
    <3>3. CASE d = c /\ ~Exhausted(c)
      BY <2>4, <3>3 DEF UpdateConflict
    <3>4. QED
      BY <3>1, <3>2, <3>3
  <2>5. ASSUME NEW c \in Clients, UpdateRejected(c) \/ Unavailable(c)
        PROVE  client'[d] = client[d] /\ UNCHANGED object
    BY <2>5 DEF UpdateRejected, Unavailable, Return
  <2>6. ASSUME NEW c \in Clients, UpdateApplied(c)
        PROVE  FALSE
    BY <2>6 DEF UpdateApplied, Written
  <2>7. CASE UNCHANGED vars
    BY <2>7 DEF vars
  <2>8. QED
    BY <2>1, <2>2, <2>3, <2>4, <2>5, <2>6, <2>7 DEF Next, Running
<1>3. QED
  BY <1>1, <1>2, TypeCorrect, PTL DEF Spec

-----------------------------------------------------------------------------
\* Writes make copies stale, which no outcome shows.
LEMMA OutcomeOfWritten ==
    ASSUME TypeOK
    PROVE  /\ \A d \in Clients : Written[d].pc = client[d].pc
           /\ client' = Written => outcome' = outcome
BY DEF TypeOK, Calls, Written, outcome

\* Returning from the loop with answer a is the outcome a.
LEMMA OutcomeOfReturn ==
    ASSUME TypeOK, NEW c \in Clients, NEW a \in {"ok", "failed"}, Return(c, a)
    PROVE  outcome' = [outcome EXCEPT ![c] = a]
BY DEF TypeOK, Return, outcome

\* The instance computes with the operators of KubeClient.
LEMMA AtomicOperators ==
    ASSUME NEW o
    PROVE  /\ Atomic!HelmPatch(o) = HelmPatch(o)
           /\ Atomic!Admissible(o) = Admissible(o)
BY DEF HelmPatch, Annotations, Admissible,
       Atomic!HelmPatch, Atomic!Annotations, Atomic!Admissible

\* The get-patch-update loop is one atomic relabelling of the object, for any
\* number of clients, writers and tries: nobody's change is overwritten.
THEOREM LoopIsAtomic == Spec => ImplementsAtomicImport
<1>1. Init => Atomic!Init
  BY DEF Init, Atomic!Init, outcome
<1>2. TypeOK /\ FreshRequest /\ [Next]_vars => [Atomic!Next]_(Atomic!vars)
  <2> SUFFICES ASSUME TypeOK, FreshRequest, [Next]_vars
               PROVE  Atomic!Next \/ UNCHANGED Atomic!vars
    OBVIOUS
  <2>1. CASE OtherWrite
    <3>1. outcome' = outcome
      BY <2>1, OutcomeOfWritten DEF OtherWrite
    <3>2. Atomic!OtherWrite
      BY <2>1, <3>1 DEF OtherWrite, Atomic!OtherWrite
    <3>3. QED
      BY <3>2 DEF Atomic!Next
  <2>2. ASSUME NEW c \in Clients, Call(c) PROVE Atomic!Call(c)
    <3>1. outcome[c] # "pending"
      BY <2>2 DEF Call, outcome
    <3>2. outcome' = [outcome EXCEPT ![c] = "pending"]
      BY <2>2 DEF Call, outcome, TypeOK, Calls
    <3>3. QED
      BY <2>2, <3>1, <3>2 DEF Call, Atomic!Call
  <2>3. ASSUME NEW c \in Clients, Get(c)
        PROVE  Atomic!Import(c) \/ Atomic!Fail(c) \/ UNCHANGED Atomic!vars
    <3>1. outcome[c] = "pending"
      BY <2>3 DEF Get, outcome
    <3>2. CASE object = Absent
      <4>1. Return(c, "failed") /\ UNCHANGED object
        BY <2>3, <3>2 DEF Get
      <4>2. Atomic!Fail(c)
        BY <3>1, <4>1, OutcomeOfReturn DEF Atomic!Fail
      <4>3. QED
        BY <4>2
    <3>3. CASE object # Absent /\ HelmPatch(object) = object
      <4>1. Return(c, "ok") /\ UNCHANGED object
        BY <2>3, <3>3 DEF Get
      <4>2. outcome' = [outcome EXCEPT ![c] = "ok"]
        BY <4>1, OutcomeOfReturn
      <4>3. Atomic!Import(c)
        BY <3>1, <3>3, <4>1, <4>2, AtomicOperators DEF Atomic!Import
      <4>4. QED
        BY <4>3
    <3>4. CASE object # Absent /\ HelmPatch(object) # object
      <4>1. outcome' = outcome
        BY <2>3, <3>4 DEF Get, outcome, TypeOK, Calls
      <4>2. QED
        BY <2>3, <4>1 DEF Get, Atomic!vars
    <3>5. QED
      BY <3>2, <3>3, <3>4
  <2>4. ASSUME NEW c \in Clients, UpdateConflict(c)
        PROVE  Atomic!Fail(c) \/ UNCHANGED Atomic!vars
    <3>1. CASE Exhausted(c)
      <4>1. Return(c, "failed") /\ UNCHANGED object
        BY <2>4, <3>1 DEF UpdateConflict
      <4>2. outcome[c] = "pending"
        BY <2>4 DEF UpdateConflict, outcome
      <4>3. Atomic!Fail(c)
        BY <4>1, <4>2, OutcomeOfReturn DEF Atomic!Fail
      <4>4. QED
        BY <4>3
    <3>2. CASE ~Exhausted(c)
      <4>1. outcome' = outcome
        BY <2>4, <3>2 DEF UpdateConflict, outcome, TypeOK, Calls
      <4>2. QED
        BY <2>4, <4>1 DEF UpdateConflict, Atomic!vars
    <3>3. QED
      BY <3>1, <3>2
  <2>5. ASSUME NEW c \in Clients, UpdateRejected(c) \/ Unavailable(c)
        PROVE  Atomic!Fail(c)
    <3>1. Return(c, "failed") /\ UNCHANGED object
      BY <2>5 DEF UpdateRejected, Unavailable
    <3>2. outcome[c] = "pending"
      BY <2>5 DEF UpdateRejected, Unavailable, outcome
    <3>3. QED
      BY <3>1, <3>2, OutcomeOfReturn DEF Atomic!Fail
  <2>6. ASSUME NEW c \in Clients, UpdateApplied(c) PROVE Atomic!Import(c)
    <3>1. outcome[c] = "pending"
      BY <2>6 DEF UpdateApplied, outcome
    <3>2. /\ object # Absent /\ Admissible(HelmPatch(object))
          /\ object' = HelmPatch(object)
      BY <2>6 DEF UpdateApplied, FreshRequest
    <3>3. PICK answer \in {"ok", "failed"} :
             client' = [Written EXCEPT ![c] =
               [pc |-> answer, tries |-> 0, request |-> NoRequest, fresh |-> FALSE]]
      BY <2>6 DEF UpdateApplied
    <3>4. outcome' = [outcome EXCEPT ![c] = answer]
      BY <3>3, WrittenType, OutcomeOfWritten DEF outcome, TypeOK
    <3>5. QED
      BY <3>1, <3>2, <3>4, AtomicOperators DEF Atomic!Import
  <2>7. CASE UNCHANGED vars
    BY <2>7 DEF vars, Atomic!vars, outcome
  <2>8. QED
    BY <2>1, <2>2, <2>3, <2>4, <2>5, <2>6, <2>7 DEF Next, Running, Atomic!Next
<1>3. QED
  BY <1>1, <1>2, TypeCorrect, FreshCopies, PTL
  DEF Spec, ImplementsAtomicImport, Atomic!Spec
-----------------------------------------------------------------------------
\* Any number of clients and writers work on the object, and still each import
\* uses up its calls of the API, of which it has two for each try.
THEOREM CallsAreBounded == Spec => CallsRunOut
<1>1. TypeOK /\ [Next]_vars =>
        [\A c \in Clients :
            /\ Call(c) => CallsLeft(c)' = 2 * MaxTries
            /\ ~Call(c) => CallsLeft(c)' <= CallsLeft(c)
            /\ Running(c) => CallsLeft(c)' < CallsLeft(c)]_vars
  <2> SUFFICES ASSUME TypeOK, Next, NEW c \in Clients
               PROVE  /\ Call(c) => CallsLeft(c)' = 2 * MaxTries
                      /\ ~Call(c) => CallsLeft(c)' <= CallsLeft(c)
                      /\ Running(c) => CallsLeft(c)' < CallsLeft(c)
    OBVIOUS
  <2>1. /\ MaxTries \in Nat \ {0} /\ client[c].tries \in 0..MaxTries
        /\ CallsLeft(c) \in Nat
        /\ client[c].pc \in {"get", "update"} => CallsLeft(c) > 0
    BY ImportAssumption DEF TypeOK, Calls, CallsLeft
  <2>2. ASSUME Call(c) PROVE CallsLeft(c)' = 2 * MaxTries
    <3>1. client'[c].pc = "get" /\ client'[c].tries = 1
      BY <2>2 DEF Call, TypeOK, Calls
    <3>2. QED
      BY <2>1, <3>1 DEF CallsLeft
  <2>3. ASSUME NEW a \in {"ok", "failed"}, Return(c, a) PROVE CallsLeft(c)' = 0
    BY <2>3 DEF Return, TypeOK, CallsLeft
  <2>4. ASSUME Running(c)
        PROVE  CallsLeft(c)' < CallsLeft(c) /\ CallsLeft(c)' <= CallsLeft(c)
    <3>1. client[c].pc \in {"get", "update"}
      BY <2>4 DEF Running, Get, UpdateConflict, UpdateRejected, UpdateApplied
    <3>2. CASE \E a \in {"ok", "failed"} : Return(c, a)
      BY <2>1, <2>3, <3>1, <3>2
    <3>3. CASE Get(c) /\ object # Absent /\ HelmPatch(object) # object
      <4>1. /\ client[c].pc = "get" /\ client'[c].pc = "update"
            /\ client'[c].tries = client[c].tries
        <5>1. client'[c] = [client[c] EXCEPT !.pc = "update", !.fresh = TRUE,
                                            !.request = HelmPatch(object)]
          BY <3>3 DEF Get, TypeOK
        <5>2. QED
          BY <3>3, <5>1 DEF Get, TypeOK, Calls
      <4>2. QED
        BY <2>1, <4>1 DEF CallsLeft
    <3>4. CASE UpdateConflict(c) /\ ~Exhausted(c)
      <4>1. /\ client[c].pc = "update" /\ client'[c].pc = "get"
            /\ client'[c].tries = client[c].tries + 1
        BY <3>4 DEF UpdateConflict, TypeOK, Calls
      <4>2. QED
        BY <2>1, <4>1 DEF CallsLeft
    <3>5. CASE UpdateApplied(c)
      <4>1. client'[c].pc \in {"ok", "failed"}
        BY <3>5, WrittenType DEF UpdateApplied
      <4>2. QED
        BY <2>1, <3>1, <4>1 DEF CallsLeft
    <3>6. QED
      BY <2>4, <3>2, <3>3, <3>4, <3>5 DEF Running, Get, UpdateConflict, UpdateRejected
  <2>5. ASSUME ~Call(c) PROVE CallsLeft(c)' <= CallsLeft(c)
    <3>1. CASE Running(c)
      BY <2>4, <3>1
    <3>2. CASE Unavailable(c)
      BY <2>1, <2>3, <3>2 DEF Unavailable
    <3>3. CASE \/ OtherWrite
               \/ \E d \in Clients \ {c} : Call(d) \/ Running(d) \/ Unavailable(d)
      <4>1. client'[c].pc = client[c].pc /\ client'[c].tries = client[c].tries
        <5>1. Written[c].pc = client[c].pc /\ Written[c].tries = client[c].tries
          BY DEF Written, TypeOK, Calls
        <5>2. CASE OtherWrite
          BY <5>1, <5>2 DEF OtherWrite
        <5>3. ASSUME NEW d \in Clients \ {c}, Call(d) \/ Running(d) \/ Unavailable(d)
              PROVE  client'[c] = client[c] \/ client'[c] = Written[c]
          BY <5>3, WrittenType
          DEF Call, Running, Get, UpdateConflict, UpdateRejected, UpdateApplied,
              Unavailable, Return, TypeOK
        <5>4. QED
          BY <3>3, <5>1, <5>2, <5>3
      <4>2. QED
        BY <2>1, <4>1 DEF CallsLeft
    <3>4. QED
      BY <2>5, <3>1, <3>2, <3>3 DEF Next
  <2>6. QED
    BY <2>2, <2>4, <2>5
<1>2. QED
  BY <1>1, TypeCorrect, PTL DEF Spec, CallsRunOut
===============================================================================
