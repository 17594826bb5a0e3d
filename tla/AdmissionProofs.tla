--------------------------- MODULE AdmissionProofs ---------------------------
(***************************************************************************)
(* Admission's slot count is exact and its hard cap holds, for any number  *)
(* of requests, any limits and any interleaving of their steps.            *)
(***************************************************************************)
EXTENDS Admission, FiniteSetTheorems, TLAPS

USE SMTT(30), ZenonT(30)

(* An enforced request of a sheddable class that was admitted had seen fewer
   others than the cap of its class. *)
SeenBelowCap ==
    \A r \in Req : rq[r].pc = "serving" /\ rq[r].enforce /\ rq[r].class # "P0" =>
        rq[r].seen < hardAt(rq[r].class)

IInv == TypeOK /\ InflightExact /\ SawTheOthers /\ SeenBelowCap

(* Initially nobody holds a slot. *)
LEMMA InitInv == Init => IInv
<1> SUFFICES ASSUME Init PROVE IInv
  OBVIOUS
<1>1. TypeOK
  BY DEF Init, TypeOK, Request, Idle, Class
<1>2. Counted = {}
  BY DEF Init, Counted, Idle
<1>3. InflightExact
  BY <1>2, FS_EmptySet DEF Init, InflightExact
<1>4. SawTheOthers
  BY <1>2 DEF SawTheOthers
<1>5. SeenBelowCap
  BY DEF Init, SeenBelowCap, Idle
<1> QED BY <1>1, <1>3, <1>4, <1>5 DEF IInv

(* The types are preserved by every action. *)
LEMMA TypeStep == TypeOK /\ [Next]_vars => TypeOK'
<1> SUFFICES ASSUME TypeOK, [Next]_vars PROVE TypeOK'
  OBVIOUS
<1> USE AdmissionAssumption DEF TypeOK
<1>1. ASSUME NEW m \in {"off", "observe", "enforce"}, Reload(m) PROVE TypeOK'
  BY <1>1 DEF Reload
<1>2. ASSUME NEW l \in {0, 2}, SampleLevel(l) PROVE TypeOK'
  BY <1>2 DEF SampleLevel
<1>3. ASSUME NEW n \in Rate, SampleLimit(n) PROVE TypeOK'
  BY <1>3 DEF SampleLimit, adaptiveLimit
<1>4. ASSUME NEW r \in Req, NEW class \in Arriving, Enter(r, class) PROVE TypeOK'
  <2> DEFINE new == [Idle EXCEPT !.pc = "entered", !.class = class, !.enforce = (mode = "enforce"), !.seen = inflight]
  <2>1. class \in Class /\ (mode = "enforce") \in BOOLEAN
    BY DEF Class
  <2>2. new \in Request
    BY <2>1 DEF Idle, Request
  <2>3. rq' \in [Req -> Request] /\ inflight' \in Int
    BY <1>4, <2>2 DEF Enter
  <2> QED BY <1>4, <2>3 DEF Enter
<1>5. ASSUME NEW r \in Req, ReadLevel(r) PROVE TypeOK'
  <2>1. rq[r] \in Request
    OBVIOUS
  <2>2. [rq[r] EXCEPT !.pc = "serving"] \in Request
    BY <2>1 DEF Request
  <2>3. [rq[r] EXCEPT !.pc = "judged", !.level = level] \in Request
    BY <2>1 DEF Request
  <2>4. rq' \in [Req -> Request]
    BY <1>5, <2>2, <2>3 DEF ReadLevel
  <2> QED BY <1>5, <2>4 DEF ReadLevel
<1>6. ASSUME NEW r \in Req, Admit(r) PROVE TypeOK'
  <2>1. rq[r] \in Request
    OBVIOUS
  <2>2. [rq[r] EXCEPT !.pc = "serving", !.level = 0] \in Request
    BY <2>1 DEF Request
  <2>3. rq' = [rq EXCEPT ![r] = [rq[r] EXCEPT !.pc = "serving", !.level = 0]]
    BY <1>6 DEF Admit
  <2> QED BY <1>6, <2>2, <2>3 DEF Admit
<1>7. ASSUME NEW r \in Req, Shed(r) PROVE TypeOK'
  BY <1>7 DEF Shed, Idle, Request, Class
<1>8. ASSUME NEW r \in Req, NEW stream \in BOOLEAN, WriteHeader(r, stream) PROVE TypeOK'
  <2>1. rq[r] \in Request
    OBVIOUS
  <2>2. [rq[r] EXCEPT !.wrote = TRUE] \in Request
    BY ZenonT(30), <2>1 DEF Request
  <2>3. Stream \in Request
    <3>1. Idle \in Request
      BY DEF Idle, Request, Class
    <3> QED BY <3>1 DEF Stream, Request
  <2> QED BY <1>8, <2>2, <2>3 DEF WriteHeader
<1>9. ASSUME NEW r \in Req, Finish(r) PROVE TypeOK'
  BY <1>9 DEF Finish, Idle, Request, Class
<1>10. CASE UNCHANGED vars
  BY <1>10 DEF vars
<1> QED BY <1>1, <1>2, <1>3, <1>4, <1>5, <1>6, <1>7, <1>8, <1>9, <1>10 DEF Next

-----------------------------------------------------------------------------
(* The requests that hold slots are finitely many. *)
LEMMA CountedFinite == IsFiniteSet(Counted)
BY AdmissionAssumption, FS_Subset DEF Counted

(* A step that adds no holder and leaves what the holders saw preserves that
   one of any set of them saw the others. *)
LEMMA SawFewer ==
  ASSUME SawTheOthers, Counted' \subseteq Counted,
         \A r \in Counted' : rq'[r].seen = rq[r].seen
  PROVE  SawTheOthers'
BY DEF SawTheOthers

(* A request that enters saw everyone that held a slot. *)
LEMMA SawAll ==
  ASSUME NEW r \in Req, TypeOK, InflightExact, SawTheOthers, r \notin Counted,
         Counted' = Counted \union {r}, rq'[r].seen = inflight,
         \A q \in Counted : rq'[q].seen = rq[q].seen
  PROVE  SawTheOthers'
<1> SUFFICES ASSUME NEW S \in SUBSET (Counted'), S # {}
             PROVE  \E q \in S : rq'[q].seen >= Cardinality(S) - 1
  BY DEF SawTheOthers
<1>1. IsFiniteSet(Counted) /\ IsFiniteSet(S)
  BY CountedFinite, FS_AddElement, FS_Subset
<1>2. CASE r \in S
  <2>1. S \ {r} \subseteq Counted
    OBVIOUS
  <2>2. Cardinality(S \ {r}) = Cardinality(S) - 1
    BY <1>1, <1>2, FS_RemoveElement
  <2>3. Cardinality(S \ {r}) <= Cardinality(Counted)
    BY <1>1, <2>1, FS_Subset
  <2> QED BY <1>2, <2>2, <2>3 DEF InflightExact
<1>3. CASE r \notin S
  <2>1. S \in SUBSET Counted
    BY <1>3
  <2>2. PICK q \in S : rq[q].seen >= Cardinality(S) - 1
    BY <2>1 DEF SawTheOthers
  <2> QED BY <2>1, <2>2
<1> QED BY <1>2, <1>3

-----------------------------------------------------------------------------
(* A step of one request that keeps its slot and what it saw. *)
LEMMA KeepsSlot ==
  ASSUME NEW r \in Req, IInv, r \in Counted, inflight' = inflight,
         rq' = [rq EXCEPT ![r] = rq'[r]],
         rq'[r].pc \in {"entered", "judged", "serving"}, rq'[r].seen = rq[r].seen
  PROVE  InflightExact' /\ SawTheOthers'
<1>1. \A q \in Req : q # r => rq'[q] = rq[q]
  BY DEF IInv, TypeOK
<1>2. Counted' = Counted
  BY <1>1 DEF Counted
<1>3. \A q \in Counted' : rq'[q].seen = rq[q].seen
  BY <1>1 DEF Counted
<1>4. SawTheOthers'
  BY <1>2, <1>3, SawFewer DEF IInv
<1> QED BY <1>2, <1>4 DEF IInv, InflightExact

(* A step of one request that returns its slot. *)
LEMMA ReturnsSlot ==
  ASSUME NEW r \in Req, IInv, r \in Counted, inflight' = inflight - 1,
         rq' = [rq EXCEPT ![r] = rq'[r]], rq'[r].pc \in {"idle", "stream"}
  PROVE  InflightExact' /\ SawTheOthers'
<1>1. \A q \in Req : q # r => rq'[q] = rq[q]
  BY DEF IInv, TypeOK
<1>2. Counted' = Counted \ {r}
  BY <1>1 DEF Counted
<1>3. Cardinality(Counted') = Cardinality(Counted) - 1
  BY <1>2, CountedFinite, FS_RemoveElement
<1>4. \A q \in Counted' : rq'[q].seen = rq[q].seen
  BY <1>1, <1>2 DEF Counted
<1>5. SawTheOthers'
  BY <1>2, <1>4, SawFewer DEF IInv
<1> QED BY <1>3, <1>5 DEF IInv, InflightExact

(* Every step keeps the count exact and the last holder aware of the others. *)
LEMMA SlotsStep == IInv /\ [Next]_vars => InflightExact' /\ SawTheOthers'
<1> SUFFICES ASSUME IInv, [Next]_vars PROVE InflightExact' /\ SawTheOthers'
  OBVIOUS
<1>0. TypeOK
  BY DEF IInv
<1>1. CASE UNCHANGED <<inflight, rq>>
  BY <1>1 DEF IInv, InflightExact, SawTheOthers, Counted
<1>2. ASSUME NEW r \in Req, NEW class \in Arriving, Enter(r, class)
      PROVE  InflightExact' /\ SawTheOthers'
  <2>1. r \notin Counted
    BY <1>2 DEF Enter, Counted
  <2>2. rq'[r].pc = "entered" /\ rq'[r].seen = inflight /\ \A q \in Req : q # r => rq'[q] = rq[q]
    BY <1>0, <1>2 DEF Enter, TypeOK, Idle
  <2>3. Counted' = Counted \union {r}
    BY <2>2 DEF Counted
  <2>4. Cardinality(Counted') = Cardinality(Counted) + 1
    BY <2>1, <2>3, CountedFinite, FS_AddElement
  <2>5. InflightExact'
    BY <1>2, <2>4 DEF Enter, IInv, InflightExact
  <2>6. \A q \in Counted : rq'[q].seen = rq[q].seen
    BY <2>1, <2>2 DEF Counted
  <2> QED BY <2>1, <2>2, <2>3, <2>5, <2>6, SawAll DEF IInv
<1>3. ASSUME NEW r \in Req, ReadLevel(r) PROVE InflightExact' /\ SawTheOthers'
  <2>1. r \in Counted /\ inflight' = inflight
    BY <1>3 DEF ReadLevel, Counted
  <2>2. rq[r] \in Request
    BY <1>0 DEF TypeOK
  <2>3. rq' = [rq EXCEPT ![r] = rq'[r]]
    BY <1>0, <1>3 DEF ReadLevel, TypeOK
  <2>4. rq'[r].pc \in {"entered", "judged", "serving"} /\ rq'[r].seen = rq[r].seen
    BY <1>0, <1>3, <2>2 DEF ReadLevel, TypeOK, Request
  <2> QED BY <2>1, <2>3, <2>4, KeepsSlot
<1>4. ASSUME NEW r \in Req, Admit(r) PROVE InflightExact' /\ SawTheOthers'
  <2>1. r \in Counted /\ inflight' = inflight
    BY <1>4 DEF Admit, Counted
  <2>2. rq' = [rq EXCEPT ![r] = rq'[r]]
    BY <1>0, <1>4 DEF Admit, TypeOK
  <2>3. rq'[r].pc \in {"entered", "judged", "serving"} /\ rq'[r].seen = rq[r].seen
    BY <1>0, <1>4 DEF Admit, TypeOK, Request
  <2> QED BY <2>1, <2>2, <2>3, KeepsSlot
<1>5. ASSUME NEW r \in Req, Shed(r) PROVE InflightExact' /\ SawTheOthers'
  <2>1. r \in Counted /\ inflight' = inflight - 1
    BY <1>5 DEF Shed, Counted
  <2>2. rq' = [rq EXCEPT ![r] = rq'[r]] /\ rq'[r].pc = "idle"
    BY <1>0, <1>5 DEF Shed, TypeOK, Idle
  <2> QED BY <2>1, <2>2, ReturnsSlot
<1>6. ASSUME NEW r \in Req, WriteHeader(r, TRUE) PROVE InflightExact' /\ SawTheOthers'
  <2>1. r \in Counted /\ inflight' = inflight - 1
    BY <1>6 DEF WriteHeader, Counted
  <2>2. rq' = [rq EXCEPT ![r] = rq'[r]] /\ rq'[r].pc = "stream"
    BY <1>0, <1>6 DEF WriteHeader, TypeOK, Stream, Idle
  <2> QED BY <2>1, <2>2, ReturnsSlot
<1>7. ASSUME NEW r \in Req, WriteHeader(r, FALSE) PROVE InflightExact' /\ SawTheOthers'
  <2>1. r \in Counted /\ inflight' = inflight
    BY <1>7 DEF WriteHeader, Counted
  <2>2. rq' = [rq EXCEPT ![r] = rq'[r]]
    BY <1>0, <1>7 DEF WriteHeader, TypeOK
  <2>3. rq'[r].pc \in {"entered", "judged", "serving"} /\ rq'[r].seen = rq[r].seen
    BY <1>0, <1>7 DEF WriteHeader, TypeOK, Request
  <2> QED BY <2>1, <2>2, <2>3, KeepsSlot
<1>8. ASSUME NEW r \in Req, Finish(r) PROVE InflightExact' /\ SawTheOthers'
  <2>1. rq' = [rq EXCEPT ![r] = rq'[r]] /\ rq'[r].pc = "idle"
    BY <1>0, <1>8 DEF Finish, TypeOK, Idle
  <2>2. CASE rq[r].pc = "serving"
    <3>1. r \in Counted /\ inflight' = inflight - 1
      BY <1>8, <2>2 DEF Finish, Counted
    <3> QED BY <2>1, <3>1, ReturnsSlot
  <2>3. CASE rq[r].pc = "stream"
    <3>1. inflight' = inflight
      BY <1>8, <2>3 DEF Finish
    <3>2. \A q \in Req : q # r => rq'[q] = rq[q]
      BY <1>0, <2>1 DEF TypeOK
    <3>3. Counted' = Counted /\ \A q \in Counted' : rq'[q].seen = rq[q].seen
      BY <2>1, <2>3, <3>2 DEF Counted
    <3>4. SawTheOthers'
      BY <3>3, SawFewer DEF IInv
    <3> QED BY <3>1, <3>3, <3>4 DEF IInv, InflightExact
  <2> QED BY <1>8, <2>2, <2>3 DEF Finish
<1>9. CASE UNCHANGED vars
  BY <1>1, <1>9 DEF vars
<1>10. ASSUME NEW r \in Req, NEW stream \in BOOLEAN, WriteHeader(r, stream)
       PROVE  InflightExact' /\ SawTheOthers'
  BY <1>6, <1>7, <1>10
<1>11. CASE \/ \E m \in {"off", "observe", "enforce"} : Reload(m)
            \/ \E l \in {0, 2} : SampleLevel(l)
            \/ \E n \in Rate : SampleLimit(n)
  BY <1>1, <1>11 DEF Reload, SampleLevel, SampleLimit
<1> QED BY <1>2, <1>3, <1>4, <1>5, <1>8, <1>9, <1>10, <1>11 DEF Next

(* Every step admits enforced, sheddable requests below the cap only. *)
LEMMA CapStep == IInv /\ [Next]_vars => SeenBelowCap'
<1> SUFFICES ASSUME IInv, [Next]_vars PROVE SeenBelowCap'
  OBVIOUS
<1>0. TypeOK /\ SeenBelowCap
  BY DEF IInv
<1>1. CASE UNCHANGED rq
  BY <1>0, <1>1 DEF SeenBelowCap, hardAt
<1>2. ASSUME NEW r \in Req, rq' = [rq EXCEPT ![r] = rq'[r]], rq'[r].pc # "serving"
      PROVE  SeenBelowCap'
  BY <1>0, <1>2 DEF SeenBelowCap, TypeOK, hardAt
<1>3. ASSUME NEW r \in Req, rq' = [rq EXCEPT ![r] = rq'[r]],
             rq'[r].enforce /\ rq'[r].class # "P0" => rq'[r].seen < hardAt(rq'[r].class)
      PROVE  SeenBelowCap'
  BY <1>0, <1>3 DEF SeenBelowCap, TypeOK, hardAt
<1>4. ASSUME NEW r \in Req, NEW class \in Arriving, Enter(r, class) PROVE SeenBelowCap'
  <2>1. rq' = [rq EXCEPT ![r] = rq'[r]] /\ rq'[r].pc = "entered"
    BY <1>0, <1>4 DEF Enter, TypeOK, Idle
  <2> QED BY <1>2, <2>1
<1>5. ASSUME NEW r \in Req, ReadLevel(r) PROVE SeenBelowCap'
  <2>1. rq[r] \in Request /\ rq' = [rq EXCEPT ![r] = rq'[r]]
    BY <1>0, <1>5 DEF ReadLevel, TypeOK
  <2>2. CASE level < 2 /\ rq[r].seen < hardLimit
    <3>1. rq'[r] = [rq[r] EXCEPT !.pc = "serving"]
      BY <1>0, <1>5, <2>2 DEF ReadLevel, TypeOK
    <3>2. rq'[r].seen = rq[r].seen
      BY <2>1, <3>1 DEF Request
    <3>3. rq[r].seen < hardAt(rq'[r].class)
      BY <2>1, <2>2, AdmissionAssumption DEF hardAt, Request
    <3> QED BY <1>3, <2>1, <3>2, <3>3
  <2>3. CASE ~(level < 2 /\ rq[r].seen < hardLimit)
    <3>1. rq'[r].pc = "judged"
      BY <1>0, <1>5, <2>1, <2>3 DEF ReadLevel, TypeOK, Request
    <3> QED BY <1>2, <2>1, <3>1
  <2> QED BY <2>2, <2>3
<1>6. ASSUME NEW r \in Req, Admit(r) PROVE SeenBelowCap'
  <2>1. rq[r] \in Request /\ rq' = [rq EXCEPT ![r] = rq'[r]]
    BY <1>0, <1>6 DEF Admit, TypeOK
  <2>2. rq'[r].seen = rq[r].seen /\ rq'[r].class = rq[r].class /\ rq'[r].enforce = rq[r].enforce
    BY <1>0, <1>6, <2>1 DEF Admit, TypeOK, Request
  <2>3. rq[r].enforce => ~HardShed(rq[r].class, rq[r].seen)
    BY <1>6 DEF Admit, admissionShouldShed
  <2>4. rq[r].seen \in Int /\ hardAt(rq[r].class) \in Int
    BY <2>1, AdmissionAssumption DEF Request, hardAt
  <2>5. rq[r].enforce /\ rq[r].class # "P0" => rq[r].seen < hardAt(rq[r].class)
    BY <2>3, <2>4 DEF HardShed
  <2> QED BY <1>3, <2>1, <2>2, <2>5
<1>7. ASSUME NEW r \in Req, Shed(r) \/ Finish(r) PROVE SeenBelowCap'
  <2>1. rq' = [rq EXCEPT ![r] = rq'[r]] /\ rq'[r].pc = "idle"
    BY <1>0, <1>7 DEF Shed, Finish, TypeOK, Idle
  <2> QED BY <1>2, <2>1
<1>8. ASSUME NEW r \in Req, NEW stream \in BOOLEAN, WriteHeader(r, stream) PROVE SeenBelowCap'
  <2>1. rq[r] \in Request /\ rq' = [rq EXCEPT ![r] = rq'[r]]
    BY <1>0, <1>8 DEF WriteHeader, TypeOK
  <2>2. CASE stream
    <3>1. rq'[r].pc = "stream"
      BY <1>0, <1>8, <2>2 DEF WriteHeader, TypeOK, Stream, Idle
    <3> QED BY <1>2, <2>1, <3>1
  <2>3. CASE ~stream
    <3>1. rq'[r] = [rq[r] EXCEPT !.wrote = TRUE]
      BY <1>0, <1>8, <2>3 DEF WriteHeader, TypeOK
    <3>2. rq'[r].seen = rq[r].seen /\ rq'[r].class = rq[r].class /\ rq'[r].enforce = rq[r].enforce
      BY <2>1, <3>1 DEF Request
    <3>3. rq[r].enforce /\ rq[r].class # "P0" => rq[r].seen < hardAt(rq[r].class)
      BY <1>0, <1>8 DEF WriteHeader, SeenBelowCap
    <3> QED BY <1>3, <2>1, <3>2, <3>3
  <2> QED BY <2>2, <2>3
<1>9. CASE UNCHANGED vars
  BY <1>1, <1>9 DEF vars
<1>10. CASE \/ \E m \in {"off", "observe", "enforce"} : Reload(m)
            \/ \E l \in {0, 2} : SampleLevel(l)
            \/ \E n \in Rate : SampleLimit(n)
  BY <1>1, <1>10 DEF Reload, SampleLevel, SampleLimit
<1> QED BY <1>4, <1>5, <1>6, <1>7, <1>8, <1>9, <1>10 DEF Next

-----------------------------------------------------------------------------
(* Of holders that saw fewer others than a bound there are no more than it. *)
LEMMA Bounded ==
  ASSUME TypeOK, SawTheOthers, NEW S \in SUBSET Counted, NEW bound \in Nat,
         \A r \in S : rq[r].seen < bound
  PROVE  Cardinality(S) <= bound
<1>1. IsFiniteSet(S)
  BY CountedFinite, FS_Subset
<1>2. CASE S = {}
  BY <1>2, FS_EmptySet
<1>3. CASE S # {}
  <2>1. PICK r \in S : rq[r].seen >= Cardinality(S) - 1
    BY <1>3 DEF SawTheOthers
  <2>2. rq[r].seen \in Int /\ Cardinality(S) \in Nat
    BY <1>1, FS_CardinalityType DEF TypeOK, Counted, Request
  <2> QED BY <2>1, <2>2
<1> QED BY <1>2, <1>3

(* The inductive invariant gives both bounds of the hard cap. *)
LEMMA CapFollows == IInv => HardLimitHolds
<1> SUFFICES ASSUME IInv PROVE HardLimitHolds
  OBVIOUS
<1> DEFINE quarter == hardLimit + hardLimit \div 4
<1>1. hardLimit \in Nat /\ quarter \in Nat /\ hardLimit <= quarter
  BY AdmissionAssumption
<1>2. \A r \in Admitted({"P2", "P3"}) : rq[r].seen < hardLimit
  BY DEF IInv, SeenBelowCap, Admitted, Counted, hardAt
<1>3. \A r \in Admitted({"P1", "P2", "P3"}) : rq[r].seen < quarter
  <2> SUFFICES ASSUME NEW r \in Admitted({"P1", "P2", "P3"}) PROVE rq[r].seen < quarter
    OBVIOUS
  <2>1. rq[r].seen \in Int
    BY DEF IInv, TypeOK, Request, Admitted, Counted
  <2>2. rq[r].seen < hardAt(rq[r].class)
    BY DEF IInv, SeenBelowCap, Admitted, Counted
  <2> QED BY <1>1, <2>1, <2>2 DEF hardAt
<1>4. Admitted({"P2", "P3"}) \subseteq Counted /\ Admitted({"P1", "P2", "P3"}) \subseteq Counted
  BY DEF Admitted
<1>5. Cardinality(Admitted({"P2", "P3"})) <= hardLimit
  BY <1>1, <1>2, <1>4, Bounded DEF IInv
<1>6. Cardinality(Admitted({"P1", "P2", "P3"})) <= quarter
  BY <1>1, <1>3, <1>4, Bounded DEF IInv
<1> QED BY <1>5, <1>6 DEF HardLimitHolds

(* The invariant is inductive. *)
LEMMA InvAlways == Spec => []IInv
<1>1. IInv /\ [Next]_vars => IInv'
  BY TypeStep, SlotsStep, CapStep DEF IInv
<1> QED BY InitInv, <1>1, PTL DEF Spec

(* For any set of requests and any limits the in-flight count is the number
   of slots held: no shed, stream or panic leaks or doubles one
   (admission.go:94, :125). *)
THEOREM SlotsExact == Spec => []InflightExact
<1>1. IInv => InflightExact
  BY DEF IInv
<1> QED BY <1>1, InvAlways, PTL

(* For any set of requests and any limits the hard cap holds, whatever the
   level, the limit and the mode become between a request's add, its two
   loads and its admission (admission.go:57). *)
THEOREM HardCap == Spec => []HardLimitHolds
BY CapFollows, InvAlways, PTL
=============================================================================
