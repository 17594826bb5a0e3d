---------------------------- MODULE PrivacyProofs ----------------------------
(***************************************************************************)
(* The privacy registry answers a transaction from its own request or not  *)
(* at all, and no managed value leaves, for any number of transactions,    *)
(* ids and generations.                                                    *)
(***************************************************************************)
EXTENDS PrivacyRegistry, FiniteSetTheorems, TLAPS

USE SMTT(30), ZenonT(30)

State == [policy : Policy \union {0}, masked : BOOLEAN]
Transaction == [pc : {"serving", "bound", "released"}, id : Id \union {None}, entry : Tx \union {None}]
Entry == [refs : Int, poisoned : BOOLEAN, closed : BOOLEAN]

TypeOK ==
    /\ privacy \in [Tx -> State]
    /\ tx \in [Tx -> Transaction]
    /\ entries \in [Id -> Tx \union {None}]
    /\ entry \in [Tx -> Entry]
    /\ seen \in [Tx -> SUBSET Policy]

(* A bound transaction refers to the entry of its id, and an entry is of the
   id of the transaction that made it, which has not ended. *)
Linked ==
    /\ \A t \in Tx : Live(t) => tx[t].id \in Id /\ tx[t].entry = entries[tx[t].id]
    /\ \A i \in Id : entries[i] # None =>
          tx[entries[i]].pc \in {"bound", "released"} /\ tx[entries[i]].id = i

(* An entry another transaction was bound to as well is poisoned. *)
SharedPoisoned ==
    \A t \in Tx : Live(t) /\ tx[t].entry # t => entry[tx[t].entry].poisoned

(* A request that saw its policy's values is masked; one without a policy
   has seen nothing. *)
SeenMasked ==
    \A t \in Tx :
        /\ privacy[t].policy = 0 => privacy[t] = NoState /\ seen[t] = {}
        /\ privacy[t].policy \in seen[t] => privacy[t].masked

IInv == TypeOK /\ Linked /\ RegistryExact /\ SharedPoisoned /\ SeenMasked /\ NothingManagedLeaves

(* Initially nothing is captured, bound or let out. *)
LEMMA InitInv == Init => IInv
<1> SUFFICES ASSUME Init PROVE IInv
  OBVIOUS
<1>1. TypeOK
  <2>1. NoState \in State
    BY DEF NoState, State
  <2>2. [pc |-> "serving", id |-> None, entry |-> None] \in Transaction
    BY DEF Transaction
  <2>3. [refs |-> 0, poisoned |-> FALSE, closed |-> FALSE] \in Entry
    BY DEF Entry
  <2> QED BY <2>1, <2>2, <2>3 DEF Init, TypeOK
<1>2. \A t \in Tx : ~Live(t)
  BY DEF Init, Live
<1>3. Linked /\ SharedPoisoned
  BY <1>2 DEF Init, Linked, SharedPoisoned
<1>4. RegistryExact
  BY <1>2 DEF Init, RegistryExact, Bound
<1>5. SeenMasked
  BY PrivacyAssumption DEF Init, SeenMasked, NoState
<1>6. NothingManagedLeaves
  BY DEF Init, NothingManagedLeaves
<1> QED BY <1>1, <1>3, <1>4, <1>5, <1>6 DEF IInv

-----------------------------------------------------------------------------
(* Observing Headers keeps a state's policy and can only mask it; what it
   has seen of its own policy masks it. *)
LEMMA Observed ==
  ASSUME NEW s \in State, NEW headers \in SUBSET Policy
  PROVE  /\ observe(s, headers) \in State
         /\ observe(s, headers).policy = s.policy
         /\ s.masked => observe(s, headers).masked
         /\ s.policy \in headers => observe(s, headers).masked
         /\ s.policy = 0 => observe(s, headers) = s
<1>1. [s EXCEPT !.masked = TRUE] \in State
  BY ZenonT(30) DEF State
<1>2. [s EXCEPT !.masked = TRUE].policy = s.policy /\ [s EXCEPT !.masked = TRUE].masked
  BY DEF State
<1>3. 0 \notin headers
  BY PrivacyAssumption
<1> QED BY <1>1, <1>2, <1>3 DEF observe

(* The types are preserved by every action. *)
LEMMA TypeStep == TypeOK /\ Linked /\ RegistryExact /\ [Next]_vars => TypeOK'
<1> SUFFICES ASSUME TypeOK, Linked, RegistryExact, [Next]_vars PROVE TypeOK'
  OBVIOUS
<1>1. ASSUME NEW t \in Tx, NEW p \in Policy, NEW h \in SUBSET Policy, capturePrivacy(t, p, h)
      PROVE  TypeOK'
  <2>1. privacy[t] \in State
    BY DEF TypeOK
  <2>2. [policy |-> p, masked |-> FALSE] \in State
    BY DEF State
  <2>3. CaptureFirst(privacy[t], p) \in State
    BY <2>1, <2>2 DEF CaptureFirst
  <2>4. observe(CaptureFirst(privacy[t], p), h) \in State
    BY <2>3, Observed
  <2>5. privacy' \in [Tx -> State]
    BY <1>1, <2>4 DEF capturePrivacy, TypeOK
  <2>6. seen' \in [Tx -> SUBSET Policy]
    BY <1>1 DEF capturePrivacy, TypeOK
  <2> QED BY <1>1, <2>5, <2>6 DEF capturePrivacy, TypeOK
<1>2. ASSUME NEW t \in Tx, NEW i \in Id, NEW h \in SUBSET Policy, Bind(t, i, h)
      PROVE  TypeOK'
  <2>1. privacy' \in [Tx -> State]
    <3>1. observe(privacy[t], h) \in State
      BY Observed DEF TypeOK
    <3> QED BY <1>2, <3>1 DEF Bind, TypeOK
  <2>2. seen' \in [Tx -> SUBSET Policy]
    BY <1>2 DEF Bind, TypeOK
  <2>3. entries[i] \in Tx \union {None}
    BY DEF TypeOK
  <2>4. tx' \in [Tx -> Transaction]
    <3>1. [pc |-> "bound", id |-> i, entry |-> IF entries[i] = None THEN t ELSE entries[i]] \in Transaction
      BY <2>3 DEF Transaction
    <3> QED BY <1>2, <3>1 DEF Bind, TypeOK
  <2>5. entries' \in [Id -> Tx \union {None}]
    BY <1>2 DEF Bind, TypeOK
  <2>6. entry' \in [Tx -> Entry]
    <3>1. CASE entries[i] = None
      <4>1. [refs |-> 1, poisoned |-> FALSE, closed |-> privacy[t] = NoState] \in Entry
        BY DEF Entry
      <4> QED BY <1>2, <3>1, <4>1 DEF Bind, TypeOK
    <3>2. CASE entries[i] # None
      <4>1. entries[i] \in Tx /\ entry[entries[i]] \in Entry
        BY <2>3, <3>2 DEF TypeOK
      <4>2. [entry[entries[i]] EXCEPT !.refs = @ + 1, !.poisoned = TRUE] \in Entry
        <5>1. entry[entries[i]].refs + 1 \in Int
          BY <4>1 DEF Entry
        <5> QED BY ZenonT(30), <4>1, <5>1 DEF Entry
      <4>3. entry' = [entry EXCEPT ![entries[i]] = [entry[entries[i]] EXCEPT !.refs = @ + 1, !.poisoned = TRUE]]
        BY <1>2, <3>2, <4>1 DEF Bind, PoisonEntry, TypeOK
      <4> QED BY <4>1, <4>2, <4>3 DEF TypeOK
    <3> QED BY <3>1, <3>2
  <2> QED BY <2>1, <2>2, <2>4, <2>5, <2>6 DEF TypeOK
<1>3. ASSUME NEW t \in Tx, NEW v \in -1 .. 1, NEW text \in SUBSET Policy, Write(t, v, text)
      PROVE  TypeOK'
  BY <1>3 DEF Write, TypeOK
<1>4. ASSUME NEW t \in Tx, release(t) PROVE TypeOK'
  <2>1. Live(t)
    BY <1>4 DEF release, Once, Live
  <2>2. tx[t] \in Transaction /\ tx[t].id \in Id /\ tx[t].entry = entries[tx[t].id]
    BY <2>1 DEF Linked, TypeOK
  <2>3. tx[t].entry \in Tx
    <3>1. t \in Bound(tx[t].id)
      BY <2>1 DEF Bound
    <3>2. entries[tx[t].id] # None
      BY <2>2, <3>1 DEF RegistryExact
    <3> QED BY <2>2, <3>2 DEF TypeOK
  <2>4. entry' \in [Tx -> Entry]
    <3>1. entry[tx[t].entry] \in Entry
      BY <2>3 DEF TypeOK
    <3>2. [entry[tx[t].entry] EXCEPT !.refs = @ - 1] \in Entry
      BY <3>1 DEF Entry
    <3>3. entry' = [entry EXCEPT ![tx[t].entry] = [entry[tx[t].entry] EXCEPT !.refs = @ - 1]]
      BY <1>4, <2>3 DEF release, TypeOK
    <3> QED BY <2>3, <3>2, <3>3 DEF TypeOK
  <2>5. entries' \in [Id -> Tx \union {None}]
    BY <1>4 DEF release, TypeOK
  <2>6. tx' \in [Tx -> Transaction]
    <3>1. [tx[t] EXCEPT !.pc = "released"] \in Transaction
      BY <2>2 DEF Transaction
    <3>2. tx' = [tx EXCEPT ![t] = [tx[t] EXCEPT !.pc = "released"]]
      BY <1>4 DEF release, TypeOK
    <3> QED BY <3>1, <3>2 DEF TypeOK
  <2> QED BY <1>4, <2>4, <2>5, <2>6 DEF release, TypeOK
<1>5. ASSUME NEW t \in Tx, Finish(t) PROVE TypeOK'
  <2>1. NoState \in State
    BY DEF NoState, State
  <2>2. [pc |-> "serving", id |-> None, entry |-> None] \in Transaction
    BY DEF Transaction
  <2>3. [refs |-> 0, poisoned |-> FALSE, closed |-> FALSE] \in Entry
    BY DEF Entry
  <2>4. privacy' \in [Tx -> State] /\ tx' \in [Tx -> Transaction] /\ entry' \in [Tx -> Entry]
    BY <1>5, <2>1, <2>2, <2>3 DEF Finish, TypeOK
  <2> QED BY <1>5, <2>4 DEF Finish, TypeOK
<1>6. CASE UNCHANGED vars
  BY <1>6 DEF vars, TypeOK
<1> QED BY <1>1, <1>2, <1>3, <1>4, <1>5, <1>6 DEF Next

-----------------------------------------------------------------------------
Registry == Linked /\ RegistryExact /\ SharedPoisoned

(* The transactions bound to an id are finitely many. *)
LEMMA BoundFinite ==
  ASSUME NEW i PROVE IsFiniteSet(Bound(i)) /\ Cardinality(Bound(i)) \in Nat
<1>1. IsFiniteSet(Bound(i))
  BY PrivacyAssumption, FS_Subset DEF Bound
<1> QED BY <1>1, FS_CardinalityType

(* A bound transaction's id has an entry: the one it refers to, which some
   transaction of that id made. *)
LEMMA Held ==
  ASSUME TypeOK, Registry, NEW t \in Tx, Live(t)
  PROVE  /\ tx[t].id \in Id /\ t \in Bound(tx[t].id)
         /\ tx[t].entry = entries[tx[t].id] /\ tx[t].entry \in Tx
         /\ tx[tx[t].entry].id = tx[t].id
<1>1. tx[t].id \in Id /\ t \in Bound(tx[t].id) /\ tx[t].entry = entries[tx[t].id]
  BY DEF Registry, Linked, Bound
<1>2. entries[tx[t].id] # None
  BY <1>1 DEF Registry, RegistryExact
<1>3. tx[t].entry \in Tx
  BY <1>1, <1>2 DEF TypeOK
<1> QED BY <1>1, <1>2, <1>3 DEF Registry, Linked

(* A transaction that is not bound anywhere and holds no references made no
   entry of the registry. *)
LEMMA NoEntry ==
  ASSUME TypeOK, Registry, NEW t \in Tx,
         tx[t].pc = "serving" \/ entry[t].refs = 0
  PROVE  \A i \in Id : entries[i] # t
<1> SUFFICES ASSUME NEW i \in Id, entries[i] = t PROVE FALSE
  OBVIOUS
<1>1. entries[i] # None
  BY PrivacyAssumption DEF None
<1>2. tx[t].pc # "serving"
  BY <1>1 DEF Registry, Linked
<1>3. Bound(i) # {} /\ Cardinality(Bound(i)) = 0
  BY <1>1, <1>2 DEF Registry, RegistryExact
<1> QED BY <1>3, BoundFinite, FS_EmptySet

(* A step that leaves transactions and entries alone keeps the registry. *)
LEMMA KeepsRegistry ==
  ASSUME Registry, UNCHANGED <<tx, entries, entry>>
  PROVE  Registry'
<1>1. \A i \in Id : Bound(i)' = Bound(i)
  BY DEF Bound, Live
<1>2. RegistryExact'
  BY <1>1 DEF Registry, RegistryExact
<1> QED BY <1>2 DEF Registry, Linked, SharedPoisoned, Live

(* Bind keeps the registry: a first binding makes the entry of a free id, a
   later one counts itself in the entry and poisons it. *)
LEMMA BindRegistry ==
  ASSUME TypeOK, Registry, NEW t \in Tx, NEW i \in Id, NEW h, Bind(t, i, h)
  PROVE  Registry'
<1> DEFINE e == entries[i]
<1>1. /\ tx[t].pc = "serving" /\ tx'[t].pc = "bound" /\ tx'[t].id = i
      /\ tx'[t].entry = (IF e = None THEN t ELSE e)
      /\ \A u \in Tx \ {t} : tx'[u] = tx[u]
  BY DEF Bind, TypeOK
<1>2. ~Live(t) /\ Live(t)' /\ \A u \in Tx \ {t} : Live(u)' <=> Live(u)
  BY <1>1 DEF Live
<1>3. Bound(i)' = Bound(i) \union {t} /\ \A j \in Id \ {i} : Bound(j)' = Bound(j)
  BY <1>1, <1>2 DEF Bound
<1>4. \A j \in Id : t \notin Bound(j)
  BY <1>2 DEF Bound
<1>5. \A j \in Id : entries[j] # t
  BY <1>1, NoEntry
<1>6. Cardinality(Bound(i)') = Cardinality(Bound(i)) + 1
  BY <1>3, <1>4, BoundFinite, FS_AddElement
<1>7. CASE e = None
  <2>1. /\ entries'[i] = t /\ \A j \in Id \ {i} : entries'[j] = entries[j]
        /\ entry'[t].refs = 1 /\ \A u \in Tx \ {t} : entry'[u] = entry[u]
    BY <1>7 DEF Bind, TypeOK
  <2>2. Bound(i) = {} /\ t # None
    BY <1>7, PrivacyAssumption DEF Registry, RegistryExact, None
  <2>3. Cardinality(Bound(i)') = 1
    BY <1>6, <2>2, FS_EmptySet
  <2>4. RegistryExact'
    <3> SUFFICES ASSUME NEW j \in Id
                 PROVE  /\ entries'[j] = None <=> Bound(j)' = {}
                        /\ entries'[j] # None => entry'[entries'[j]].refs = Cardinality(Bound(j)')
      BY DEF RegistryExact
    <3>1. CASE j = i
      BY <1>3, <2>1, <2>2, <2>3, <3>1
    <3>2. CASE j # i
      <4>1. entries'[j] = entries[j] /\ Bound(j)' = Bound(j)
        BY <1>3, <2>1, <3>2
      <4>2. entries[j] # None => entry'[entries[j]] = entry[entries[j]]
        BY <1>5, <2>1 DEF TypeOK
      <4> QED BY <4>1, <4>2 DEF Registry, RegistryExact
    <3> QED BY <3>1, <3>2
  <2>5. Linked'
    <3>1. ASSUME NEW u \in Tx, Live(u)' PROVE tx'[u].id \in Id /\ tx'[u].entry = entries'[tx'[u].id]
      <4>1. CASE u = t
        BY <1>1, <1>7, <2>1, <4>1
      <4>2. CASE u # t
        <5>1. Live(u) /\ tx'[u] = tx[u]
          BY <1>1, <1>2, <3>1, <4>2
        <5>2. tx[u].id \in Id \ {i} /\ tx[u].entry = entries[tx[u].id]
          BY <2>2, <5>1, Held
        <5> QED BY <2>1, <5>1, <5>2
      <4> QED BY <4>1, <4>2
    <3>2. ASSUME NEW j \in Id, entries'[j] # None
          PROVE  tx'[entries'[j]].pc \in {"bound", "released"} /\ tx'[entries'[j]].id = j
      <4>1. CASE j = i
        BY <1>1, <2>1, <4>1
      <4>2. CASE j # i
        <5>1. entries'[j] = entries[j] /\ entries[j] \in Tx \ {t}
          BY <1>5, <2>1, <3>2, <4>2 DEF TypeOK
        <5> QED BY <1>1, <3>2, <5>1 DEF Registry, Linked
      <4> QED BY <4>1, <4>2
    <3> QED BY <3>1, <3>2 DEF Linked
  <2>6. SharedPoisoned'
    <3> SUFFICES ASSUME NEW u \in Tx, Live(u)', tx'[u].entry # u PROVE entry'[tx'[u].entry].poisoned
      BY DEF SharedPoisoned
    <3>1. u # t
      BY <1>1, <1>7
    <3>2. Live(u) /\ tx'[u] = tx[u]
      BY <1>1, <1>2, <3>1
    <3>3. tx[u].entry \in Tx \ {t}
      BY <1>5, <3>2, Held
    <3>4. entry[tx[u].entry].poisoned
      BY <3>2 DEF Registry, SharedPoisoned
    <3> QED BY <2>1, <3>2, <3>3, <3>4
  <2> QED BY <2>4, <2>5, <2>6 DEF Registry
<1>8. CASE e # None
  <2>1. e \in Tx /\ tx[e].id = i /\ e # t
    BY <1>5, <1>8 DEF Registry, Linked, TypeOK
  <2>2. entry[e] \in Entry
    BY <2>1 DEF TypeOK
  <2>3. /\ entries' = entries
        /\ entry' = [entry EXCEPT ![e] = [entry[e] EXCEPT !.refs = @ + 1, !.poisoned = TRUE]]
    BY <1>8, <2>1 DEF Bind, PoisonEntry, TypeOK
  <2>4. entry'[e].refs = entry[e].refs + 1 /\ entry'[e].poisoned
    BY <2>1, <2>2, <2>3 DEF TypeOK, Entry
  <2>5. \A u \in Tx \ {e} : entry'[u] = entry[u]
    BY <2>3 DEF TypeOK
  <2>6. RegistryExact'
    <3> SUFFICES ASSUME NEW j \in Id
                 PROVE  /\ entries'[j] = None <=> Bound(j)' = {}
                        /\ entries'[j] # None => entry'[entries'[j]].refs = Cardinality(Bound(j)')
      BY DEF RegistryExact
    <3>1. CASE j = i
      BY <1>3, <1>6, <1>8, <2>3, <2>4, <3>1 DEF Registry, RegistryExact
    <3>2. CASE j # i
      <4>1. entries[j] # None => entries[j] \in Tx \ {e}
        BY <2>1, <3>2 DEF Registry, Linked, TypeOK
      <4> QED BY <1>3, <2>3, <2>5, <3>2, <4>1 DEF Registry, RegistryExact
    <3> QED BY <3>1, <3>2
  <2>7. Linked'
    <3>1. ASSUME NEW u \in Tx, Live(u)' PROVE tx'[u].id \in Id /\ tx'[u].entry = entries'[tx'[u].id]
      BY <1>1, <1>2, <1>8, <2>3, <3>1 DEF Registry, Linked
    <3>2. ASSUME NEW j \in Id, entries'[j] # None
          PROVE  tx'[entries'[j]].pc \in {"bound", "released"} /\ tx'[entries'[j]].id = j
      BY <1>1, <1>5, <2>3, <3>2 DEF Registry, Linked, TypeOK
    <3> QED BY <3>1, <3>2 DEF Linked
  <2>8. SharedPoisoned'
    <3> SUFFICES ASSUME NEW u \in Tx, Live(u)', tx'[u].entry # u PROVE entry'[tx'[u].entry].poisoned
      BY DEF SharedPoisoned
    <3>1. CASE u = t
      BY <1>1, <1>8, <2>4, <3>1
    <3>2. CASE u # t
      <4>1. Live(u) /\ tx'[u] = tx[u] /\ tx[u].entry \in Tx /\ entry[tx[u].entry].poisoned
        BY <1>1, <1>2, <3>2, Held DEF Registry, SharedPoisoned
      <4> QED BY <2>4, <2>5, <4>1
    <3> QED BY <3>1, <3>2
  <2> QED BY <2>6, <2>7, <2>8 DEF Registry
<1> QED BY <1>7, <1>8

(* The first release of a transaction keeps the registry: it takes its
   reference off the entry, and the last one takes the entry away. *)
LEMMA ReleaseRegistry ==
  ASSUME TypeOK, Registry, NEW t \in Tx, release(t)
  PROVE  Registry'
<1>1. Live(t)
  BY DEF release, Once, Live
<1>0. PICK i \in Id, e \in Tx : tx[t].id = i /\ tx[t].entry = e
  BY <1>1, Held
<1>2. i \in Id /\ t \in Bound(i) /\ e = entries[i] /\ e \in Tx /\ tx[e].id = i
  BY <1>0, <1>1, Held
<1>3. tx[t] \in Transaction /\ entry[e] \in Entry
  BY <1>2 DEF TypeOK
<1>4. /\ tx' = [tx EXCEPT ![t] = [tx[t] EXCEPT !.pc = "released"]]
      /\ entry' = [entry EXCEPT ![e] = [entry[e] EXCEPT !.refs = @ - 1]]
      /\ entries' = IF entry[e].refs = 1 THEN [entries EXCEPT ![i] = None] ELSE entries
  BY <1>0, <1>2 DEF release, TypeOK
<1>5. /\ tx'[t].pc = "released" /\ tx'[t].id = i /\ tx'[t].entry = e
      /\ \A u \in Tx \ {t} : tx'[u] = tx[u]
  BY <1>0, <1>3, <1>4 DEF TypeOK, Transaction
<1>6. /\ entry'[e].refs = entry[e].refs - 1 /\ entry'[e].poisoned = entry[e].poisoned
      /\ \A u \in Tx \ {e} : entry'[u] = entry[u]
  BY <1>2, <1>3, <1>4 DEF TypeOK, Entry
<1>7. ~Live(t)' /\ \A u \in Tx \ {t} : Live(u)' <=> Live(u)
  BY <1>5 DEF Live
<1>8. Bound(i)' = Bound(i) \ {t} /\ \A j \in Id \ {i} : Bound(j)' = Bound(j)
  BY <1>0, <1>1, <1>5, <1>7 DEF Bound
<1>9. /\ entry[e].refs = Cardinality(Bound(i))
      /\ Cardinality(Bound(i)') = Cardinality(Bound(i)) - 1
  <2>1. e # None
    BY <1>2, PrivacyAssumption DEF None
  <2>2. entry[e].refs = Cardinality(Bound(i))
    BY <1>2, <2>1 DEF Registry, RegistryExact
  <2>3. IsFiniteSet(Bound(i))
    BY BoundFinite
  <2>4. Cardinality(Bound(i) \ {t}) = Cardinality(Bound(i)) - 1
    BY <1>2, <2>3, FS_RemoveElement
  <2> QED BY <1>8, <2>2, <2>4
<1>10. entry[e].refs = 1 <=> Bound(i)' = {}
  <2>1. IsFiniteSet(Bound(i)') /\ Cardinality(Bound(i)) \in Nat
    BY <1>8, BoundFinite, FS_Subset
  <2>2. Cardinality(Bound(i)') = 0 <=> Bound(i)' = {}
    BY <2>1, FS_EmptySet
  <2> QED BY <1>9, <2>1, <2>2
<1>11. \A j \in Id \ {i} : entries'[j] = entries[j] /\ (entries[j] # None => entries[j] \in Tx \ {e})
  BY <1>2, <1>4 DEF Registry, Linked, TypeOK
<1>12. entries'[i] = IF entry[e].refs = 1 THEN None ELSE e
  BY <1>2, <1>4 DEF TypeOK
<1>13. e # None
  BY <1>2, PrivacyAssumption DEF None
<1>14. RegistryExact'
  <2> SUFFICES ASSUME NEW j \in Id
               PROVE  /\ entries'[j] = None <=> Bound(j)' = {}
                      /\ entries'[j] # None => entry'[entries'[j]].refs = Cardinality(Bound(j)')
    BY DEF RegistryExact
  <2>1. CASE j = i
    <3>1. entries'[i] = None <=> Bound(i)' = {}
      BY <1>10, <1>12, <1>13
    <3>2. entries'[i] # None => entries'[i] = e
      BY <1>12
    <3>3. entry'[e].refs = Cardinality(Bound(i)')
      BY <1>6, <1>9
    <3> QED BY <2>1, <3>1, <3>2, <3>3
  <2>2. CASE j # i
    <3>1. /\ entries'[j] = entries[j] /\ Bound(j)' = Bound(j)
          /\ entries[j] # None => entry'[entries[j]] = entry[entries[j]]
      BY <1>6, <1>8, <1>11, <2>2
    <3> QED BY <3>1 DEF Registry, RegistryExact
  <2> QED BY <2>1, <2>2
<1>15. Linked'
  <2>1. ASSUME NEW u \in Tx, Live(u)' PROVE tx'[u].id \in Id /\ tx'[u].entry = entries'[tx'[u].id]
    <3>1. u # t /\ Live(u) /\ tx'[u] = tx[u]
      BY <1>5, <1>7, <2>1
    <3>2. tx[u].id \in Id /\ tx[u].entry = entries[tx[u].id] /\ u \in Bound(tx[u].id)
      BY <3>1, Held
    <3>3. CASE tx[u].id = i
      <4>1. Bound(i)' # {}
        BY <1>8, <3>1, <3>2, <3>3
      <4> QED BY <1>2, <1>10, <1>12, <3>1, <3>2, <3>3, <4>1
    <3>4. CASE tx[u].id # i
      BY <1>11, <3>1, <3>2, <3>4
    <3> QED BY <3>3, <3>4
  <2>2. ASSUME NEW j \in Id, entries'[j] # None
        PROVE  tx'[entries'[j]].pc \in {"bound", "released"} /\ tx'[entries'[j]].id = j
    <3>1. entries'[j] = entries[j] /\ entries[j] \in Tx
      BY <1>2, <1>11, <1>12, <2>2
    <3>2. tx[entries[j]].pc \in {"bound", "released"} /\ tx[entries[j]].id = j
      BY <2>2, <3>1 DEF Registry, Linked
    <3> QED BY <1>0, <1>5, <3>1, <3>2
  <2> QED BY <2>1, <2>2 DEF Linked
<1>16. SharedPoisoned'
  <2> SUFFICES ASSUME NEW u \in Tx, Live(u)', tx'[u].entry # u PROVE entry'[tx'[u].entry].poisoned
    BY DEF SharedPoisoned
  <2>1. Live(u) /\ tx'[u] = tx[u]
    BY <1>5, <1>7
  <2>2. tx[u].entry \in Tx /\ entry[tx[u].entry].poisoned
    BY <2>1, Held DEF Registry, SharedPoisoned
  <2> QED BY <1>6, <2>1, <2>2
<1> QED BY <1>14, <1>15, <1>16 DEF Registry

(* The end of a request whose entry is out of the registry keeps it. *)
LEMMA FinishRegistry ==
  ASSUME TypeOK, Registry, NEW t \in Tx, Finish(t)
  PROVE  Registry'
<1>1. \A j \in Id : entries[j] # t
  BY NoEntry DEF Finish
<1>2. /\ entries' = entries /\ tx[t].pc = "released" /\ tx'[t].pc = "serving"
      /\ \A u \in Tx \ {t} : tx'[u] = tx[u] /\ entry'[u] = entry[u]
  BY DEF Finish, TypeOK
<1>3. ~Live(t) /\ ~Live(t)' /\ \A u \in Tx \ {t} : Live(u)' <=> Live(u)
  BY <1>2 DEF Live
<1>4. \A j \in Id : Bound(j)' = Bound(j)
  BY <1>2, <1>3 DEF Bound
<1>5. \A j \in Id : entries[j] # None => entries[j] \in Tx \ {t}
  BY <1>1 DEF TypeOK
<1>6. RegistryExact'
  BY <1>2, <1>4, <1>5 DEF Registry, RegistryExact
<1>7. Linked'
  BY <1>2, <1>3, <1>5 DEF Registry, Linked
<1>8. SharedPoisoned'
  <2> SUFFICES ASSUME NEW u \in Tx, Live(u)', tx'[u].entry # u PROVE entry'[tx'[u].entry].poisoned
    BY DEF SharedPoisoned
  <2>1. Live(u) /\ tx'[u] = tx[u]
    BY <1>2, <1>3
  <2>2. tx[u].entry \in Tx \ {t} /\ entry[tx[u].entry].poisoned
    BY <1>1, <2>1, Held DEF Registry, SharedPoisoned
  <2> QED BY <1>2, <2>1, <2>2
<1> QED BY <1>6, <1>7, <1>8 DEF Registry

(* Every step keeps the registry. *)
LEMMA RegistryStep == TypeOK /\ Registry /\ [Next]_vars => Registry'
<1> SUFFICES ASSUME TypeOK, Registry, [Next]_vars PROVE Registry'
  OBVIOUS
<1>1. ASSUME NEW t \in Tx, release(t) \/ Finish(t) PROVE Registry'
  BY <1>1, ReleaseRegistry, FinishRegistry
<1>2. ASSUME NEW t \in Tx, NEW i \in Id, NEW h \in SUBSET Policy, Bind(t, i, h) PROVE Registry'
  BY <1>2, BindRegistry
<1>3. ASSUME NEW t \in Tx, NEW p \in Policy, NEW h \in SUBSET Policy, capturePrivacy(t, p, h)
      PROVE  Registry'
  BY <1>3, KeepsRegistry DEF capturePrivacy
<1>4. ASSUME NEW t \in Tx, NEW v \in -1 .. 1, NEW text \in SUBSET Policy, Write(t, v, text)
      PROVE  Registry'
  BY <1>4, KeepsRegistry DEF Write
<1>5. CASE UNCHANGED vars
  BY <1>5, KeepsRegistry DEF vars
<1> QED BY <1>1, <1>2, <1>3, <1>4, <1>5 DEF Next

-----------------------------------------------------------------------------
(* What a first capture keeps: a state that is there stays; a policy taken
   anew has been seen by nobody, and is never 0. *)
LEMMA Captured ==
  ASSUME NEW s \in State, NEW p \in Policy, s.policy = 0 => s = NoState
  PROVE  /\ CaptureFirst(s, p) \in State /\ CaptureFirst(s, p).policy # 0
         /\ s # NoState => CaptureFirst(s, p) = s
<1>1. [policy |-> p, masked |-> FALSE] \in State /\ p # 0
  BY PrivacyAssumption DEF State
<1> QED BY <1>1 DEF CaptureFirst

(* A step that shows a request Headers masks it if they carry its policy. *)
LEMMA SeenStep == TypeOK /\ SeenMasked /\ [Next]_vars => SeenMasked'
<1> SUFFICES ASSUME TypeOK, SeenMasked, [Next]_vars PROVE SeenMasked'
  OBVIOUS
<1>0. \A t \in Tx : privacy[t] \in State /\ seen[t] \in SUBSET Policy
  BY DEF TypeOK
<1>1. ASSUME NEW t \in Tx, NEW p \in Policy, NEW h \in SUBSET Policy, capturePrivacy(t, p, h)
      PROVE  SeenMasked'
  <2> DEFINE c == CaptureFirst(privacy[t], p)
  <2>1. /\ c \in State /\ c.policy # 0
        /\ privacy[t] # NoState => c = privacy[t]
    BY <1>0, Captured DEF SeenMasked
  <2>2. privacy'[t] = observe(c, h) /\ seen'[t] = seen[t] \union h
    BY <1>1 DEF capturePrivacy, TypeOK
  <2>3. privacy'[t].policy = c.policy /\ (c.masked => privacy'[t].masked)
        /\ (c.policy \in h => privacy'[t].masked)
    BY <2>1, <2>2, Observed
  <2>4. c.policy \in seen[t] => c.masked
    <3>1. CASE privacy[t] = NoState
      BY <3>1 DEF SeenMasked, NoState
    <3>2. CASE privacy[t] # NoState
      BY <2>1, <3>2 DEF SeenMasked
    <3> QED BY <3>1, <3>2
  <2>5. \A u \in Tx \ {t} : privacy'[u] = privacy[u] /\ seen'[u] = seen[u]
    BY <1>1 DEF capturePrivacy, TypeOK
  <2>6. privacy'[t].policy # 0 /\ (privacy'[t].policy \in seen'[t] => privacy'[t].masked)
    BY <2>1, <2>2, <2>3, <2>4
  <2> QED BY <2>5, <2>6 DEF SeenMasked
<1>2. ASSUME NEW t \in Tx, NEW i \in Id, NEW h \in SUBSET Policy, Bind(t, i, h) PROVE SeenMasked'
  <2>1. /\ privacy'[t] = observe(privacy[t], h)
        /\ seen'[t] = (IF privacy[t] = NoState THEN seen[t] ELSE seen[t] \union h)
        /\ \A u \in Tx \ {t} : privacy'[u] = privacy[u] /\ seen'[u] = seen[u]
    BY <1>2 DEF Bind, TypeOK
  <2>2. /\ privacy'[t].policy = privacy[t].policy /\ (privacy[t].masked => privacy'[t].masked)
        /\ (privacy[t].policy \in h => privacy'[t].masked)
        /\ (privacy[t].policy = 0 => privacy'[t] = privacy[t])
    BY <1>0, <2>1, Observed
  <2>3. privacy'[t].policy = 0 => privacy'[t] = NoState /\ seen'[t] = {}
    BY <2>1, <2>2 DEF SeenMasked
  <2>4. privacy'[t].policy \in seen'[t] => privacy'[t].masked
    BY <2>1, <2>2 DEF SeenMasked
  <2> QED BY <2>1, <2>3, <2>4 DEF SeenMasked
<1>3. ASSUME NEW t \in Tx, Finish(t) PROVE SeenMasked'
  <2>1. privacy'[t] = NoState /\ seen'[t] = {}
        /\ \A u \in Tx \ {t} : privacy'[u] = privacy[u] /\ seen'[u] = seen[u]
    BY <1>3 DEF Finish, TypeOK
  <2> QED BY <2>1 DEF SeenMasked, NoState
<1>4. CASE UNCHANGED <<privacy, seen>>
  BY <1>4 DEF SeenMasked
<1>5. ASSUME NEW t \in Tx, release(t) PROVE SeenMasked'
  BY <1>4, <1>5 DEF release
<1>6. ASSUME NEW t \in Tx, NEW v \in -1 .. 1, NEW text \in SUBSET Policy, Write(t, v, text)
      PROVE  SeenMasked'
  BY <1>4, <1>6 DEF Write
<1>7. CASE UNCHANGED vars
  BY <1>4, <1>7 DEF vars
<1> QED BY <1>1, <1>2, <1>3, <1>5, <1>6, <1>7 DEF Next

(* The registry answers a bound transaction from its own request or not. *)
LEMMA OwnFollows == TypeOK /\ Registry => OwnStateOrNone
<1> SUFFICES ASSUME TypeOK, Registry, NEW t \in Tx, Live(t)
             PROVE  lookup(tx[t].id) \in {NoState, IF entry[t].closed THEN failClosed ELSE privacy[t]}
  BY DEF OwnStateOrNone
<1>1. tx[t].entry = entries[tx[t].id]
  BY Held
<1>2. CASE entries[tx[t].id] = t
  BY <1>2 DEF lookup
<1>3. CASE entries[tx[t].id] # t
  <2>1. entry[entries[tx[t].id]].poisoned
    BY <1>1, <1>3 DEF Registry, SharedPoisoned
  <2> QED BY <2>1 DEF lookup
<1> QED BY <1>2, <1>3

(* A text that is let out was checked against the state of its own request. *)
LEMMA LeavesStep ==
  TypeOK /\ Registry /\ SeenMasked /\ NothingManagedLeaves /\ [Next]_vars => NothingManagedLeaves'
<1> SUFFICES ASSUME TypeOK, Registry, SeenMasked, NothingManagedLeaves, [Next]_vars
             PROVE  NothingManagedLeaves'
  OBVIOUS
<1>1. CASE out' = <<>>
  BY <1>1 DEF NothingManagedLeaves
<1>2. ASSUME NEW t \in Tx, NEW v \in -1 .. 1, NEW text \in SUBSET Policy, Write(t, v, text)
      PROVE  NothingManagedLeaves'
  <2>1. CASE ~(ShowsText(tx[t].id, v, text) \/ ShowsQuery(tx[t].id, v, text))
    BY <1>1, <1>2, <2>1 DEF Write
  <2>2. CASE ShowsText(tx[t].id, v, text) \/ ShowsQuery(tx[t].id, v, text)
    <3> DEFINE s == lookup(tx[t].id)
    <3>1. Live(t) /\ out' = <<t, text>> /\ UNCHANGED <<privacy, seen>>
      BY <1>2, <2>2 DEF Write
    <3>2. tx[t].entry = entries[tx[t].id] /\ tx[t].entry # None
      BY <3>1, Held, PrivacyAssumption DEF None
    <3>3. ~s.masked /\ s.policy # 0 /\ s.policy \notin text
      BY <2>2, <3>2 DEF ShowsText, ShowsQuery, redact
    <3>4. s \in {NoState, failClosed, privacy[t]}
      BY <3>1, OwnFollows DEF OwnStateOrNone
    <3>5. s = privacy[t]
      BY <3>3, <3>4 DEF NoState, failClosed
    <3>6. privacy[t].policy # 0 /\ privacy[t].policy \notin seen[t] \union text
      BY <3>3, <3>5 DEF SeenMasked
    <3>7. out'[1] = t /\ out'[2] = text
      BY <3>1
    <3> QED BY <3>1, <3>6, <3>7 DEF NothingManagedLeaves
  <2> QED BY <2>1, <2>2
<1>3. ASSUME NEW t \in Tx,
             \/ release(t) \/ Finish(t)
             \/ \E p \in Policy, h \in SUBSET Policy : capturePrivacy(t, p, h)
             \/ \E i \in Id, h \in SUBSET Policy : Bind(t, i, h)
      PROVE  NothingManagedLeaves'
  BY <1>1, <1>3 DEF release, Finish, capturePrivacy, Bind
<1>4. CASE UNCHANGED vars
  BY <1>4 DEF vars, NothingManagedLeaves
<1> QED BY <1>2, <1>3, <1>4 DEF Next

-----------------------------------------------------------------------------
(* The invariant is inductive. *)
LEMMA InvAlways == Spec => []IInv
<1>1. IInv /\ [Next]_vars => IInv'
  BY TypeStep, RegistryStep, SeenStep, LeavesStep DEF IInv, Registry
<1> QED BY InitInv, <1>1, PTL DEF Spec

(* For any transactions, ids and policies the registry has an entry exactly
   for the ids in use, with one reference for each transaction bound
   (managed_header_privacy.go:746). *)
THEOREM EntriesExact == Spec => []RegistryExact
<1>1. IInv => RegistryExact
  BY DEF IInv
<1> QED BY <1>1, InvAlways, PTL

(* No transaction is ever answered from another request's state, whatever ids
   are reused while others are bound to them (:754, :776). *)
THEOREM OwnState == Spec => []OwnStateOrNone
<1>1. IInv => OwnStateOrNone
  BY OwnFollows DEF IInv, Registry
<1> QED BY <1>1, InvAlways, PTL

(* No text that carries a managed value of its request's policy, and no text
   of a request whose Headers ever carried one, is let out
   (coraza_writer.go:272, :285). *)
THEOREM NothingLeaves == Spec => []NothingManagedLeaves
<1>1. IInv => NothingManagedLeaves
  BY DEF IInv
<1> QED BY <1>1, InvAlways, PTL

(* A request keeps its first policy and stays masked for life
   (managed_header_privacy.go:608, :633). *)
THEOREM MaskedForGood == Spec => MaskingIsForGood
<1> DEFINE Keeps == \A t \in Tx : privacy[t] # NoState /\ (tx'[t].pc = "serving" => tx[t].pc = "serving") =>
                       privacy'[t].policy = privacy[t].policy /\ (privacy[t].masked => privacy'[t].masked)
<1>1. IInv /\ [Next]_vars => [Keeps]_vars
  <2> SUFFICES ASSUME IInv, [Next]_vars PROVE Keeps
    OBVIOUS
  <2>0. TypeOK /\ SeenMasked /\ \A t \in Tx : privacy[t] \in State
    BY DEF IInv, TypeOK
  <2>1. CASE UNCHANGED privacy
    BY <2>1
  <2>2. ASSUME NEW t \in Tx, NEW p \in Policy, NEW h \in SUBSET Policy, capturePrivacy(t, p, h)
        PROVE  Keeps
    <3>1. privacy' = [privacy EXCEPT ![t] = observe(CaptureFirst(privacy[t], p), h)]
      BY <2>2 DEF capturePrivacy
    <3>2. privacy[t] # NoState => CaptureFirst(privacy[t], p) = privacy[t]
      BY DEF CaptureFirst
    <3>3. privacy[t] # NoState => privacy'[t] = observe(privacy[t], h)
      BY <2>0, <3>1, <3>2 DEF TypeOK
    <3>4. privacy[t] # NoState =>
             privacy'[t].policy = privacy[t].policy /\ (privacy[t].masked => privacy'[t].masked)
      BY <2>0, <3>3, Observed
    <3>5. \A u \in Tx \ {t} : privacy'[u] = privacy[u]
      BY <2>0, <3>1 DEF TypeOK
    <3> QED BY <3>4, <3>5
  <2>3. ASSUME NEW t \in Tx, NEW i \in Id, NEW h \in SUBSET Policy, Bind(t, i, h) PROVE Keeps
    <3>1. privacy'[t] = observe(privacy[t], h) /\ \A u \in Tx \ {t} : privacy'[u] = privacy[u]
      BY <2>0, <2>3 DEF Bind, TypeOK
    <3>2. privacy'[t].policy = privacy[t].policy /\ (privacy[t].masked => privacy'[t].masked)
      BY <2>0, <3>1, Observed
    <3> QED BY <3>1, <3>2
  <2>4. ASSUME NEW t \in Tx, Finish(t) PROVE Keeps
    <3>1. tx[t].pc = "released" /\ tx'[t].pc = "serving" /\ \A u \in Tx \ {t} : privacy'[u] = privacy[u]
      BY <2>0, <2>4 DEF Finish, TypeOK
    <3> QED BY <3>1
  <2>5. ASSUME NEW t \in Tx, release(t) PROVE Keeps
    BY <2>1, <2>5 DEF release
  <2>6. ASSUME NEW t \in Tx, NEW v \in -1 .. 1, NEW text \in SUBSET Policy, Write(t, v, text) PROVE Keeps
    BY <2>1, <2>6 DEF Write
  <2>7. CASE UNCHANGED vars
    BY <2>1, <2>7 DEF vars
  <2> QED BY <2>2, <2>3, <2>4, <2>5, <2>6, <2>7 DEF Next
<1> QED BY <1>1, InvAlways, PTL DEF Spec, MaskingIsForGood
=============================================================================
