--------------------------- MODULE PrivacyRegistry ---------------------------
(***************************************************************************)
(* Managed-header privacy of WAF findings.  A request captures the policy  *)
(* of the generation that serves it and remembers whether any Header it    *)
(* showed carried a managed value; the WAF connector (external) binds the  *)
(* transaction to that state for its lifetime, and the audit writer asks   *)
(* it which text may leave.  Headers and texts are the set of policies     *)
(* whose managed values they carry.  The connector releases a transaction  *)
(* after its audit log is written, and may call the release again.         *)
(***************************************************************************)
EXTENDS Integers, FiniteSets

CONSTANTS
    Tx,         \* WAF transactions, one request each
    Id,         \* transaction ids, of 1 to 128 bytes
    Policy      \* one per generation

ASSUME PrivacyAssumption ==
    /\ IsFiniteSet(Tx) /\ "none" \notin Tx
    /\ Policy \subseteq Nat \ {0}

VARIABLES
    privacy,    \* privacy[t]: the state in the holder of t's request
    tx,         \* tx[t]: its id and the entry it is bound to
    entries,    \* entries[i]: the transaction that made the entry of id i, or None
    entry,      \* entry[t]: the entry object t made
    out,        \* the text the last step let out, <<>> for none
    seen        \* history: policies t's Headers have carried since its capture

vars == <<privacy, tx, entries, entry, out, seen>>

None == "none"
NoState == [policy |-> 0, masked |-> FALSE]
failClosed == [policy |-> 0, masked |-> TRUE]
Live(t) == tx[t].pc = "bound"

Init ==
    /\ privacy = [t \in Tx |-> NoState]
    /\ tx = [t \in Tx |-> [pc |-> "serving", id |-> None, entry |-> None]]
    /\ entries = [i \in Id |-> None]
    /\ entry = [t \in Tx |-> [refs |-> 0, poisoned |-> FALSE, closed |-> FALSE]]
    /\ out = <<>>
    /\ seen = [t \in Tx |-> {}]

(* Faulty: what the latest Headers carry decides. *)
observeLast(s, headers) == [s EXCEPT !.masked = s.policy \in headers]

observe(s, headers) == IF s.policy # 0 /\ s.policy \in headers THEN [s EXCEPT !.masked = TRUE] ELSE s

CaptureFirst(s, p) == IF s = NoState THEN [policy |-> p, masked |-> FALSE] ELSE s

(* The handler of generation p captures the request; a reload between two
   handlers of one request makes p differ. *)
capturePrivacy(t, p, headers) ==
    /\ tx[t].pc = "serving"
    /\ privacy' = [privacy EXCEPT ![t] = observe(CaptureFirst(@, p), headers)]
    /\ seen' = [seen EXCEPT ![t] = @ \union headers]
    /\ out' = <<>>
    /\ UNCHANGED <<tx, entries, entry>>

PoisonEntry(e) == [entry EXCEPT ![e].refs = @ + 1, ![e].poisoned = TRUE]

(* Bind: observe the Headers the WAF will see, then register the state, or
   the fail-closed one if the request captured none. *)
Bind(t, i, headers) ==
    LET e == entries[i] IN
    /\ tx[t].pc = "serving"
    /\ privacy' = [privacy EXCEPT ![t] = observe(@, headers)]
    /\ seen' = [seen EXCEPT ![t] = IF privacy[t] = NoState THEN @ ELSE @ \union headers]
    /\ IF e # None
       THEN entry' = PoisonEntry(e) /\ UNCHANGED entries
       ELSE /\ entry' = [entry EXCEPT ![t] = [refs |-> 1, poisoned |-> FALSE, closed |-> privacy[t] = NoState]]
            /\ entries' = [entries EXCEPT ![i] = t]
    /\ tx' = [tx EXCEPT ![t] = [pc |-> "bound", id |-> i, entry |-> IF e = None THEN t ELSE e]]
    /\ out' = <<>>

(* lookup: the state bound to an id; NoState if it is poisoned or unbound. *)
lookup(i) ==
    LET e == entries[i] IN
    IF e = None \/ entry[e].poisoned THEN NoState
    ELSE IF entry[e].closed THEN failClosed ELSE privacy[e]

redact(s, text) == ~s.masked /\ s.policy # 0 /\ s.policy \notin text

(* buildCorazaEvents, privateCorazaText: whether a finding's text leaves
   unchanged.  version is the privacy proof of the transaction's WAF: 1, 0
   for none (its log may lack the part with the proof), -1 for unknown. *)
ShowsText(i, version, text) ==
    LET private == version # 0 \/ entries[i] # None
    IN  private => version >= 0 /\ redact(lookup(i), text)

(* privateCorazaURI: whether the query of the request target is kept. *)
ShowsQuery(i, version, text) ==
    LET s == lookup(i) IN s.policy # 0 /\ version >= 0 /\ ~s.masked /\ s.policy \notin text

Write(t, version, text) ==
    /\ Live(t)
    /\ out' = IF ShowsText(tx[t].id, version, text) \/ ShowsQuery(tx[t].id, version, text)
              THEN <<t, text>> ELSE <<>>
    /\ UNCHANGED <<privacy, tx, entries, entry, seen>>

Once(t) == tx[t].pc = "bound"

release(t) ==
    LET e == tx[t].entry
        last == entry[e].refs = 1
        i == tx[t].id
    IN  /\ tx[t].pc \in {"bound", "released"} /\ Once(t)
        /\ entry' = [entry EXCEPT ![e].refs = @ - 1]
        /\ entries' = IF last /\ entries[i] = e THEN [entries EXCEPT ![i] = None] ELSE entries
        /\ tx' = [tx EXCEPT ![t].pc = "released"]
        /\ out' = <<>>
        /\ UNCHANGED <<privacy, seen>>

(* The request ends, and its context with it; the slot serves another. *)
Finish(t) ==
    /\ tx[t].pc = "released" /\ entry[t].refs = 0
    /\ privacy' = [privacy EXCEPT ![t] = NoState]
    /\ tx' = [tx EXCEPT ![t] = [pc |-> "serving", id |-> None, entry |-> None]]
    /\ entry' = [entry EXCEPT ![t] = [refs |-> 0, poisoned |-> FALSE, closed |-> FALSE]]
    /\ seen' = [seen EXCEPT ![t] = {}]
    /\ out' = <<>>
    /\ UNCHANGED entries

Next == \E t \in Tx :
    \/ release(t) \/ Finish(t)
    \/ \E p \in Policy, h \in SUBSET Policy : capturePrivacy(t, p, h)
    \/ \E i \in Id, h \in SUBSET Policy : Bind(t, i, h)
    \/ \E v \in -1 .. 1, text \in SUBSET Policy : Write(t, v, text)

Spec == Init /\ [][Next]_vars

-----------------------------------------------------------------------------
Bound(i) == {t \in Tx : Live(t) /\ tx[t].id = i}

(* An id has an entry exactly while transactions are bound to it, with one
   reference for each: no entry outlives its transactions, and none is
   dropped under one (managed_header_privacy.go:746). *)
RegistryExact ==
    \A i \in Id :
        /\ entries[i] = None <=> Bound(i) = {}
        /\ entries[i] # None => entry[entries[i]].refs = Cardinality(Bound(i))

(* A transaction is never answered from another request's state: its id gives
   its own state or, while the id is shared, none (:754, :776). *)
OwnStateOrNone ==
    \A t \in Tx : Live(t) =>
        lookup(tx[t].id) \in {NoState, IF entry[t].closed THEN failClosed ELSE privacy[t]}

(* Text let out belongs to a request with a policy, whose managed values were
   in none of the Headers it ever showed and are not in the text: across
   reloads, later Headers and shared ids (coraza_writer.go:285, :272). *)
NothingManagedLeaves ==
    out # <<>> => LET t == out[1] IN
        privacy[t].policy # 0 /\ privacy[t].policy \notin seen[t] \union out[2]

(* For the life of a request the first policy stays and masking is for good
   (managed_header_privacy.go:608, :633). *)
MaskingIsForGood ==
    [][\A t \in Tx : privacy[t] # NoState /\ (tx'[t].pc = "serving" => tx[t].pc = "serving") =>
          privacy'[t].policy = privacy[t].policy /\ (privacy[t].masked => privacy'[t].masked)]_vars
=============================================================================
