--------------------------- MODULE DefenseEvidence ---------------------------
(***************************************************************************)
(* Defense evidence of one request: classification variables are captured  *)
(* once into the request's holder, stamped into a header before each WAF,  *)
(* and read back from the WAF's audit log to exempt findings.  A marker is *)
(* a record whose rule ids form a sequence; a header is the sequence of    *)
(* its values.  The control plane's routes (external) set the variables,   *)
(* place the handlers, and overwrite the older header where it is used.    *)
(***************************************************************************)
EXTENDS Integers, FiniteSets, Sequences, SequencesExt

CONSTANTS
    Var,                \* names of classification variables
    Catalog,            \* defenseCRSIDs: rule ids this image knows
    CorazaRuleVars, SkipCorazaRuleVars,     \* the handler's config: rule id -> variable
    CorazaAllVar,
    ProbeBelow,         \* 64 in the code
    Foreign             \* markers a request may arrive with

(* What the configuration guarantees. *)
DefenseEvidenceAssumption ==
    /\ Catalog \subseteq Nat /\ CorazaAllVar \in Var
    /\ \A f \in {CorazaRuleVars, SkipCorazaRuleVars} : DOMAIN f \subseteq Nat /\ \A i \in DOMAIN f : f[i] \in Var

VARIABLES
    vars,       \* vars[n]: "unset", "true" or "other"
    hdr,        \* the marker headers: evidence, skip (a set of ids), exempt (the older one)
    snapshot,   \* the holder's snapshot, <<>> before the first capture
    at,         \* where in its route the request is
    event,      \* the last finding logged, <<>> for none
    first       \* history: the variables at the first capture; what the route decided

allVars == <<vars, hdr, snapshot, at, event, first>>

NoMarkers == [evidence |-> <<>>, skip |-> {}, exempt |-> <<>>]
True(n) == vars[n] = "true"
Present == {n \in Var : vars[n] # "unset"}

Init ==
    /\ vars = [n \in Var |-> "unset"]
    /\ hdr \in [evidence : {<<>>} \union {<<m>> : m \in Foreign}, skip : {{}, Catalog}, exempt : {<<>>, <<TRUE>>}]
    /\ snapshot = <<>> /\ at = "route" /\ event = <<>>
    /\ first = [vars |-> {}, exempt |-> FALSE]

Ascending(ids) == SetToSortSeq(ids, LAMBDA i, j : i < j)

(* compile: selectors outside the catalog are skipped. *)
Rules == DOMAIN CorazaRuleVars \intersect Catalog
Skips == DOMAIN SkipCorazaRuleVars \intersect Catalog
byName(n) == [rules |-> {i \in Rules : CorazaRuleVars[i] = n}, skips |-> {i \in Skips : SkipCorazaRuleVars[i] = n}]

probeSelectors == [rules |-> Ascending({i \in Rules : True(CorazaRuleVars[i])}),
                   skips |-> Ascending({i \in Skips : True(SkipCorazaRuleVars[i])})]

(* The bitsets over the catalog, read back in its order. *)
scanVariables ==
    LET hit == {n \in Var : True(n)}
    IN  [rules |-> SetToSortSeq(UNION {byName(n).rules : n \in hit}, <),
         skips |-> SetToSortSeq(UNION {byName(n).skips : n \in hit}, <)]

selected ==
    LET n == Cardinality(Rules) + Cardinality(Skips)
    IN  IF n = 0 \/ Present = {} THEN [rules |-> <<>>, skips |-> <<>>]
        ELSE IF n < ProbeBelow \/ Cardinality(Present) > 2 * n THEN probeSelectors ELSE scanVariables

capture ==
    [evidence |-> [all |-> True(CorazaAllVar), ids |-> selected.rules], skip |-> selected.skips]

(* Faulty: each capture replaces the snapshot. *)
PublishLast(s) == s

publishOwned(s) == IF snapshot = <<>> THEN s ELSE snapshot

clearDefenseMarkers == NoMarkers

(* ServeHTTP, mode capture. *)
ServeCapture ==
    /\ hdr' = clearDefenseMarkers
    /\ snapshot' = publishOwned(capture)
    /\ first' = IF snapshot = <<>> THEN [first EXCEPT !.vars = {n \in Var : True(n)}] ELSE first
    /\ at' = "route" /\ event' = <<>>
    /\ UNCHANGED vars

(* ServeHTTP, mode stamp_waf. *)
ServeStamp ==
    /\ hdr' = IF snapshot = <<>> THEN clearDefenseMarkers
              ELSE [NoMarkers EXCEPT !.evidence = <<snapshot.evidence>>, !.skip = ToSet(snapshot.skip)]
    /\ at' = "stamped" /\ event' = <<>>
    /\ UNCHANGED <<vars, snapshot, first>>

(* A route sets a variable, ... *)
SetVar(n, v) ==
    /\ vars[n] # v
    /\ vars' = [vars EXCEPT ![n] = v]
    /\ UNCHANGED <<hdr, snapshot, at, event, first>>

(* ... or, in a chain of the older kind, overwrites the exempt header. *)
SetExempt(b) ==
    /\ hdr' = [hdr EXCEPT !.exempt = <<b>>]
    /\ first' = [first EXCEPT !.exempt = b]
    /\ at' = "v1" /\ event' = <<>>
    /\ UNCHANGED <<vars, snapshot>>

(* parseDefenseEvidenceMarker: strictly ascending ids of the catalog. *)
Canonical(m) ==
    /\ ToSet(m.ids) \subseteq Catalog
    /\ \A i \in 1 .. Len(m.ids) - 1 : m.ids[i] < m.ids[i + 1]

NoEvidence == [all |-> FALSE, ids |-> <<>>]
defenseEvidenceFromHeaders ==
    IF Len(hdr.evidence) = 1 /\ Canonical(hdr.evidence[1]) THEN hdr.evidence[1] ELSE NoEvidence
corazaExempt(e, id) == e.all \/ id \in ToSet(e.ids)
corazaDefenseExemptFromHeaders == hdr.exempt = <<TRUE>>

Exempt(version, id) ==
    \/ version = 2 /\ corazaExempt(defenseEvidenceFromHeaders, id)
    \/ version = 0 /\ corazaDefenseExemptFromHeaders

(* buildCorazaEvents: the WAF that ran the request logs rule id.  version is
   the evidence proof of that WAF: 2, 0 for the older exemption proof, -1 for
   one unknown here; a chain that does not stamp has a WAF of the older kind. *)
Finding(version, id) ==
    /\ at \in {"stamped", "v1"} /\ (at = "v1" => version = 0)
    /\ event' = [id |-> id, version |-> version, exempt |-> Exempt(version, id)]
    /\ UNCHANGED <<vars, hdr, snapshot, at, first>>

Next ==
    \/ ServeCapture \/ ServeStamp
    \/ \E n \in Var, v \in {"true", "other"} : SetVar(n, v)
    \/ \E b \in BOOLEAN : SetExempt(b)
    \/ \E version \in {-1, 0, 2}, id \in Catalog : Finding(version, id)

Spec == Init /\ [][Next]_allVars

-----------------------------------------------------------------------------
(* Selected at the first capture, by the variables as they were then. *)
WasSelected(id) == CorazaAllVar \in first.vars \/ (id \in Rules /\ CorazaRuleVars[id] \in first.vars)

(* For a WAF with the evidence proof a finding is exempt exactly if the first
   capture selected its rule, by the variables as they were then, whichever
   of probing and scanning selected and however often the request was captured
   and stamped since; for a WAF of the older kind only if the route said so.
   Never because of a header the request came with, of a variable set later,
   or of a version this build does not know (defense_evidence.go:147, :341,
   coraza_writer.go:390). *)
ExemptByCapture ==
    event # <<>> =>
        IF event.version = 2 THEN event.exempt = (snapshot # <<>> /\ WasSelected(event.id))
        ELSE event.exempt => event.version = 0 /\ first.exempt
=============================================================================
