--------------------------- MODULE UpstreamFailure ---------------------------
(***************************************************************************)
(* Why an upstream failed: HTTP trace callbacks of concurrent dials and    *)
(* retries record stage failures in a bounded, request-local list, and the *)
(* request's final error is matched against it.  An error message is a     *)
(* sequence of its ": "-separated parts.                                   *)
(***************************************************************************)
EXTENDS Integers, FiniteSets, Sequences, SequencesExt

CONSTANTS
    Message,        \* messages of stage errors, of at most 512 bytes
    Kind,           \* what an error is: timeout, refused, certificate or other
    maxEvidence,    \* 16 in the code
    MaxConnections, MaxFailures     \* bounds of the model

(* What the configuration guarantees. *)
UpstreamFailureAssumption ==
    /\ Kind \subseteq {"timeout", "refused", "certificate", "other"}
    /\ {maxEvidence, MaxConnections, MaxFailures} \subseteq Nat

VARIABLES
    closed, evidence, connections,      \* upstreamFailureTrace
    failures,   \* history: the stage failures of the request
    recent,     \* history: retained failures since the last connection
    final       \* the final error and its classification, <<>> while serving

vars == <<closed, evidence, connections, failures, recent, final>>

Stage == {"dns", "connect", "tls", "write"}
Failure ==
    {f \in [stage : Stage, kind : Kind, message : Message] :
        /\ f.kind = "certificate" => f.stage = "tls"
        /\ f.kind = "refused" => f.stage = "connect"}

Init ==
    /\ closed = FALSE /\ evidence = <<>> /\ connections = 0
    /\ failures = {} /\ recent = {} /\ final = <<>>

(* withUpstreamFailureTrace: the reason each callback gives its stage. *)
StageReason(f) ==
    CASE f.stage = "dns"     -> IF f.kind = "timeout" THEN "dns_timeout" ELSE "dns_error"
      [] f.stage = "connect" -> IF f.kind = "timeout" THEN "connect_timeout"
                                ELSE IF f.kind = "refused" THEN "connection_refused" ELSE "unknown"
      [] f.stage = "tls"     -> IF f.kind = "certificate" THEN "tls_certificate_error"
                                ELSE IF f.kind = "timeout" THEN "tls_handshake_timeout" ELSE "tls_handshake_error"
      [] f.stage = "write"   -> IF f.kind = "timeout" THEN "request_write_timeout" ELSE "request_write_error"

At(f) == {i \in DOMAIN evidence : evidence[i].message = f.message /\ evidence[i].reason = StageReason(f)}

Again(i) == [evidence EXCEPT ![i].connections = connections]

(* record, from a callback of any attempt, during the request or after it. *)
record(f) ==
    /\ failures' = failures \union {f}
    /\ Cardinality(failures') <= MaxFailures
    /\ LET known == ~closed /\ At(f) # {}
           room == ~closed /\ At(f) = {} /\ Len(evidence) < maxEvidence
       IN  /\ evidence' = IF known THEN Again(CHOOSE i \in At(f) : TRUE)
                          ELSE IF room THEN Append(evidence, [message |-> f.message, reason |-> StageReason(f),
                                                              connections |-> connections])
                          ELSE evidence
           /\ recent' = IF ~closed /\ (known \/ room) THEN recent \union {<<f.message, StageReason(f)>>} ELSE recent
    /\ UNCHANGED <<closed, connections, final>>

(* ConnectDone without an error, GotConn. *)
connected ==
    /\ connections < MaxConnections
    /\ connections' = IF closed THEN connections ELSE connections + 1
    /\ recent' = IF closed THEN recent ELSE {}
    /\ UNCHANGED <<closed, evidence, failures, final>>


(* A withheld message is the empty sequence. *)
Candidate(e, message) ==
    IF message = <<>> THEN e.connections = connections ELSE IsSuffix(e.message, message)

reason(message) ==
    LET found == {evidence[i].reason : i \in {j \in DOMAIN evidence : Candidate(evidence[j], message)}}
    IN  IF found = {} THEN "" ELSE IF Cardinality(found) = 1 THEN CHOOSE r \in found : TRUE ELSE "unknown"

(* upstreamFailureReason of an error that ends the request with a 5xx of the
   proxy, nothing written and the client still there: its type first, if it
   can be unwrapped, then the trace, then the type of a late write error. *)
upstreamFailureReason(f, typed, message) ==
    IF typed /\ f.kind = "certificate" THEN "tls_certificate_error"
    ELSE IF typed /\ f.stage = "dns" THEN StageReason(f)
    ELSE IF reason(message) # "" THEN reason(message)
    ELSE IF typed /\ f.stage = "write" THEN StageReason(f) ELSE "unknown"

(* ServeHTTP returns: some failed attempt's error, with its text or with the
   text withheld, is classified, ... *)
Finish(f, typed, withheld) ==
    /\ final = <<>>
    /\ final' = [error |-> f, withheld |-> withheld, typed |-> typed,
                 reason |-> upstreamFailureReason(f, typed, IF withheld THEN <<>> ELSE f.message),
                 retained |-> At(f) # {}, recent |-> recent]
    /\ UNCHANGED <<closed, evidence, connections, failures, recent>>

(* ... and the deferred close ends the trace. *)
close ==
    /\ final # <<>>
    /\ closed' = TRUE
    /\ UNCHANGED <<evidence, connections, failures, recent, final>>

Next ==
    \/ \E f \in Failure : record(f)
    \/ connected \/ close
    \/ \E f \in failures, typed, withheld \in BOOLEAN : Finish(f, typed, withheld)

Spec == Init /\ [][Next]_vars

-----------------------------------------------------------------------------
=============================================================================
