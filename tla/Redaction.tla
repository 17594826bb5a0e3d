----------------------------- MODULE Redaction -------------------------------
(***************************************************************************)
(* Masking managed values in URLs before telemetry keeps them.  A text is  *)
(* a sequence of symbols: separators, the letters a and b, and "%" before  *)
(* a letter as its escape; "%5" is the escape of "%" itself, so a value    *)
(* may be escaped over and over.  "M" is the marker.                       *)
(***************************************************************************)
EXTENDS Integers, Sequences, SequencesExt

CONSTANTS
    Policies,       \* policies: sets of [value, long], compiled
    Symbol,         \* the symbols of a request target
    Start,          \* what every text begins with
    Rounds,         \* rounds of decoding, 3 in the code
    valueMax,       \* bytes of the longest value once escaped: 6 * 512 in the code
    limit,          \* kept bytes of a text
    MaxLength       \* bound of the model

(* What the configuration guarantees. *)
RedactionAssumption ==
    /\ {Rounds, valueMax, limit, MaxLength} \subseteq Nat
    /\ \A p \in Policies : \A c \in p : c.value # <<>> /\ c.long \in BOOLEAN

VARIABLES policy, all, text     \* all: the request carried a managed value

vars == <<policy, all, text>>

Init ==
    /\ policy \in Policies /\ all \in BOOLEAN
    /\ text = Start

(* The targets and paths of requests, one symbol at a time. *)
Grow(c) ==
    /\ Len(text) < MaxLength
    /\ text' = Append(text, c)
    /\ UNCHANGED <<policy, all>>

Next == \E c \in Symbol : Grow(c)

Spec == Init /\ [][Next]_vars

Marker == <<"M">>
Alnum == {"a", "b", "5"}
question == \E c \in policy : "?" \in ToSet(c.value)

-----------------------------------------------------------------------------
(* decodeManagedHeaderEscapes: one round, left to right. *)
decodeManagedHeaderEscapes(t) ==
    LET step(acc, c) ==
            IF acc.escape /\ c \in Alnum THEN [out |-> Append(acc.out, IF c = "5" THEN "%" ELSE c), escape |-> FALSE]
            ELSE LET held == IF acc.escape THEN Append(acc.out, "%") ELSE acc.out
                 IN  IF c = "%" THEN [out |-> held, escape |-> TRUE]
                     ELSE [out |-> Append(held, c), escape |-> FALSE]
        end == FoldLeft(step, [out |-> <<>>, escape |-> FALSE], t)
    IN  IF end.escape THEN Append(end.out, "%") ELSE end.out

(* contain.find for long values; for short ones, when the request carried
   one, tokenCarries: no letter goes on where the value's edge is a letter. *)
Holds(t, every) ==
    \E c \in policy : \E i \in 1..(Len(t) - Len(c.value) + 1) :
        LET j == i + Len(c.value) - 1 IN
        /\ SubSeq(t, i, j) = c.value
        /\ \/ c.long
           \/ /\ every
              /\ ~(i > 1 /\ {t[i - 1], t[i]} \subseteq Alnum)
              /\ ~(j < Len(t) /\ {t[j], t[j + 1]} \subseteq Alnum)

(* The text and what each round of decoding makes of it. *)
Forms(t) ==
    ToSet(FoldLeft(LAMBDA forms, n : Append(forms, decodeManagedHeaderEscapes(Last(forms))),
                   <<t>>, [n \in 1..Rounds |-> n]))

urlTextCarries(t, every) == \E form \in Forms(t) : Holds(form, every)

-----------------------------------------------------------------------------
LastIndex(t, c) == SelectLastInSeq(t, LAMBDA x : x = c)
FirstIndex(t, c) == SelectInSeq(t, LAMBDA x : x = c)
Before(t, i) == SubSeq(t, 1, i - 1)
After(t, i) == SubSeq(t, i + 1, Len(t))

Parts(t, separator) ==
    FoldLeft(LAMBDA parts, c : IF c = separator THEN Append(parts, <<>>)
                               ELSE [parts EXCEPT ![Len(parts)] = Append(@, c)], << <<>> >>, t)

(* Every part between separators that carries a value becomes the marker. *)
MaskParts(t, separator, every) ==
    Tail(FoldLeft(LAMBDA out, part : out \o <<separator>> \o (IF urlTextCarries(part, every) THEN Marker ELSE part),
                  <<>>, Parts(t, separator)))

(* A text is kept if it carries nothing, masked in parts if that is enough,
   or else as a whole. *)
Masked(t, parts, whole, every) ==
    IF ~urlTextCarries(t, every) THEN t ELSE IF ~urlTextCarries(parts, every) THEN parts ELSE whole

(* Faulty: a value that spans segments stays. *)
PartsOnly(path, every) == MaskParts(path, "/", every)

redactURLPath(path, every) == Masked(path, MaskParts(path, "/", every), <<"/">> \o Marker, every)

redactURLParams(query, every) == Masked(query, MaskParts(query, "&", every), Marker, every)

redactURLQuery(query, every) ==
    IF query # <<>> /\ every THEN Marker ELSE redactURLParams(query, FALSE)

Whole == [path |-> <<"/">> \o Marker, query |-> Marker]

(* The segment and the parameter at the "?" are masked, if no other part of
   the target has a share in the value. *)
MaskQuestion(segment, first, path, query, every) ==
    IF \/ urlTextCarries(segment, every) \/ urlTextCarries(first, every)
       \/ ~urlTextCarries(segment \o <<"?">> \o first, every)
       \/ urlTextCarries(path \o <<"?">> \o query, every) THEN Whole
    ELSE [path |-> path, query |-> query]

(* A value with a "?" may lie across the path and the query. *)
AcrossQuestion(path, query, redacted, out, every) ==
    IF ~question \/ ~urlTextCarries(redacted \o <<"?">> \o redactURLParams(query, every), every)
    THEN [path |-> redacted, query |-> out]
    ELSE LET cut == FirstIndex(query, "&") IN
         MaskQuestion(After(path, LastIndex(path, "/")), IF cut = 0 THEN query ELSE Before(query, cut),
                      SubSeq(redacted, 1, LastIndex(redacted, "/")) \o Marker,
                      IF every \/ cut = 0 THEN Marker
                      ELSE Marker \o <<"&">> \o redactURLParams(After(query, cut), FALSE), every)

redactURLTarget(path, query, hasQuery, every) ==
    IF ~hasQuery THEN [path |-> redactURLPath(path, every), query |-> <<>>]
    ELSE AcrossQuestion(path, query, redactURLPath(path, every), redactURLQuery(query, every), every)

Joined(target) == target.path \o <<"?">> \o target.query

redactURI(uri, every) ==
    LET cut == FirstIndex(uri, "?") IN
    IF cut = 0 THEN redactURLTarget(uri, <<>>, FALSE, every).path
    ELSE Joined(redactURLTarget(Before(uri, cut), After(uri, cut), TRUE, every))

-----------------------------------------------------------------------------
Truncate(t, n) == IF Len(t) > n THEN SubSeq(t, 1, n) ELSE t

managedURLScanBytes(t, n) == Truncate(t, n + valueMax)


urlScanWindow(t, target) ==
    LET window == managedURLScanBytes(t, limit)
        question1 == FirstIndex(window, "?")
        amp == LastIndex(window, "&")
        start == IF target /\ question1 # 0 THEN (IF amp > question1 THEN amp ELSE question1)
                 ELSE LastIndex(window, "/")
    IN  IF window # t /\ start < limit /\ {"%", "&"} \intersect ToSet(After(window, start)) # {}
        THEN SubSeq(window, 1, start) \o Marker ELSE window

(* The path telemetry records: the query matters to a value with a "?" only. *)
telemetryPath(path, query) ==
    LET cut == managedURLScanBytes(path, limit)
        start == LastIndex(cut, "/")
        window == IF Len(cut) < Len(path) /\ path[Len(cut) + 1] # "/" /\ start >= limit
                  THEN SubSeq(cut, 1, start) \o Marker ELSE urlScanWindow(path, FALSE)
        hasQuery == question /\ cut = path /\ query # <<>>
    IN  redactURLTarget(window, managedURLScanBytes(query, 0), hasQuery, all).path

-----------------------------------------------------------------------------
Redacted(out) ==
    /\ ~urlTextCarries(out, all)
    /\ ~all /\ ~urlTextCarries(text, all) => out = text

(* No managed value is left in a redacted target, escaped or across any
   separator, and what carried none is kept (managed_header_privacy.go:360,
   :409). *)
NothingCarried == Redacted(redactURI(text, all))

(* Where in the kept part a managed value of the path begins, escaped or not. *)
ValueStarts ==
    {i \in DOMAIN Truncate(text, limit) : \E j \in i..Len(text) :
        urlTextCarries(SubSeq(text, i, j), FALSE) /\ ~urlTextCarries(SubSeq(text, i + 1, j), FALSE)}

Hidden(kept) == \A i \in ValueStarts : SubSeq(kept, 1, i) # SubSeq(text, 1, i)

=============================================================================
