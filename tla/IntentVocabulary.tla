-------------------------- MODULE IntentVocabulary --------------------------
(***************************************************************************)
(* The frozen vocabulary of app-to-app intents (src/include/LogosIntent.h):*)
(* error codes, the grammar of names, the bounds of payloads, the result   *)
(* envelope.  Pure functions; a broker and a bridge include the same ones. *)
(*                                                                         *)
(* A character is its class: a lower-case letter, a digit, "_", ".", or    *)
(* any other.  A payload is the walk over its values in the order          *)
(* checkPayloadValue() visits them: how deep each lies, its type, its      *)
(* length if it is a string, and that of the key it hangs on.              *)
(***************************************************************************)
EXTENDS Integers, Sequences, FiniteSets

CONSTANTS MinName, MaxName,                        \* 3 and 64 characters
          MaxNesting, MaxNodes, MaxString, MaxKey, \* 8, 1000, 65536, 64
          MaxPayloadChars                          \* kMaxPayloadChars

ASSUME VocabularyAssumptions ==
  {MinName, MaxName, MaxNesting, MaxNodes, MaxString, MaxKey, MaxPayloadChars} \subseteq Nat

-----------------------------------------------------------------------------
NoError == ""

\* Codes that only a broker may mint, and codes that a provider may too.
BrokersCodes   == {"not_declared", "unavailable"}
ProvidersCodes == {"cancelled", "timeout", "failed", "bad_request"}
AllErrorCodes  == BrokersCodes \cup ProvidersCodes

\* normalizeError(): what a provider claims, coerced into what it may claim.
NormalizeError(ok, error) ==
  IF ok THEN NoError ELSE IF error \in ProvidersCodes THEN error ELSE "failed"

\* makeEnvelope().
MakeEnvelope(ok, data, error, undefined) ==
  [ok |-> ok, data |-> IF ok THEN data ELSE undefined, error |-> IF ok THEN NoError ELSE error]

-----------------------------------------------------------------------------
Characters == {"letter", "digit", "underscore", "dot", "other"}

\* isValidSegment(): one pass that remembers whether it just saw "_".
Scan(seen, c) ==
  IF c = "underscore" THEN [ok |-> seen.ok /\ ~seen.underscore, underscore |-> TRUE]
                      ELSE [ok |-> seen.ok /\ c \in {"letter", "digit"}, underscore |-> FALSE]

\* What the pass remembers after each character.
Scanned(seg) ==
  LET seen[i \in 0..Len(seg)] ==
        IF i = 0 THEN [ok |-> TRUE, underscore |-> FALSE] ELSE Scan(seen[i - 1], seg[i])
  IN seen

IsValidSegment(seg) ==
  /\ seg # <<>> /\ Head(seg) = "letter"
  /\ LET seen == Scanned(seg)[Len(seg)] IN seen.ok /\ ~seen.underscore

\* QString::split: n separators make n + 1 segments, empty ones included.
Cut(segments, c, separator) ==
  IF c = separator THEN Append(segments, <<>>)
                   ELSE [segments EXCEPT ![Len(segments)] = Append(@, c)]

\* The segments of each prefix.
CutUp(s, separator) ==
  LET segments[i \in 0..Len(s)] ==
        IF i = 0 THEN <<<<>>>> ELSE Cut(segments[i - 1], s[i], separator)
  IN segments

Split(s, separator) == CutUp(s, separator)[Len(s)]

IsValidName(name) ==
  /\ Len(name) \in MinName..MaxName
  /\ Len(Split(name, "dot")) \in 2..4
  /\ \A i \in DOMAIN Split(name, "dot") : IsValidSegment(Split(name, "dot")[i])

-----------------------------------------------------------------------------
Scalars == {"absent", "bool", "int", "double"}
Types   == Scalars \cup {"string", "list", "map", "unsafe int", "not finite", "foreign"}

PayloadValue == [type : Types, depth : Nat, length : Nat, key : Nat]

\* The characters of a value and of its key.
Chars(v) == v.key + (IF v.type = "string" THEN v.length ELSE 0)

\* One value of the walk, against the budget so far.
CheckPayloadValue(budget, v) ==
  IF ~budget.ok THEN budget
  ELSE [nodes |-> budget.nodes + 1, chars |-> budget.chars + Chars(v),
        ok |-> /\ v.key <= MaxKey
               /\ budget.chars + v.key <= MaxPayloadChars
               /\ v.depth <= MaxNesting
               /\ budget.nodes + 1 <= MaxNodes
               /\ v.type \in Scalars \cup {"string", "list", "map"}
               /\ v.type = "string" =>
                    v.length <= MaxString /\ budget.chars + Chars(v) <= MaxPayloadChars]

\* The budget after each value.
Spent(walk) ==
  LET budget[i \in 0..Len(walk)] ==
        IF i = 0 THEN [nodes |-> 0, chars |-> 0, ok |-> TRUE]
                 ELSE CheckPayloadValue(budget[i - 1], walk[i])
  IN budget

IsCanonicalValue(walk) == Spent(walk)[Len(walk)].ok

-----------------------------------------------------------------------------
(***************************************************************************)
(* What the header's comments promise, without the order in which the code *)
(* goes about it.                                                          *)
(***************************************************************************)
Separators(name) == {i \in DOMAIN name : name[i] = "dot"}

\* segment := [a-z] [a-z0-9]* ( "_" [a-z0-9]+ )*, by what may stand next to what.
WellFormedSegment(seg) ==
  /\ seg # <<>> /\ seg[1] = "letter"
  /\ \A i \in DOMAIN seg :
       /\ seg[i] \in {"letter", "digit", "underscore"}
       /\ seg[i] = "underscore" => i < Len(seg) /\ seg[i + 1] \in {"letter", "digit"}

\* intent := segment ( "." segment ){1,3}, of a length within bounds.
WellFormed(name) ==
  /\ Len(name) \in MinName..MaxName
  /\ Cardinality(Separators(name)) \in 1..3
  /\ \A i \in DOMAIN name :
       /\ name[i] \in {"letter", "digit", "underscore", "dot"}
       /\ (i = 1 \/ name[i - 1] = "dot") => name[i] = "letter"
       /\ name[i] = "underscore" => i < Len(name) /\ name[i + 1] \in {"letter", "digit"}
       /\ name[i] = "dot" => i < Len(name)

\* The characters of all strings and keys of the first values.
Total(walk) ==
  LET sum[i \in 0..Len(walk)] == IF i = 0 THEN 0 ELSE sum[i - 1] + Chars(walk[i])
  IN sum

WithinBounds(walk) ==
  /\ Len(walk) <= MaxNodes
  /\ \A i \in DOMAIN walk :
       /\ walk[i].type \in Scalars \cup {"string", "list", "map"}
       /\ walk[i].depth <= MaxNesting
       /\ walk[i].key <= MaxKey
       /\ walk[i].type = "string" => walk[i].length <= MaxString
  /\ Total(walk)[Len(walk)] <= MaxPayloadChars
=============================================================================
