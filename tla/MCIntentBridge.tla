--------------------------- MODULE MCIntentBridge ---------------------------
(* One view's bridge, rebound and reloaded, whose router comes and goes; the   *)
(* vocabulary both sides speak, against reference definitions.               *)
EXTENDS IntentBridge, IntentVocabulary
LOCAL INSTANCE SequencesExt

Names == BoundedSeq(Characters, 6) \cup BoundedSeq({"letter", "dot"}, MaxName + 1)

\* isValidName() accepts the names of the grammar, and no others.
ASSUME NamesFollowTheGrammar == \A name \in Names : IsValidName(name) <=> WellFormed(name)

\* Whatever a provider claims, what arrives is one of its own codes, and says
\* nothing of whether a provider exists.
ASSUME ProvidersClaimNoMore ==
  \A ok \in BOOLEAN, error \in AllErrorCodes \cup {NoError, "no such key"} :
    LET told == NormalizeError(ok, error)
    IN /\ told \in ProvidersCodes <=> ~ok
       /\ told \notin BrokersCodes
       /\ NormalizeError(ok, told) = told

Values == {v \in [type : {"absent", "string", "map", "foreign"}, depth : 1..(MaxNesting + 1),
                  length : 0..(MaxString + 1), key : 0..(MaxKey + 1)] :
             v.type # "string" => v.length = 0}

\* The budget that is spent while the walk goes on refuses a payload exactly
\* when the whole of it is out of bounds, wherever in it the excess lies.
ASSUME PayloadsAreBounded ==
  \A walk \in BoundedSeq(Values, MaxNodes + 1) :
    IsCanonicalValue(walk) <=> WithinBounds(walk)
=============================================================================
