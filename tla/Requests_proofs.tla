---------------------------- MODULE Requests_proofs ----------------------------
(***************************************************************************)
(* Proofs about EndpointMerge and Requests: what the loop of               *)
(* getEndpointConfig makes of a host, for any endpoints with any options   *)
(* and hosts of any number of parts; where the clients of those hosts are  *)
(* sent; what the responses to any number of requests at once hold; and    *)
(* how a WebSocket session ends, for chains of any length.                 *)
(***************************************************************************)
EXTENDS Requests, Sequences_proofs

-----------------------------------------------------------------------------
(***************************************************************************)
(* EndpointMerge                                                           *)
(***************************************************************************)
\* The parts that have been merged so far.
Merged == {serverNameParts[i] : i \in 1..done}

\* There is a lowest level among those that parts ask for.
HasLowest(P) ==
    "securityLevel" \in Fields(P) =>
        \E x \in Values(P, "securityLevel") : \A y \in Values(P, "securityLevel") : x <= y

\* The inductive invariant: what the loop has so far is what the parts it has seen ask for.
MergeInv ==
    /\ MergeTypeOK
    /\ verdict = "merging" =>
          /\ Len(serverNameParts) <= MaxSniParts /\ ~Duplicates(serverNameParts)
          /\ Merged \subseteq Part /\ Agree(Merged) /\ HasLowest(Merged)
          /\ options = Asked(Merged)
    /\ MergesAsASet

-----------------------------------------------------------------------------
\* The options of one more part are its own and those there were (tls-merge.ts:34-41).
LEMMA FieldsOfOneMore ==
    ASSUME NEW P \in SUBSET Part, NEW p \in Part
    PROVE  /\ Fields(P \cup {p}) = Fields(P) \cup DOMAIN Contribution[p]
           /\ \A f \in Fields(P \cup {p}) :
                 Values(P \cup {p}, f) = Values(P, f) \cup
                    (IF f \in DOMAIN Contribution[p] THEN {Contribution[p][f]} ELSE {})
BY DEF Fields, Values, Field

\* A field that no part sets has no values.
LEMMA NoValues ==
    ASSUME NEW P \in SUBSET Part, NEW f, f \notin Fields(P)
    PROVE  Values(P, f) = {}
BY DEF Fields, Values, Field

\* What parts that agree ask for in an exclusive field is what any of them asks for.
LEMMA AskedExclusive ==
    ASSUME NEW P \in SUBSET Part, Agree(P), NEW f \in Fields(P) \ Combined,
           NEW v \in Values(P, f)
    PROVE  Asked(P)[f] = v
<1>1. (CHOOSE w \in Values(P, f) : TRUE) \in Values(P, f)
  OBVIOUS
<1>2. (CHOOSE w \in Values(P, f) : TRUE) = v
  BY <1>1 DEF Agree
<1> QED
  BY <1>2 DEF Asked, Combined

\* A field that is set has a value.
LEMMA SomeValue ==
    ASSUME NEW P \in SUBSET Part, NEW f \in Fields(P)
    PROVE  Values(P, f) # {}
BY DEF Fields, Values

\* mergeContribution throws just if the parts do not agree (tls-merge.ts:42-46).
LEMMA ConflictIsDisagreement ==
    ASSUME NEW P \in SUBSET Part, NEW p \in Part, Agree(P)
    PROVE  Conflict(Asked(P), Contribution[p]) <=> ~Agree(P \cup {p})
<1> DEFINE C == Contribution[p]
<1>0. DOMAIN Asked(P) = Fields(P)
  BY DEF Asked
<1>1. ASSUME Conflict(Asked(P), C) PROVE ~Agree(P \cup {p})
  <2>1. PICK f \in (Fields(P) \cap DOMAIN C) \ Combined : Asked(P)[f] # C[f]
    BY <1>0, <1>1 DEF Conflict
  <2>2. PICK v \in Values(P, f) : TRUE
    BY SomeValue
  <2>3. v # C[f]
    BY <2>1, AskedExclusive
  <2>4. f \in Fields(P \cup {p}) /\ v \in Values(P \cup {p}, f) /\ C[f] \in Values(P \cup {p}, f)
    BY FieldsOfOneMore
  <2> QED
    BY <2>1, <2>3, <2>4 DEF Agree
<1>2. ASSUME ~Agree(P \cup {p}) PROVE Conflict(Asked(P), C)
  <2>1. PICK f \in Fields(P \cup {p}) \ Combined :
               \E v, w \in Values(P \cup {p}, f) : v # w
    BY <1>2 DEF Agree
  <2>2. PICK v \in Values(P \cup {p}, f), w \in Values(P \cup {p}, f) : v # w
    BY <2>1
  <2>3. Values(P \cup {p}, f) =
           Values(P, f) \cup (IF f \in DOMAIN C THEN {C[f]} ELSE {})
    BY FieldsOfOneMore
  <2>4. f \in Fields(P)
    <3>1. CASE f \notin Fields(P)
      BY <2>2, <2>3, <3>1, NoValues
    <3> QED
      BY <3>1
  <2>5. f \in DOMAIN C
    <3>1. CASE f \notin DOMAIN C
      BY <2>2, <2>3, <2>4, <3>1 DEF Agree
    <3> QED
      BY <3>1
  <2>6. PICK u \in Values(P, f) : u # C[f]
    BY <2>2, <2>3, <2>5
  <2>7. Asked(P)[f] # C[f]
    BY <2>4, <2>6, AskedExclusive
  <2> QED
    BY <1>0, <2>4, <2>5, <2>7 DEF Conflict
<1> QED
  BY <1>1, <1>2

\* mergeContribution keeps the options to what the parts ask for (tls-merge.ts:38-41).
LEMMA OneMore ==
    ASSUME NEW P \in SUBSET Part, NEW p \in Part, Agree(P), Agree(P \cup {p}), HasLowest(P)
    PROVE  /\ MergeContribution(Asked(P), Contribution[p]) = Asked(P \cup {p})
           /\ HasLowest(P \cup {p})
<1> DEFINE C == Contribution[p]
           Q == P \cup {p}
           M == MergeContribution(Asked(P), C)
<1>0. /\ Fields(Q) = Fields(P) \cup DOMAIN C
      /\ \A f \in Fields(Q) :
            Values(Q, f) = Values(P, f) \cup (IF f \in DOMAIN C THEN {C[f]} ELSE {})
  BY FieldsOfOneMore
<1>1. Q \in SUBSET Part
  OBVIOUS
<1>2. DOMAIN Asked(P) = Fields(P) /\ DOMAIN Asked(Q) = Fields(Q) /\ DOMAIN M = Fields(Q)
  BY <1>0 DEF Asked, MergeContribution
<1>3. ASSUME NEW f \in Fields(Q) \ Combined PROVE M[f] = Asked(Q)[f]
  <2>1. CASE f \in DOMAIN C
    <3>1. C[f] \in Values(Q, f)
      BY <1>0, <1>3, <2>1
    <3>2. Asked(Q)[f] = C[f]
      BY <1>1, <3>1, AskedExclusive
    <3> QED
      BY <1>0, <1>2, <1>3, <2>1, <3>2 DEF MergeContribution
  <2>2. CASE f \notin DOMAIN C
    <3>1. f \in Fields(P) /\ Values(Q, f) = Values(P, f)
      BY <1>0, <1>3, <2>2
    <3>2. PICK v \in Values(P, f) : TRUE
      BY <3>1, SomeValue
    <3>3. Asked(P)[f] = v /\ Asked(Q)[f] = v
      BY <1>1, <1>3, <3>1, <3>2, AskedExclusive
    <3> QED
      BY <1>0, <1>2, <1>3, <2>2, <3>3 DEF MergeContribution
  <2> QED
    BY <2>1, <2>2
<1>4. ASSUME "enabledVersions" \in Fields(Q) PROVE M["enabledVersions"] = Asked(Q)["enabledVersions"]
  <2> DEFINE f == "enabledVersions"
  <2>1. Asked(Q)[f] = UNION Values(Q, f) /\ (f \in Fields(P) => Asked(P)[f] = UNION Values(P, f))
    BY <1>4 DEF Asked
  <2>2. f \notin Fields(P) => Values(P, f) = {}
    BY NoValues
  <2>3. CASE f \in DOMAIN C /\ f \in Fields(P)
    <3>1. M[f] = Asked(P)[f] \cup C[f]
      BY <1>0, <1>2, <1>4, <2>3 DEF MergeContribution, Combine, Combined
    <3>2. Values(Q, f) = Values(P, f) \cup {C[f]}
      BY <1>0, <1>4, <2>3
    <3> QED
      BY <2>1, <2>3, <3>1, <3>2
  <2>4. CASE f \in DOMAIN C /\ f \notin Fields(P)
    BY <1>0, <1>2, <1>4, <2>1, <2>2, <2>4 DEF MergeContribution
  <2>5. CASE f \notin DOMAIN C
    BY <1>0, <1>2, <1>4, <2>1, <2>5 DEF MergeContribution
  <2> QED
    BY <2>3, <2>4, <2>5
<1>5. ASSUME "securityLevel" \in Fields(Q)
      PROVE  /\ M["securityLevel"] = Asked(Q)["securityLevel"]
             /\ \E x \in Values(Q, "securityLevel") : \A y \in Values(Q, "securityLevel") : x <= y
  <2> DEFINE f == "securityLevel"
             Least(x, S) == x \in S /\ \A y \in S : x <= y
  <2>1. Values(Q, f) \subseteq Nat
    BY Options, <1>1 DEF Values
  <2>2. ASSUME NEW x \in Nat, NEW S \in SUBSET Nat, Least(x, S) PROVE Lowest(S) = x
    <3>1. Lowest(S) \in S /\ \A y \in S : Lowest(S) <= y
      BY <2>2 DEF Lowest
    <3>2. Lowest(S) \in Nat /\ Lowest(S) <= x /\ x <= Lowest(S)
      BY <2>2, <3>1
    <3> QED
      BY <3>2
  <2>3. Asked(Q)[f] = Lowest(Values(Q, f)) /\ (f \in Fields(P) => Asked(P)[f] = Lowest(Values(P, f)))
    BY <1>4, <1>5 DEF Asked
  <2>4. f \notin Fields(P) => Values(P, f) = {}
    BY NoValues
  <2>5. Values(Q, f) = Values(P, f) \cup (IF f \in DOMAIN C THEN {C[f]} ELSE {})
    BY <1>0, <1>5
  <2>6. CASE f \in DOMAIN C /\ f \in Fields(P)
    <3>1. PICK x \in Nat : Least(x, Values(P, f))
      BY <2>1, <2>5, <2>6 DEF HasLowest
    <3>2. Asked(P)[f] = x
      BY <2>1, <2>2, <2>3, <2>5, <2>6, <3>1
    <3>3. C[f] \in Nat
      BY <2>1, <2>5, <2>6
    <3>4. M[f] = (IF x <= C[f] THEN x ELSE C[f])
      BY <1>0, <1>2, <1>5, <2>6, <3>2 DEF MergeContribution, Combine, Combined
    <3>5. Least(M[f], Values(Q, f))
      BY <2>1, <2>5, <2>6, <3>1, <3>3, <3>4
    <3>6. M[f] \in Nat
      BY <3>1, <3>3, <3>4
    <3> QED
      BY <2>1, <2>2, <2>3, <3>5, <3>6
  <2>7. CASE f \in DOMAIN C /\ f \notin Fields(P)
    <3>1. M[f] = C[f] /\ Values(Q, f) = {C[f]}
      BY <1>0, <1>2, <1>5, <2>4, <2>5, <2>7 DEF MergeContribution
    <3>2. C[f] \in Nat /\ Least(C[f], Values(Q, f))
      BY <2>1, <3>1
    <3> QED
      BY <2>1, <2>2, <2>3, <3>1, <3>2
  <2>8. CASE f \notin DOMAIN C
    <3>1. f \in Fields(P) /\ Values(Q, f) = Values(P, f)
      BY <1>0, <1>5, <2>5, <2>8
    <3>2. M[f] = Asked(P)[f]
      BY <1>0, <1>2, <1>5, <2>8 DEF MergeContribution
    <3> QED
      BY <2>3, <3>1, <3>2 DEF HasLowest
  <2> QED
    BY <2>6, <2>7, <2>8
<1>6. \A f \in Fields(Q) : M[f] = Asked(Q)[f]
  BY <1>3, <1>4, <1>5 DEF Combined
<1>7. M = Asked(Q)
  <2>1. M = [f \in Fields(Q) |-> M[f]]
    BY <1>0, <1>2 DEF MergeContribution
  <2>2. Asked(Q) = [f \in Fields(Q) |-> Asked(Q)[f]]
    BY DEF Asked
  <2> HIDE DEF M, Q
  <2> QED
    BY <1>6, <2>1, <2>2
<1> QED
  BY <1>5, <1>7 DEF HasLowest

-----------------------------------------------------------------------------
\* A call begins with no options (endpoint-config.ts:41-43).
LEMMA InitMerge == MergeInit => MergeInv
BY Lengths DEF MergeInit, MergeInv, MergeTypeOK, MergesAsASet, Host, NoOptions

\* ... which leaves out a host that has too many parts, or one of them twice (endpoint-config.ts:34-39).
LEMMA StartMerge ==
    ASSUME MergeInv, NEW parts \in Host, GetEndpointConfig(parts)
    PROVE  MergeInv'
<1>1. MergeTypeOK'
  BY DEF GetEndpointConfig, MergeTypeOK, Host, NoOptions
<1>2. ASSUME verdict' = "merging"
      PROVE  /\ Len(parts) <= MaxSniParts /\ ~Duplicates(parts)
             /\ Merged' = {} /\ options' = Asked({}) /\ Agree({}) /\ HasLowest({})
  <2>1. Fields({}) = {}
    BY DEF Fields
  <2>2. Asked({}) = NoOptions
    BY <2>1 DEF Asked, NoOptions
  <2>3. Agree({}) /\ HasLowest({})
    BY <2>1 DEF Agree, HasLowest
  <2>4. Merged' = {}
    BY DEF GetEndpointConfig, Merged
  <2>5. Len(parts) <= MaxSniParts /\ ~Duplicates(parts) /\ options' = NoOptions
    BY <1>2, Lengths DEF GetEndpointConfig, Host
  <2> QED
    BY <2>2, <2>3, <2>4, <2>5
<1>3. MergesAsASet'
  <2>1. verdict' # "valid" /\ serverNameParts' = parts
    BY DEF GetEndpointConfig
  <2>2. verdict' = "invalid" => ~Servable(parts)
    BY Lengths DEF GetEndpointConfig, Servable, Host
  <2> QED
    BY <2>1, <2>2 DEF MergesAsASet
<1> QED
  BY <1>1, <1>2, <1>3 DEF MergeInv, GetEndpointConfig

\* A part that cannot be had with those before it makes the host one that cannot be served
\* (endpoint-config.ts:47-49, tls-merge.ts:42-46).
LEMMA RejectPartMerge ==
    ASSUME MergeInv, RejectPart
    PROVE  MergeInv'
<1> DEFINE P == PartsOf(serverNameParts)
<1>0. MergeTypeOK /\ serverNameParts \in Seq(Word) /\ done \in 0..Len(serverNameParts)
  BY DEF MergeInv, MergeTypeOK, Host
<1>1. MergeTypeOK'
  BY <1>0 DEF RejectPart, MergeTypeOK
<1>2. ThisPart \in P /\ Merged \subseteq P
  BY <1>0 DEF RejectPart, ThisPart, Merged, PartsOf
<1>3. ~Servable(serverNameParts)
  <2>1. CASE ThisPart \notin Part
    BY <1>2, <2>1 DEF Servable
  <2>2. CASE ThisPart \in Part
    <3>1. ~Agree(Merged \cup {ThisPart})
      BY <2>2, ConflictIsDisagreement DEF RejectPart, MergeInv
    <3>2. Agree(P) => Agree(Merged \cup {ThisPart})
      BY <1>2 DEF Agree, Fields, Values
    <3> QED
      BY <3>1, <3>2 DEF Servable
  <2> QED
    BY <2>1, <2>2
<1> QED
  BY <1>1, <1>3 DEF RejectPart, MergeInv, MergesAsASet, Servable, PartsOf, Duplicates

\* A part that can adds what it asks for (endpoint-config.ts:51-55).
LEMMA MergePartMerge ==
    ASSUME MergeInv, MergePart
    PROVE  MergeInv'
<1>0. /\ MergeTypeOK /\ serverNameParts \in Seq(Word) /\ done \in 0..Len(serverNameParts)
      /\ Merged \subseteq Part /\ Agree(Merged) /\ HasLowest(Merged) /\ options = Asked(Merged)
      /\ verdict = "merging" /\ verdict' = "merging"
      /\ Len(serverNameParts) <= MaxSniParts /\ ~Duplicates(serverNameParts)
  BY DEF MergeInv, MergeTypeOK, Host, MergePart
<1>1. Merged' = Merged \cup {ThisPart}
  BY <1>0 DEF MergePart, ThisPart, Merged
<1>2. ThisPart \in Part /\ Agree(Merged \cup {ThisPart})
  BY <1>0, ConflictIsDisagreement DEF MergePart
<1>3. options' = Asked(Merged \cup {ThisPart}) /\ HasLowest(Merged \cup {ThisPart})
  BY <1>0, <1>2, OneMore DEF MergePart
<1>4. MergeTypeOK'
  <2>1. DOMAIN options' \subseteq Field
    BY <1>3 DEF Asked, Fields
  <2>2. alpnPreferences' \in Seq({"h2", "http/1.1"})
    BY <1>0, <1>2, AlpnLists DEF MergePart, MergeTypeOK
  <2>3. done' \in 0..Len(serverNameParts')
    BY <1>0 DEF MergePart
  <2> QED
    BY <1>0, <2>1, <2>2, <2>3 DEF MergeTypeOK, MergePart
<1>5. serverNameParts' = serverNameParts
  BY DEF MergePart
<1>6. (~Duplicates(serverNameParts))'
  BY <1>0, <1>5 DEF Duplicates
<1>7. (Agree(Merged))' /\ (HasLowest(Merged))' /\ (options = Asked(Merged))' /\ (Merged \subseteq Part)'
  BY <1>0, <1>1, <1>2, <1>3 DEF Agree, HasLowest, Asked, Fields, Values
<1> QED
  BY <1>0, <1>4, <1>5, <1>6, <1>7 DEF MergeInv, MergesAsASet

\* What is left after the loop is what the host asks for (endpoint-config.ts:58-69).
LEMMA ResolveMerge ==
    ASSUME MergeInv, Resolve
    PROVE  MergeInv'
<1> DEFINE P == PartsOf(serverNameParts)
<1>0. /\ MergeTypeOK /\ serverNameParts \in Seq(Word) /\ done = Len(serverNameParts)
      /\ Merged \subseteq Part /\ Agree(Merged) /\ options = Asked(Merged)
      /\ Len(serverNameParts) <= MaxSniParts /\ ~Duplicates(serverNameParts)
  BY DEF MergeInv, MergeTypeOK, Host, Resolve
<1>1. Merged = P
  BY <1>0 DEF Merged, PartsOf
<1>2. DOMAIN options = Fields(P)
  BY <1>0, <1>1 DEF Asked
<1>3. verdict' = "valid" <=> Servable(serverNameParts)
  <2>1. "rejectTls" \in Fields(P) => done >= 1
    BY <1>0 DEF Fields, PartsOf
  <2>2. verdict' = "valid" <=> ~("rejectTls" \in Fields(P) /\ done > 1)
    BY <1>2 DEF Resolve
  <2>3. Servable(serverNameParts) <=> ("rejectTls" \in Fields(P) => done = 1)
    BY <1>0, <1>1 DEF Servable
  <2> QED
    BY <1>0, <2>1, <2>2, <2>3
<1>4. MergeTypeOK'
  <2>1. DOMAIN ResolveEnabledVersions(options) \subseteq Field \cup {"secureOptions", "minVersion", "securityLevel"}
    BY <1>2 DEF ResolveEnabledVersions, Fields
  <2> QED
    BY <1>0, <2>1 DEF MergeTypeOK, Resolve
<1>5. MergesAsASet'
  <2>1. serverNameParts' = serverNameParts /\ options' = ResolveEnabledVersions(Asked(P))
    BY <1>0, <1>1 DEF Resolve
  <2>2. verdict' \in {"valid", "invalid"}
    BY DEF Resolve
  <2> QED
    BY <1>3, <2>1, <2>2 DEF MergesAsASet
<1> QED
  BY <1>4, <1>5 DEF MergeInv, Resolve

-----------------------------------------------------------------------------
\* Every step keeps the invariant.
THEOREM NextMerge == MergeInv /\ [MergeNext]_mergeVars => MergeInv'
<1>1. CASE UNCHANGED mergeVars
  <2> USE <1>1 DEF mergeVars
  <2>1. Merged' = Merged
    BY DEF Merged
  <2>2. MergesAsASet => MergesAsASet'
    BY DEF MergesAsASet
  <2> QED
    BY <2>1, <2>2 DEF MergeInv, MergeTypeOK
<1> QED
  BY <1>1, StartMerge, RejectPartMerge, MergePartMerge, ResolveMerge DEF MergeNext, MergeStep

\* The invariant holds in every state.
THEOREM MergeInvariant == MergeSpec => []MergeInv
BY InitMerge, NextMerge, PTL DEF MergeSpec

\* A host is refused just if its parts cannot be had together, whatever their order, and else its
\* options are what they ask for (endpoint-config.ts:33-69, tls-merge.ts:28-48).
THEOREM MergesAsASetThm == MergeSpec => []MergesAsASet
<1>1. MergeInv => MergesAsASet
  BY DEF MergeInv
<1> QED
  BY <1>1, MergeInvariant, PTL

-----------------------------------------------------------------------------
\* A cap on the version is the same for every part that sets one.
LEMMA Cap ==
    ASSUME NEW P \in SUBSET Part, Agree(P), NEW v \in Version
    PROVE  /\ "maxVersion" \in Fields(P) =>
                 (v <= Asked(P)["maxVersion"] <=> \A max \in Values(P, "maxVersion") : v <= max)
           /\ "maxVersion" \notin Fields(P) => Values(P, "maxVersion") = {}
<1>1. ASSUME "maxVersion" \in Fields(P)
      PROVE  v <= Asked(P)["maxVersion"] <=> \A max \in Values(P, "maxVersion") : v <= max
  <2>1. \A max \in Values(P, "maxVersion") : max = Asked(P)["maxVersion"]
    BY <1>1, AskedExclusive DEF Combined
  <2>2. Values(P, "maxVersion") # {}
    BY <1>1, SomeValue
  <2> QED
    BY <2>1, <2>2
<1> QED
  BY <1>1, NoValues

\* What a context accepts whose options say which versions and from which one on.
LEMMA AcceptedOfResolved ==
    ASSUME NEW o, {"secureOptions", "minVersion"} \subseteq DOMAIN o, NEW v \in Version
    PROVE  v \in Accepted(o) <=> /\ v \notin o["secureOptions"]
                                 /\ v >= o["minVersion"]
                                 /\ "maxVersion" \in DOMAIN o => v <= o["maxVersion"]
                                 /\ v <= 1 => "securityLevel" \in DOMAIN o /\ o["securityLevel"] = 0
BY DEF Accepted

\* resolveEnabledVersions makes a context accept what was named, as far as the cap allows.
LEMMA ResolvedVersions ==
    ASSUME NEW P \in SUBSET Part, Agree(P)
    PROVE  LET named == UNION Values(P, "enabledVersions")
           IN  Accepted(ResolveEnabledVersions(Asked(P))) =
                  {v \in IF named = {} THEN {2, 3} ELSE named :
                      \A max \in Values(P, "maxVersion") : v <= max}
<1> DEFINE o == Asked(P)
           r == ResolveEnabledVersions(o)
           named == UNION Values(P, "enabledVersions")
           cap(v) == \A max \in Values(P, "maxVersion") : v <= max
<1>1. DOMAIN o = Fields(P) /\ {"secureOptions", "minVersion"} \cap DOMAIN o = {}
  BY Options DEF Asked, Fields
<1>2. named \subseteq Version
  BY Options DEF Values
<1>3. CASE "enabledVersions" \notin Fields(P)
  <2>1. named = {} /\ r = o
    BY <1>1, <1>3, NoValues DEF ResolveEnabledVersions
  <2>2. \A v \in Version : v \in Accepted(o) <=> v \in {2, 3} /\ cap(v)
    BY <1>1, Cap DEF Accepted, Version
  <2> QED
    BY <2>1, <2>2 DEF Accepted, Version
<1>4. CASE "enabledVersions" \in Fields(P)
  <2>1. o["enabledVersions"] = named /\ named # {}
    <3>1. PICK p \in P : "enabledVersions" \in DOMAIN Contribution[p]
      BY <1>4 DEF Fields
    <3>3. Contribution[p]["enabledVersions"] # {} /\ Contribution[p]["enabledVersions"] \subseteq named
      BY <3>1, Options DEF Values
    <3>2. o["enabledVersions"] = named
      BY <1>4 DEF Asked
    <3> QED
      BY <3>2, <3>3
  <2> DEFINE low == Lowest(named)
  <2>2. low \in named /\ \A v \in named : low <= v
    <3>1. \E x \in named : \A v \in named : x <= v
      BY <1>2, <2>1 DEF Version
    <3> QED
      BY <3>1 DEF Lowest
  <2>3. /\ DOMAIN r = (Fields(P) \ {"enabledVersions"}) \cup {"secureOptions", "minVersion"}
                        \cup (IF low <= 1 THEN {"securityLevel"} ELSE {})
        /\ r["secureOptions"] = Version \ named
        /\ r["minVersion"] = low
        /\ low <= 1 => r["securityLevel"] = 0
        /\ "maxVersion" \in Fields(P) => r["maxVersion"] = o["maxVersion"]
    BY <1>1, <1>4, <2>1 DEF ResolveEnabledVersions, Disabled
  <2> HIDE DEF low
  <2>4. \A v \in Version : v \in Accepted(r) <=> v \in named /\ cap(v)
    <3> TAKE v \in Version
    <3>1. "maxVersion" \in DOMAIN r <=> "maxVersion" \in Fields(P)
      BY <2>3
    <3>2. ("maxVersion" \in DOMAIN r => v <= r["maxVersion"]) <=> cap(v)
      BY <2>3, <3>1, Cap
    <3>3. v \in named => v >= low /\ (v <= 1 => low <= 1)
      BY <1>2, <2>2 DEF Version
    <3>4. low \in Version /\ (v \in Version \ named <=> v \notin named)
      BY <1>2, <2>2
    <3>5. /\ {"secureOptions", "minVersion"} \subseteq DOMAIN r
          /\ low <= 1 => "securityLevel" \in DOMAIN r
      BY <2>3
    <3>6. v \in Accepted(r) <=> /\ v \notin r["secureOptions"]
                                /\ v >= r["minVersion"]
                                /\ "maxVersion" \in DOMAIN r => v <= r["maxVersion"]
                                /\ v <= 1 => "securityLevel" \in DOMAIN r /\ r["securityLevel"] = 0
      BY <3>5, AcceptedOfResolved
    <3> HIDE DEF r, cap, named, o
    <3> QED
      <4>1. v \notin r["secureOptions"] <=> v \in named
        BY <2>3, <3>4
      <4>2. v \in named => v >= r["minVersion"] /\ (v <= 1 => r["securityLevel"] = 0)
        BY <2>3, <3>3
      <4>3. v \in named /\ v <= 1 => "securityLevel" \in DOMAIN r
        BY <3>3, <3>5
      <4> QED
        BY <3>2, <3>6, <4>1, <4>2, <4>3 DEF Version
  <2> QED
    BY <1>2, <2>1, <2>4 DEF Accepted
<1> QED
  BY <1>3, <1>4

\* What the merge promises of the options says which versions are accepted.
LEMMA VersionsOfMerge == MergesAsASet => VersionsAsAsked
<1> SUFFICES ASSUME MergesAsASet, verdict = "valid"
             PROVE  VersionsAsAsked
  BY DEF VersionsAsAsked
<1>1. /\ PartsOf(serverNameParts) \subseteq Part /\ Agree(PartsOf(serverNameParts))
      /\ options = ResolveEnabledVersions(Asked(PartsOf(serverNameParts)))
  BY DEF MergesAsASet, Servable
<1> QED
  BY <1>1, ResolvedVersions DEF VersionsAsAsked

\* The versions a host names are those its context accepts, as far as its ciphers allow
\* (tls-merge.ts:56-73).
THEOREM VersionsAsAskedThm == MergeSpec => []VersionsAsAsked
BY VersionsOfMerge, MergesAsASetThm, PTL

-----------------------------------------------------------------------------
(***************************************************************************)
(* HostRouting                                                             *)
(***************************************************************************)
\* What getLocalOnlyRedirectHost looks at, of the parts instead of the options made of them.
LocalOnlyParts(P) ==
    LET o == ResolveEnabledVersions(Asked(P)) IN
    /\ "requiredType" \in DOMAIN o /\ o.requiredType = "local"
    /\ ~("selfSigned" \in DOMAIN o /\ o.selfSigned)
    /\ "untrusted-root" \notin P

\* A client is on a connection of its own, or on an HTTP/2 connection of another host.
OnConnection ==
    /\ phase \in {"requesting", "routing"} =>
          /\ conn.protocol = url.protocol
          /\ conn.alpn = "h2" => conn.protocol = "https"
          /\ conn.sni = url.host \/ conn.alpn = "h2"
    /\ phase = "handshake" => url.protocol = "https"
    /\ phase = "routing" => conn.sni = url.host /\ serverNameParts = url.host
    /\ answer = "page" => phase = "end"

\* Where it was sent, there is nothing to send it away for.
Redirected ==
    /\ url.host \in Host /\ first \in Host
    /\ redirects \in {0, 1}
    /\ redirects = 0 => url.host = first
    /\ redirects = 1 => /\ url.protocol = "https"
                        /\ ~(usingPublicCA /\ LocalOnlyParts(PartsOf(url.host)))

\* The inductive invariant.
RouteInv == MergeInv /\ OnConnection /\ Redirected /\ RedirectOnce /\ ServedOverOwnTls

-----------------------------------------------------------------------------
\* The options of a host that is valid are those its parts ask for.
LEMMA OptionsOfHost ==
    ASSUME RouteInv, phase = "routing", verdict = "valid"
    PROVE  /\ Servable(url.host)
           /\ options = ResolveEnabledVersions(Asked(PartsOf(url.host)))
           /\ LocalOnly <=> usingPublicCA /\ LocalOnlyParts(PartsOf(url.host))
BY DEF RouteInv, OnConnection, MergeInv, MergesAsASet, LocalOnly, LocalOnlyParts

\* resolveEnabledVersions leaves the certificate's options alone.
LEMMA CertOptionsKept ==
    ASSUME NEW P \in SUBSET Part, NEW f \in {"requiredType", "selfSigned"}
    PROVE  LET o == ResolveEnabledVersions(Asked(P)) IN
           /\ f \in DOMAIN o <=> f \in Fields(P)
           /\ f \in Fields(P) => o[f] = Asked(P)[f]
<1>1. DOMAIN Asked(P) = Fields(P)
  BY DEF Asked
<1> QED
  BY <1>1 DEF ResolveEnabledVersions

\* A host with room for one part more can be sent to *--untrusted-root (http-handler.ts:77-93).
LEMMA TargetServable ==
    ASSUME NEW host \in Host, Servable(host), Len(host) < MaxSniParts,
           LocalOnlyParts(PartsOf(host))
    PROVE  Servable(Append(host, "untrusted-root"))
<1> DEFINE P == PartsOf(host)
           u == "untrusted-root"
           target == Append(host, u)
           Q == P \cup {u}
           o == ResolveEnabledVersions(Asked(P))
<1>0. /\ P \in SUBSET Part /\ Agree(P) /\ host \in Seq(Word) /\ u \notin P
      /\ u \in Part /\ ~Duplicates(host)
  BY UntrustedRoot DEF Servable, LocalOnlyParts, Host
<1>1. /\ Len(target) = Len(host) + 1
      /\ \A i \in 1..Len(host) : target[i] = host[i]
      /\ target[Len(host) + 1] = u
  BY <1>0, PartsAreWords
<1>2. PartsOf(target) = Q
  BY <1>0, <1>1 DEF PartsOf
<1>3. ~Duplicates(target)
  <2>1. DOMAIN target = 1..(Len(host) + 1) /\ DOMAIN host = 1..Len(host)
    BY <1>0, <1>1, PartsAreWords
  <2>2. \A i \in 1..Len(host) : host[i] # u
    BY <1>0, <2>1 DEF PartsOf
  <2> QED
    BY <1>0, <1>1, <2>1, <2>2 DEF Duplicates
<1>4. /\ \A f \in Fields(Q) :
            Values(Q, f) = Values(P, f) \cup
               (IF f \in DOMAIN Contribution[u] THEN {Contribution[u][f]} ELSE {})
      /\ Fields(Q) = Fields(P) \cup DOMAIN Contribution[u]
      /\ DOMAIN Contribution[u] = {"requiredType", "selfSigned"}
  BY <1>0, FieldsOfOneMore, UntrustedRoot
<1>5. /\ "requiredType" \in Fields(P) /\ Asked(P)["requiredType"] = "local"
      /\ "selfSigned" \in Fields(P) => ~ Asked(P)["selfSigned"]
  BY <1>0, CertOptionsKept DEF LocalOnlyParts
<1>6. Agree(Q)
  <2>1. \A v \in Values(P, "requiredType") : v = "local"
    BY <1>0, <1>5, AskedExclusive DEF Combined
  <2>2. \A v \in Values(P, "selfSigned") : v = FALSE
    <3> SUFFICES ASSUME NEW v \in Values(P, "selfSigned") PROVE v = FALSE
      OBVIOUS
    <3>1. "selfSigned" \in Fields(P) /\ v \in BOOLEAN
      BY <1>0, SelfSigned DEF Values, Fields, Field
    <3>2. Asked(P)["selfSigned"] = v
      BY <1>0, <3>1, AskedExclusive DEF Combined
    <3> QED
      BY <1>5, <3>1, <3>2
  <2>3. /\ Values(Q, "requiredType") = Values(P, "requiredType") \cup {"local"}
        /\ Values(Q, "selfSigned") = Values(P, "selfSigned") \cup {FALSE}
    <3>1. /\ Contribution[u]["requiredType"] = "local" /\ Contribution[u]["selfSigned"] = FALSE
          /\ "requiredType" \in DOMAIN Contribution[u] /\ "selfSigned" \in DOMAIN Contribution[u]
      BY UntrustedRoot
    <3>2. "requiredType" \in Fields(Q) /\ "selfSigned" \in Fields(Q)
      BY <1>4, <3>1
    <3> HIDE DEF P, Q, u
    <3> QED
      BY <1>4, <3>1, <3>2
  <2>4. ASSUME NEW f \in Fields(Q) \ Combined, f \notin {"requiredType", "selfSigned"}
        PROVE  \A v, w \in Values(Q, f) : v = w
    <3> HIDE DEF P, Q, u
    <3>1. f \in Fields(P) /\ Values(Q, f) = Values(P, f)
      BY <1>4, <2>4
    <3> QED
      BY <1>0, <2>4, <3>1 DEF Agree
  <2>5. ASSUME NEW f \in {"requiredType", "selfSigned"}
        PROVE  \A v, w \in Values(Q, f) : v = w
    <3> HIDE DEF P, Q, u
    <3>1. CASE f = "requiredType"
      <4>1. \A v \in Values(Q, f) : v = "local"
        BY <2>1, <2>3, <3>1
      <4> QED
        BY <4>1
    <3>2. CASE f = "selfSigned"
      <4>1. \A v \in Values(Q, f) : v = FALSE
        BY <2>2, <2>3, <3>2, Zenon
      <4> QED
        BY <4>1, Zenon
    <3> QED
      BY <2>5, <3>1, <3>2
  <2> HIDE DEF P, Q, u
  <2> QED
    BY <2>4, <2>5 DEF Agree
<1>7. "rejectTls" \notin Fields(Q)
  <2>1. ASSUME "rejectTls" \in Fields(P) PROVE FALSE
    <3>1. Len(host) = 1
      BY <2>1 DEF Servable
    <3>2. P = {host[1]}
      BY <1>0, <3>1 DEF PartsOf
    <3>3. "rejectTls" \in DOMAIN Contribution[host[1]] /\ "requiredType" \in DOMAIN Contribution[host[1]]
      BY <1>5, <2>1, <3>2 DEF Fields
    <3> QED
      BY <1>0, <3>2, <3>3, NoTls
  <2> QED
    BY <1>4, <2>1
<1>8. Len(target) <= MaxSniParts
  BY <1>0, <1>1, Lengths
<1> QED
  BY <1>0, <1>2, <1>3, <1>6, <1>7, <1>8 DEF Servable

-----------------------------------------------------------------------------
\* A client begins with the host it asked for.
LEMMA InitRoute == RouteInit => RouteInv
<1> SUFFICES ASSUME RouteInit PROVE RouteInv
  OBVIOUS
<1>1. MergeInv
  BY InitMerge DEF RouteInit
<1>2. url.host = first /\ first \in Host /\ redirects = 0 /\ phase = "connecting" /\ answer = "none"
  BY HostsAsked DEF RouteInit
<1> QED
  BY <1>1, <1>2 DEF RouteInv, OnConnection, Redirected, RedirectOnce, ServedOverOwnTls

\* getEndpointConfig is called only for hosts, and its loop runs to its end.
LEMMA RouteMerge ==
    ASSUME RouteInv, [RouteNext]_routeVars
    PROVE  MergeInv'
<1>1. url.host \in Host
  BY DEF RouteInv, Redirected
<1>2. [MergeNext]_mergeVars
  BY <1>1 DEF RouteNext, routeVars, ConnectPlain, ConnectTls, RejectHandshake, CompleteHandshake,
       Redirect421, ServeRoot, ValidateHost, RejectHost, Redirect, ServePage, MergeNext
<1> QED
  BY <1>2, NextMerge DEF RouteInv

\* While a client stays with its host, what it was promised of it stays true.
LEMMA StaysWithHost ==
    ASSUME RouteInv, UNCHANGED <<usingPublicCA, first, url, redirects>>
    PROVE  Redirected' /\ RedirectOnce'
BY DEF RouteInv, Redirected, RedirectOnce

\* The loop of getEndpointConfig changes nothing but the options.
LEMMA MergeStepRoute ==
    ASSUME RouteInv, MergeStep \/ UNCHANGED mergeVars, UNCHANGED clientVars
    PROVE  OnConnection' /\ ServedOverOwnTls'
<1>1. UNCHANGED serverNameParts
  BY DEF MergeStep, RejectPart, MergePart, Resolve, mergeVars
<1> QED
  BY <1>1 DEF clientVars, RouteInv, OnConnection, ServedOverOwnTls

\* The connection (tls-handler.ts, http-handler.ts:134-143).
LEMMA ConnectionRoute ==
    ASSUME RouteInv,
           \/ ConnectPlain \/ ConnectTls \/ RejectHandshake \/ CompleteHandshake \/ Redirect421
           \/ ValidateHost \/ RejectHost
    PROVE  OnConnection' /\ Redirected' /\ RedirectOnce' /\ ServedOverOwnTls'
<1>0. UNCHANGED <<usingPublicCA, first, url, redirects>>
  BY DEF ConnectPlain, ConnectTls, RejectHandshake, CompleteHandshake, Redirect421, ValidateHost, RejectHost
<1>1. answer' # "page"
  BY DEF RouteInv, OnConnection, EndWith, ConnectPlain, ConnectTls, RejectHandshake,
         CompleteHandshake, Redirect421, ValidateHost, RejectHost
<1>2. ASSUME ConnectPlain PROVE OnConnection'
  BY <1>0, <1>1, <1>2 DEF ConnectPlain, RouteInv, OnConnection
<1>3. ASSUME ConnectTls \/ RejectHandshake \/ Redirect421 \/ RejectHost PROVE OnConnection'
  BY <1>0, <1>1, <1>3 DEF ConnectTls, RejectHandshake, Redirect421, RejectHost, EndWith, OnConnection
<1>4. ASSUME CompleteHandshake PROVE OnConnection'
  BY <1>0, <1>1, <1>4 DEF CompleteHandshake, RouteInv, OnConnection
<1>5. ASSUME ValidateHost PROVE OnConnection'
  BY <1>0, <1>1, <1>5 DEF ValidateHost, Misdirected, GetEndpointConfig, RouteInv, OnConnection
<1>6. OnConnection'
  BY <1>2, <1>3, <1>4, <1>5
<1> QED
  BY <1>0, <1>1, <1>6, StaysWithHost DEF ServedOverOwnTls

\* A page that is served, of the root domain or another (http-handler.ts:122-143, 187-196).
LEMMA ServeRoute ==
    ASSUME RouteInv, ServeRoot \/ ServePage
    PROVE  OnConnection' /\ Redirected' /\ RedirectOnce' /\ ServedOverOwnTls'
<1> DEFINE P == PartsOf(url.host)
<1>0. UNCHANGED <<usingPublicCA, first, url, redirects, conn>> /\ phase' = "end"
  BY DEF ServeRoot, ServePage, EndWith
<1>1. OnConnection'
  BY <1>0 DEF OnConnection
<1>2. conn.sni = url.host
  BY DEF ServeRoot, ServePage, Misdirected, RouteInv, OnConnection
<1>3. conn.protocol = "http" => P \subseteq PlainTextAllowed
  <2>1. ServeRoot => P = {}
    BY DEF ServeRoot, PartsOf
  <2>2. ServePage => (conn.protocol = "http" => P \subseteq PlainTextAllowed)
    BY DEF ServePage, TlsOnly
  <2> QED
    BY <2>1, <2>2
<1>4. usingPublicCA /\ "local" \in Values(P, "requiredType") => P \cap {"untrusted-root", "self-signed"} # {}
  <2>1. CASE ServeRoot
    BY <2>1 DEF ServeRoot, PartsOf, Values
  <2>2. CASE ServePage
    <3> SUFFICES ASSUME usingPublicCA, "local" \in Values(P, "requiredType"), "untrusted-root" \notin P
                 PROVE  "self-signed" \in P
      OBVIOUS
    <3>1. P \in SUBSET Part /\ Agree(P) /\ ~LocalOnlyParts(P)
      BY <2>2, OptionsOfHost DEF ServePage, Servable
    <3>2. "requiredType" \in Fields(P) /\ Asked(P)["requiredType"] = "local"
      <4>1. "requiredType" \in Fields(P)
        BY <3>1, NoValues
      <4> QED
        BY <3>1, <4>1, AskedExclusive DEF Combined
    <3>3. "selfSigned" \in Fields(P) /\ Asked(P)["selfSigned"]
      BY <3>1, <3>2, CertOptionsKept DEF LocalOnlyParts
    <3>4. PICK p \in P : "selfSigned" \in DOMAIN Contribution[p]
      BY <3>3 DEF Fields
    <3>5. Contribution[p]["selfSigned"] \in Values(P, "selfSigned")
      BY <3>4 DEF Values
    <3>6. Asked(P)["selfSigned"] = Contribution[p]["selfSigned"]
      BY <3>1, <3>3, <3>5, AskedExclusive DEF Combined
    <3>7. Contribution[p]["selfSigned"] = (p = "self-signed")
      BY <3>1, <3>4, SelfSigned
    <3>8. p = "self-signed"
      BY <3>3, <3>6, <3>7
    <3> QED
      BY <3>4, <3>8
  <2> QED
    BY <2>1, <2>2
<1>5. ServedOverOwnTls'
  BY <1>0, <1>2, <1>3, <1>4 DEF ServedOverOwnTls
<1> QED
  BY <1>0, <1>1, <1>5, StaysWithHost

\* A redirect is the first one, and leaves nothing to send the client away for
\* (http-handler.ts:77-93, 187-213).
LEMMA RedirectRoute ==
    ASSUME RouteInv, Redirect
    PROVE  OnConnection' /\ Redirected' /\ RedirectOnce' /\ ServedOverOwnTls'
<1> DEFINE P == PartsOf(url.host)
           u == "untrusted-root"
<1>0. /\ phase = "routing" /\ verdict = "valid" /\ UNCHANGED <<usingPublicCA, first, answer>>
      /\ url'.protocol = "https" /\ redirects' = redirects + 1
      /\ url'.host = IF LocalOnly THEN Append(url.host, u) ELSE url.host
  BY DEF Redirect, Target
<1>1. /\ Servable(url.host) /\ P \in SUBSET Part /\ url.host \in Host /\ first \in Host
      /\ LocalOnly <=> usingPublicCA /\ LocalOnlyParts(P)
  BY <1>0, OptionsOfHost DEF RouteInv, Redirected, Servable
<1>2. redirects = 0 /\ url.host = first
  <2>1. redirects = 1 => ~TlsOnly /\ ~LocalOnly
    BY <1>0, <1>1 DEF RouteInv, Redirected, OnConnection, TlsOnly
  <2> QED
    BY <2>1 DEF Redirect, RouteInv, Redirected
<1>3. answer # "page"
  BY <1>0 DEF RouteInv, OnConnection
<1>4. OnConnection'
  <2>1. CASE phase' = "connecting"
    BY <1>0, <1>3, <2>1 DEF OnConnection
  <2>2. CASE phase' = "requesting" /\ conn.alpn = "h2" /\ UNCHANGED conn
    BY <1>0, <1>3, <2>2 DEF RouteInv, OnConnection
  <2> QED
    BY <2>1, <2>2 DEF Redirect
<1>5. ASSUME LocalOnly
      PROVE  url'.host \in Host /\ u \in PartsOf(url'.host)
  <2>1. url.host \in Seq(Word) /\ u \in Word /\ Len(url.host) < MaxLength
    BY <1>1, Lengths, Room, UntrustedRoot, PartsAreWords DEF Servable, Host
  <2>2. /\ Append(url.host, u) \in Seq(Word)
        /\ Len(Append(url.host, u)) = Len(url.host) + 1
        /\ Append(url.host, u)[Len(url.host) + 1] = u
    BY <2>1
  <2> QED
    BY <1>0, <1>5, <2>1, <2>2, Lengths DEF Host, PartsOf
<1>6. Redirected'
  <2>1. url'.host \in Host
    BY <1>0, <1>1, <1>5
  <2>2. ~(usingPublicCA /\ LocalOnlyParts(PartsOf(url'.host)))
    <3>1. CASE LocalOnly
      BY <1>5, <3>1 DEF LocalOnlyParts
    <3>2. CASE ~LocalOnly
      BY <1>0, <1>1, <3>2
    <3> QED
      BY <3>1, <3>2
  <2>3. first' \in Host /\ redirects' = 1
    BY <1>0, <1>1, <1>2
  <2>4. (usingPublicCA /\ LocalOnlyParts(PartsOf(url.host)))' <=>
           usingPublicCA /\ LocalOnlyParts(PartsOf(url'.host))
    BY <1>0 DEF LocalOnlyParts, PartsOf, ResolveEnabledVersions, Asked, Fields, Values
  <2> QED
    BY <1>0, <2>1, <2>2, <2>3, <2>4 DEF Redirected
<1>7. RedirectOnce'
  <2>1. Len(first) < MaxSniParts => Servable(url'.host)
    <3>1. CASE LocalOnly
      BY <1>0, <1>1, <1>2, <3>1, TargetServable
    <3>2. CASE ~LocalOnly
      BY <1>0, <1>1, <3>2
    <3> QED
      BY <3>1, <3>2
  <2>2. Servable(url.host)' <=> Servable(url'.host)
    BY DEF Servable, PartsOf, Duplicates, Agree, Fields, Values
  <2> QED
    BY <1>0, <1>2, <2>1, <2>2 DEF RedirectOnce
<1>8. ServedOverOwnTls'
  BY <1>0, <1>3 DEF ServedOverOwnTls
<1> QED
  BY <1>4, <1>6, <1>7, <1>8

-----------------------------------------------------------------------------
\* Every step of a client keeps the invariant.
LEMMA NextRoute == RouteInv /\ [RouteNext]_routeVars => RouteInv'
<1> SUFFICES ASSUME RouteInv, [RouteNext]_routeVars PROVE RouteInv'
  OBVIOUS
<1>1. MergeInv'
  BY RouteMerge
<1>2. OnConnection' /\ Redirected' /\ RedirectOnce' /\ ServedOverOwnTls'
  <2>1. CASE (MergeStep \/ UNCHANGED mergeVars) /\ UNCHANGED clientVars
    BY <2>1, MergeStepRoute, StaysWithHost DEF clientVars
  <2> QED
    BY <2>1, ConnectionRoute, ServeRoute, RedirectRoute DEF RouteNext, routeVars
<1> QED
  BY <1>1, <1>2 DEF RouteInv

\* The invariant holds in every state.
THEOREM RouteInvariant == Spec => []RouteInv
<1>1. Init => RouteInv
  BY InitRoute DEF Init
<1>2. RouteInv /\ [Next]_vars => RouteInv'
  <2>1. [Next]_vars => [RouteNext]_routeVars
    BY DEF Next, OnHost, OnRequest, OnUpgrade, vars
  <2> QED
    BY <2>1, NextRoute
<1> QED
  BY <1>1, <1>2, PTL DEF Spec

\* The options that a handshake and a request are handled with are those that the parts of the
\* host ask for, whatever clients ask for (endpoint-config.ts:33-69, tls-merge.ts).
THEOREM OptionsOfRequests == Spec => []MergesAsASet
<1>1. RouteInv => MergesAsASet
  BY DEF RouteInv, MergeInv
<1> QED
  BY <1>1, RouteInvariant, PTL

\* ... and their TLS versions those it names, as far as its ciphers allow (tls-merge.ts:56-73).
THEOREM VersionsOfRequests == Spec => []VersionsAsAsked
BY VersionsOfMerge, OptionsOfRequests, PTL

\* A client is redirected once at most, and to a host that is served if there was room for
\* one more part (http-handler.ts:77-93, 187-213).
THEOREM RedirectedOnce == Spec => []RedirectOnce
<1>1. RouteInv => RedirectOnce
  BY DEF RouteInv
<1> QED
  BY <1>1, RouteInvariant, PTL

\* A page is served over the connection its host's own TLS options made
\* (http-handler.ts:122-143, 187-196).
THEOREM OwnTls == Spec => []ServedOverOwnTls
<1>1. RouteInv => ServedOverOwnTls
  BY DEF RouteInv
<1> QED
  BY <1>1, RouteInvariant, PTL

-----------------------------------------------------------------------------
\* The least of some preferences that are offered is one of them.
LEMMA NegotiatedProtocol ==
    ASSUME MergeTypeOK, Negotiable # {}
    PROVE  Negotiated \in {"h2", "http/1.1"}
<1>1. Preferences \in Seq({"h2", "http/1.1"})
  <2>1. <<"http/1.1", "h2">> \in Seq({"h2", "http/1.1"})
    OBVIOUS
  <2>2. alpnPreferences \in Seq({"h2", "http/1.1"})
    BY DEF MergeTypeOK
  <2> QED
    BY <2>1, <2>2, Zenon DEF Preferences, DefaultAlpn
<1>2. Negotiable \subseteq Nat /\ Negotiable \subseteq DOMAIN Preferences
  BY <1>1 DEF Negotiable
<1>3. \E i \in Negotiable : \A j \in Negotiable : i <= j
  BY <1>2, LeastNumber
<1>4. PICK i \in Negotiable : i = CHOOSE k \in Negotiable : \A j \in Negotiable : k <= j
  BY <1>3
<1>5. Preferences[i] \in {"h2", "http/1.1"}
  BY <1>1, <1>2
<1> QED
  BY <1>4, <1>5 DEF Negotiated

\* The steps of a client keep the shape of its state.
LEMMA RouteType ==
    ASSUME RouteInv, RouteInv', RouteTypeOK, [RouteNext]_routeVars
    PROVE  RouteTypeOK'
<1>0. /\ MergeTypeOK /\ MergeTypeOK' /\ url.host \in Host /\ url'.host \in Host
      /\ url \in Url /\ conn \in Conn \cup {NoConn}
      /\ (conn = NoConn => phase \in {"connecting", "handshake", "end"})
      /\ usingPublicCA \in BOOLEAN /\ offered \in Offers /\ first \in Host /\ redirects \in Nat
      /\ phase \in {"connecting", "handshake", "requesting", "routing", "end"}
      /\ answer \in {"none", "no connection", "400", "page"}
  BY DEF RouteInv, MergeInv, Redirected, RouteTypeOK
<1>1. UNCHANGED <<usingPublicCA, offered, first>>
  BY DEF RouteNext, routeVars, clientVars, ConnectPlain, ConnectTls, RejectHandshake,
         CompleteHandshake, Redirect421, ServeRoot, ValidateHost, RejectHost, Redirect, ServePage
<1>2. \A a \in {"http", "https"}, b \in Host, c \in {"http/1.1", "h2"} :
         LET made == [protocol |-> a, sni |-> b, alpn |-> c] IN made \in Conn /\ made # NoConn
  <2> TAKE a \in {"http", "https"}, b \in Host, c \in {"http/1.1", "h2"}
  <2> DEFINE made == [protocol |-> a, sni |-> b, alpn |-> c]
  <2>1. made \in Conn
    BY DEF Conn
  <2>2. "sni" \in DOMAIN made /\ "sni" \notin DOMAIN NoConn
    BY DEF NoConn
  <2>3. made # NoConn
    BY <2>2
  <2> QED
    BY <2>1, <2>3
<1>3. CASE ConnectPlain
  <2>1. conn' \in Conn /\ conn' # NoConn
    BY <1>0, <1>2, <1>3 DEF ConnectPlain
  <2> QED
    BY <1>0, <1>1, <1>3, <2>1 DEF ConnectPlain, RouteTypeOK
<1>4. CASE CompleteHandshake
  <2>1. Negotiated \in {"h2", "http/1.1"}
    BY <1>0, <1>4, NegotiatedProtocol DEF CompleteHandshake
  <2>2. conn' \in Conn /\ conn' # NoConn
    BY <1>0, <1>2, <1>4, <2>1 DEF CompleteHandshake
  <2> QED
    BY <1>0, <1>1, <1>4, <2>2 DEF CompleteHandshake, RouteTypeOK
<1>5. CASE ConnectTls \/ RejectHandshake \/ ServeRoot \/ ValidateHost \/ RejectHost \/ ServePage
  BY <1>0, <1>1, <1>5
     DEF ConnectTls, RejectHandshake, ServeRoot, ValidateHost, RejectHost, ServePage, EndWith, RouteTypeOK
<1>6. CASE Redirect421
  BY <1>0, <1>1, <1>6 DEF Redirect421, RouteTypeOK
<1>7. CASE Redirect
  <2>1. url' \in Url
    BY <1>0, <1>7 DEF Redirect, Target, Url
  <2>2. redirects' \in Nat
    <3>1. redirects' = redirects + 1
      BY <1>7 DEF Redirect
    <3>2. redirects \in Nat
      BY DEF RouteTypeOK
    <3> QED
      BY <3>1, <3>2
  <2> QED
    BY <1>0, <1>1, <1>7, <2>1, <2>2 DEF Redirect, RouteTypeOK
<1>8. CASE UNCHANGED clientVars
  BY <1>0, <1>1, <1>8 DEF clientVars, RouteTypeOK
<1> QED
  BY <1>3, <1>4, <1>5, <1>6, <1>7, <1>8 DEF RouteNext, routeVars

-----------------------------------------------------------------------------
(***************************************************************************)
(* HttpDispatch                                                            *)
(***************************************************************************)
\* What is written to responses.
Item == {"info", "head", "error", "end"} \X Nat

\* The 1xx responses of the endpoints that have begun.
SoFar(r) == Infos(asked[r])[begun[r]]

\* There is nothing but these yet.
Informed(r) ==
    /\ written[r] = SoFar(r)
    /\ version = 2 /\ begun[r] > 0 => Endpoint(r) # "echo"
    /\ handler[r] = "delaying" => begun[r] > 0 /\ Endpoint(r) = "delay"
    /\ handler[r] = "reading" => Last(r) /\ Endpoint(r) \in {"delay", "body", "trailers", "echo"}
    /\ handler[r] = "failing" =>
          \/ r \in cut
          \/ begun[r] = 0 /\ Refused(asked[r])
          \/ Last(r) /\ Endpoint(r) \in {"fails", "misread"}

\* There is a head, but no end.
Headed(r) ==
    /\ Last(r)
    /\ written[r] = SoFar(r) \o <<Final(begun[r])>>
    /\ \/ Endpoint(r) = "echo" /\ version = 2 /\ handler[r] \in {"running", "returned"}
       \/ Endpoint(r) = "breaks" /\ handler[r] \in {"failing", "returned"}

\* There is all that was asked for.
Complete(r) ==
    /\ written[r] = Expected(asked[r])
    /\ handler[r] \in {"running", "returned"}
    /\ handler[r] = "running" => Last(r)
    /\ begun[r] > 0 /\ Endpoint(r) = "echo" => Ended(r)

\* How far a response is, by the endpoints that have begun and what the handler is at.
Progress(r) ==
    /\ handler[r] = "none" => begun[r] = 0
    /\ begun[r] > 0 => ~Refused(asked[r]) /\ asked[r] # <<"early">>
    /\ Informed(r) \/ Headed(r) \/ Complete(r)

\* The inductive invariant.
HttpInv ==
    /\ HttpTypeOK
    /\ begun \in [Request -> Nat]
    /\ written \in [Request -> Seq(Item)] /\ got \in [Request -> Seq(Item)]
    /\ \A r \in Request : Progress(r)
    /\ AnswerOfChain

-----------------------------------------------------------------------------
\* s is a beginning of t.
Begins(s, t) == Len(s) <= Len(t) /\ s = SubSeq(t, 1, Len(s))

\* A sequence is a beginning of what is added to it.
LEMMA BeginsConcat ==
    ASSUME NEW S, NEW s \in Seq(S), NEW t \in Seq(S)
    PROVE  Begins(s, s \o t)
<1>1. Len(s \o t) = Len(s) + Len(t) /\ Len(s) \in Nat /\ Len(t) \in Nat
  OBVIOUS
<1>2. SubSeq(s \o t, 1, Len(s)) = SubSeq(s, 1, Len(s))
  BY <1>1, SubSeqOfConcat1
<1>3. SubSeq(s, 1, Len(s)) = s
  BY SubSeqFull
<1> QED
  BY <1>1, <1>2, <1>3 DEF Begins

\* What the handlers write is of this kind.
LEMMA Items ==
    ASSUME NEW i \in Nat
    PROVE  Info(i) \in Item /\ Final(i) \in Item /\ Error(i) \in Item /\ End \in Item
BY DEF Info, Final, Error, End, Item

\* One item written after another.
LEMMA AddOne ==
    ASSUME NEW s \in Seq(Item), NEW a \in Item, NEW b \in Item
    PROVE  (s \o <<a>>) \o <<b>> = s \o <<a, b>>
<1>1. s \o <<a>> \in Seq(Item)
  OBVIOUS
<1>2. PICK t \in Seq(Item) : t = s \o <<a>>
  BY <1>1
<1>3. PICK l \in Nat : l = Len(s)
  OBVIOUS
<1>4. Len(t) = l + 1 /\ t[l + 1] = a /\ \A i \in 1..l : t[i] = s[i]
  BY <1>2, <1>3
<1>5. PICK x \in Seq(Item) : x = t \o <<b>>
  <2>1. t \o <<b>> \in Seq(Item)
    OBVIOUS
  <2> QED
    BY <2>1
<1>6. PICK y \in Seq(Item) : y = s \o <<a, b>>
  <2>1. s \o <<a, b>> \in Seq(Item)
    OBVIOUS
  <2> QED
    BY <2>1
<1>7. Len(x) = l + 2 /\ x[l + 2] = b /\ x[l + 1] = a /\ \A i \in 1..l : x[i] = s[i]
  BY <1>4, <1>5
<1>8. Len(y) = l + 2 /\ y[l + 2] = b /\ y[l + 1] = a /\ \A i \in 1..l : y[i] = s[i]
  BY <1>3, <1>6
<1>9. \A i \in 1..Len(x) : x[i] = y[i]
  BY <1>7, <1>8
<1>10. x = y
  BY <1>7, <1>8, <1>9, SeqEqual
<1> QED
  BY <1>2, <1>5, <1>6, <1>10

\* ... and two after one.
LEMMA AddTwo ==
    ASSUME NEW s \in Seq(Item), NEW a \in Item, NEW b \in Item, NEW c \in Item
    PROVE  (s \o <<a>>) \o <<b, c>> = s \o <<a, b, c>>
<1>1. PICK t \in Seq(Item) : t = s \o <<a>>
  <2>1. s \o <<a>> \in Seq(Item)
    OBVIOUS
  <2> QED
    BY <2>1
<1>2. PICK u \in Seq(Item) : u = s \o <<a, b>>
  <2>1. s \o <<a, b>> \in Seq(Item)
    OBVIOUS
  <2> QED
    BY <2>1
<1>3. t \o <<b>> = u
  BY <1>1, <1>2, AddOne
<1>4. (t \o <<b>>) \o <<c>> = t \o <<b, c>>
  BY AddOne
<1>5. u \o <<c>> = s \o <<a, b, c>>
  <2>1. PICK l \in Nat : l = Len(s)
    OBVIOUS
  <2>2. PICK x \in Seq(Item) : x = u \o <<c>>
    <3>1. u \o <<c>> \in Seq(Item)
      OBVIOUS
    <3> QED
      BY <3>1
  <2>3. PICK y \in Seq(Item) : y = s \o <<a, b, c>>
    <3>1. s \o <<a, b, c>> \in Seq(Item)
      OBVIOUS
    <3> QED
      BY <3>1
  <2>4. Len(u) = l + 2 /\ u[l + 1] = a /\ u[l + 2] = b /\ \A i \in 1..l : u[i] = s[i]
    BY <1>2, <2>1
  <2>5. Len(x) = l + 3 /\ x[l + 1] = a /\ x[l + 2] = b /\ x[l + 3] = c /\ \A i \in 1..l : x[i] = s[i]
    BY <2>2, <2>4
  <2>6. Len(y) = l + 3 /\ y[l + 1] = a /\ y[l + 2] = b /\ y[l + 3] = c /\ \A i \in 1..l : y[i] = s[i]
    BY <2>1, <2>3
  <2>7. \A i \in 1..Len(x) : x[i] = y[i]
    BY <2>5, <2>6
  <2>8. x = y
    BY <2>5, <2>6, <2>7, SeqEqual
  <2> QED
    BY <2>2, <2>3, <2>8
<1> QED
  BY <1>1, <1>3, <1>4, <1>5

\* The informational responses of a path, endpoint by endpoint.
LEMMA InfosDefined ==
    ASSUME NEW p, NEW l \in Nat, l = Len(p)
    PROVE  /\ Infos(p) \in [0..l -> Seq(Item)]
           /\ Infos(p)[0] = <<>>
           /\ \A n \in 1..l :
                 Infos(p)[n] = Infos(p)[n - 1] \o (IF p[n] = "info" THEN <<Info(n)>> ELSE <<>>)
<1> DEFINE A == Seq(Item)
           own(n) == IF p[n] = "info" THEN <<Info(n)>> ELSE <<>>
           step == [x \in A \X (1..l) |-> x[1] \o own(x[2])]
           Is(f) == f = [n \in 0..l |-> IF n = 0 THEN <<>> ELSE f[n - 1] \o own(n)]
<1>1. \A n \in 1..l : own(n) \in A
  BY Items
<1> HIDE DEF own
<1>2. step \in [A \X (1..l) -> A]
  BY <1>1
<1>3. \A s \in A, n \in 1..l : step[<<s, n>>] = s \o own(n)
  OBVIOUS
<1>4. <<>> \in A
  OBVIOUS
<1> HIDE DEF step, A
<1>5. PICK f \in [0..l -> A] : IsRecursion(f, l, <<>>, step)
  BY <1>2, <1>4, RecursionExists
<1>6. \A n \in 1..l : step[<<f[n - 1], n>>] = f[n - 1] \o own(n)
  <2> SUFFICES ASSUME NEW n \in 1..l PROVE step[<<f[n - 1], n>>] = f[n - 1] \o own(n)
    OBVIOUS
  <2>1. PICK s \in A : s = f[n - 1]
    OBVIOUS
  <2> QED
    BY <1>3, <2>1
<1>7. Is(f)
  <2>1. f = [n \in 0..l |-> IF n = 0 THEN <<>> ELSE step[<<f[n - 1], n>>]]
    BY <1>5 DEF IsRecursion
  <2>2. \A n \in 0..l : (IF n = 0 THEN <<>> ELSE step[<<f[n - 1], n>>]) =
                        (IF n = 0 THEN <<>> ELSE f[n - 1] \o own(n))
    <3>1. \A n \in 0..l : n # 0 => n \in 1..l
      OBVIOUS
    <3> QED
      BY <1>6, <3>1, Zenon
  <2> QED
    BY <2>1, <2>2
<1>8. Infos(p) = CHOOSE g : Is(g)
  BY DEF Infos, own
<1> HIDE DEF Is
<1>9. Is(Infos(p))
  BY <1>7, <1>8
<1>10. \A n \in 0..l : Infos(p)[n] = IF n = 0 THEN <<>> ELSE Infos(p)[n - 1] \o own(n)
  BY <1>9 DEF Is
<1>11. Infos(p) = [n \in 0..l |-> Infos(p)[n]]
  BY <1>9 DEF Is
<1>12. \A n \in 0..l : Infos(p)[n] \in A
  <2> DEFINE T == {n \in Nat : n <= l => Infos(p)[n] \in A}
  <2>1. 0 \in T
    BY <1>4, <1>10
  <2>2. ASSUME NEW n \in Nat, n \in T PROVE n + 1 \in T
    <3> SUFFICES ASSUME n + 1 <= l PROVE Infos(p)[n + 1] \in A
      OBVIOUS
    <3>1. Infos(p)[n] \in A /\ own(n + 1) \in A
      BY <1>1, <2>2
    <3>2. Infos(p)[n + 1] = Infos(p)[n] \o own(n + 1)
      <4>1. PICK m \in 0..l : m = n + 1
        OBVIOUS
      <4>2. m # 0 /\ m - 1 = n
        BY <4>1
      <4> QED
        BY <1>10, <4>1, <4>2
    <3> QED
      BY <3>1, <3>2 DEF A
  <2> HIDE DEF T
  <2>3. Nat \subseteq T
    BY <2>1, <2>2, Induction
  <2> QED
    BY <2>3 DEF T
<1>13. Infos(p) \in [0..l -> A]
  BY <1>11, <1>12, Zenon
<1>14. Infos(p)[0] = <<>>
  BY <1>10
<1>15. \A n \in 1..l : Infos(p)[n] = Infos(p)[n - 1] \o own(n)
  <2>1. \A n \in 1..l : n \in 0..l /\ n # 0
    OBVIOUS
  <2> QED
    BY <1>10, <2>1, Zenon
<1> QED
  BY <1>13, <1>14, <1>15 DEF A, own

\* Each endpoint adds to those of the ones before it.
LEMMA InfosGrow ==
    ASSUME NEW p, NEW l \in Nat, l = Len(p), NEW n \in 0..l
    PROVE  \E u \in Seq(Item) : Infos(p)[l] = Infos(p)[n] \o u
<1> DEFINE I == Infos(p)
           Grown(m) == \E u \in Seq(Item) : I[m] = I[n] \o u
           T == {k \in Nat : n + k <= l => Grown(n + k)}
<1>0. /\ \A m \in 0..l : I[m] \in Seq(Item)
      /\ \A m \in 1..l : \E u \in Seq(Item) : I[m] = I[m - 1] \o u
  <2>1. \A m \in 1..l : (IF p[m] = "info" THEN <<Info(m)>> ELSE <<>>) \in Seq(Item)
    BY Items
  <2> QED
    BY <2>1, InfosDefined
<1> HIDE DEF I
<1>1. 0 \in T
  <2>1. PICK s \in Seq(Item) : s = I[n]
    BY <1>0
  <2>2. s = s \o <<>> /\ <<>> \in Seq(Item)
    BY ConcatEmptySeq
  <2>3. n + 0 = n
    OBVIOUS
  <2> QED
    BY <2>1, <2>2, <2>3
<1>2. ASSUME NEW k \in Nat, k \in T PROVE k + 1 \in T
  <2> SUFFICES ASSUME n + (k + 1) <= l PROVE Grown(n + (k + 1))
    OBVIOUS
  <2>1. PICK u \in Seq(Item) : I[n + k] = I[n] \o u
    BY <1>2
  <2>2. PICK m \in 1..l : m = n + (k + 1)
    OBVIOUS
  <2>3. PICK v \in Seq(Item) : I[m] = I[m - 1] \o v
    BY <1>0
  <2>4. m - 1 = n + k
    BY <2>2
  <2>5. PICK s \in Seq(Item) : s = I[n]
    BY <1>0
  <2>6. (s \o u) \o v = s \o (u \o v)
    <3>1. Regroups(s, u, v)
      BY Regroup
    <3> QED
      BY <3>1 DEF Regroups
  <2>7. u \o v \in Seq(Item)
    BY ConcatProperties
  <2>8. I[m] = s \o (u \o v)
    BY <2>1, <2>3, <2>4, <2>5, <2>6
  <2> QED
    BY <2>2, <2>5, <2>8, <2>7
<1> HIDE DEF T
<1>3. Nat \subseteq T
  BY <1>1, <1>2, Induction
<1>4. PICK k \in Nat : n + k = l
  <2>1. l - n \in Nat /\ n + (l - n) = l
    OBVIOUS
  <2> QED
    BY <2>1
<1>5. n + k <= l /\ k \in T
  BY <1>3, <1>4
<1> HIDE DEF Grown
<1>6. Grown(l)
  BY <1>4, <1>5 DEF T
<1> QED
  BY <1>6 DEF I, Grown

-----------------------------------------------------------------------------
\* A sequence of one element.
LEMMA OneElement ==
    ASSUME NEW S, NEW s \in Seq(S), Len(s) = 1
    PROVE  s = <<s[1]>>
OBVIOUS

\* What is known of a path, and of the error its chain is refused with (endpoint-chain.ts).
LEMMA PathFacts ==
    ASSUME NEW p \in HttpPaths
    PROVE  /\ Len(p) \in Nat \ {0}
           /\ \A i \in 1..Len(p) : i # Len(p) => p[i] \in HttpPassing
           /\ Refused(p) <=> ResolveEndpointChain(p) # 200
           /\ Refused(p) => ResolveEndpointChain(p) = Refusal(p) /\ Refusal(p) \in Nat
           /\ ~Refused(p) => p[Len(p)] \in HttpPassing \cup HttpEndpoints
           /\ p[Len(p)] = "early" => p = <<"early">>
           /\ p = <<"early">> => Len(p) = 1 /\ p[1] = "early" /\ ~Refused(p)
<1>1. /\ p \in Seq(HttpPassing \cup HttpEndpoints \cup DOMAIN Unmatched) /\ p # <<>>
      /\ \A i \in 1..(Len(p) - 1) : p[i] \in HttpPassing
      /\ p[Len(p)] = "early" => Len(p) = 1
  BY HttpAsked DEF PathsOf
<1>2. DOMAIN Unmatched = {"unknown", "invalid", "malformed"} /\ Unmatched["unknown"] = 404
      /\ Unmatched["invalid"] = 400 /\ Unmatched["malformed"] = 500
  BY DEF Unmatched
<1>3. Len(p) \in Nat \ {0}
  BY <1>1
<1>4. \A i \in 1..Len(p) : i # Len(p) => p[i] \in HttpPassing
  BY <1>1, <1>3
<1>5. /\ Refused(p) <=> ResolveEndpointChain(p) # 200
      /\ Refused(p) => ResolveEndpointChain(p) = Refusal(p) /\ Refusal(p) \in Nat
  BY <1>2 DEF Refused, ResolveEndpointChain, Refusal
<1>6. p[Len(p)] \in HttpPassing \cup HttpEndpoints \cup DOMAIN Unmatched
  BY <1>1, <1>3
<1>7. p[Len(p)] = "early" => p = <<"early">>
  <2>1. Len(p) = 1 => p = <<p[1]>>
    BY <1>1, OneElement
  <2> QED
    BY <1>1, <2>1
<1>8. p = <<"early">> => Len(p) = 1 /\ p[1] = "early"
  OBVIOUS
<1>9. p = <<"early">> => ~Refused(p)
  BY <1>2, <1>8, Depth DEF Refused
<1> QED
  BY <1>3, <1>4, <1>5, <1>6, <1>7, <1>8, <1>9 DEF Refused

\* What a client may expect, by the last endpoint of its path.
IsExpected(E, p, l) ==
    /\ Refused(p) => E = <<Error(IF version = 1 THEN Refusal(p) ELSE 500), End>>
    /\ ~Refused(p) =>
          /\ p[l] = "fails" => E = Infos(p)[l] \o <<Error(500), End>>
          /\ p[l] = "misread" => E = Infos(p)[l] \o <<Error(IF version = 1 THEN 400 ELSE 500), End>>
          /\ p[l] = "breaks" => E = Infos(p)[l] \o (IF version = 1 THEN <<>> ELSE <<Final(l)>>)
          /\ p[l] \in {"close", "reset"} => E = Infos(p)[l] \o <<>>
          /\ p[l] \notin {"fails", "misread", "breaks", "close", "reset"} =>
                E = Infos(p)[l] \o <<Final(l), End>>

\* ... as Expected says.
LEMMA ExpectedOf ==
    ASSUME NEW p, NEW l, l = Len(p)
    PROVE  IsExpected(Expected(p), p, l)
BY DEF Expected, IsExpected

\* It is what the endpoints before the last one say, and more.
LEMMA ExpectedMore ==
    ASSUME NEW p \in HttpPaths, NEW l, l = Len(p)
    PROVE  /\ ~Refused(p) => \E u \in Seq(Item) : Expected(p) = Infos(p)[l] \o u
           /\ Expected(p) \in Seq(Item)
<1>1. l \in Nat
  BY PathFacts
<1>2. /\ <<Error(500), End>> \in Seq(Item) /\ <<Final(l)>> \in Seq(Item) /\ <<>> \in Seq(Item)
      /\ <<Final(l), End>> \in Seq(Item)
  BY <1>1, Items
<1>3. Infos(p)[l] \in Seq(Item)
  <2>1. l \in 0..l
    BY <1>1
  <2> QED
    BY <1>1, <2>1, InfosDefined
<1>4. ASSUME ~Refused(p) PROVE \E u \in Seq(Item) : Expected(p) = Infos(p)[l] \o u
  <2>0. IsExpected(Expected(p), p, l)
    BY ExpectedOf
  <2>1. CASE p[l] = "fails"
    <3>1. Expected(p) = Infos(p)[l] \o <<Error(500), End>>
      BY <1>4, <2>1, <2>0 DEF IsExpected
    <3> QED
      BY <1>2, <3>1, Zenon
  <2>2. CASE p[l] = "breaks"
    <3>1. Expected(p) = Infos(p)[l] \o (IF version = 1 THEN <<>> ELSE <<Final(l)>>)
      BY <1>4, <2>2, <2>0 DEF IsExpected
    <3> QED
      BY <1>2, <3>1, Zenon
  <2>3. CASE p[l] \in {"close", "reset"}
    <3>1. Expected(p) = Infos(p)[l] \o <<>>
      BY <1>4, <2>3, <2>0 DEF IsExpected
    <3> QED
      BY <1>2, <3>1, Zenon
  <2>4. CASE p[l] \notin {"fails", "misread", "breaks", "close", "reset"}
    <3>1. Expected(p) = Infos(p)[l] \o <<Final(l), End>>
      BY <1>4, <2>4, <2>0 DEF IsExpected
    <3> QED
      BY <1>2, <3>1, Zenon
  <2>5. CASE p[l] = "misread"
    <3>1. Expected(p) = Infos(p)[l] \o <<Error(IF version = 1 THEN 400 ELSE 500), End>>
      BY <1>4, <2>5, <2>0 DEF IsExpected
    <3>2. PICK c \in Nat : c = IF version = 1 THEN 400 ELSE 500
      OBVIOUS
    <3>3. <<Error(c), End>> \in Seq(Item)
      BY Items
    <3> QED
      BY <3>1, <3>2, <3>3, Zenon
  <2> QED
    BY <2>1, <2>2, <2>3, <2>4, <2>5
<1>5. ASSUME Refused(p) PROVE Expected(p) \in Seq(Item)
  <2>1. PICK c \in Nat : c = IF version = 1 THEN Refusal(p) ELSE 500
    BY <1>5, PathFacts
  <2>2. Expected(p) = <<Error(c), End>>
    BY <1>5, <2>1, ExpectedOf DEF IsExpected
  <2> QED
    BY <2>1, <2>2, Items
<1>6. ASSUME ~Refused(p) PROVE Expected(p) \in Seq(Item)
  <2>1. PICK u \in Seq(Item) : Expected(p) = Infos(p)[l] \o u
    BY <1>4, <1>6
  <2> QED
    BY <1>3, <2>1
<1> QED
  BY <1>4, <1>5, <1>6

\* What is written is a beginning of what is expected, unless it is held back.
LEMMA WrittenBegins ==
    ASSUME NEW r, asked[r] \in HttpPaths, begun[r] \in 0..Len(asked[r]), Progress(r), ~Held(r)
    PROVE  Begins(written[r], Expected(asked[r])) /\ written[r] \in Seq(Item)
<1>1. PICK p \in HttpPaths : p = asked[r]
  OBVIOUS
<1>2. PICK l \in Nat : l = Len(p) /\ l # 0
  BY PathFacts
<1>3. PICK n \in 0..l : n = begun[r]
  BY <1>1, <1>2
<1>4. PICK E \in Seq(Item) : E = Expected(p)
  BY ExpectedMore
<1>5. PICK s \in Seq(Item) : s = Infos(p)[n]
  BY <1>2, InfosDefined
<1>6. n > 0 => ~Refused(p)
  BY <1>1, <1>3 DEF Progress
<1>7. CASE Informed(r)
  <2>1. written[r] = s
    BY <1>1, <1>3, <1>5, <1>7 DEF Informed, SoFar
  <2>2. \E u \in Seq(Item) : E = s \o u
    <3>1. CASE n = 0
      <4>1. s = <<>>
        BY <1>2, <1>5, <3>1, InfosDefined
      <4>2. E = <<>> \o E
        BY ConcatEmptySeq
      <4> QED
        BY <4>1, <4>2
    <3>2. CASE n > 0
      <4>1. PICK u \in Seq(Item) : E = Infos(p)[l] \o u
        BY <1>2, <1>4, <1>6, <3>2, ExpectedMore
      <4>2. PICK v \in Seq(Item) : Infos(p)[l] = s \o v
        BY <1>2, <1>5, InfosGrow
      <4>3. (s \o v) \o u = s \o (v \o u)
        <5>1. Regroups(s, v, u)
          BY Regroup
        <5> QED
          BY <5>1 DEF Regroups
      <4>4. v \o u \in Seq(Item)
        BY ConcatProperties
      <4> QED
        BY <4>1, <4>2, <4>3, <4>4
    <3>3. n = 0 \/ n > 0
      OBVIOUS
    <3> QED
      BY <3>1, <3>2, <3>3, Zenon
  <2> QED
    BY <1>1, <1>4, <2>1, <2>2, BeginsConcat
<1>8. CASE Headed(r)
  <2>1. n = l /\ p[l] \in {"echo", "breaks"} /\ written[r] = s \o <<Final(l)>>
    BY <1>1, <1>2, <1>3, <1>5, <1>8 DEF Headed, SoFar, Last, Endpoint
  <2>0. PICK f \in Item : f = Final(l)
    BY Items
  <2>2. PICK t \in Seq(Item) : t = s \o <<f>>
    <3>1. s \o <<f>> \in Seq(Item)
      OBVIOUS
    <3> QED
      BY <3>1
  <2>3. E = t \o <<>> \/ E = t \o <<End>>
    <3>1. ~Refused(p) /\ Infos(p)[l] = s
      BY <1>2, <1>5, <1>6, <2>1
    <3>0. version # 1
      <4>1. PICK m \in Nat : m = Len(s) + 1
        OBVIOUS
      <4>2. Len(t) = m /\ t[m] = f
        BY <2>2, <4>1
      <4>3. t # <<>>
        BY <4>1, <4>2
      <4>4. f[1] = "head"
        BY <2>0 DEF Final
      <4>5. written[r] = t
        BY <2>0, <2>1, <2>2
      <4> QED
        BY <4>2, <4>3, <4>4, <4>5 DEF Held, LastItem
    <3>2. E = s \o <<Final(l)>> \/ E = s \o <<Final(l), End>>
      <4>0. IsExpected(E, p, l)
        BY <1>2, <1>4, ExpectedOf
      <4>1. CASE p[l] = "echo"
        BY <3>1, <4>0, <4>1 DEF IsExpected
      <4>2. CASE p[l] = "breaks"
        BY <3>0, <3>1, <4>0, <4>2 DEF IsExpected
      <4> QED
        BY <2>1, <4>1, <4>2
    <3>3. t = t \o <<>>
      BY ConcatEmptySeq
    <3>5. PICK e \in Item : e = End
      BY <1>2, Items
    <3>6. (s \o <<f>>) \o <<e>> = s \o <<f, e>>
      BY AddOne
    <3> QED
      BY <2>0, <2>2, <3>2, <3>3, <3>5, <3>6
  <2>4. <<>> \in Seq(Item) /\ <<End>> \in Seq(Item)
    BY <1>2, Items
  <2> QED
    BY <1>1, <1>4, <2>0, <2>1, <2>2, <2>3, <2>4, BeginsConcat
<1>9. CASE Complete(r)
  <2>1. E = E \o <<>> /\ <<>> \in Seq(Item)
    BY ConcatEmptySeq
  <2> QED
    BY <1>1, <1>4, <1>9, <2>1, BeginsConcat DEF Complete
<1> QED
  BY <1>7, <1>8, <1>9 DEF Progress

\* ... after a step, too.
LEMMA WrittenBeginsNext ==
    ASSUME NEW r
    PROVE  (asked[r] \in HttpPaths /\ begun[r] \in 0..Len(asked[r]) /\ Progress(r) /\ ~Held(r) =>
               Begins(written[r], Expected(asked[r])))'
<1>1. asked[r] \in HttpPaths /\ begun[r] \in 0..Len(asked[r]) /\ Progress(r) /\ ~Held(r) =>
         Begins(written[r], Expected(asked[r]))
  BY WrittenBegins
<1> QED
  BY <1>1, PTL

-----------------------------------------------------------------------------
\* How far a handler can be.
HandlerStates == {"none", "running", "delaying", "reading", "failing", "hung", "returned"}

\* The requests whose responses are closed in some way.
SocketsOK ==
    /\ cut \in SUBSET Request /\ shut \in SUBSET Request
    /\ doomed \in SUBSET Request /\ left \in SUBSET Request

\* A step of request r: what it is to keep, what it may add to, and where its response goes.
StepOf(r) ==
    /\ version' = version /\ asked' = asked
    /\ whole' \in SUBSET Request
    /\ cut \subseteq cut' /\ SocketsOK'
    /\ handler' \in [Request -> HandlerStates] /\ begun' \in [Request -> Nat]
    /\ begun'[r] \in 0..Len(asked[r])
    /\ \A q \in Request \ {r} : handler'[q] = handler[q] /\ begun'[q] = begun[q]
    /\ written' \in [Request -> Seq(Item)]
    /\ \A q \in Request \ {r} : written'[q] = written[q]
    /\ \E out \in Seq(Item) : written'[r] = written[r] \o out
    /\ got' = got \/ Send

\* The path, the version of HTTP and what they promise stay as they are.
LEMMA SamePath ==
    ASSUME NEW r, UNCHANGED <<version, asked>>
    PROVE  /\ Expected(asked[r])' = Expected(asked[r])
           /\ Refused(asked[r])' <=> Refused(asked[r])
BY DEF Expected, Refused, Refusal, Infos, Info, Final, Error, End

\* A response that a step is not of stays how far it was.
LEMMA OthersProgress ==
    ASSUME HttpInv, NEW q \in Request, UNCHANGED <<version, asked>>,
           handler'[q] = handler[q], begun'[q] = begun[q], written'[q] = written[q],
           cut \subseteq cut'
    PROVE  Progress(q)'
<1>1. /\ Expected(asked[q])' = Expected(asked[q])
      /\ Refused(asked[q])' <=> Refused(asked[q])
  BY SamePath
<1>2. Progress(q)
  BY DEF HttpInv
<1>3. SoFar(q)' = SoFar(q) /\ Endpoint(q)' = Endpoint(q) /\ (Last(q)' <=> Last(q)) /\ (Ended(q)' <=> Ended(q))
  BY DEF SoFar, Endpoint, Last, Ended, End, Infos, Info
<1>4. Informed(q) => Informed(q)'
  BY <1>1, <1>3 DEF Informed
<1>5. Headed(q) => Headed(q)'
  BY <1>1, <1>3 DEF Headed, Final
<1>6. Complete(q) => Complete(q)'
  BY <1>1, <1>3 DEF Complete
<1> QED
  BY <1>1, <1>2, <1>4, <1>5, <1>6 DEF Progress

\* So only that of the request itself is to be looked at.
LEMMA Step ==
    ASSUME HttpInv, NEW r \in Request, StepOf(r), Progress(r)'
    PROVE  HttpInv'
<1>0. /\ version \in {1, 2} /\ asked \in [Request -> HttpPaths]
      /\ begun \in [Request -> Nat] /\ \A q \in Request : begun[q] \in 0..Len(asked[q])
      /\ written \in [Request -> Seq(Item)] /\ got \in [Request -> Seq(Item)]
      /\ \A q \in Request : Len(got[q]) <= Len(written[q])
  BY DEF HttpInv, HttpTypeOK
<1>1. \A q \in Request : Progress(q)'
  <2> SUFFICES ASSUME NEW q \in Request, q # r PROVE Progress(q)'
    OBVIOUS
  <2> QED
    BY OthersProgress DEF StepOf
<1>2. \A q \in Request : begun'[q] \in 0..Len(asked'[q])
  BY <1>0 DEF StepOf
<1>3. \A q \in Request : Len(written[q]) <= Len(written'[q])
  <2>1. PICK out \in Seq(Item) : written'[r] = written[r] \o out
    BY DEF StepOf
  <2>2. PICK w \in Seq(Item) : w = written[r]
    BY <1>0
  <2>3. Len(w) <= Len(w \o out)
    OBVIOUS
  <2>4. Len(written[r]) <= Len(written'[r])
    BY <2>1, <2>2, <2>3
  <2> SUFFICES ASSUME NEW q \in Request, q # r PROVE Len(written[q]) <= Len(written'[q])
    BY <2>4
  <2>5. PICK v \in Seq(Item) : v = written[q]
    BY <1>0
  <2>6. Len(v) <= Len(v)
    OBVIOUS
  <2> QED
    BY <2>5, <2>6 DEF StepOf
<1>4. /\ got' \in [Request -> Seq(Item)]
      /\ \A q \in Request : got'[q] = got[q] \/ (got'[q] = written'[q] /\ ~Held(q)')
  BY <1>0 DEF StepOf, Send
<1>5. \A q \in Request : Len(got'[q]) <= Len(written'[q])
  <2> SUFFICES ASSUME NEW q \in Request PROVE Len(got'[q]) <= Len(written'[q])
    OBVIOUS
  <2>1. Len(got[q]) \in Nat /\ Len(written[q]) \in Nat /\ Len(written'[q]) \in Nat
    BY <1>0, LenProperties DEF StepOf
  <2> QED
    <3>1. PICK g \in Nat, w \in Nat, x \in Nat : g = Len(got[q]) /\ w = Len(written[q]) /\ x = Len(written'[q])
      BY <2>1
    <3>2. g <= w /\ w <= x
      BY <1>0, <1>3, <3>1
    <3>3. g <= x /\ x <= x
      BY <3>2
    <3> QED
      BY <1>4, <3>1, <3>3
<1>6. \A q \in Request : \A i \in DOMAIN written'[q] : written'[q][i][1] \in {"info", "head", "error", "end"}
  <2> SUFFICES ASSUME NEW q \in Request, NEW i \in DOMAIN written'[q]
               PROVE  written'[q][i][1] \in {"info", "head", "error", "end"}
    OBVIOUS
  <2>1. PICK w \in Seq(Item) : w = written'[q]
    BY DEF StepOf
  <2>2. w[i] \in Item
    BY <2>1
  <2> QED
    BY <2>1, <2>2 DEF Item
<1>7. HttpTypeOK'
  BY <1>0, <1>2, <1>5, <1>6 DEF HttpTypeOK, StepOf, HandlerStates, SocketsOK
<1>8. AnswerOfChain'
  <2> SUFFICES ASSUME NEW q \in Request
               PROVE  Begins(got'[q], Expected(asked[q])')
    BY DEF AnswerOfChain, Begins
  <2>1. Expected(asked[q])' = Expected(asked[q])
    BY SamePath DEF StepOf
  <2>2. CASE got'[q] = got[q]
    BY <2>1, <2>2 DEF HttpInv, AnswerOfChain, Begins
  <2>3. CASE got'[q] = written'[q] /\ ~Held(q)'
    <3>1. (Begins(written[q], Expected(asked[q])))'
      <4>1. asked'[q] \in HttpPaths /\ begun'[q] \in 0..Len(asked'[q]) /\ Progress(q)'
        BY <1>0, <1>1, <1>2 DEF StepOf
      <4> QED
        BY <2>3, <4>1, WrittenBeginsNext
    <3> QED
      BY <2>3, <3>1 DEF Begins
  <2> QED
    BY <1>4, <2>2, <2>3
<1> QED
  BY <1>0, <1>1, <1>4, <1>7, <1>8 DEF HttpInv, StepOf

-----------------------------------------------------------------------------
\* What is known of a request.
LEMMA Known ==
    ASSUME HttpInv, NEW r \in Request
    PROVE  /\ asked[r] \in HttpPaths /\ Len(asked[r]) \in Nat \ {0}
           /\ begun[r] \in 0..Len(asked[r])
           /\ written[r] \in Seq(Item)
           /\ Progress(r)
           /\ handler[r] \in HandlerStates
           /\ version \in {1, 2}
BY PathFacts DEF HttpInv, HttpTypeOK, HandlerStates

\* A step of one request is one of these.
LEMMA IsStep ==
    ASSUME HttpInv, NEW r \in Request, NEW to \in HandlerStates, NEW n \in 0..Len(asked[r]),
           NEW out \in Seq(Item),
           UNCHANGED <<version, asked>>, whole' \in SUBSET Request,
           cut \subseteq cut', SocketsOK',
           handler' = [handler EXCEPT ![r] = to], begun' = [begun EXCEPT ![r] = n],
           written' = [written EXCEPT ![r] = @ \o out],
           got' = got \/ Send
    PROVE  StepOf(r) /\ handler'[r] = to /\ begun'[r] = n /\ written'[r] = written[r] \o out
<1>1. /\ handler \in [Request -> HandlerStates] /\ begun \in [Request -> Nat]
      /\ written \in [Request -> Seq(Item)]
  BY DEF HttpInv, HttpTypeOK, HandlerStates
<1>2. n \in Nat
  BY Known
<1>3. written[r] \o out \in Seq(Item)
  BY <1>1
<1>4. handler'[r] = to /\ begun'[r] = n /\ written'[r] = written[r] \o out
  BY <1>1
<1>5. handler' \in [Request -> HandlerStates] /\ begun' \in [Request -> Nat] /\ written' \in [Request -> Seq(Item)]
  BY <1>1, <1>2, <1>3
<1>6. \A q \in Request \ {r} : handler'[q] = handler[q] /\ begun'[q] = begun[q] /\ written'[q] = written[q]
  BY <1>1
<1> QED
  BY <1>4, <1>5, <1>6 DEF StepOf

\* ... also if it writes nothing.
LEMMA IsQuietStep ==
    ASSUME HttpInv, NEW r \in Request, NEW to \in HandlerStates,
           UNCHANGED <<version, asked, begun, written>>, whole' \in SUBSET Request,
           cut \subseteq cut', SocketsOK',
           handler' = [handler EXCEPT ![r] = to], got' = got \/ Send
    PROVE  /\ StepOf(r) /\ handler'[r] = to
           /\ SoFar(r)' = SoFar(r) /\ Endpoint(r)' = Endpoint(r) /\ (Last(r)' <=> Last(r))
           /\ (Ended(r)' <=> Ended(r)) /\ Expected(asked[r])' = Expected(asked[r])
           /\ (Refused(asked[r])' <=> Refused(asked[r]))
<1>1. begun \in [Request -> Nat] /\ written \in [Request -> Seq(Item)] /\ begun[r] \in 0..Len(asked[r])
  BY DEF HttpInv, HttpTypeOK
<1>2. begun' = [begun EXCEPT ![r] = begun[r]]
  BY <1>1
<1>3. PICK w \in Seq(Item) : w = written[r]
  BY <1>1
<1>4. w \o <<>> = w /\ <<>> \in Seq(Item)
  BY ConcatEmptySeq
<1>5. written' = [written EXCEPT ![r] = @ \o <<>>]
  BY <1>1, <1>3, <1>4
<1>6. StepOf(r) /\ handler'[r] = to
  BY <1>1, <1>2, <1>4, <1>5, IsStep
<1>7. /\ SoFar(r)' = SoFar(r) /\ Endpoint(r)' = Endpoint(r) /\ (Last(r)' <=> Last(r))
      /\ (Ended(r)' <=> Ended(r))
  BY DEF SoFar, Endpoint, Last, Ended, End, Infos, Info
<1> QED
  BY <1>6, <1>7, SamePath

-----------------------------------------------------------------------------
\* A request comes in.
LEMMA ArriveStep ==
    ASSUME HttpInv, NEW r \in Request, Arrive(r)
    PROVE  HttpInv'
<1>1. /\ StepOf(r) /\ handler'[r] = "running"
      /\ SoFar(r)' = SoFar(r) /\ Endpoint(r)' = Endpoint(r)
  BY IsQuietStep DEF Arrive, Move, HandlerStates, SocketsOK, HttpInv, HttpTypeOK
<1>2. Informed(r)
  BY Known DEF Arrive, Progress, Headed, Complete
<1>3. Informed(r)' /\ begun'[r] = 0
  BY <1>1, <1>2, Known DEF Informed, Arrive, Progress
<1>4. Progress(r)'
  BY <1>1, <1>3 DEF Progress
<1> QED
  BY <1>1, <1>4, Step

\* The body comes in, or the client goes.
LEMMA ClientStep ==
    ASSUME HttpInv, NEW r \in Request, BodyIn(r) \/ Leave(r)
    PROVE  HttpInv'
<1>1. handler \in [Request -> HandlerStates] /\ handler[r] \in HandlerStates
  BY DEF HttpInv, HttpTypeOK, HandlerStates
<1>2. handler' = [handler EXCEPT ![r] = handler[r]]
  BY <1>1 DEF BodyIn, Leave
<1>3. /\ UNCHANGED <<version, asked, begun, written, got, handler>>
      /\ cut \subseteq cut' /\ SocketsOK' /\ whole' \in SUBSET Request
  BY DEF BodyIn, Leave, Sharing, SocketsOK, HttpInv, HttpTypeOK
<1>4. StepOf(r)
  BY <1>1, <1>2, <1>3, IsQuietStep
<1>5. Progress(r)'
  BY <1>3, OthersProgress
<1> QED
  BY <1>4, <1>5, Step

\* The loop over the endpoints ends.
LEMMA ReturnStep ==
    ASSUME HttpInv, NEW r \in Request, Return(r)
    PROVE  HttpInv'
<1>1. /\ StepOf(r) /\ handler'[r] = "returned" /\ begun'[r] = begun[r]
      /\ version' = version /\ asked' = asked /\ written'[r] = written[r]
      /\ SoFar(r)' = SoFar(r) /\ Endpoint(r)' = Endpoint(r) /\ (Last(r)' <=> Last(r))
      /\ (Ended(r)' <=> Ended(r)) /\ Expected(asked[r])' = Expected(asked[r])
      /\ (Refused(asked[r])' <=> Refused(asked[r]))
  BY IsQuietStep DEF Return, Move, HandlerStates, SocketsOK, HttpInv, HttpTypeOK
<1>2. Informed(r) => Informed(r)'
  BY <1>1 DEF Informed
<1>3. Headed(r) => Headed(r)'
  BY <1>1 DEF Headed, Final
<1>4. Complete(r) => Complete(r)'
  BY <1>1 DEF Complete
<1>5. Progress(r)'
  BY <1>1, <1>2, <1>3, <1>4, Known DEF Progress
<1> QED
  BY <1>1, <1>5, Step

\* The chain is refused, the timer fires, or the request has gone.
LEMMA MoveStep ==
    ASSUME HttpInv, NEW r \in Request, RefuseChain(r) \/ AfterDelay(r) \/ ReadFails(r)
    PROVE  HttpInv'
<1>1. PICK to \in HandlerStates : handler' = [handler EXCEPT ![r] = to]
  BY DEF RefuseChain, AfterDelay, ReadFails, Move, HandlerStates
<1>2. /\ StepOf(r) /\ handler'[r] = to /\ begun'[r] = begun[r]
      /\ version' = version /\ asked' = asked /\ written'[r] = written[r] /\ cut' = cut
      /\ SoFar(r)' = SoFar(r) /\ Endpoint(r)' = Endpoint(r) /\ (Last(r)' <=> Last(r))
      /\ (Refused(asked[r])' <=> Refused(asked[r]))
  <2>1. /\ UNCHANGED <<version, asked, begun, written, got>>
        /\ cut' = cut /\ SocketsOK' /\ whole' \in SUBSET Request
    BY DEF RefuseChain, AfterDelay, ReadFails, SocketsOK, HttpInv, HttpTypeOK
  <2> QED
    BY <1>1, <2>1, IsQuietStep
<1>3. handler \in [Request -> HandlerStates]
  BY DEF HttpInv, HttpTypeOK, HandlerStates
<1>4. Informed(r)' /\ to # "none"
  <2>1. CASE RefuseChain(r)
    <3>1. to = "failing" /\ begun[r] = 0 /\ Refused(asked[r])
      BY <1>1, <1>3, <2>1, Known, PathFacts DEF RefuseChain, Move
    <3>2. Informed(r)
      BY <2>1, <3>1, Known DEF RefuseChain, Progress, Headed, Complete, Last
    <3> QED
      BY <1>2, <3>1, <3>2 DEF Informed
  <2>2. CASE AfterDelay(r)
    <3>1. to = (IF Last(r) THEN "reading" ELSE "running")
      BY <1>1, <1>3, <2>2 DEF AfterDelay, Move
    <3>2. Informed(r) /\ handler[r] = "delaying"
      BY <2>2, Known DEF AfterDelay, Progress, Headed, Complete
    <3> QED
      BY <1>2, <3>1, <3>2 DEF Informed
  <2>3. CASE ReadFails(r)
    <3>1. to = "failing" /\ r \in cut
      BY <1>1, <1>3, <2>3 DEF ReadFails, Move
    <3>2. Informed(r)
      BY <2>3, Known DEF ReadFails, Progress, Headed, Complete
    <3> QED
      BY <1>2, <3>1, <3>2 DEF Informed
  <2> QED
    BY <2>1, <2>2, <2>3
<1>5. Progress(r)'
  BY <1>2, <1>4, Known DEF Progress
<1> QED
  BY <1>2, <1>5, Step

-----------------------------------------------------------------------------
\* What they write at once.
LEMMA Outs ==
    ASSUME NEW i \in Nat
    PROVE  /\ <<Info(i)>> \in Seq(Item) /\ <<Final(i)>> \in Seq(Item) /\ <<End>> \in Seq(Item)
           /\ <<Final(i), End>> \in Seq(Item) /\ <<Error(i), End>> \in Seq(Item)
           /\ <<Info(i), Final(i), End>> \in Seq(Item)
BY Items

\* A step that writes the rest of what is expected.
LEMMA WritesAll ==
    ASSUME HttpInv, NEW r \in Request, StepOf(r),
           written'[r] = Expected(asked[r]),
           handler'[r] \in {"running", "returned"},
           handler'[r] = "running" => begun'[r] = Len(asked[r]),
           begun'[r] > 0 => ~Refused(asked[r]) /\ asked[r] # <<"early">>
    PROVE  Progress(r)'
<1>1. UNCHANGED <<version, asked>>
  BY DEF StepOf
<1>2. Expected(asked[r])' = Expected(asked[r]) /\ (Refused(asked[r])' <=> Refused(asked[r]))
  BY <1>1, SamePath
<1>3. PICK p \in HttpPaths : p = asked[r]
  BY Known
<1>4. PICK l \in Nat \ {0} : l = Len(p)
  BY PathFacts
<1>5. PICK n \in 0..l : n = begun'[r]
  BY <1>3, <1>4 DEF StepOf
<1>6. ASSUME n > 0, p[n] = "echo" PROVE Ended(r)'
  <2>1. n = l
    BY <1>3, <1>4, <1>6, PathFacts DEF HttpPassing
  <2>2. IsExpected(Expected(p), p, l)
    BY <1>4, ExpectedOf
  <2>3. Expected(p) = Infos(p)[l] \o <<Final(l), End>>
    BY <1>3, <1>5, <1>6, <2>1, <2>2 DEF IsExpected
  <2>4. PICK s \in Seq(Item) : s = Infos(p)[l]
    <3>1. l \in 0..l
      BY <1>4
    <3> QED
      BY <1>4, <3>1, InfosDefined
  <2>5. PICK f \in Item, e \in Item : f = Final(l) /\ e = End
    BY <1>4, Items
  <2>6. Len(s) + 2 \in DOMAIN (s \o <<f, e>>) /\ (s \o <<f, e>>)[Len(s) + 2] = e
    OBVIOUS
  <2>7. written'[r] = s \o <<f, e>>
    BY <1>3, <2>3, <2>4, <2>5
  <2> QED
    BY <2>5, <2>6, <2>7 DEF Ended, End
<1>7. Endpoint(r)' = p[n] /\ (Last(r)' <=> n = l)
  BY <1>1, <1>3, <1>4, <1>5 DEF Endpoint, Last
<1>8. Complete(r)'
  BY <1>2, <1>3, <1>4, <1>5, <1>6, <1>7 DEF Complete
<1> QED
  BY <1>1, <1>2, <1>5, <1>8 DEF Progress

\* An answer that needs no endpoint.
LEMMA AnswerEarlyStep ==
    ASSUME HttpInv, NEW r \in Request, AnswerEarly(r)
    PROVE  HttpInv'
<1>1. PICK p \in HttpPaths : p = asked[r] /\ p = <<"early">>
  BY Known DEF AnswerEarly
<1>2. Len(p) = 1 /\ p[1] = "early" /\ ~Refused(p)
  BY <1>1, PathFacts
<1>3. begun[r] = 0 /\ handler[r] = "running"
  BY <1>1, Known DEF AnswerEarly, Progress
<1>4. written[r] = <<>>
  <2>1. Informed(r)
    BY <1>1, <1>2, <1>3, Known DEF Progress, Headed, Complete, Last
  <2>2. written[r] = Infos(p)[0]
    BY <1>1, <1>3, <2>1 DEF Informed, SoFar
  <2>3. Infos(p)[0] = <<>>
    <3>1. 1 \in Nat /\ 1 = Len(p)
      BY <1>2
    <3> QED
      BY <3>1, InfosDefined
  <2> QED
    BY <2>2, <2>3
<1>5. Expected(p) = <<Final(1), End>>
  <2>1. IsExpected(Expected(p), p, 1)
    BY <1>2, ExpectedOf
  <2>2. Infos(p)[0] = <<>> /\ Infos(p)[1] = Infos(p)[1 - 1] \o (IF p[1] = "info" THEN <<Info(1)>> ELSE <<>>)
    <3>1. PICK l \in Nat : l = Len(p) /\ l = 1
      BY <1>2
    <3>2. /\ Infos(p)[0] = <<>>
          /\ \A n \in 1..l :
                Infos(p)[n] = Infos(p)[n - 1] \o (IF p[n] = "info" THEN <<Info(n)>> ELSE <<>>)
      BY <3>1, InfosDefined
    <3>3. 1 \in 1..l /\ 1 - 1 = 0
      BY <3>1
    <3>4. Infos(p)[1] = Infos(p)[1 - 1] \o (IF p[1] = "info" THEN <<Info(1)>> ELSE <<>>)
      BY <3>2, <3>3, Zenon
    <3> QED
      BY <3>2, <3>4, Zenon
  <2>3. Infos(p)[1] = <<>>
    BY <1>2, <2>2
  <2>4. PICK f \in Item, e \in Item : f = Final(1) /\ e = End
    BY Items
  <2>5. <<>> \o <<f, e>> = <<f, e>>
    OBVIOUS
  <2>6. Expected(p) = Infos(p)[1] \o <<Final(1), End>>
    BY <1>2, <2>1 DEF IsExpected
  <2> QED
    BY <2>3, <2>4, <2>5, <2>6
<1>6. PICK out \in Seq(Item) : out = <<Final(1), End>>
  <2>1. 1 \in Nat
    OBVIOUS
  <2> QED
    BY <2>1, Outs
<1>7. StepOf(r) /\ handler'[r] = "returned" /\ begun'[r] = 0 /\ written'[r] = written[r] \o out
  <2>1. begun' = [begun EXCEPT ![r] = 0]
    BY <1>3 DEF AnswerEarly, HttpInv
  <2>2. 0 \in 0..Len(asked[r])
    BY Known
  <2>3. SocketsOK' /\ whole' \in SUBSET Request
    BY DEF AnswerEarly, SocketsOK, HttpInv, HttpTypeOK
  <2>5. written' = [written EXCEPT ![r] = @ \o out]
    BY <1>6 DEF AnswerEarly, Write
  <2>6. handler' = [handler EXCEPT ![r] = "returned"]
    BY DEF AnswerEarly, Move
  <2>7. "returned" \in HandlerStates
    BY DEF HandlerStates
  <2>8. UNCHANGED <<version, asked>> /\ cut \subseteq cut' /\ (got' = got \/ Send)
    BY DEF AnswerEarly
  <2> QED
    BY <2>1, <2>2, <2>3, <2>5, <2>6, <2>7, <2>8, IsStep
<1>8. written'[r] = Expected(asked[r])
  BY <1>1, <1>4, <1>5, <1>6, <1>7
<1>9. Progress(r)'
  BY <1>7, <1>8, WritesAll
<1> QED
  BY <1>7, <1>9, Step

\* The body has come in: the endpoint that reads it is the last one.
LEMMA AnswerBodyStep ==
    ASSUME HttpInv, NEW r \in Request, AnswerBody(r)
    PROVE  HttpInv'
<1>1. PICK p \in HttpPaths : p = asked[r]
  BY Known
<1>2. PICK l \in Nat \ {0} : l = Len(p)
  BY PathFacts
<1>3. Informed(r) /\ handler[r] = "reading"
  BY Known DEF AnswerBody, Progress, Headed, Complete
<1>4. begun[r] = l /\ p[l] \in {"delay", "body", "trailers", "echo"} /\ written[r] = Infos(p)[l]
  BY <1>1, <1>2, <1>3 DEF Informed, Last, Endpoint, SoFar
<1>5. ~Refused(p) /\ p # <<"early">>
  BY <1>1, <1>2, <1>4, Known DEF Progress
<1>6. Expected(p) = Infos(p)[l] \o <<Final(l), End>>
  <2>1. IsExpected(Expected(p), p, l)
    BY <1>2, ExpectedOf
  <2> QED
    BY <1>4, <1>5, <2>1 DEF IsExpected
<1>7. PICK out \in Seq(Item) : out = <<Final(l), End>>
  BY <1>2, Outs
<1>8. StepOf(r) /\ handler'[r] = "running" /\ begun'[r] = l /\ written'[r] = written[r] \o out
  <2>1. begun' = [begun EXCEPT ![r] = l]
    BY <1>4 DEF AnswerBody, HttpInv
  <2>2. l \in 0..Len(asked[r])
    BY <1>1, <1>2
  <2>3. SocketsOK' /\ whole' \in SUBSET Request
    BY DEF AnswerBody, SocketsOK, HttpInv, HttpTypeOK
  <2>5. written' = [written EXCEPT ![r] = @ \o out]
    BY <1>4, <1>7 DEF AnswerBody, Write
  <2>6. handler' = [handler EXCEPT ![r] = "running"]
    BY DEF AnswerBody, Move
  <2>7. "running" \in HandlerStates
    BY DEF HandlerStates
  <2>8. UNCHANGED <<version, asked>> /\ cut \subseteq cut' /\ (got' = got \/ Send)
    BY DEF AnswerBody
  <2> QED
    BY <2>1, <2>2, <2>3, <2>5, <2>6, <2>7, <2>8, IsStep
<1>9. written'[r] = Expected(asked[r])
  BY <1>1, <1>4, <1>6, <1>7, <1>8
<1>10. Progress(r)'
  BY <1>1, <1>2, <1>5, <1>8, <1>9, WritesAll
<1> QED
  BY <1>8, <1>10, Step

\* The listeners of echo end what it began.
LEMMA EndEchoStep ==
    ASSUME HttpInv, NEW r \in Request, EndEcho(r)
    PROVE  HttpInv'
<1>1. PICK p \in HttpPaths : p = asked[r]
  BY Known
<1>2. PICK l \in Nat \ {0} : l = Len(p)
  BY PathFacts
<1>3. Headed(r) /\ handler[r] = "returned"
  BY Known DEF EndEcho, Progress, Informed, Complete
<1>4. begun[r] = l /\ p[l] = "echo" /\ written[r] = Infos(p)[l] \o <<Final(l)>>
  BY <1>1, <1>2, <1>3 DEF EndEcho, Headed, Last, Endpoint, SoFar
<1>5. ~Refused(p) /\ p # <<"early">>
  BY <1>1, <1>2, <1>4, Known DEF Progress
<1>6. Expected(p) = Infos(p)[l] \o <<Final(l), End>>
  <2>1. IsExpected(Expected(p), p, l)
    BY <1>2, ExpectedOf
  <2> QED
    BY <1>4, <1>5, <2>1 DEF IsExpected
<1>7. PICK out \in Seq(Item) : out = <<End>>
  BY <1>2, Outs
<1>8. StepOf(r) /\ handler'[r] = "returned" /\ begun'[r] = l /\ written'[r] = written[r] \o out
  <2>1. begun' = [begun EXCEPT ![r] = l]
    BY <1>4 DEF EndEcho, HttpInv
  <2>2. l \in 0..Len(asked[r])
    BY <1>1, <1>2
  <2>3. SocketsOK' /\ whole' \in SUBSET Request
    BY DEF EndEcho, SocketsOK, HttpInv, HttpTypeOK
  <2>4. handler' = [handler EXCEPT ![r] = "returned"]
    BY <1>3 DEF EndEcho, HttpInv, HttpTypeOK
  <2>5. written' = [written EXCEPT ![r] = @ \o out]
    BY <1>7 DEF EndEcho, Write
  <2>6. handler' = [handler EXCEPT ![r] = "returned"]
    BY <2>4 DEF EndEcho, Move
  <2>7. "returned" \in HandlerStates
    BY DEF HandlerStates
  <2>8. UNCHANGED <<version, asked>> /\ cut \subseteq cut' /\ (got' = got \/ Send)
    BY DEF EndEcho
  <2> QED
    BY <2>1, <2>2, <2>3, <2>5, <2>6, <2>7, <2>8, IsStep
<1>9. written'[r] = Expected(asked[r])
  <2>1. PICK s \in Seq(Item) : s = Infos(p)[l]
    <3>1. l \in 0..l
      BY <1>2
    <3> QED
      BY <1>2, <3>1, InfosDefined
  <2>2. PICK f \in Item, e \in Item : f = Final(l) /\ e = End
    BY <1>2, Items
  <2>3. (s \o <<f>>) \o <<e>> = s \o <<f, e>>
    BY AddOne
  <2> QED
    BY <1>1, <1>4, <1>6, <1>7, <1>8, <2>1, <2>2, <2>3
<1>10. Progress(r)'
  BY <1>1, <1>2, <1>5, <1>8, <1>9, WritesAll
<1> QED
  BY <1>8, <1>10, Step

-----------------------------------------------------------------------------
\* The catch blocks: what was thrown is the answer, unless there is one already.
LEMMA CatchStep ==
    ASSUME HttpInv, NEW r \in Request, Catch(r)
    PROVE  HttpInv'
<1>1. PICK p \in HttpPaths : p = asked[r]
  BY Known
<1>2. PICK l \in Nat \ {0} : l = Len(p)
  BY PathFacts
<1>3. PICK n \in 0..l : n = begun[r]
  BY <1>1, <1>2, Known
<1>4. /\ UNCHANGED <<version, asked, whole, begun>> /\ whole' \in SUBSET Request
      /\ cut \subseteq cut' /\ SocketsOK'
      /\ handler[r] = "failing" /\ handler' = [handler EXCEPT ![r] = "returned"]
      /\ (got' = got \/ Send) /\ "returned" \in HandlerStates
  <2>1. cut \subseteq cut' /\ cut' \in SUBSET Request /\ doomed' \in SUBSET Request
    BY DEF Catch, Destroy, Sharing, HttpInv, HttpTypeOK
  <2> QED
    BY <2>1 DEF Catch, Move, SocketsOK, HttpInv, HttpTypeOK, HandlerStates
<1>5. CASE r \in cut \/ HeadersSent(r)
  <2>1. written' = written
    BY <1>5 DEF Catch
  <2>2. /\ StepOf(r) /\ handler'[r] = "returned" /\ begun'[r] = begun[r]
        /\ version' = version /\ asked' = asked /\ written'[r] = written[r]
        /\ SoFar(r)' = SoFar(r) /\ Endpoint(r)' = Endpoint(r) /\ (Last(r)' <=> Last(r))
        /\ (Refused(asked[r])' <=> Refused(asked[r]))
    BY <1>4, <2>1, IsQuietStep
  <2>3. Informed(r) => Informed(r)'
    BY <2>2 DEF Informed
  <2>4. Headed(r) => Headed(r)'
    BY <2>2 DEF Headed, Final
  <2>5. Informed(r) \/ Headed(r)
    BY <1>4, Known DEF Progress, Complete
  <2>6. Progress(r)'
    BY <2>2, <2>3, <2>4, <2>5, Known DEF Progress
  <2> QED
    BY <2>2, <2>6, Step
<1>6. CASE ~(r \in cut \/ HeadersSent(r))
  <2>1. Informed(r)
    <3>1. ASSUME Headed(r) PROVE FALSE
      <4>1. PICK s \in Seq(Item) : s = SoFar(r)
        BY <1>1, <1>2, <1>3, InfosDefined DEF SoFar
      <4>2. PICK f \in Item : f = Final(n)
        BY <1>3, Items
      <4>3. written[r] = s \o <<f>>
        BY <1>3, <3>1, <4>1, <4>2 DEF Headed
      <4>4. Len(s) + 1 \in DOMAIN (s \o <<f>>) /\ (s \o <<f>>)[Len(s) + 1] = f
        OBVIOUS
      <4>5. f[1] = "head"
        BY <4>2 DEF Final
      <4> QED
        BY <1>6, <4>3, <4>4, <4>5 DEF HeadersSent
    <3> QED
      BY <1>4, <3>1, Known DEF Progress, Complete
  <2>2. \/ n = 0 /\ Refused(p)
        \/ n = l /\ p[l] \in {"fails", "misread"}
    BY <1>1, <1>2, <1>3, <1>4, <1>6, <2>1 DEF Informed, Last, Endpoint
  <2>3. IsExpected(Expected(p), p, l)
    BY <1>2, ExpectedOf
  <2>4. written[r] = Infos(p)[n]
    BY <1>1, <1>3, <2>1 DEF Informed, SoFar
  <2>5. PICK c \in Nat : /\ c = IF version = 1 THEN Status(r) ELSE 500
                         /\ Expected(p) = Infos(p)[n] \o <<Error(c), End>>
    <3>1. CASE n = 0 /\ Refused(p)
      <4>1. Status(r) = Refusal(p) /\ Refusal(p) \in Nat
        BY <1>1, <1>3, <3>1, PathFacts DEF Status
      <4>2. PICK c \in Nat : c = IF version = 1 THEN Refusal(p) ELSE 500
        BY <4>1
      <4>3. Expected(p) = <<Error(c), End>>
        BY <2>3, <3>1, <4>2 DEF IsExpected
      <4>4. PICK e \in Seq(Item) : e = <<Error(c), End>>
        BY Outs
      <4>5. <<>> \o e = e
        BY ConcatEmptySeq
      <4>6. Infos(p)[n] = <<>>
        BY <1>2, <3>1, InfosDefined
      <4> QED
        BY <4>1, <4>2, <4>3, <4>4, <4>5, <4>6
    <3>2. CASE n = l /\ p[l] \in {"fails", "misread"}
      <4>1. Status(r) = IF p[l] = "misread" THEN 400 ELSE 500
        BY <1>1, <1>2, <1>3, <3>2 DEF Status, Thrown, Endpoint
      <4>2. ~Refused(p)
        <5>1. begun[r] > 0
          BY <1>2, <1>3, <3>2
        <5> QED
          BY <1>1, <5>1, Known DEF Progress
      <4>3. PICK c \in Nat : c = IF version = 1 THEN Status(r) ELSE 500
        BY <4>1
      <4>4. Expected(p) = Infos(p)[l] \o <<Error(c), End>>
        <5>1. CASE p[l] = "fails"
          <6>1. c = 500
            BY <4>1, <4>3, <5>1
          <6> QED
            BY <2>3, <4>2, <5>1, <6>1 DEF IsExpected
        <5>2. CASE p[l] = "misread"
          <6>1. c = IF version = 1 THEN 400 ELSE 500
            BY <4>1, <4>3, <5>2
          <6> QED
            BY <2>3, <4>2, <5>2, <6>1 DEF IsExpected
        <5> QED
          BY <3>2, <5>1, <5>2
      <4>5. Expected(p) = Infos(p)[n] \o <<Error(c), End>>
        BY <3>2, <4>4, Zenon
      <4> QED
        BY <4>3, <4>5
    <3> QED
      BY <2>2, <3>1, <3>2
  <2>6. PICK out \in Seq(Item) : out = <<Error(c), End>>
    BY Outs
  <2>7. StepOf(r) /\ handler'[r] = "returned" /\ begun'[r] = n /\ written'[r] = written[r] \o out
    <3>1. begun' = [begun EXCEPT ![r] = n]
      BY <1>3, <1>4 DEF HttpInv
    <3>2. n \in 0..Len(asked[r])
      BY <1>1, <1>2
    <3>3. written' = [written EXCEPT ![r] = @ \o out]
      BY <1>6, <2>5, <2>6 DEF Catch, Write
    <3> QED
      BY <1>4, <3>1, <3>2, <3>3, IsStep
  <2>8. written'[r] = Expected(asked[r])
    BY <1>1, <2>4, <2>5, <2>6, <2>7
  <2>9. Progress(r)'
    <3>1. n > 0 => ~Refused(asked[r]) /\ asked[r] # <<"early">>
      BY <1>3, Known DEF Progress
    <3> QED
      BY <2>7, <2>8, <3>1, WritesAll
  <2> QED
    BY <2>7, <2>9, Step
<1> QED
  BY <1>5, <1>6

\* A response that was to be destroyed gets the socket.
LEMMA DestroyStep ==
    ASSUME HttpInv, NEW r \in Request, DestroyOnSocket(r)
    PROVE  HttpInv'
<1>1. handler \in [Request -> HandlerStates] /\ handler[r] \in HandlerStates
  BY DEF HttpInv, HttpTypeOK, HandlerStates
<1>2. handler' = [handler EXCEPT ![r] = handler[r]]
  BY <1>1 DEF DestroyOnSocket
<1>3. /\ UNCHANGED <<version, asked, begun, written, got, handler>>
      /\ cut \subseteq cut' /\ SocketsOK' /\ whole' \in SUBSET Request
  BY DEF DestroyOnSocket, Sharing, SocketsOK, HttpInv, HttpTypeOK
<1>4. StepOf(r)
  BY <1>1, <1>2, <1>3, IsQuietStep
<1>5. Progress(r)'
  BY <1>3, OthersProgress
<1> QED
  BY <1>4, <1>5, Step

-----------------------------------------------------------------------------
\* The next endpoint, by its kind.
LEMMA HandleStep ==
    ASSUME HttpInv, NEW r \in Request, Handle(r)
    PROVE  HttpInv'
<1>1. PICK p \in HttpPaths : p = asked[r]
  BY Known
<1>2. PICK l \in Nat \ {0} : l = Len(p)
  BY PathFacts
<1>3. PICK n \in 0..l : n = begun[r]
  BY <1>1, <1>2, Known
<1>4. /\ handler[r] = "running" /\ n # l /\ ~Refused(p) /\ p # <<"early">>
      /\ UNCHANGED <<version, asked, whole>> /\ Send
      /\ version \in {1, 2}
  BY <1>1, <1>2, <1>3, PathFacts, Known DEF Handle, Done, Last
<1>5. Informed(r) /\ written[r] = Infos(p)[n]
  <2>1. Informed(r)
    BY <1>1, <1>2, <1>3, <1>4, Known DEF Progress, Headed, Complete, Last
  <2> QED
    BY <1>1, <1>3, <2>1 DEF Informed, SoFar
<1>6. PICK i \in 1..l : i = n + 1 /\ i - 1 = n
  BY <1>2, <1>3, <1>4
<1>7. PICK s \in Seq(Item) : s = Infos(p)[n]
  BY <1>2, <1>3, InfosDefined
<1>8. PICK t \in Seq(Item) : t = Infos(p)[i]
  <2>1. i \in 0..l
    OBVIOUS
  <2> QED
    BY <1>2, <2>1, InfosDefined
<1>9. t = s \o (IF p[i] = "info" THEN <<Info(i)>> ELSE <<>>)
  <2>1. \A m \in 1..l : Infos(p)[m] = Infos(p)[m - 1] \o (IF p[m] = "info" THEN <<Info(m)>> ELSE <<>>)
    BY <1>2, InfosDefined
  <2> QED
    BY <1>6, <1>7, <1>8, <2>1, Zenon
<1>10. PICK k : k = p[i]
  OBVIOUS
<1>11. /\ k \in {"delay", "info", "answer", "body", "trailers", "echo", "fails", "misread", "breaks",
                "close", "reset"}
       /\ i # l => k \in {"delay", "info"}
  <2>1. i = l => p[l] \in HttpPassing \cup HttpEndpoints /\ p[l] # "early"
    BY <1>2, <1>4, PathFacts
  <2>2. i # l => p[i] \in HttpPassing
    BY <1>2, PathFacts
  <2> QED
    BY <1>10, <2>1, <2>2 DEF HttpPassing, HttpEndpoints
<1>12. PICK to, out : Result(to, out) = HandleResult(r, k, i, i = l)
  BY <1>11 DEF HandleResult, HandleInfo, HandleTrailers, HandleEcho, HandleStatus, HandleStreamBytes, Result
<1>13. /\ handler' = [handler EXCEPT ![r] = to]
       /\ begun' = [begun EXCEPT ![r] = i]
       /\ written' = [written EXCEPT ![r] = @ \o out]
       /\ cut' = cut \cup CutBy(k) /\ shut' = shut \cup ShutBy(r, k)
       /\ doomed' = doomed /\ left' = left
  <2>1. Result(to, out).to = to /\ Result(to, out).out = out
    BY DEF Result
  <2>2. begun[r] + 1 = i /\ asked[r][begun[r] + 1] = k /\ (begun[r] + 1 = Len(asked[r]) <=> i = l)
    BY <1>1, <1>2, <1>3, <1>6, <1>10
  <2> QED
    BY <1>12, <2>1, <2>2 DEF Handle, Move, Write
<1>14. \/ k = "delay" /\ to = "delaying" /\ out = <<>>
       \/ k = "info" /\ i # l /\ to = "running" /\ out = <<Info(i)>>
       \/ k = "info" /\ i = l /\ to = "running" /\ out = <<Info(i), Final(i), End>>
       \/ k = "answer" /\ to = "running" /\ out = <<Final(i), End>>
       \/ k = "body" /\ to = "reading" /\ out = <<>>
       \/ k = "trailers" /\ to \in {"hung", "reading"} /\ out = <<>>
       \/ k = "echo" /\ version = 1 /\ to = "reading" /\ out = <<>>
       \/ k = "echo" /\ version = 2 /\ to = "running" /\ out = <<Final(i)>>
       \/ k \in {"fails", "misread"} /\ to = "failing" /\ out = <<>>
       \/ k = "breaks" /\ to = "failing" /\ out = <<Final(i)>>
       \/ k \in {"close", "reset"} /\ to = "running" /\ out = <<>>
  <2>1. \A a, b, c, d : Result(a, b) = Result(c, d) => a = c /\ b = d
    <3> TAKE a, b, c, d
    <3>1. Result(a, b).to = a /\ Result(a, b).out = b /\ Result(c, d).to = c /\ Result(c, d).out = d
      BY DEF Result
    <3> QED
      BY <3>1
  <2> QED
    BY <1>4, <1>11, <1>12, <2>1
       DEF HandleResult, HandleInfo, HandleTrailers, HandleEcho, HandleStatus, HandleStreamBytes
<1>15. out \in Seq(Item) /\ to \in HandlerStates
  <2>1. i \in Nat /\ <<>> \in Seq(Item)
    OBVIOUS
  <2>2. /\ <<Info(i)>> \in Seq(Item) /\ <<Info(i), Final(i), End>> \in Seq(Item)
        /\ <<Final(i), End>> \in Seq(Item) /\ <<Final(i)>> \in Seq(Item)
    BY <2>1, Outs
  <2>3. out \in Seq(Item)
    BY <1>14, <2>1, <2>2, Zenon
  <2>4. to \in HandlerStates
    BY <1>14 DEF HandlerStates
  <2> QED
    BY <2>3, <2>4
<1>16. StepOf(r) /\ handler'[r] = to /\ begun'[r] = i /\ written'[r] = s \o out
  <2>1. cut \subseteq cut' /\ SocketsOK'
    <3>1. CutBy(k) \subseteq Request /\ ShutBy(r, k) \subseteq Request
      BY DEF CutBy, ShutBy, Sharing
    <3> QED
      BY <1>13, <3>1 DEF SocketsOK, HttpInv, HttpTypeOK
  <2>2. i \in 0..Len(asked[r]) /\ whole' \in SUBSET Request
    BY <1>1, <1>2, <1>4 DEF HttpInv, HttpTypeOK
  <2> QED
    BY <1>4, <1>5, <1>7, <1>13, <1>15, <2>1, <2>2, IsStep
<1>17. /\ asked'[r] = p /\ SoFar(r)' = t /\ Endpoint(r)' = k /\ (Last(r)' <=> i = l)
       /\ version' = version /\ ~Refused(p)
  BY <1>1, <1>2, <1>4, <1>8, <1>10, <1>16 DEF SoFar, Endpoint, Last
<1>18. s \o <<>> = s
  BY ConcatEmptySeq
<1>19. k # "info" => t = s
  BY <1>9, <1>10, <1>18
<1>20. CASE out = <<>> \/ (k = "info" /\ i # l)
  <2>1. s \o out = t
    <3>1. CASE k = "info"
      <4>1. out = <<Info(i)>>
        <5>1. <<Info(i), Final(i), End>> # <<>>
          OBVIOUS
        <5> QED
          BY <1>14, <1>20, <3>1, <5>1, Zenon
      <4> QED
        BY <1>9, <1>10, <3>1, <4>1
    <3>2. CASE k # "info"
      BY <1>18, <1>19, <1>20, <3>2
    <3> QED
      BY <3>1, <3>2
  <2>2. /\ version = 2 => k # "echo"
        /\ to = "delaying" => k = "delay"
        /\ to = "reading" => k \in {"body", "trailers", "echo"}
        /\ to = "failing" => k \in {"fails", "misread"}
        /\ to # "none"
    <3>1. <<Final(i)>> # <<>>
      OBVIOUS
    <3>2. k = "echo" /\ version = 2 => FALSE
      <4>1. k = "echo" /\ version = 2 => out = <<Final(i)>>
        BY <1>14
      <4>2. k = "echo" => out = <<>>
        BY <1>20
      <4> QED
        BY <3>1, <4>1, <4>2, Zenon
    <3>3. k = "breaks" => FALSE
      <4>1. k = "breaks" => out = <<Final(i)>>
        BY <1>14
      <4>2. k = "breaks" => out = <<>>
        BY <1>20
      <4> QED
        BY <3>1, <4>1, <4>2, Zenon
    <3>4. /\ to = "delaying" => k = "delay"
          /\ to = "reading" => k \in {"body", "trailers", "echo"}
          /\ to = "failing" => k \in {"fails", "misread", "breaks"}
          /\ to # "none"
      BY <1>14
    <3> QED
      BY <3>2, <3>3, <3>4
  <2>3. k \in {"body", "trailers", "echo", "fails", "misread"} => i = l
    BY <1>11
  <2>4. Informed(r)'
    BY <1>16, <1>17, <2>1, <2>2, <2>3 DEF Informed
  <2>5. Progress(r)'
    BY <1>4, <1>16, <1>17, <2>2, <2>4 DEF Progress, Refused
  <2> QED
    BY <1>16, <2>5, Step
<1>21. CASE k \in {"echo", "breaks"} /\ out = <<Final(i)>>
  <2>1. i = l /\ t = s
    BY <1>11, <1>19, <1>21
  <2>2. \/ k = "echo" /\ version = 2 /\ to = "running"
        \/ k = "breaks" /\ to = "failing"
    <3>1. <<Final(i)>> # <<>>
      OBVIOUS
    <3> QED
      BY <1>14, <1>21, <3>1, Zenon
  <2>3. Headed(r)'
    BY <1>16, <1>17, <1>21, <2>1, <2>2 DEF Headed, Final
  <2>4. Progress(r)'
    BY <1>4, <1>16, <1>17, <2>2, <2>3 DEF Progress, Refused
  <2> QED
    BY <1>16, <2>4, Step
<1>22. CASE (k = "info" /\ i = l) \/ k = "answer"
  <2>1. i = l /\ to = "running"
    BY <1>11, <1>14, <1>22
  <2>2. IsExpected(Expected(p), p, l)
    BY <1>2, ExpectedOf
  <2>3. Expected(p) = t \o <<Final(i), End>>
    BY <1>4, <1>8, <1>10, <1>22, <2>1, <2>2 DEF IsExpected
  <2>4. s \o out = t \o <<Final(i), End>>
    <3>1. CASE k = "info"
      <4>1. out = <<Info(i), Final(i), End>> /\ t = s \o <<Info(i)>>
        BY <1>9, <1>10, <1>14, <1>22, <3>1, Zenon
      <4>2. PICK a \in Item, f \in Item, e \in Item : a = Info(i) /\ f = Final(i) /\ e = End
        BY Items
      <4>3. (s \o <<a>>) \o <<f, e>> = s \o <<a, f, e>>
        BY AddTwo
      <4> QED
        BY <4>1, <4>2, <4>3, Zenon
    <3>2. CASE k = "answer"
      BY <1>14, <1>19, <3>2
    <3> QED
      BY <1>22, <3>1, <3>2
  <2>5. written'[r] = Expected(asked[r])
    BY <1>1, <1>16, <2>3, <2>4
  <2>6. Progress(r)'
    BY <1>1, <1>2, <1>4, <1>16, <1>17, <2>1, <2>5, WritesAll
  <2> QED
    BY <1>16, <2>6, Step
<1> QED
  BY <1>14, <1>20, <1>21, <1>22

-----------------------------------------------------------------------------
\* No request has come in at first.
LEMMA InitHttp == HttpInit => HttpInv
<1> SUFFICES ASSUME HttpInit PROVE HttpInv
  OBVIOUS
<1>1. /\ version \in {1, 2} /\ asked \in [Request -> HttpPaths] /\ whole = {}
      /\ cut = {} /\ shut = {} /\ doomed = {} /\ left = {}
      /\ \A r \in Request : handler[r] = "none" /\ begun[r] = 0 /\ written[r] = <<>> /\ got[r] = <<>>
      /\ handler \in [Request -> {"none"}] /\ begun \in [Request -> Nat]
      /\ written \in [Request -> Seq(Item)] /\ got \in [Request -> Seq(Item)]
  BY DEF HttpInit
<1>2. \A r \in Request : asked[r] \in HttpPaths /\ Len(asked[r]) \in Nat
  BY <1>1, PathFacts
<1>3. HttpTypeOK
  <2>1. \A r \in Request : begun[r] \in 0..Len(asked[r])
    BY <1>1, <1>2
  <2>2. Len(<<>>) = 0 /\ DOMAIN <<>> = {}
    OBVIOUS
  <2> QED
    BY <1>1, <2>1, <2>2 DEF HttpTypeOK
<1>4. \A r \in Request : Progress(r)
  <2> TAKE r \in Request
  <2>1. PICK l \in Nat : l = Len(asked[r])
    BY <1>2
  <2>2. Infos(asked[r])[0] = <<>>
    BY <2>1, InfosDefined
  <2>3. Informed(r)
    BY <1>1, <2>2 DEF Informed, SoFar
  <2> QED
    BY <1>1, <2>3 DEF Progress
<1>5. AnswerOfChain
  <2> SUFFICES ASSUME NEW r \in Request PROVE Begins(got[r], Expected(asked[r]))
    BY DEF AnswerOfChain, Begins
  <2>1. PICK E \in Seq(Item) : E = Expected(asked[r])
    BY <1>2, ExpectedMore
  <2>2. <<>> \o E = E /\ <<>> \in Seq(Item)
    BY ConcatEmptySeq
  <2> QED
    BY <1>1, <2>1, <2>2, BeginsConcat
<1> QED
  BY <1>1, <1>3, <1>4, <1>5 DEF HttpInv

\* Every step of a request keeps the invariant, and so do those of other events.
LEMMA NextHttp == HttpInv /\ [HttpNext]_httpVars => HttpInv'
<1> SUFFICES ASSUME HttpInv, [HttpNext]_httpVars PROVE HttpInv'
  OBVIOUS
<1>1. CASE HttpNext
  BY <1>1, ArriveStep, ClientStep, ReturnStep, MoveStep, AnswerEarlyStep, AnswerBodyStep,
     EndEchoStep, CatchStep, DestroyStep, HandleStep DEF HttpNext, HandlerStep
<1>2. CASE UNCHANGED httpVars
  <2>1. UNCHANGED <<version, asked, whole, handler, begun, written, got, cut, shut, doomed, left>>
    BY <1>2 DEF httpVars
  <2>2. \A r \in Request : Progress(r)'
    BY <2>1, OthersProgress
  <2>3. \A r \in Request : Expected(asked[r])' = Expected(asked[r])
    BY <2>1, SamePath
  <2>4. AnswerOfChain'
    BY <2>1, <2>3 DEF HttpInv, AnswerOfChain
  <2> QED
    BY <2>1, <2>2, <2>4 DEF HttpInv, HttpTypeOK
<1> QED
  BY <1>1, <1>2

\* The invariant holds in every state.
THEOREM HttpInvariant == Spec => []HttpInv
<1>1. Init => HttpInv
  BY InitHttp DEF Init
<1>2. HttpInv /\ [Next]_vars => HttpInv'
  <2>1. [Next]_vars => [HttpNext]_httpVars
    BY DEF Next, OnHost, OnRequest, OnUpgrade, vars
  <2> QED
    BY <2>1, NextHttp
<1> QED
  BY <1>1, <1>2, PTL DEF Spec

\* Whatever the others on its connection do, a client gets of its request what its path asks
\* for, or a beginning of it (http-handler.ts:256-259, 276-288, 315-325).
THEOREM AnswersAsAsked == Spec => []AnswerOfChain
<1>1. HttpInv => AnswerOfChain
  BY DEF HttpInv
<1> QED
  BY <1>1, HttpInvariant, PTL

-----------------------------------------------------------------------------
(***************************************************************************)
(* WsSession                                                               *)
(***************************************************************************)
Frame == {"message", "repeat", "echo", "close"} \X Nat

\* The inductive invariant of the shape of a session.
WsInv == WsTypeOK /\ wsSent \in Seq(Frame)

\* What is sent is a sequence of frames.
LEMMA SendsFrame ==
    ASSUME NEW s \in Seq(Frame), NEW f \in Frame
    PROVE  /\ Append(s, f) \in Seq(Frame)
           /\ \A i \in DOMAIN Append(s, f) : Append(s, f)[i][1] \in {"message", "repeat", "echo", "close"}
<1>1. PICK t \in Seq(Frame) : t = Append(s, f)
  <2>1. Append(s, f) \in Seq(Frame)
    OBVIOUS
  <2> QED
    BY <2>1
<1>2. \A i \in DOMAIN t : t[i] \in Frame
  OBVIOUS
<1>3. \A g \in Frame : g[1] \in {"message", "repeat", "echo", "close"}
  BY DEF Frame
<1> QED
  BY <1>1, <1>2, <1>3

\* A session begins with nothing sent.
LEMMA InitWs == WsInit => WsInv
<1> SUFFICES ASSUME WsInit PROVE WsInv
  OBVIOUS
<1>1. wsPath \in Seq(WsPassing \cup WsEndpoints \cup DOMAIN Unmatched)
  BY WsAsked DEF WsInit, PathsOf
<1>2. 0 \in 0..Len(wsPath)
  BY <1>1
<1>3. /\ wsPath \in WsPaths /\ wsHost \in Hosting /\ response = 0 /\ readyState = "none"
      /\ wsHandler = "none" /\ wsBegun = 0 /\ listening = FALSE /\ intervals = {} /\ messages = 0
      /\ wsSent = <<>> /\ socket = "open"
  BY DEF WsInit
<1>4. 0 \in 0..MaxMessages
  BY WsBounds
<1>5. <<>> \in Seq(Frame) /\ DOMAIN <<>> = {}
  OBVIOUS
<1>6. WsTypeOK
  BY <1>2, <1>3, <1>4, <1>5 DEF WsTypeOK
<1> QED
  BY <1>3, <1>5, <1>6 DEF WsInv

\* Its steps keep the shape of its state.
LEMMA NextWs == WsInv /\ [WsNext]_wsVars => WsInv'
<1> SUFFICES ASSUME WsInv, [WsNext]_wsVars PROVE WsInv'
  OBVIOUS
<1>0. /\ wsPath \in WsPaths /\ wsHost \in Hosting /\ response \in {0, 101, 400, 404, 500, Uncaught}
      /\ readyState \in {"none", "open", "closing", "closed"}
      /\ wsHandler \in {"none", "running", "delaying", "failing", "returned"}
      /\ listening \in BOOLEAN /\ intervals \subseteq DOMAIN wsPath /\ messages \in 0..MaxMessages
      /\ socket \in {"open", "ending", "destroyed"} /\ wsSent \in Seq(Frame)
      /\ wsBegun \in 0..Len(wsPath)
      /\ \A i \in DOMAIN wsSent : wsSent[i][1] \in {"message", "repeat", "echo", "close"}
  BY DEF WsInv, WsTypeOK
<1>1. wsPath \in Seq(WsPassing \cup WsEndpoints \cup DOMAIN Unmatched) /\ Len(wsPath) \in Nat
  BY <1>0, WsAsked DEF PathsOf
<1>2. wsPath' = wsPath /\ wsHost' = wsHost
  BY DEF WsNext, wsVars, RejectUpgrade, Upgrade, Chain, EndChain, WsDelay, AfterWsDelay, Message,
         Garbled, Subprotocol, Repeat, StartListening, CloseSession, CloseFails, ResetSession, WsCatch,
         Tick, ReceiveMessage, ReceiveClose, SocketCloses, EmitClose
<1>3. /\ readyState' \in {"none", "open", "closing", "closed"}
      /\ wsHandler' \in {"none", "running", "delaying", "failing", "returned"}
      /\ listening' \in BOOLEAN
      /\ socket' \in {"open", "ending", "destroyed"}
  <2>1. readyState' \in {readyState, "open", "closing", "closed"}
    BY DEF WsNext, wsVars, RejectUpgrade, Upgrade, Chain, EndChain, WsDelay, AfterWsDelay, Message,
           Garbled, Subprotocol, Repeat, StartListening, CloseSession, CloseFails, ResetSession, WsCatch,
           Tick, ReceiveMessage, ReceiveClose, SocketCloses, EmitClose, Close
  <2>2. wsHandler' \in {wsHandler, "running", "delaying", "failing", "returned"}
    BY DEF WsNext, wsVars, RejectUpgrade, Upgrade, Chain, EndChain, WsDelay, AfterWsDelay, Message,
           Garbled, Subprotocol, Repeat, StartListening, CloseSession, CloseFails, ResetSession, WsCatch,
           Tick, ReceiveMessage, ReceiveClose, SocketCloses, EmitClose, Close
  <2>3. listening' = listening \/ listening' = TRUE
    BY Zenon DEF WsNext, wsVars, RejectUpgrade, Upgrade, Chain, EndChain, WsDelay, AfterWsDelay, Message,
           Garbled, Subprotocol, Repeat, StartListening, CloseSession, CloseFails, ResetSession, WsCatch,
           Tick, ReceiveMessage, ReceiveClose, SocketCloses, EmitClose, Close
  <2>4. socket' \in {socket, "ending", "destroyed"}
    BY DEF WsNext, wsVars, RejectUpgrade, Upgrade, Chain, EndChain, WsDelay, AfterWsDelay, Message,
           Garbled, Subprotocol, Repeat, StartListening, CloseSession, CloseFails, ResetSession, WsCatch,
           Tick, ReceiveMessage, ReceiveClose, SocketCloses, EmitClose, Close
  <2>5. listening' \in BOOLEAN
    BY <1>0, <2>3, Zenon
  <2>6. readyState' \in {"none", "open", "closing", "closed"}
    BY <1>0, <2>1
  <2>7. wsHandler' \in {"none", "running", "delaying", "failing", "returned"}
    BY <1>0, <2>2
  <2>8. socket' \in {"open", "ending", "destroyed"}
    BY <1>0, <2>4
  <2> QED
    BY <2>5, <2>6, <2>7, <2>8
<1>4. response' \in {0, 101, 400, 404, 500, Uncaught}
  <2>1. ResolveEndpointChain(wsPath) \in {200, 400, 404, 500}
    BY DEF ResolveEndpointChain, Unmatched
  <2>2. UpgradeStatus \in {101, 400, 404, 500, Uncaught}
    BY <2>1 DEF UpgradeStatus
  <2>3. response' \in {response, 101, UpgradeStatus}
    BY DEF WsNext, wsVars, RejectUpgrade, Upgrade, Chain, EndChain, WsDelay, AfterWsDelay, Message,
         Garbled, Subprotocol, Repeat, StartListening, CloseSession, CloseFails, ResetSession, WsCatch,
         Tick, ReceiveMessage, ReceiveClose, SocketCloses, EmitClose
  <2> QED
    BY <1>0, <2>2, <2>3
<1>5. \A kind : Begin(kind) => wsBegun' \in 1..Len(wsPath)
  BY <1>0, <1>1 DEF Begin, Stops
<1>6. wsBegun' \in 0..Len(wsPath)
  <2>1. wsBegun' = wsBegun \/ wsBegun' \in 1..Len(wsPath)
    BY <1>5 DEF WsNext, wsVars, RejectUpgrade, Upgrade, Chain, EndChain, WsDelay, AfterWsDelay, Message,
         Garbled, Subprotocol, Repeat, StartListening, CloseSession, CloseFails, ResetSession, WsCatch,
         Tick, ReceiveMessage, ReceiveClose, SocketCloses, EmitClose
  <2> QED
    BY <1>0, <1>1, <2>1
<1>7. intervals' \subseteq DOMAIN wsPath
  <2>1. \/ intervals' \subseteq intervals
        \/ wsBegun' \in 1..Len(wsPath) /\ intervals' = intervals \cup {wsBegun'}
    BY <1>5 DEF WsNext, wsVars, RejectUpgrade, Upgrade, Chain, EndChain, WsDelay, AfterWsDelay, Message,
         Garbled, Subprotocol, Repeat, StartListening, CloseSession, CloseFails, ResetSession, WsCatch,
         Tick, ReceiveMessage, ReceiveClose, SocketCloses, EmitClose
  <2>2. DOMAIN wsPath = 1..Len(wsPath)
    BY <1>1
  <2> QED
    BY <1>0, <2>1, <2>2
<1>8. messages' \in 0..MaxMessages
  <2>1. messages' = messages \/ (messages < MaxMessages /\ messages' = messages + 1)
    BY DEF WsNext, wsVars, RejectUpgrade, Upgrade, Chain, EndChain, WsDelay, AfterWsDelay, Message,
         Garbled, Subprotocol, Repeat, StartListening, CloseSession, CloseFails, ResetSession, WsCatch,
         Tick, ReceiveMessage, ReceiveClose, SocketCloses, EmitClose
  <2> QED
    BY <1>0, <2>1, WsBounds
<1>9. wsSent' = wsSent \/ \E f \in Frame : wsSent' = Append(wsSent, f)
  <2>1. \A n \in Nat : /\ Text(n) \in Frame /\ Repeated(n) \in Frame /\ Echo(n) \in Frame
                       /\ CloseFrame(n) \in Frame
    BY DEF Text, Repeated, Echo, CloseFrame, Frame
  <2>2. wsBegun' \in Nat /\ messages' \in Nat /\ OwnCode \in Nat /\ InternalError \in Nat /\ ClientCode \in Nat
    BY <1>6, <1>8 DEF OwnCode, InternalError, ClientCode
  <2>3. CASE Chain
    BY <2>1, <2>2, <2>3 DEF Chain, EndChain, WsDelay, AfterWsDelay, Message, Garbled, Subprotocol, Repeat,
         StartListening, CloseSession, CloseFails, ResetSession, WsCatch, Close, SendFrame
  <2>4. ASSUME NEW i \in DOMAIN wsPath, Tick(i)
        PROVE  wsSent' = wsSent \/ \E f \in Frame : wsSent' = Append(wsSent, f)
    <3>1. i \in Nat
      BY <1>1
    <3> QED
      BY <2>1, <2>4, <3>1 DEF Tick, SendFrame
  <2>5. CASE ReceiveMessage \/ ReceiveClose
    BY <2>1, <2>2, <2>5 DEF ReceiveMessage, ReceiveClose, Close, SendFrame
  <2>6. CASE RejectUpgrade \/ Upgrade \/ SocketCloses \/ EmitClose \/ UNCHANGED wsVars
    BY <2>6 DEF RejectUpgrade, Upgrade, SocketCloses, EmitClose, wsVars
  <2> QED
    BY <2>3, <2>4, <2>5, <2>6 DEF WsNext
<1>10. /\ wsSent' \in Seq(Frame)
       /\ \A i \in DOMAIN wsSent' : wsSent'[i][1] \in {"message", "repeat", "echo", "close"}
  <2>1. ASSUME NEW f \in Frame, wsSent' = Append(wsSent, f)
        PROVE  /\ wsSent' \in Seq(Frame)
               /\ \A i \in DOMAIN wsSent' : wsSent'[i][1] \in {"message", "repeat", "echo", "close"}
    BY <1>0, <2>1, SendsFrame
  <2> QED
    BY <1>0, <1>9, <2>1
<1> QED
  BY <1>0, <1>2, <1>3, <1>4, <1>6, <1>7, <1>8, <1>10 DEF WsInv, WsTypeOK

-----------------------------------------------------------------------------
\* No endpoint begins and nothing is sent once a session is no longer open
\* (ws-handler.ts:105, 113, endpoints/ws/repeat.ts:44, echo.ts:8).
THEOREM Quiet == Spec => QuietAfterClose
<1> DEFINE Still == wsBegun' = wsBegun /\ wsSent' = wsSent /\ intervals' \subseteq intervals
<1>1. ASSUME [Next]_vars, readyState # "open", response = 101
      PROVE  Still
  <2>1. CASE UNCHANGED wsVars
    BY <2>1 DEF wsVars
  <2>2. CASE Chain
    <3>1. ~(\E kind : Begin(kind))
      BY <1>1 DEF Begin, Stops
    <3> QED
      BY <1>1, <2>2, <3>1 DEF Chain, EndChain, WsDelay, AfterWsDelay, Message, Garbled, Subprotocol,
           Repeat, StartListening, CloseSession, CloseFails, ResetSession, WsCatch
  <2>3. CASE RejectUpgrade \/ Upgrade \/ SocketCloses \/ EmitClose
    BY <1>1, <2>3 DEF RejectUpgrade, Upgrade, SocketCloses, EmitClose
  <2>4. CASE ReceiveMessage \/ ReceiveClose
    BY <1>1, <2>4 DEF ReceiveMessage, ReceiveClose
  <2>5. ASSUME NEW i \in DOMAIN wsPath, Tick(i) PROVE Still
    BY <1>1, <2>5 DEF Tick
  <2> QED
    BY <1>1, <2>1, <2>2, <2>3, <2>4, <2>5
       DEF Next, OnHost, OnRequest, OnUpgrade, WsNext, vars
<1>2. [Next]_vars => [readyState # "open" /\ response = 101 => Still]_wsVars
  BY <1>1
<1> QED
  BY <1>2, PTL DEF Spec, QuietAfterClose

-----------------------------------------------------------------------------
(***************************************************************************)
(* Requests                                                                *)
(***************************************************************************)
\* The variables of all three parts keep the shape they are declared with.
THEOREM TypeCorrect == Spec => []TypeOK
<1> DEFINE Shape == event \in {"host", "request", "upgrade"} /\ RouteTypeOK /\ WsInv
<1>1. Init => Shape
  <2>1. RouteInit => RouteTypeOK
    <3> SUFFICES ASSUME RouteInit PROVE RouteTypeOK
      OBVIOUS
    <3>1. MergeTypeOK /\ first \in Host
      BY InitMerge, HostsAsked DEF RouteInit, MergeInv
    <3> QED
      BY <3>1 DEF RouteInit, RouteTypeOK, Url
  <2> QED
    BY <2>1, InitWs DEF Init
<1>2. RouteInv /\ RouteInv' /\ Shape /\ [Next]_vars => Shape'
  <2>1. [Next]_vars => [RouteNext]_routeVars /\ [WsNext]_wsVars /\ event' = event
    BY DEF Next, OnHost, OnRequest, OnUpgrade, vars
  <2> QED
    BY <2>1, RouteType, NextWs
<1>3. Shape /\ HttpInv => TypeOK
  BY DEF TypeOK, HttpInv, WsInv
<1> HIDE DEF Shape
<1> QED
  BY <1>1, <1>2, <1>3, RouteInvariant, HttpInvariant, PTL DEF Spec

=============================================================================
