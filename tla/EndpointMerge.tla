----------------------------- MODULE EndpointMerge -----------------------------
(***************************************************************************)
(* getEndpointConfig (endpoint-config.ts) and the merge it is made of      *)
(* (tls-merge.ts): the parts of a host name, one after the other, and the  *)
(* options they add up to.  It is called by the TLS handshake and by every *)
(* request for a host below the root domain, and never awaits: a step here *)
(* is a round of its loop, and no other call begins before it returns.     *)
(***************************************************************************)
EXTENDS Integers, Sequences

CONSTANTS
    Word,            \* what stands between the separators of a host name
    Part,            \* the parts some endpoint is for
    Contribution,    \* the certificate and TLS options of a part, in one record
    Alpn,            \* what a part appends to the ALPN preferences
    MaxSniParts,     \* MAX_SNI_PARTS
    MaxLength        \* bound: parts of a host name that is asked for

Version == 0..3      \* VERSION_ORDER: TLS 1.0 to TLS 1.3

\* FIELD_COMBINERS; any other field is exclusive.
Combined == {"enabledVersions", "securityLevel"}

Field == UNION {DOMAIN Contribution[p] : p \in Part}

ASSUME PartsAreWords == Part \subseteq Word
ASSUME Lengths == MaxSniParts \in Nat \ {0} /\ MaxLength \in Nat
ASSUME Options == \A p \in Part :
    /\ Contribution[p] = [f \in DOMAIN Contribution[p] |-> Contribution[p][f]]
    /\ "enabledVersions" \in DOMAIN Contribution[p] =>
          Contribution[p].enabledVersions \in (SUBSET Version) \ {{}}
    /\ "securityLevel" \in DOMAIN Contribution[p] => Contribution[p].securityLevel \in Nat
    /\ "maxVersion" \in DOMAIN Contribution[p] => Contribution[p].maxVersion \in Version
    /\ DOMAIN Contribution[p] \cap {"secureOptions", "minVersion"} = {}
ASSUME AlpnLists == \A p \in Part : Alpn[p] \in Seq({"h2", "http/1.1"})

Host == {parts \in Seq(Word) : Len(parts) <= MaxLength}

NoOptions == [f \in {} |-> {}]

VARIABLES
    serverNameParts,
    done,               \* how many of them have been merged
    options,            \* certOptions and tlsOptions
    alpnPreferences,
    verdict             \* "none", "merging", "valid", or "invalid" if it throws

mergeVars == <<serverNameParts, done, options, alpnPreferences, verdict>>

\* The shape of the state.  While merging, the options are in Field; then there are also
\* those that enabledVersions becomes.
MergeTypeOK ==
    /\ serverNameParts \in Host
    /\ done \in 0..Len(serverNameParts)
    /\ DOMAIN options \subseteq Field \cup {"secureOptions", "minVersion", "securityLevel"}
    /\ alpnPreferences \in Seq({"h2", "http/1.1"})
    /\ verdict \in {"none", "merging", "valid", "invalid"}

MergeInit ==
    /\ serverNameParts = <<>>
    /\ done = 0
    /\ options = NoOptions
    /\ alpnPreferences = <<>>
    /\ verdict = "none"

-----------------------------------------------------------------------------
Duplicates(parts) == \E i, j \in DOMAIN parts : i # j /\ parts[i] = parts[j]

\* Mutant: the loop starts at the second part.
MutantGetEndpointConfig(parts) ==
    /\ verdict # "merging"
    /\ serverNameParts' = parts
    /\ done' = 1
    /\ options' = NoOptions
    /\ alpnPreferences' = <<>>
    /\ verdict' = IF Len(parts) > MaxSniParts \/ Duplicates(parts) THEN "invalid" ELSE "merging"

\* The call, up to its loop.
GetEndpointConfig(parts) ==
    /\ verdict # "merging"
    /\ serverNameParts' = parts
    /\ done' = 0
    /\ options' = NoOptions
    /\ alpnPreferences' = <<>>
    /\ verdict' = IF Len(parts) > MaxSniParts \/ Duplicates(parts) THEN "invalid" ELSE "merging"

\* Mutant: the last security level wins.
MutantCombine(f, a, b) == IF f = "enabledVersions" THEN a \cup b ELSE b

Combine(f, a, b) == IF f = "enabledVersions" THEN a \cup b ELSE IF a <= b THEN a ELSE b

\* mergeContribution throws ...
Conflict(acc, new) ==
    \E f \in (DOMAIN acc \cap DOMAIN new) \ Combined : acc[f] # new[f]

\* ... or adds what the part contributes.
MergeContribution(acc, new) ==
    [f \in DOMAIN acc \cup DOMAIN new |->
        IF f \notin DOMAIN new THEN acc[f]
        ELSE IF f \in DOMAIN acc /\ f \in Combined THEN Combine(f, acc[f], new[f])
        ELSE new[f]]

ThisPart == serverNameParts[done + 1]

\* A part that no endpoint is for, or that wants what another has set otherwise.
RejectPart ==
    /\ verdict = "merging" /\ done < Len(serverNameParts)
    /\ ThisPart \in Part => Conflict(options, Contribution[ThisPart])
    /\ verdict' = "invalid"
    /\ UNCHANGED <<serverNameParts, done, options, alpnPreferences>>

MergePart ==
    /\ verdict = "merging" /\ done < Len(serverNameParts)
    /\ ThisPart \in Part /\ ~Conflict(options, Contribution[ThisPart])
    /\ options' = MergeContribution(options, Contribution[ThisPart])
    /\ alpnPreferences' = alpnPreferences \o Alpn[ThisPart]
    /\ done' = done + 1
    /\ UNCHANGED <<serverNameParts, verdict>>

Lowest(S) == CHOOSE x \in S : \A y \in S : x <= y

\* Mutant: the versions of all parts are accepted, and all in between.
MutantDisabled(enabled) == {}

\* VERSION_DISABLE_FLAGS of every version that is not enabled.
Disabled(enabled) == Version \ enabled

\* resolveEnabledVersions.  A legacy version needs security level 0, the lowest there is.
\* (resolveSecurityLevel only moves the level into the text of the cipher list.)
ResolveEnabledVersions(o) ==
    IF "enabledVersions" \notin DOMAIN o THEN o
    ELSE LET lowest == Lowest(o.enabledVersions)
             set == {"secureOptions", "minVersion"} \cup (IF lowest <= 1 THEN {"securityLevel"} ELSE {})
         IN [f \in (DOMAIN o \ {"enabledVersions"}) \cup set |->
                CASE f = "secureOptions" -> Disabled(o.enabledVersions)
                  [] f = "minVersion" -> lowest
                  [] f = "securityLevel" /\ lowest <= 1 -> 0
                  [] OTHER -> o[f]]

\* After the loop: the versions, and no-tls is for itself only.
Resolve ==
    /\ verdict = "merging" /\ done = Len(serverNameParts)
    /\ options' = ResolveEnabledVersions(options)
    /\ verdict' = IF "rejectTls" \in DOMAIN options /\ done > 1 THEN "invalid" ELSE "valid"
    /\ UNCHANGED <<serverNameParts, done, alpnPreferences>>

MergeStep == RejectPart \/ MergePart \/ Resolve

MergeNext == MergeStep \/ \E parts \in Host : GetEndpointConfig(parts)

MergeSpec == MergeInit /\ [][MergeNext]_mergeVars

-----------------------------------------------------------------------------
(***************************************************************************)
(* What a set of parts asks for, in no order.                              *)
(***************************************************************************)
Values(P, f) == {Contribution[p][f] : p \in {q \in P : f \in DOMAIN Contribution[q]}}

Fields(P) == {f \in Field : \E p \in P : f \in DOMAIN Contribution[p]}

Agree(P) == \A f \in Fields(P) \ Combined : \A v, w \in Values(P, f) : v = w

Asked(P) ==
    [f \in Fields(P) |-> IF f = "enabledVersions" THEN UNION Values(P, f)
                         ELSE IF f = "securityLevel" THEN Lowest(Values(P, f))
                         ELSE CHOOSE v \in Values(P, f) : TRUE]

PartsOf(parts) == {parts[i] : i \in DOMAIN parts}

Servable(parts) ==
    /\ Len(parts) <= MaxSniParts /\ ~Duplicates(parts)
    /\ PartsOf(parts) \subseteq Part /\ Agree(PartsOf(parts))
    /\ "rejectTls" \in Fields(PartsOf(parts)) => Len(parts) = 1

\* The TLS versions a context of these options accepts: Node's default is TLS 1.2 and 1.3,
\* OpenSSL refuses TLS 1.0 and 1.1 above security level 0.
Accepted(o) ==
    {v \in Version :
        /\ "secureOptions" \in DOMAIN o => v \notin o.secureOptions
        /\ IF "minVersion" \in DOMAIN o THEN v >= o.minVersion ELSE v >= 2
        /\ "maxVersion" \in DOMAIN o => v <= o.maxVersion
        /\ v <= 1 => "securityLevel" \in DOMAIN o /\ o.securityLevel = 0}

\* A host is refused just if its parts cannot be had together, and its options are the sum of
\* what they ask for, in whatever order they stand (endpoint-config.ts:45-54,
\* tls-merge.ts:13-18, 28-48).
MergesAsASet ==
    LET P == PartsOf(serverNameParts) IN
    /\ verdict = "valid" => Servable(serverNameParts) /\ options = ResolveEnabledVersions(Asked(P))
    /\ verdict = "invalid" => ~Servable(serverNameParts)

\* Of a host that names TLS versions just those are accepted, the legacy ones too, except for
\* what a part with a cipher of TLS 1.2 rules out (tls-merge.ts:52-54, ciphers.ts:4-8).
VersionsAsAsked ==
    verdict = "valid" =>
        LET P == PartsOf(serverNameParts)
            named == UNION Values(P, "enabledVersions")
            cap(v) == \A max \in Values(P, "maxVersion") : v <= max
        IN Accepted(options) = {v \in IF named = {} THEN {2, 3} ELSE named : cap(v)}

=============================================================================
