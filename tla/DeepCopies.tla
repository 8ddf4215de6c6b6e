----------------------------- MODULE DeepCopies -----------------------------
(***************************************************************************)
(* The Go types of both API versions as far as they hold references, and   *)
(* what the generated DeepCopyInto methods (zz_generated.deepcopy.go) do   *)
(* with each.  A path leads from a value to a slice (or map) that it       *)
(* refers to; assigning a struct shares the slices, DeepCopyInto must not. *)
(***************************************************************************)
EXTENDS Sequences, TLC

Versions == {"v1alpha1", "v1alpha2"}

\* A field of a struct: a slice of a type, or a struct of a type.
Slice(name, type)  == [name |-> name, slice |-> TRUE, type |-> type]
Struct(name, type) == [name |-> name, slice |-> FALSE, type |-> type]

\* Types of other modules, whose DeepCopyInto is taken to be complete.
\* v1alpha1 takes Cluster and NamedExtension from clientcmd/api/v1.
ExternalTypes ==
    [ObjectMeta     |-> {Slice("Labels", "string")},
     RawExtension   |-> {Slice("Raw", "byte")},
     Cluster        |-> {Slice("CertificateAuthorityData", "byte"),
                         Slice("Extensions", "NamedExtension")},
     NamedExtension |-> {Struct("Extension", "RawExtension")}]

ProfileTypesV1alpha1 ==
    [ClusterProfile       |-> {Struct("ObjectMeta", "ObjectMeta"),
                               Struct("Status", "ClusterProfileStatus")},
     ClusterProfileStatus |-> {Slice("Conditions", "Condition"), Slice("Properties", "Property"),
                               Slice("CredentialProviders", "AccessProvider"),
                               Slice("AccessProviders", "AccessProvider")},
     AccessProvider       |-> {Struct("Cluster", "Cluster")},
     ClusterProfileList   |-> {Slice("Items", "ClusterProfile")}]

ProfileTypesV1alpha2 ==
    [ClusterProfile     |-> {Struct("ObjectMeta", "ObjectMeta"),
                             Struct("Status", "ClusterProfileStatus")},
     ClusterProfileList |-> {Slice("Items", "ClusterProfile")}]

StatusTypesV1alpha2 ==
    [ClusterProfileStatus |-> {Slice("Conditions", "Condition"), Slice("Properties", "Property"),
                               Slice("AccessProviders", "AccessProvider")},
     AccessProvider       |-> {Struct("Cluster", "Cluster")},
     Cluster              |-> {Slice("CertificateAuthorityData", "byte"),
                               Slice("Extensions", "NamedExtension")},
     NamedExtension       |-> {Struct("Extension", "RawExtension")}]

\* The same in both versions.
PlacementTypes ==
    [PlacementDecision     |-> {Struct("ObjectMeta", "ObjectMeta"),
                                Slice("Decisions", "ClusterDecision")},
     PlacementDecisionList |-> {Slice("Items", "PlacementDecision")}]

\* These hold no references.
Flat == {"string", "byte", "Condition", "Property", "ClusterDecision"}

Types(version) ==
    (IF version = "v1alpha1" THEN ProfileTypesV1alpha1
     ELSE ProfileTypesV1alpha2 @@ StatusTypesV1alpha2)
    @@ PlacementTypes @@ ExternalTypes @@ [t \in Flat |-> {}]

\* The paths from a value of a type to the slices in it.
Paths == [version \in Versions |->
    LET types == Types(version)
        paths[t \in DOMAIN types] == UNION {
            (IF f.slice THEN {<<f.name>>} ELSE {}) \cup {<<f.name>> \o p : p \in paths[f.type]}
            : f \in types[t]}
    IN  paths]

-----------------------------------------------------------------------------
(* What DeepCopyInto does with a field, for the fields it names: "into"    *)
(* calls the field's DeepCopyInto; "each" makes a new slice and calls that *)
(* of every element; "copy" makes a new slice and copies the elements.     *)
(* The other fields are assigned, with *out = *in.                         *)

ExternalInto ==
    [ObjectMeta     |-> [Labels |-> "copy"],
     RawExtension   |-> [Raw |-> "copy"],
     Cluster        |-> [CertificateAuthorityData |-> "copy", Extensions |-> "each"],
     NamedExtension |-> [Extension |-> "into"]]

ProfileIntoV1alpha1 ==
    [AccessProvider     |-> [Cluster |-> "into"],
     ClusterProfile     |-> [ObjectMeta |-> "into", Status |-> "into"],
     ClusterProfileList |-> [Items |-> "each"]]

\* Mutant: credentialProviders was added to the type only.
MutStatusIntoV1alpha1 ==
    [Conditions |-> "each", Properties |-> "each", AccessProviders |-> "each"]

StatusIntoV1alpha1 ==
    [Conditions |-> "each", Properties |-> "each", CredentialProviders |-> "each",
     AccessProviders |-> "each"]

PlacementIntoV1alpha1 ==
    [PlacementDecision     |-> [ObjectMeta |-> "into", Decisions |-> "copy"],
     PlacementDecisionList |-> [Items |-> "each"]]

ProfileIntoV1alpha2 ==
    [AccessProvider     |-> [Cluster |-> "into"],
     Cluster            |-> [CertificateAuthorityData |-> "copy", Extensions |-> "each"],
     ClusterProfile     |-> [ObjectMeta |-> "into", Status |-> "into"],
     ClusterProfileList |-> [Items |-> "each"]]

StatusIntoV1alpha2 ==
    [Conditions |-> "each", Properties |-> "each", AccessProviders |-> "each"]

ExtensionIntoV1alpha2 == [NamedExtension |-> [Extension |-> "into"]]

PlacementIntoV1alpha2 ==
    [PlacementDecision     |-> [ObjectMeta |-> "into", Decisions |-> "copy"],
     PlacementDecisionList |-> [Items |-> "each"]]

Into(version) ==
    (IF version = "v1alpha1"
     THEN ProfileIntoV1alpha1 @@ PlacementIntoV1alpha1
          @@ ("ClusterProfileStatus" :> StatusIntoV1alpha1)
     ELSE ProfileIntoV1alpha2 @@ ExtensionIntoV1alpha2 @@ PlacementIntoV1alpha2
          @@ ("ClusterProfileStatus" :> StatusIntoV1alpha2))
    @@ ExternalInto

\* The paths to slices that a deep copy does not share with the original.
Fresh == [version \in Versions |->
    LET types == Types(version)
        into == Into(version)
        How(t, f) == IF t \in DOMAIN into /\ f.name \in DOMAIN into[t]
                     THEN into[t][f.name] ELSE "assigned"
        fresh[t \in DOMAIN types] == UNION {
            (IF How(t, f) \in {"each", "copy"} THEN {<<f.name>>} ELSE {}) \cup
            (IF How(t, f) \in {"each", "into"} THEN {<<f.name>> \o p : p \in fresh[f.type]} ELSE {})
            : f \in types[t]}
    IN  fresh]

\* The types whose deep copies consumers take.
Copied == {"ClusterProfile", "ClusterProfileList", "PlacementDecision",
           "PlacementDecisionList", "AccessProvider"}

\* A deep copy shares no slice with the original.
CopiesAreDeep ==
    \A version \in Versions : \A t \in Copied : Paths[version][t] \subseteq Fresh[version][t]
=============================================================================
