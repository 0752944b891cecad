----------------------------- MODULE PinnedRegistry -----------------------------
(***************************************************************************)
(* A relying party pins one (chainId, registryAddress) and reads only that *)
(* registry (docs/registry-lifecycle.md, "What a pin is").  Whatever       *)
(* happens in the other registries of the lineage, the pinned one behaves  *)
(* as IdentityFacts.                                                       *)
(***************************************************************************)
EXTENDS ClankerIdentity

CONSTANT Pin   \* the pinned registry

ASSUME PinAssumption == Pin \in Registries

Facts == INSTANCE IdentityFacts
            WITH operators <- operators[Pin], bots <- bots[Pin]

\* The pinned registry implements the specification the readers rely on: in
\* particular a key is given to a bot only while no other active bot has it,
\* which the contract knows through botKeyToId alone.
ImplementsFacts == Facts!FactsSpec

================================================================================
